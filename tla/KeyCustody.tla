----------------------------- MODULE KeyCustody -----------------------------
(***************************************************************************)
(* What an account may expect of the handover of its Ed25519 key (the      *)
(* "export-and-shred" of auth_bridge/views_graduation.py): at every moment *)
(* somebody holds the key, and Vault gives it up only to a holder.         *)
(***************************************************************************)
CONSTANT Users

VARIABLE holders    \* holders[u]: who holds the key of u

Vault == "vault"
Home == "home"

CustodyInit == holders \in [Users -> {{Vault}, {Home}}]

Export(u) ==
    /\ Vault \in holders[u]
    /\ holders' = [holders EXCEPT ![u] = @ \cup {Home}]

Shred(u) ==
    /\ Home \in holders[u]
    /\ holders' = [holders EXCEPT ![u] = @ \ {Vault}]

CustodyNext == \E u \in Users : Export(u) \/ Shred(u)

CustodySpec == CustodyInit /\ [][CustodyNext]_holders
=============================================================================

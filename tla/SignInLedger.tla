---------------------------- MODULE SignInLedger ----------------------------
(***************************************************************************)
(* What a relying party is promised of signing in with a DID, with no      *)
(* cache and no request half served in sight: a challenge is issued once,  *)
(* a holder signs it, and a tab is signed in by spending one of its copies *)
(* on behalf of the very holder who signed.  A copy is spent per worker,   *)
(* which is all that is left of a single-use challenge.                    *)
(***************************************************************************)
EXTENDS Naturals

CONSTANTS Workers, Challenges, Dids, Tabs, Admitted, Invited, Active, Staff, None

VARIABLES
    issued,     \* issued[c]: what challenge c is for, or "none"
    signed,     \* <<d, c>>: holder d has signed challenge c
    copies,     \* copies[c]: how often c was stored, or not really deleted
    spent,      \* spent[w][c]: the copies worker w signed someone in with
    session,    \* session[b]: who tab b is signed in as, and through what
    users       \* holders with an account

ledgerVars == <<issued, signed, copies, spent, session, users>>

LedgerInit ==
    /\ issued = [c \in Challenges |-> "none"]
    /\ signed = {}
    /\ copies = [c \in Challenges |-> 0]
    /\ spent = [w \in Workers |-> [c \in Challenges |-> 0]]
    /\ session = [b \in Tabs |-> None]
    /\ users \in SUBSET Dids

Copy(c) == copies' = [copies EXCEPT ![c] = @ + 1]

MaybeCopy(c) == UNCHANGED copies \/ Copy(c)

Issue(c, kind) ==
    /\ issued[c] = "none"
    /\ issued' = [issued EXCEPT ![c] = kind]
    /\ Copy(c)
    /\ UNCHANGED <<signed, spent, session, users>>

Sign(d, c) ==
    /\ issued[c] # "none"
    /\ signed' = signed \cup {<<d, c>>}
    /\ UNCHANGED <<issued, copies, spent, session, users>>

\* A phone's answer for a tab to collect, or a refusal that deletes nothing.
Restore(c) ==
    /\ Copy(c)
    /\ UNCHANGED <<issued, signed, spent, session, users>>

\* The beta gate stands before the account, the account before the session.
Welcome(b, d) == d \in Admitted \/ b \in Invited

\* A disabled account is created all the same, and signs nobody in.
Enrol(b, d, c) ==
    /\ Welcome(b, d) /\ d \notin Active
    /\ users' = users \cup {d}
    /\ MaybeCopy(c)
    /\ UNCHANGED <<issued, signed, spent, session>>

\* The admin console takes an admin challenge and an account it never makes;
\* a tab that polls for a phone's answer takes a login challenge.
Fits(b, d, c, via) ==
    /\ via = "admin" => issued[c] = "admin" /\ d \in users \cap Staff
    /\ via = "oob_qr" => issued[c] = "login"
    /\ via # "admin" => Welcome(b, d)

SignIn(w, b, d, c, via) ==
    /\ spent[w][c] < copies[c]
    /\ d \in Active
    /\ Fits(b, d, c, via)
    /\ session' = [session EXCEPT ![b] = [did |-> d, key |-> c, via |-> via]]
    /\ spent' = [spent EXCEPT ![w][c] = @ + 1]
    /\ users' = users \cup {d}
    /\ MaybeCopy(c)
    /\ UNCHANGED <<issued, signed>>

LedgerNext ==
    \/ UNCHANGED ledgerVars
    \/ \E c \in Challenges :
        \/ \E kind \in {"login", "admin"} : Issue(c, kind)
        \/ \E d \in Dids : Sign(d, c)
        \/ \E d \in Dids :
            /\ <<d, c>> \in signed
            /\ \/ Restore(c)
               \/ \E b \in Tabs :
                    \/ Enrol(b, d, c)
                    \/ \E w \in Workers, via \in {"websocket", "oob_qr", "admin"} :
                        SignIn(w, b, d, c, via)

LedgerSpec == LedgerInit /\ [][LedgerNext]_ledgerVars
=============================================================================

----------------------------- MODULE Graduation -----------------------------
(***************************************************************************)
(* Graduation (auth_bridge/views_graduation.py, vault_client.py): a        *)
(* managed account takes its Ed25519 key home and becomes sovereign.  The  *)
(* key lives in Vault, the account in Postgres, and no transaction spans   *)
(* the two.  Beside it runs the one other writer of the account's standing,*)
(* the OAuth merge of pipeline.py, which saves a whole row it read before. *)
(*                                                                         *)
(* The promotion's UPDATE is invisible until COMMIT and locks the row, as  *)
(* in Postgres; every other statement commits by itself (there is no       *)
(* ATOMIC_REQUESTS).                                                       *)
(***************************************************************************)
CONSTANTS
    Users,      \* accounts
    Workers,    \* gunicorn workers
    None,       \* no request; a signing key that is nobody's
    Custodial,  \* accounts whose key Vault holds at first
    Mergeable,  \* accounts an OAuth profile resolves to by email
    Faults      \* what can go wrong

Op == {"export", "promote", "shred", "commit"}
Standing == {"managed", "sovereign"}

\* A receipt: the DID it names, the key that signed it, what it asks for, and
\* whether it is at most 600 seconds old.
Receipts == [did : Users, key : Users \cup {None},
             action : {"graduate", "other"}, fresh : BOOLEAN]

Requests ==
    [op : Op, user : Users]
        \cup [op : {"verify"}, user : Users, key : Users \cup {None}]
        \cup [op : {"merge"}, user : Users, standing : Standing]

ASSUME GraduationAssumption ==
    /\ Custodial \subseteq Users
    /\ Mergeable \subseteq Users
    /\ Faults \subseteq {"vault_down", "vault_unheard", "commit_failed",
                         "reply_lost", "crash"}
    /\ None \notin Users \cup Requests

VARIABLES
    standing,   \* standing[u]: is_sovereign and account_tier, as committed
    vault,      \* accounts whose key Vault holds
    home,       \* accounts whose key their holder has
    req,        \* req[w]: the request worker w is serving, or None
    mishaps     \* history: accounts whose promotion was cut off with its key
                \* gone, or overwritten by a merge

vars == <<standing, vault, home, req, mishaps>>

TypeOK ==
    /\ standing \in [Users -> Standing]
    /\ vault \subseteq Users
    /\ home \subseteq Users
    /\ req \in [Workers -> Requests \cup {None}]
    /\ mishaps \subseteq Users

Init ==
    /\ standing = [u \in Users |-> "managed"]
    /\ vault = Custodial
    /\ home = Users \ Custodial
    /\ req = [w \in Workers |-> None]
    /\ mishaps = {}

-----------------------------------------------------------------------------

\* Mutant: the lock is taken before the UPDATE that asks for it.
LockedEarly(u) ==
    \E w \in Workers :
        /\ req[w] # None
        /\ req[w].op \in {"promote", "shred", "commit"}
        /\ req[w].user = u

\* The row lock a promotion holds from its UPDATE to COMMIT or ROLLBACK.
Locked(u) ==
    \E w \in Workers :
        /\ req[w] # None
        /\ req[w].op \in {"shred", "commit"}
        /\ req[w].user = u

Serving(w, op) == req[w] # None /\ req[w].op = op

Begin(w, q) ==
    /\ req[w] = None
    /\ req' = [req EXCEPT ![w] = q]
    /\ UNCHANGED <<standing, vault, home, mishaps>>

Continue(w, q) == req' = [req EXCEPT ![w] = q]

Done(w) == req' = [req EXCEPT ![w] = None]

Mishap(u) == mishaps' = mishaps \cup {u}

\* graduate_export: request.user is loaded when the request comes in ...
ExportBegin(w, u) ==
    /\ standing[u] # "sovereign"
    /\ Begin(w, [op |-> "export", user |-> u])

\* ... and the seed leaves sealed, if Vault still has it and the reply arrives.
ExportSeal(w) ==
    /\ Serving(w, "export")
    /\ \/ /\ req[w].user \in vault
          /\ home' = home \cup {req[w].user}
       \/ /\ \/ req[w].user \notin vault
             \/ Faults \cap {"vault_down", "reply_lost"} # {}
          /\ UNCHANGED home
    /\ Done(w)
    /\ UNCHANGED <<standing, vault, mishaps>>

Admissible(u, r) ==
    /\ r.did = u
    /\ r.action = "graduate"
    /\ r.fresh

\* graduate_confirm, up to its first call of Vault.
ConfirmBegin(w, u, r) ==
    /\ standing[u] # "sovereign"
    /\ Admissible(u, r)
    /\ r.key \in home \cup {None}       \* one signs with a key one has
    /\ Begin(w, [op |-> "verify", user |-> u, key |-> r.key])

\* Mutant: the receipt's signature is not checked.
VerifiesAny(u, key) == TRUE

Verifies(u, key) == key = u

\* The public key is read from Vault and the receipt's signature checked.
ConfirmVerify(w) ==
    LET u == req[w].user
    IN  /\ Serving(w, "verify")
        /\ \/ /\ u \in vault
              /\ Verifies(u, req[w].key)
              /\ Continue(w, [op |-> "promote", user |-> u])
           \/ /\ \/ u \notin vault
                 \/ ~Verifies(u, req[w].key)
                 \/ "vault_down" \in Faults
              /\ Done(w)
        /\ UNCHANGED <<standing, vault, home, mishaps>>

\* Mutant: account_tier is set without is_sovereign.
UpdateHalf(u) == standing' = [standing EXCEPT ![u] = "half"]

\* Mutant: no transaction.atomic, the UPDATE commits by itself.
UpdateAtOnce(u) == standing' = [standing EXCEPT ![u] = "sovereign"]

Update(u) == UNCHANGED standing

\* user.save(update_fields=...) inside the transaction; it does not look at
\* the standing again.
Promote(w) ==
    LET u == req[w].user
    IN  /\ Serving(w, "promote")
        /\ ~Locked(u)
        /\ Update(u)
        /\ Continue(w, [op |-> "shred", user |-> u])
        /\ UNCHANGED <<vault, home, mishaps>>

Rollback(w) == Done(w) /\ UNCHANGED standing

\* Mutant: a failed deletion is logged and the promotion goes on.
IgnoreFailure(w) ==
    /\ Continue(w, [op |-> "commit", user |-> req[w].user])
    /\ UNCHANGED standing

OnShredFailure(w) == Rollback(w)

\* delete_identity_key, which succeeds as well when nothing is left to delete.
\* An exception does not tell whether Vault has deleted the key.
Shred(w) ==
    LET u == req[w].user
    IN  /\ Serving(w, "shred")
        /\ \/ /\ vault' = vault \ {u}
              /\ Continue(w, [op |-> "commit", user |-> u])
              /\ UNCHANGED <<standing, mishaps>>
           \/ /\ "vault_unheard" \in Faults
              /\ vault' = vault \ {u}
              /\ OnShredFailure(w)
              /\ Mishap(u)
           \/ /\ "vault_down" \in Faults
              /\ OnShredFailure(w)
              /\ UNCHANGED <<vault, mishaps>>
        /\ UNCHANGED home

Commit(w) ==
    /\ Serving(w, "commit")
    /\ \/ /\ standing' = [standing EXCEPT ![req[w].user] = "sovereign"]
          /\ Done(w)
          /\ UNCHANGED mishaps
       \/ /\ "commit_failed" \in Faults
          /\ Rollback(w)
          /\ Mishap(req[w].user)
    /\ UNCHANGED <<vault, home>>

\* A killed worker (gunicorn's timeout, a restart): Postgres rolls back.
Crash(w) ==
    /\ "crash" \in Faults
    /\ req[w] # None
    /\ Done(w)
    /\ IF req[w].op = "commit" THEN Mishap(req[w].user) ELSE UNCHANGED mishaps
    /\ UNCHANGED <<standing, vault, home>>

-----------------------------------------------------------------------------
(* process_oauth_identity, the branch that links a profile to the account  *)
(* its email names: read the row, refuse a sovereign one unless `own`, the *)
(* browser being signed in to that very account; then save all of it.      *)

MergeRead(w, u, own) ==
    /\ u \in Mergeable
    /\ standing[u] = "sovereign" => own
    /\ Begin(w, [op |-> "merge", user |-> u, standing |-> standing[u]])

MergeSave(w) ==
    LET u == req[w].user
    IN  /\ Serving(w, "merge")
        /\ ~Locked(u)
        /\ standing' = [standing EXCEPT ![u] = req[w].standing]
        /\ IF standing'[u] # standing[u] THEN Mishap(u) ELSE UNCHANGED mishaps
        /\ Done(w)
        /\ UNCHANGED <<vault, home>>

Next ==
    \E w \in Workers :
        \/ \E u \in Users :
            \/ ExportBegin(w, u)
            \/ \E r \in Receipts : ConfirmBegin(w, u, r)
            \/ \E own \in BOOLEAN : MergeRead(w, u, own)
        \/ ExportSeal(w)
        \/ ConfirmVerify(w)
        \/ Promote(w)
        \/ Shred(w)
        \/ Commit(w)
        \/ Crash(w)
        \/ MergeSave(w)

Spec == Init /\ [][Next]_vars

\* A handler runs on by itself: Vault's answer comes or its client times out,
\* and Postgres hands a row lock on to those who queue for it, so whoever is
\* passed over for a while gets it in the end.
Fairness ==
    \A w \in Workers :
        /\ WF_vars(ExportSeal(w))
        /\ WF_vars(ConfirmVerify(w))
        /\ SF_vars(Promote(w))
        /\ WF_vars(Shred(w))
        /\ WF_vars(Commit(w))
        /\ SF_vars(MergeSave(w))

FairSpec == Spec /\ Fairness

-----------------------------------------------------------------------------
(* Properties.                                                             *)

\* An account is never sovereign while its key is still in custody, whichever
\* of Vault, Postgres and the workers fail and whoever confirms at the same
\* time: the row becomes visible only after the key is gone.
ShreddedFirst == \A u \in Users : standing[u] = "sovereign" => u \notin vault

\* No identity is lost: the key leaves Vault only when its holder has it,
\* although the export, the proof of custody and the deletion are three
\* requests or steps that others interleave with (see KeyCustody).
Custody == INSTANCE KeyCustody WITH
    holders <- [u \in Users |-> {h \in {"vault", "home"} :
                                    u \in (IF h = "vault" THEN vault ELSE home)}]

CustodySpec == Custody!CustodySpec

\* No request hangs: confirmations and merges that queue for one row are all
\* answered, although those before them hold its lock across a call of Vault.
EveryRequestEnds == \A w \in Workers : req[w] # None ~> req[w] = None

\* Barring such mishaps graduation is all or nothing: however confirmations
\* race each other and whatever Vault refuses, an account without a promotion
\* under way is sovereign exactly when its key is gone.
Whole(u) == ~Locked(u) => (standing[u] = "sovereign" <=> u \notin vault)

AtomicBarringMishaps == \A u \in Custodial \ mishaps : Whole(u)

\* IDP_DEVELOPER_GUIDE.md, on the OAuth merge, "preserving existing sovereign
\* identities": nothing makes a sovereign account managed again.
SovereignPreserved ==
    [][\A u \in Users : standing[u] = "sovereign" => standing'[u] = "sovereign"]_vars
=============================================================================

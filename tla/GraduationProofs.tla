-------------------------- MODULE GraduationProofs --------------------------
(***************************************************************************)
(* Proofs about Graduation, for any number of accounts and workers and any *)
(* of the faults.  The invariant under both results ties what a worker is  *)
(* about to do to what has been established before: a worker past the      *)
(* check of a receipt serves an account whose key is at home, a worker     *)
(* about to commit serves one whose key has left Vault, and a merge that   *)
(* read a sovereign row read one whose key has left Vault.                 *)
(***************************************************************************)
EXTENDS Graduation, TLAPS

LEMMA InitTyped == Init => TypeOK
  BY GraduationAssumption DEF Init, TypeOK, Standing

LEMMA StepTyped == TypeOK /\ [Next]_vars => TypeOK'
<1> SUFFICES ASSUME TypeOK, [Next]_vars PROVE TypeOK'
  OBVIOUS
<1> USE DEF TypeOK
\* A step that leaves the tables' types alone and gives one worker a request.
<1>1. ASSUME NEW w \in Workers, NEW q \in Requests \cup {None},
             req' = [req EXCEPT ![w] = q],
             standing' \in [Users -> Standing],
             vault' \subseteq Users, home' \subseteq Users,
             mishaps' \subseteq Users
      PROVE  TypeOK'
  BY <1>1
<1>2. ASSUME NEW w \in Workers, NEW u \in Users, ExportBegin(w, u) PROVE TypeOK'
  <2>1. [op |-> "export", user |-> u] \in Requests
    BY DEF Requests, Op
  <2> QED
    BY <1>1, <1>2, <2>1 DEF ExportBegin, Begin
<1>3. ASSUME NEW w \in Workers, NEW u \in Users, NEW r \in Receipts,
             ConfirmBegin(w, u, r)
      PROVE  TypeOK'
  <2>1. [op |-> "verify", user |-> u, key |-> r.key] \in Requests
    BY DEF Requests, Receipts
  <2> QED
    BY <1>1, <1>3, <2>1 DEF ConfirmBegin, Begin
<1>4. ASSUME NEW w \in Workers, NEW u \in Users, NEW own \in BOOLEAN,
             MergeRead(w, u, own)
      PROVE  TypeOK'
  <2>1. [op |-> "merge", user |-> u, standing |-> standing[u]] \in Requests
    BY DEF Requests
  <2> QED
    BY <1>1, <1>4, <2>1 DEF MergeRead, Begin
<1>5. ASSUME NEW w \in Workers, req[w] # None
      PROVE  /\ req[w].user \in Users
             /\ [op |-> "promote", user |-> req[w].user] \in Requests
             /\ [op |-> "shred", user |-> req[w].user] \in Requests
             /\ [op |-> "commit", user |-> req[w].user] \in Requests
             /\ req[w].op = "merge" => req[w].standing \in Standing
  <2>1. req[w] \in Requests /\ req[w].user \in Users
    BY <1>5 DEF Requests
  <2> QED
    BY <2>1 DEF Requests, Op
<1>6. ASSUME NEW w \in Workers, ExportSeal(w) PROVE TypeOK'
  BY <1>1, <1>5, <1>6 DEF ExportSeal, Serving, Done
<1>7. ASSUME NEW w \in Workers, ConfirmVerify(w) PROVE TypeOK'
  BY <1>1, <1>5, <1>7 DEF ConfirmVerify, Serving, Done, Continue
<1>8. ASSUME NEW w \in Workers, Promote(w) PROVE TypeOK'
  BY <1>1, <1>5, <1>8 DEF Promote, Serving, Update, Continue
<1>9. ASSUME NEW w \in Workers, Shred(w) PROVE TypeOK'
  BY <1>1, <1>5, <1>9
     DEF Shred, Serving, Continue, OnShredFailure, Rollback, Done, Mishap
<1>10. ASSUME NEW w \in Workers, Commit(w) PROVE TypeOK'
  BY <1>1, <1>5, <1>10 DEF Commit, Serving, Rollback, Done, Mishap, Standing
<1>11. ASSUME NEW w \in Workers, Crash(w) PROVE TypeOK'
  <2>0. req[w] # None
    BY <1>11 DEF Crash
  <2>1. req[w].user \in Users
    BY <1>5, <2>0
  <2>2. mishaps' = mishaps \cup {req[w].user} \/ mishaps' = mishaps
    BY <1>11 DEF Crash, Mishap
  <2>3. mishaps' \subseteq Users
    BY <2>1, <2>2
  <2> QED
    BY <1>1, <1>11, <2>3 DEF Crash, Done
<1>12. ASSUME NEW w \in Workers, MergeSave(w) PROVE TypeOK'
  <2>0. req[w] # None /\ req[w].op = "merge"
    BY <1>12 DEF MergeSave, Serving
  <2>1. req[w].user \in Users /\ req[w].standing \in Standing
    BY <1>5, <2>0
  <2>2. mishaps' \subseteq Users
    BY <1>12, <2>1 DEF MergeSave, Mishap
  <2>3. standing' \in [Users -> Standing]
    BY <1>12, <2>1 DEF MergeSave
  <2> QED
    BY <1>1, <1>12, <2>2, <2>3 DEF MergeSave, Done
<1>13. CASE UNCHANGED vars
  BY <1>13 DEF vars
<1> QED
  BY <1>2, <1>3, <1>4, <1>6, <1>7, <1>8, <1>9, <1>10, <1>11, <1>12, <1>13 DEF Next

\* Every reachable state is well typed.
THEOREM TypeCorrect == Spec => []TypeOK
  BY InitTyped, StepTyped, PTL DEF Spec

-----------------------------------------------------------------------------
(* The invariant.                                                          *)

\* What worker w may rely on in the middle of its request.
Justified(w) ==
    LET q == req[w]
    IN  /\ Serving(w, "verify") => q.key \in home \cup {None}
        /\ req[w] # None /\ q.op \in {"promote", "shred", "commit"} =>
                q.user \in home
        /\ Serving(w, "commit") => q.user \notin vault
        /\ Serving(w, "merge") /\ q.standing = "sovereign" => q.user \notin vault

CustodyInv ==
    /\ ShreddedFirst
    /\ \A w \in Workers : Justified(w)

LEMMA CustodyInvInit == Init => CustodyInv
  BY GraduationAssumption DEF Init, CustodyInv, ShreddedFirst, Justified, Serving

LEMMA CustodyInvStep == TypeOK /\ CustodyInv /\ [Next]_vars => CustodyInv'
<1> SUFFICES ASSUME TypeOK, CustodyInv, [Next]_vars PROVE CustodyInv'
  OBVIOUS
<1> USE DEF CustodyInv
\* Keys only leave Vault and only come home, so what other workers rely on
\* stays true and only the worker that moved needs a look.
<1>1. ASSUME NEW w \in Workers, NEW q, req' = [req EXCEPT ![w] = q],
             vault' \subseteq vault, home \subseteq home',
             ShreddedFirst', Justified(w)'
      PROVE  CustodyInv'
  <2> SUFFICES ASSUME NEW v \in Workers PROVE Justified(v)'
    BY <1>1
  <2>1. CASE v = w
    BY <1>1, <2>1
  <2>2. CASE v # w
    <3>1. req'[v] = req[v] /\ Justified(v)
      BY <1>1, <2>2 DEF TypeOK
    <3> QED
      BY <1>1, <3>1 DEF Justified, Serving
  <2> QED
    BY <2>1, <2>2
<1>2. ASSUME NEW w \in Workers, Done(w), UNCHANGED standing,
             vault' \subseteq vault, home \subseteq home'
      PROVE  CustodyInv'
  <2>1. ShreddedFirst'
    BY <1>2 DEF ShreddedFirst
  <2>2. Justified(w)'
    BY <1>2 DEF Done, TypeOK, Justified, Serving
  <2> QED
    BY <1>1, <1>2, <2>1, <2>2 DEF Done
<1>3. ASSUME NEW w \in Workers, NEW q \in Requests, req' = [req EXCEPT ![w] = q],
             UNCHANGED <<standing, home>>, vault' \subseteq vault, Justified(w)'
      PROVE  CustodyInv'
  <2>1. ShreddedFirst'
    BY <1>3 DEF ShreddedFirst
  <2> QED
    BY <1>1, <1>3, <2>1
<1>4. ASSUME NEW w \in Workers, NEW u \in Users, ExportBegin(w, u)
      PROVE  CustodyInv'
  <2>1. [op |-> "export", user |-> u] \in Requests
    BY DEF Requests, Op
  <2>2. Justified(w)'
    BY <1>4 DEF ExportBegin, Begin, TypeOK, Justified, Serving
  <2> QED
    BY <1>3, <1>4, <2>1, <2>2 DEF ExportBegin, Begin
<1>5. ASSUME NEW w \in Workers, NEW u \in Users, NEW r \in Receipts,
             ConfirmBegin(w, u, r)
      PROVE  CustodyInv'
  <2>1. [op |-> "verify", user |-> u, key |-> r.key] \in Requests
    BY DEF Requests, Receipts
  <2>2. Justified(w)'
    BY <1>5 DEF ConfirmBegin, Begin, TypeOK, Justified, Serving
  <2> QED
    BY <1>3, <1>5, <2>1, <2>2 DEF ConfirmBegin, Begin
<1>6. ASSUME NEW w \in Workers, NEW u \in Users, NEW own \in BOOLEAN,
             MergeRead(w, u, own)
      PROVE  CustodyInv'
  <2>1. [op |-> "merge", user |-> u, standing |-> standing[u]] \in Requests
    BY DEF Requests, TypeOK
  <2>2. Justified(w)'
    BY <1>6 DEF MergeRead, Begin, TypeOK, Justified, Serving, ShreddedFirst
  <2> QED
    BY <1>3, <1>6, <2>1, <2>2 DEF MergeRead, Begin
<1>7. ASSUME NEW w \in Workers, ExportSeal(w) PROVE CustodyInv'
  BY <1>2, <1>7 DEF ExportSeal
<1>8. ASSUME NEW w \in Workers, ConfirmVerify(w) PROVE CustodyInv'
  <2>1. CASE Done(w)
    BY <1>2, <1>8, <2>1 DEF ConfirmVerify
  <2>2. CASE /\ Verifies(req[w].user, req[w].key)
             /\ Continue(w, [op |-> "promote", user |-> req[w].user])
    <3>1. req[w].user \in Users /\ req[w].user \in home
      BY <1>8, <2>2, GraduationAssumption
         DEF ConfirmVerify, Verifies, Justified, Serving, TypeOK, Requests
    <3>2. [op |-> "promote", user |-> req[w].user] \in Requests
      BY <3>1 DEF Requests, Op
    <3>3. Justified(w)'
      BY <1>8, <2>2, <3>1 DEF ConfirmVerify, Continue, TypeOK, Justified, Serving
    <3> QED
      BY <1>3, <1>8, <2>2, <3>2, <3>3 DEF ConfirmVerify, Continue
  <2> QED
    BY <1>8, <2>1, <2>2 DEF ConfirmVerify
<1>9. ASSUME NEW w \in Workers, Promote(w) PROVE CustodyInv'
  <2>1. req[w].user \in Users /\ req[w].user \in home
    BY <1>9 DEF Promote, Justified, Serving, TypeOK, Requests
  <2>2. [op |-> "shred", user |-> req[w].user] \in Requests
    BY <2>1 DEF Requests, Op
  <2>3. Justified(w)'
    BY <1>9, <2>1 DEF Promote, Continue, TypeOK, Justified, Serving
  <2> QED
    BY <1>3, <1>9, <2>2, <2>3 DEF Promote, Update, Continue
<1>10. ASSUME NEW w \in Workers, Shred(w) PROVE CustodyInv'
  <2>1. CASE Done(w) /\ UNCHANGED standing
    BY <1>2, <1>10, <2>1 DEF Shred
  <2>2. CASE /\ vault' = vault \ {req[w].user}
             /\ Continue(w, [op |-> "commit", user |-> req[w].user])
             /\ UNCHANGED standing
    <3>1. req[w].user \in Users /\ req[w].user \in home
      BY <1>10 DEF Shred, Justified, Serving, TypeOK, Requests
    <3>2. [op |-> "commit", user |-> req[w].user] \in Requests
      BY <3>1 DEF Requests, Op
    <3>3. Justified(w)'
      BY <1>10, <2>2, <3>1 DEF Shred, Continue, TypeOK, Justified, Serving
    <3> QED
      BY <1>3, <1>10, <2>2, <3>2, <3>3 DEF Shred, Continue
  <2> QED
    BY <1>10, <2>1, <2>2 DEF Shred, OnShredFailure, Rollback
<1>11. ASSUME NEW w \in Workers, Commit(w) PROVE CustodyInv'
  <2>1. CASE Done(w) /\ UNCHANGED standing
    BY <1>2, <1>11, <2>1 DEF Commit
  <2>2. CASE /\ standing' = [standing EXCEPT ![req[w].user] = "sovereign"]
             /\ Done(w)
    <3>1. ShreddedFirst'
      BY <1>11, <2>2 DEF Commit, ShreddedFirst, Justified, TypeOK
    <3>2. Justified(w)'
      BY <2>2 DEF Done, TypeOK, Justified, Serving
    <3> QED
      BY <1>1, <1>11, <2>2, <3>1, <3>2 DEF Commit, Done
  <2> QED
    BY <1>11, <2>1, <2>2 DEF Commit, Rollback
<1>12. ASSUME NEW w \in Workers, Crash(w) PROVE CustodyInv'
  BY <1>2, <1>12 DEF Crash
<1>13. ASSUME NEW w \in Workers, MergeSave(w) PROVE CustodyInv'
  <2>1. ShreddedFirst'
    BY <1>13 DEF MergeSave, ShreddedFirst, Justified, TypeOK
  <2>2. Justified(w)'
    BY <1>13 DEF MergeSave, Done, TypeOK, Justified, Serving
  <2> QED
    BY <1>1, <1>13, <2>1, <2>2 DEF MergeSave, Done
<1>14. CASE UNCHANGED vars
  BY <1>14 DEF vars, ShreddedFirst, Justified, Serving
<1> QED
  BY <1>4, <1>5, <1>6, <1>7, <1>8, <1>9, <1>10, <1>11, <1>12, <1>13, <1>14 DEF Next

\* No account is sovereign while Vault holds its key, whatever fails.
THEOREM KeysAreShreddedFirst == Spec => []ShreddedFirst
<1>1. CustodyInv => ShreddedFirst
  BY DEF CustodyInv
<1> QED
  BY <1>1, CustodyInvInit, CustodyInvStep, TypeCorrect, PTL DEF Spec

-----------------------------------------------------------------------------
(* Graduation implements the handover of a key (KeyCustody): only the      *)
(* sealing of an export and the deletion are steps of the handover.        *)

\* The refinement mapping of Custody.
Held == [u \in Users |-> {h \in {"vault", "home"} :
                              u \in (IF h = "vault" THEN vault ELSE home)}]

LEMMA HandoverStep ==
    ASSUME TypeOK, CustodyInv, [Next]_vars
    PROVE  [Custody!CustodyNext]_Held
<1> USE DEF Held
<1>1. ASSUME UNCHANGED <<vault, home>> PROVE UNCHANGED Held
  BY <1>1
<1>2. ASSUME NEW u \in Users, u \in vault, home' = home \cup {u},
             UNCHANGED vault
      PROVE  Custody!CustodyNext
  <2>1. Held' = [Held EXCEPT ![u] = @ \cup {"home"}]
    BY <1>2
  <2> QED
    BY <1>2, <2>1
       DEF Custody!CustodyNext, Custody!Export, Custody!Vault, Custody!Home
<1>3. ASSUME NEW u \in Users, u \in home, vault' = vault \ {u}, UNCHANGED home
      PROVE  Custody!CustodyNext
  <2>1. Held' = [Held EXCEPT ![u] = @ \ {"vault"}]
    BY <1>3
  <2> QED
    BY <1>3, <2>1
       DEF Custody!CustodyNext, Custody!Shred, Custody!Vault, Custody!Home
<1>4. ASSUME NEW w \in Workers, ExportSeal(w)
      PROVE  Custody!CustodyNext \/ UNCHANGED Held
  <2>1. req[w].user \in Users
    BY <1>4 DEF ExportSeal, Serving, TypeOK, Requests
  <2> QED
    BY <1>1, <1>2, <1>4, <2>1 DEF ExportSeal
<1>5. ASSUME NEW w \in Workers, Shred(w)
      PROVE  Custody!CustodyNext \/ UNCHANGED Held
  <2>1. req[w].user \in Users /\ req[w].user \in home
    BY <1>5 DEF Shred, CustodyInv, Justified, Serving, TypeOK, Requests
  <2>2. UNCHANGED home /\ (UNCHANGED vault \/ vault' = vault \ {req[w].user})
    BY <1>5 DEF Shred
  <2> QED
    BY <1>1, <1>3, <2>1, <2>2
<1>6. CASE UNCHANGED vars
  BY <1>1, <1>6 DEF vars
<1> QED
  BY <1>1, <1>4, <1>5, <1>6
     DEF Next, ExportBegin, ConfirmBegin, MergeRead, Begin, ConfirmVerify,
         Promote, Commit, Crash, MergeSave

\* Whatever fails, somebody always holds the key, and Vault only deletes a key
\* whose holder has it.
THEOREM KeysAreHandedOver == Spec => CustodySpec
<1>1. Init => Custody!CustodyInit
  <2> SUFFICES ASSUME Init, NEW u \in Users
               PROVE  Held[u] \in {{"vault"}, {"home"}}
    BY DEF Custody!CustodyInit, Custody!Vault, Custody!Home, Held
  <2>1. CASE u \in Custodial
    <3>1. Held[u] = {"vault"}
      BY <2>1 DEF Init, Held
    <3> QED
      BY <3>1
  <2>2. CASE u \notin Custodial
    <3>1. Held[u] = {"home"}
      BY <2>2 DEF Init, Held
    <3> QED
      BY <3>1
  <2> QED
    BY <2>1, <2>2
<1>2. TypeOK /\ CustodyInv /\ [Next]_vars => [Custody!CustodyNext]_Held
  BY HandoverStep
<1>3. TypeOK /\ CustodyInv /\ [Next]_vars =>
        [Custody!CustodyNext]_([u \in Users |-> {h \in {"vault", "home"} :
                                u \in (IF h = "vault" THEN vault ELSE home)}])
  BY <1>2 DEF Held
<1> QED
  BY <1>1, <1>3, CustodyInvInit, CustodyInvStep, TypeCorrect, PTL
     DEF Spec, CustodySpec, Custody!CustodySpec

-----------------------------------------------------------------------------
(* All or nothing, barring mishaps.                                        *)

Committing(u) == \E w \in Workers : Serving(w, "commit") /\ req[w].user = u

\* A key that is gone belongs to an account that is sovereign or about to be.
Settled(u) == u \notin vault <=> standing[u] = "sovereign" \/ Committing(u)

GoneInv == \A u \in Custodial \ mishaps : Settled(u)

LEMMA GoneInvStep == TypeOK /\ GoneInv /\ [Next]_vars => GoneInv'
<1> SUFFICES ASSUME TypeOK, GoneInv, [Next]_vars PROVE GoneInv'
  OBVIOUS
<1> USE DEF GoneInv
\* A worker takes up, goes on with or drops the request of one account: only
\* that account needs a look.
<1>1. ASSUME NEW w \in Workers, NEW x \in Users, NEW q,
             req' = [req EXCEPT ![w] = q],
             req[w] = None \/ req[w].user = x,
             q = None \/ q.user = x,
             \A u \in Users \ {x} :
                /\ standing'[u] = standing[u]
                /\ u \in vault' <=> u \in vault,
             mishaps \subseteq mishaps',
             x \in Custodial \ mishaps' => Settled(x)'
      PROVE  GoneInv'
  <2>1. ASSUME NEW u \in Users \ {x} PROVE Committing(u)' <=> Committing(u)
    BY <1>1, <2>1 DEF Committing, Serving, TypeOK
  <2> SUFFICES ASSUME NEW u \in Custodial \ mishaps' PROVE Settled(u)'
    OBVIOUS
  <2>2. CASE u # x
    BY <1>1, <2>1, <2>2, GraduationAssumption DEF Settled
  <2> QED
    BY <1>1, <2>2
\* Requests before the commit touch neither the row nor the key.
<1>2. ASSUME NEW w \in Workers, NEW x \in Users, NEW q,
             req' = [req EXCEPT ![w] = q],
             req[w] = None \/ req[w].user = x,
             q = None \/ q.user = x,
             ~Serving(w, "commit"), q = None \/ q.op # "commit",
             UNCHANGED <<standing, vault, mishaps>>
      PROVE  GoneInv'
  <2>1. Committing(x)' <=> Committing(x)
    BY <1>2 DEF Committing, Serving, TypeOK
  <2>2. x \in Custodial \ mishaps' => Settled(x)'
    BY <1>2, <2>1 DEF Settled
  <2> QED
    BY <1>1, <1>2, <2>2
<1>3. ASSUME NEW w \in Workers, req[w] # None
      PROVE  \E x \in Users : x = req[w].user
  BY <1>3 DEF TypeOK, Requests
<1>4. ASSUME NEW w \in Workers, NEW u \in Users,
             \/ ExportBegin(w, u)
             \/ \E r \in Receipts : ConfirmBegin(w, u, r)
             \/ \E own \in BOOLEAN : MergeRead(w, u, own)
      PROVE  GoneInv'
  <2>1. PICK q \in {[op |-> "export", user |-> u]}
                \cup {[op |-> "verify", user |-> u, key |-> k] : k \in Users \cup {None}}
                \cup {[op |-> "merge", user |-> u, standing |-> standing[u]]} :
            Begin(w, q)
    BY <1>4 DEF ExportBegin, ConfirmBegin, MergeRead, Receipts
  <2> QED
    BY <1>2, <2>1 DEF Begin, Serving
<1>5. ASSUME NEW w \in Workers, ExportSeal(w) PROVE GoneInv'
  <2>1. PICK x \in Users : x = req[w].user
    BY <1>3, <1>5 DEF ExportSeal, Serving
  <2> QED
    BY <1>2, <1>5, <2>1 DEF ExportSeal, Serving, Done
<1>6. ASSUME NEW w \in Workers, ConfirmVerify(w) PROVE GoneInv'
  <2>1. PICK x \in Users : x = req[w].user
    BY <1>3, <1>6 DEF ConfirmVerify, Serving
  <2> QED
    BY <1>2, <1>6, <2>1 DEF ConfirmVerify, Serving, Done, Continue
<1>7. ASSUME NEW w \in Workers, Promote(w) PROVE GoneInv'
  <2>1. PICK x \in Users : x = req[w].user
    BY <1>3, <1>7 DEF Promote, Serving
  <2> QED
    BY <1>2, <1>7, <2>1 DEF Promote, Update, Serving, Continue
<1>8. ASSUME NEW w \in Workers, Shred(w) PROVE GoneInv'
  <2>1. PICK x \in Users : x = req[w].user
    BY <1>3, <1>8 DEF Shred, Serving
  <2>2. CASE Done(w) /\ UNCHANGED <<standing, vault, mishaps>>
    BY <1>2, <1>8, <2>1, <2>2 DEF Shred, Serving, Done
  <2>3. CASE /\ vault' = vault \ {x}
             /\ Done(w) /\ UNCHANGED standing
             /\ Mishap(x)
    BY <1>1, <2>1, <2>3 DEF Mishap, Done
  <2>4. CASE /\ vault' = vault \ {x}
             /\ Continue(w, [op |-> "commit", user |-> x])
             /\ UNCHANGED <<standing, mishaps>>
    <3>1. [op |-> "commit", user |-> x] # None
      BY GraduationAssumption DEF Requests, Op
    <3>2. Committing(x)'
      BY <2>4, <3>1 DEF Committing, Serving, Continue, TypeOK
    <3>3. Settled(x)'
      BY <2>4, <3>2 DEF Settled
    <3> QED
      BY <1>1, <2>1, <2>4, <3>3 DEF Continue
  <2> QED
    BY <1>8, <2>1, <2>2, <2>3, <2>4 DEF Shred, OnShredFailure, Rollback
<1>9. ASSUME NEW w \in Workers, Commit(w) PROVE GoneInv'
  <2>1. PICK x \in Users : x = req[w].user
    BY <1>3, <1>9 DEF Commit, Serving
  <2>2. CASE /\ standing' = [standing EXCEPT ![x] = "sovereign"]
             /\ Done(w) /\ UNCHANGED <<vault, mishaps>>
    <3>1. x \in Custodial \ mishaps' => Settled(x)'
      BY <1>9, <2>1, <2>2 DEF Commit, Settled, Committing, TypeOK
    <3>2. \A u \in Users \ {x} : standing'[u] = standing[u]
      BY <2>2 DEF TypeOK
    <3> QED
      BY <1>1, <2>1, <2>2, <3>1, <3>2 DEF Done
  <2>3. CASE /\ Done(w) /\ UNCHANGED <<standing, vault>>
             /\ Mishap(x)
    BY <1>1, <2>1, <2>3 DEF Mishap, Done
  <2> QED
    BY <1>9, <2>1, <2>2, <2>3 DEF Commit, Rollback
<1>10. ASSUME NEW w \in Workers, Crash(w) PROVE GoneInv'
  <2>1. PICK x \in Users : x = req[w].user
    BY <1>3, <1>10 DEF Crash
  <2>2. CASE req[w].op = "commit"
    BY <1>1, <1>10, <2>1, <2>2 DEF Crash, Mishap, Done
  <2>3. CASE req[w].op # "commit"
    BY <1>2, <1>10, <2>1, <2>3 DEF Crash, Serving, Done
  <2> QED
    BY <2>2, <2>3
<1>11. ASSUME NEW w \in Workers, MergeSave(w) PROVE GoneInv'
  <2>1. PICK x \in Users : x = req[w].user
    BY <1>3, <1>11 DEF MergeSave, Serving
  <2>2. \A u \in Users \ {x} : standing'[u] = standing[u]
    BY <1>11, <2>1 DEF MergeSave, TypeOK
  <2>3. CASE standing'[x] # standing[x]
    BY <1>1, <1>11, <2>1, <2>2, <2>3 DEF MergeSave, Mishap, Done
  <2>4. CASE standing'[x] = standing[x]
    <3>1. UNCHANGED standing
      BY <1>11, <2>1, <2>4 DEF MergeSave, TypeOK
    <3> QED
      BY <1>2, <1>11, <2>1, <2>4, <3>1 DEF MergeSave, Serving, Done
  <2> QED
    BY <2>3, <2>4
<1>12. CASE UNCHANGED vars
  BY <1>12 DEF vars, Settled, Committing, Serving
<1> QED
  BY <1>4, <1>5, <1>6, <1>7, <1>8, <1>9, <1>10, <1>11, <1>12 DEF Next

\* However confirmations race each other and whatever Vault refuses, no account
\* is left half graduated, save one whose promotion was cut off after the
\* deletion or overwritten by a merge.
THEOREM GraduationIsAtomic == Spec => []AtomicBarringMishaps
<1>1. Init => GoneInv
  BY GraduationAssumption DEF Init, GoneInv, Settled, Committing, Serving
<1>2. GoneInv => AtomicBarringMishaps
  BY DEF GoneInv, Settled, AtomicBarringMishaps, Whole, Locked, Committing, Serving
<1> QED
  BY <1>1, <1>2, GoneInvStep, TypeCorrect, PTL DEF Spec

-----------------------------------------------------------------------------
(* What SovereignPreserved, which a merge can violate, hangs on: the one   *)
(* thing that makes an account managed again is a merge that read its row  *)
(* before a promotion committed and saves it after.                        *)

\* No promotion commits a row of which a merge has a copy in hand.
NoCopyOutdated ==
    \A v, w \in Workers :
        Serving(v, "merge") /\ Serving(w, "commit") => req[v].user # req[w].user

\* Merges have the rows as they are.
CopyInv ==
    \A w \in Workers :
        Serving(w, "merge") => req[w].standing = standing[req[w].user]

LEMMA CopyInvStep ==
    ASSUME TypeOK, CopyInv, NoCopyOutdated, [Next]_vars
    PROVE  /\ CopyInv'
           /\ \A u \in Users : standing[u] = "sovereign" => standing'[u] = "sovereign"
<1> DEFINE Kept == \A u \in Users : standing[u] = "sovereign" => standing'[u] = "sovereign"
<1> SUFFICES CopyInv' /\ Kept
  OBVIOUS
<1> USE DEF CopyInv
\* Workers that are not at the commit leave the rows alone; one that takes up
\* a merge has just read its row.
<1>1. ASSUME NEW w \in Workers, NEW q, req' = [req EXCEPT ![w] = q],
             UNCHANGED standing,
             q # None /\ q.op = "merge" => q.standing = standing[q.user]
      PROVE  CopyInv' /\ Kept
  <2> SUFFICES ASSUME NEW v \in Workers, Serving(v, "merge")'
               PROVE  req'[v].standing = standing[req'[v].user]
    BY <1>1
  <2>1. CASE v = w
    BY <1>1, <2>1 DEF Serving, TypeOK
  <2>2. CASE v # w
    BY <1>1, <2>2 DEF Serving, TypeOK
  <2> QED
    BY <2>1, <2>2
<1>2. ASSUME NEW w \in Workers, Done(w), UNCHANGED standing
      PROVE  CopyInv' /\ Kept
  BY <1>1, <1>2 DEF Done
<1>3. ASSUME NEW w \in Workers, NEW u \in Users,
             \/ ExportBegin(w, u)
             \/ \E r \in Receipts : ConfirmBegin(w, u, r)
             \/ \E own \in BOOLEAN : MergeRead(w, u, own)
      PROVE  CopyInv' /\ Kept
  <2>1. PICK q \in {[op |-> "export", user |-> u]}
                \cup {[op |-> "verify", user |-> u, key |-> k] : k \in Users \cup {None}}
                \cup {[op |-> "merge", user |-> u, standing |-> standing[u]]} :
            Begin(w, q)
    BY <1>3 DEF ExportBegin, ConfirmBegin, MergeRead, Receipts
  <2>2. q.op = "merge" => q.standing = standing[q.user]
    BY <2>1
  <2> QED
    BY <1>1, <2>1, <2>2 DEF Begin
<1>4. ASSUME NEW w \in Workers, ConfirmVerify(w) \/ Promote(w) \/ Shred(w)
      PROVE  CopyInv' /\ Kept
  <2>1. UNCHANGED standing
    BY <1>4 DEF ConfirmVerify, Promote, Update, Shred, OnShredFailure, Rollback
  <2>2. \/ Done(w)
        \/ \E op \in {"promote", "shred", "commit"} :
                Continue(w, [op |-> op, user |-> req[w].user])
    BY <1>4 DEF ConfirmVerify, Promote, Shred, OnShredFailure, Rollback
  <2> QED
    BY <1>1, <1>2, <2>1, <2>2 DEF Continue
<1>5. ASSUME NEW w \in Workers, Commit(w) PROVE CopyInv' /\ Kept
  <2>1. CASE UNCHANGED standing
    BY <1>2, <1>5, <2>1 DEF Commit, Rollback
  <2>2. CASE standing' = [standing EXCEPT ![req[w].user] = "sovereign"] /\ Done(w)
    <3>1. Kept
      BY <2>2 DEF TypeOK
    <3>2. ASSUME NEW v \in Workers, Serving(v, "merge")'
          PROVE  req'[v].standing = standing'[req'[v].user]
      <4>1. v # w /\ req'[v] = req[v] /\ Serving(v, "merge")
        BY <2>2, <3>2 DEF Done, Serving, TypeOK
      <4>2. req[v].user # req[w].user
        BY <1>5, <4>1 DEF Commit, NoCopyOutdated
      <4>3. req[v].user \in Users
        BY <4>1 DEF Serving, TypeOK, Requests
      <4> QED
        BY <2>2, <4>1, <4>2, <4>3 DEF TypeOK
    <3> QED
      BY <3>1, <3>2
  <2> QED
    BY <1>5, <2>1, <2>2 DEF Commit, Rollback
<1>6. ASSUME NEW w \in Workers, MergeSave(w) PROVE CopyInv' /\ Kept
  <2>1. req[w].user \in Users /\ req[w].standing = standing[req[w].user]
    BY <1>6 DEF MergeSave, Serving, TypeOK, Requests
  <2>2. UNCHANGED standing
    BY <1>6, <2>1 DEF MergeSave, TypeOK
  <2> QED
    BY <1>2, <1>6, <2>2 DEF MergeSave
<1>7. ASSUME NEW w \in Workers, ExportSeal(w) \/ Crash(w) PROVE CopyInv' /\ Kept
  BY <1>2, <1>7 DEF ExportSeal, Crash
<1>8. CASE UNCHANGED vars
  BY <1>8 DEF vars, Serving
<1> QED
  BY <1>3, <1>4, <1>5, <1>6, <1>7, <1>8 DEF Next

\* If merges read the row under its lock, so that no promotion commits between
\* a merge's read and its save, nothing would make a sovereign account managed
\* again, whatever else fails or interleaves: the merge's window is the only
\* one there is.
THEOREM OnlyStaleMergesDemote == Spec /\ []NoCopyOutdated => SovereignPreserved
<1>1. Init => CopyInv
  BY DEF Init, CopyInv, Serving
<1>2. TypeOK /\ CopyInv /\ NoCopyOutdated /\ [Next]_vars =>
        /\ CopyInv'
        /\ [\A u \in Users :
                standing[u] = "sovereign" => standing'[u] = "sovereign"]_vars
  BY CopyInvStep
<1> QED
  BY <1>1, <1>2, TypeCorrect, PTL DEF Spec, SovereignPreserved

\* One worker alone cannot be overtaken.
THEOREM OneWorkerDemotesNobody ==
    ASSUME NEW w, Workers = {w}
    PROVE  Spec => SovereignPreserved
<1>1. NoCopyOutdated
  BY DEF NoCopyOutdated, Serving
<1> QED
  BY <1>1, OnlyStaleMergesDemote, PTL
=============================================================================

------------------------ MODULE EmailIdentityProofs ------------------------
(***************************************************************************)
(* What holds of EmailIdentity for every number of workers, accounts,      *)
(* addresses, profiles and codes.  The arguments: a cached code lies under *)
(* the key it was mailed for; an address that is not excused has at most   *)
(* one request about to claim it, and that one has found what it must; an  *)
(* identity on file stays on file.                                         *)
(***************************************************************************)
EXTENDS EmailIdentity, ResilientCacheProofs

USE DEF history

ClaimOps == {"otp_spend", "otp_resolve", "otp_create", "otp_seal",
             "link_spend", "link_check", "link_claim"}
LookupOps == {"match", "match_linked", "enroll"}
MergeOps == {"save", "attach", "link", "bind"}

\* What a request carries, by its kind.
LEMMA ReqFields ==
    ASSUME TypeOK, NEW w \in Workers, req[w] # Absent
    PROVE  /\ req[w].op \in ClaimOps => req[w] \in Claims
           /\ req[w].op \in LookupOps => req[w] \in Lookups
           /\ req[w].op \in MergeOps => req[w] \in Merges
           /\ req[w].op \in ClaimOps \cup LookupOps => req[w].email \in Emails
           /\ req[w].op \in ClaimOps \cup LookupOps \cup MergeOps \cup {"login"}
BY DEF TypeOK, Claims, OAuth, Lookups, Merges, Logins, ClaimOps, LookupOps, MergeOps

\* A request moves on to another step of its own kind.
Onward(w, op) ==
    \/ req[w].op \in ClaimOps /\ op \in ClaimOps
    \/ req[w].op \in LookupOps /\ op \in LookupOps
    \/ req[w].op \in MergeOps /\ op \in MergeOps

LEMMA StepIs ==
    ASSUME TypeOK, NEW w \in Workers, req[w] # Absent, NEW op, Step(w, op)
    PROVE  /\ req'[w].op = op
           /\ \A v \in Workers \ {w} : req'[v] = req[v]
           /\ req[w].op \in ClaimOps \cup LookupOps => req'[w].email = req[w].email
           /\ req[w].op \in ClaimOps \cup MergeOps => req'[w].user = req[w].user
           /\ req[w].op \in MergeOps =>
                /\ req'[w].standing = req[w].standing
                /\ req'[w].own = req[w].own
<1>1. CASE req[w].op \in ClaimOps
  <2>1. req[w] \in Claims
    BY <1>1, ReqFields
  <2> QED BY <1>1, <2>1 DEF Claims, ClaimOps, MergeOps, Step, Serve, TypeOK
<1>2. CASE req[w].op \in LookupOps
  <2>1. req[w] \in Lookups
    BY <1>2, ReqFields
  <2> QED BY <1>2, <2>1 DEF Lookups, ClaimOps, LookupOps, MergeOps, Step, Serve, TypeOK
<1>3. CASE req[w].op \in MergeOps
  <2>1. req[w] \in Merges
    BY <1>3, ReqFields
  <2> QED BY <1>3, <2>1 DEF Merges, ClaimOps, LookupOps, MergeOps, Step, Serve, TypeOK
<1>4. CASE req[w].op = "login"
  <2>1. req[w] \in Logins
    BY <1>4 DEF TypeOK, Claims, OAuth, Lookups, Merges, Logins
  <2> QED BY <1>4, <2>1 DEF Logins, ClaimOps, LookupOps, MergeOps, Step, Serve, TypeOK
<1> QED BY <1>1, <1>2, <1>3, <1>4, ReqFields

LEMMA StepTyped ==
    ASSUME TypeOK, NEW w \in Workers, req[w] # Absent, NEW op, Onward(w, op), Step(w, op)
    PROVE  req' \in [Workers -> Claims \cup OAuth \cup {Absent}]
<1>1. CASE req[w].op \in ClaimOps /\ op \in ClaimOps
  <2>1. [req[w] EXCEPT !.op = op] \in Claims
    BY <1>1, ReqFields DEF Claims, ClaimOps
  <2> QED BY <2>1 DEF TypeOK, Step, Serve
<1>2. CASE req[w].op \in LookupOps /\ op \in LookupOps
  <2>1. [req[w] EXCEPT !.op = op] \in Lookups
    BY <1>2, ReqFields DEF Lookups, LookupOps
  <2> QED BY <2>1 DEF TypeOK, Step, Serve, OAuth
<1>3. CASE req[w].op \in MergeOps /\ op \in MergeOps
  <2>1. [req[w] EXCEPT !.op = op] \in Merges
    BY <1>3, ReqFields DEF Merges, MergeOps
  <2> QED BY <2>1 DEF TypeOK, Step, Serve, OAuth
<1> QED BY <1>1, <1>2, <1>3 DEF Onward

LEMMA DoneTyped ==
    ASSUME TypeOK, NEW w \in Workers, Done(w)
    PROVE  req' \in [Workers -> Claims \cup OAuth \cup {Absent}]
BY DEF TypeOK, Done, Serve

LEMMA LogInTyped ==
    ASSUME TypeOK, NEW w \in Workers, NEW u \in Users, LogIn(w, u)
    PROVE  req' \in [Workers -> Claims \cup OAuth \cup {Absent}]
BY DEF TypeOK, LogIn, Serve, OAuth, Logins

\* A look-up has found, or made, the account.
LEMMA MergeTyped ==
    ASSUME TypeOK, NEW w \in Workers, req[w] # Absent, req[w].op \in LookupOps,
           NEW op \in MergeOps, NEW u \in Users, NEW own \in BOOLEAN, Merge(w, op, u, own)
    PROVE  req' \in [Workers -> Claims \cup OAuth \cup {Absent}]
<1>1. req[w].profile \in Profiles
  BY ReqFields DEF Lookups
<1>2. [op |-> op, user |-> u, profile |-> req[w].profile, standing |-> Standing(u),
       own |-> own] \in Merges
  BY <1>1 DEF Merges, MergeOps, Standing
<1> QED BY <1>2 DEF TypeOK, Merge, Serve, OAuth

LEMMA ResolveCases ==
    ASSUME NEW w \in Workers, NEW u, Resolve(w, u)
    PROVE  \/ Done(w)
           \/ \E own \in BOOLEAN : Admits(u, own) /\ Merge(w, "save", u, own)
BY DEF Resolve

LEMMA ResolveTyped ==
    ASSUME TypeOK, NEW w \in Workers, req[w] # Absent, req[w].op \in LookupOps,
           NEW u \in Users, Resolve(w, u)
    PROVE  req' \in [Workers -> Claims \cup OAuth \cup {Absent}]
BY ResolveCases, DoneTyped, MergeTyped DEF MergeOps

-----------------------------------------------------------------------------

\* Every handler's step, the challenges and the rest apart.
Handler(w) ==
    \/ VerifySpend(w) \/ VerifyResolve(w) \/ VerifyCreate(w) \/ VerifySeal(w)
    \/ LinkSpend(w) \/ LinkCheck(w) \/ LinkClaim(w)
    \/ OAuthMatch(w) \/ OAuthMatchLinked(w) \/ OAuthSave(w) \/ OAuthAttach(w) \/ OAuthLink(w)
    \/ OAuthEnroll(w) \/ OAuthBind(w) \/ OAuthLogin(w)

Start(w, e) ==
    \/ VerifyRead(w, e)
    \/ LinkRemove(w, e)
    \/ \E u \in Users : LinkRead(w, u, e)
    \/ \E p \in Profiles : OAuthBegin(w, p, e)

Challenge(w, e, n) ==
    \/ Mail(w, n, <<"otp", e>>, Absent)
    \/ \E u \in Users : Mail(w, n, <<"link", e>>, u)

\* A challenge, a request that comes in, a step of one, or a loss.
LEMMA StepCases ==
    ASSUME Next
    PROVE  \/ \E w \in Workers, e \in Emails, n \in Codes : Challenge(w, e, n)
           \/ \E w \in Workers, e \in Emails : Start(w, e)
           \/ \E w \in Workers : Handler(w)
           \/ \E w \in Workers : WorkerRestart(w)
           \/ \E u \in Users : Graduate(u)
           \/ \E b \in Backends, k \in Keys : Lapse(b, k)
BY DEF Next, Challenge, Start, Handler, ChallengeEmail, ChallengeLink

\* The cache and the mail, apart from a challenge: entries only go away.
Fades ==
    /\ store' \in [Backends -> [Keys -> Codes \cup {Absent}]]
    /\ \A b \in Backends, k \in Keys : store'[b][k] \in {store[b][k], Absent}
    /\ mail' = mail

LEMMA SpendFades ==
    ASSUME TypeOK, NEW w \in Workers, NEW from, NEW key \in Keys, NEW to,
           Spend(w, from, key, to)
    PROVE  Fades
<1>1. PICK r \in RedisOutcomes : store' = AfterDelete(r, w, key)
  BY DEF Spend
<1>2. store' \in [Backends -> [Keys -> Codes \cup {Absent}]]
  BY <1>1, DeleteTyped DEF TypeOK
<1>3. \A b \in Backends, k \in Keys : store'[b][k] \in {store[b][k], Absent}
  BY <1>1, DeleteValues
<1> QED BY <1>2, <1>3 DEF Fades, Spend

LEMMA KeysOf == \A e \in Emails : <<"otp", e>> \in Keys /\ <<"link", e>> \in Keys
BY EmailAssumption

LEMMA SameFades == ASSUME TypeOK, UNCHANGED <<store, mail>> PROVE Fades
BY DEF TypeOK, Fades

LEMMA HandlerFades ==
    ASSUME TypeOK, NEW w \in Workers, Handler(w)
    PROVE  Fades
<1>1. CASE VerifySpend(w)
  <2>1. <<"otp", req[w].email>> \in Keys
    BY <1>1, ReqFields, KeysOf DEF VerifySpend, Spend, Serving, ClaimOps
  <2> QED BY <1>1, <2>1, SpendFades DEF VerifySpend
<1>2. CASE LinkSpend(w)
  <2>1. <<"link", req[w].email>> \in Keys
    BY <1>2, ReqFields, KeysOf DEF LinkSpend, Spend, Serving, ClaimOps
  <2> QED BY <1>2, <2>1, SpendFades DEF LinkSpend
<1>3. CASE ~VerifySpend(w) /\ ~LinkSpend(w)
  BY <1>3, SameFades DEF Handler, VerifyResolve, VerifyCreate, VerifySeal, LinkCheck,
     LinkClaim, OAuthMatch, OAuthMatchLinked, OAuthSave, OAuthAttach, OAuthLink, OAuthEnroll, OAuthBind,
     OAuthLogin, rows
<1> QED BY <1>1, <1>2, <1>3

LEMMA StartFades ==
    ASSUME TypeOK, NEW w \in Workers, NEW e, Start(w, e)
    PROVE  Fades
BY SameFades DEF Start, VerifyRead, LinkRemove, LinkRead, OAuthBegin

LEMMA LossFades ==
    ASSUME TypeOK,
           \/ \E b \in Backends, k \in Keys : Lapse(b, k)
           \/ \E w \in Workers : WorkerRestart(w)
    PROVE  Fades
<1>1. ASSUME NEW b \in Backends, NEW k \in Keys, Lapse(b, k) PROVE Fades
  <2>1. store' = Drop(b, k) /\ mail' = mail
    BY <1>1 DEF Lapse
  <2>2. store' \in [Backends -> [Keys -> Codes \cup {Absent}]]
    BY <2>1, DropTyped DEF TypeOK
  <2>3. \A a \in Backends, j \in Keys : store'[a][j] \in {store[a][j], Absent}
    BY <2>1 DEF TypeOK, Drop
  <2> QED BY <2>1, <2>2, <2>3 DEF Fades
<1>2. ASSUME NEW w \in Workers, WorkerRestart(w) PROVE Fades
  <2>1. store' = Forget(w) /\ mail' = mail /\ w \in Backends
    BY <1>2 DEF WorkerRestart, Backends
  <2>2. store' \in [Backends -> [Keys -> Codes \cup {Absent}]]
    BY <2>1, ForgetTyped DEF TypeOK
  <2>3. \A a \in Backends, j \in Keys : store'[a][j] \in {store[a][j], Absent}
    BY <2>1 DEF TypeOK, Forget, Empty
  <2> QED BY <2>1, <2>2, <2>3 DEF Fades
<1> QED BY <1>1, <1>2
-----------------------------------------------------------------------------
\* Types.

LEMMA MailTyped ==
    ASSUME TypeOK, NEW w \in Workers, NEW n \in Codes, NEW key \in Keys,
           NEW u \in Users \cup {Absent}, Mail(w, n, key, u)
    PROVE  TypeOK'
<1>1. PICK r \in RedisOutcomes : store' = AfterSet(r, w, key, n)
  BY DEF Mail
<1>2. store' \in [Backends -> [Keys -> Codes \cup {Absent}]]
  BY <1>1, SetTyped DEF TypeOK
<1>3. mail' \in [Codes -> Mails \cup {Absent}]
  BY DEF Mail, TypeOK, Mails
<1> QED BY <1>2, <1>3 DEF Mail, TypeOK, rows

LEMMA ChallengeIsMail ==
    ASSUME NEW w \in Workers, NEW e \in Emails, NEW n \in Codes, Challenge(w, e, n)
    PROVE  \E key \in Keys, u \in Users \cup {Absent} : Mail(w, n, key, u)
BY KeysOf DEF Challenge

LEMMA StartTyped ==
    ASSUME TypeOK, NEW w \in Workers, NEW e \in Emails, Start(w, e)
    PROVE  TypeOK'
<1> USE DEF TypeOK, rows
<1>1. store' \in [Backends -> [Keys -> Codes \cup {Absent}]] /\ mail' = mail
  BY StartFades DEF Fades
<1>2. CASE VerifyRead(w, e)
  <2>1. [op |-> "otp_spend", email |-> e, user |-> Absent] \in Claims
    BY DEF Claims
  <2> QED BY <1>1, <1>2, <2>1 DEF VerifyRead, Serve
<1>3. CASE LinkRemove(w, e)
  BY <1>1, <1>3 DEF LinkRemove
<1>4. ASSUME NEW u \in Users, LinkRead(w, u, e) PROVE TypeOK'
  <2>1. [op |-> "link_spend", email |-> e, user |-> u] \in Claims
    BY DEF Claims
  <2> QED BY <1>1, <1>4, <2>1 DEF LinkRead, Serve
<1>5. ASSUME NEW p \in Profiles, OAuthBegin(w, p, e) PROVE TypeOK'
  <2>1. CASE LogIn(w, identity[p]) /\ identity[p] # Absent
    <3>1. req' \in [Workers -> Claims \cup OAuth \cup {Absent}]
      BY <2>1, LogInTyped
    <3> QED BY <1>1, <1>5, <3>1 DEF OAuthBegin
  <2>2. CASE Serve(w, [op |-> "match", email |-> e, profile |-> p])
    <3>1. [op |-> "match", email |-> e, profile |-> p] \in OAuth
      BY DEF OAuth, Lookups
    <3> QED BY <1>1, <1>5, <2>2, <3>1 DEF OAuthBegin, Serve
  <2> QED BY <1>5, <2>1, <2>2 DEF OAuthBegin
<1> QED BY <1>2, <1>3, <1>4, <1>5 DEF Start

\* A new account is one, and its address is one.
LEMMA ProvisionTyped ==
    ASSUME TypeOK, NEW u \in Users, NEW e \in Emails, Provision(u, e)
    PROVE  known' \subseteq Users /\ primary' \in [Users -> Emails \cup {Absent}]
BY DEF TypeOK, Provision

LEMMA SaveTyped ==
    ASSUME TypeOK, NEW u \in Users, NEW standing, Save(u, standing)
    PROVE  sovereign' \subseteq Users
BY DEF TypeOK, Save

LEMMA HandlerTyped ==
    ASSUME TypeOK, NEW w \in Workers, Handler(w)
    PROVE  TypeOK'
<1> DEFINE e == req[w].email
           Requests == [Workers -> Claims \cup OAuth \cup {Absent}]
<1>1. store' \in [Backends -> [Keys -> Codes \cup {Absent}]] /\ mail' = mail
  BY HandlerFades DEF Fades
<1>2. /\ req[w] # Absent
      /\ req[w].op \in ClaimOps \cup LookupOps => e \in Emails
      /\ req[w].op \in MergeOps => /\ req[w].user \in Users
                                   /\ req[w].profile \in Profiles
      /\ req[w].op \in ClaimOps => req[w].user \in Users \cup {Absent}
  BY ReqFields DEF Handler, VerifySpend, LinkSpend, Spend, Serving, VerifyResolve,
     VerifyCreate, VerifySeal, LinkCheck, LinkClaim, OAuthMatch, OAuthMatchLinked,
     OAuthSave, OAuthAttach, OAuthLink, OAuthEnroll, OAuthBind, OAuthLogin, Claims, Merges
<1>3. Done(w) => req' \in Requests
  BY DoneTyped
<1>4. ASSUME NEW op, Step(w, op), Onward(w, op)
      PROVE  req' \in Requests
  BY <1>2, <1>4, StepTyped
<1>19. ASSUME NEW u \in Users, LogIn(w, u) PROVE req' \in Requests
  BY <1>19, LogInTyped
<1> USE DEF TypeOK, rows, Serving, Onward
<1> HIDE DEF Requests
<1>5. CASE VerifySpend(w)
  BY <1>1, <1>4, <1>5 DEF VerifySpend, Spend, ClaimOps, Requests
<1>6. CASE VerifyResolve(w)
  <2>1. excused' \subseteq Emails
    BY <1>2, <1>6 DEF VerifyResolve, Excuse, ClaimOps
  <2>2. req' \in Requests
    BY <1>3, <1>4, <1>6 DEF VerifyResolve, ClaimOps
  <2> QED BY <1>1, <1>6, <2>1, <2>2 DEF VerifyResolve, Requests
<1>7. CASE VerifyCreate(w)
  <2>1. known' \subseteq Users /\ primary' \in [Users -> Emails \cup {Absent}]
    BY <1>2, <1>7, ProvisionTyped DEF VerifyCreate, ClaimOps
  <2>2. ASSUME NEW u \in Users
        PROVE  [req[w] EXCEPT !.op = "otp_seal", !.user = u] \in Claims
    <3>1. req[w] \in Claims
      BY <1>2, <1>7, ReqFields DEF VerifyCreate, ClaimOps
    <3> QED BY <3>1 DEF Claims
  <2>3. req' \in Requests
    BY <1>3, <1>7, <2>2 DEF VerifyCreate, Serve, Requests
  <2>4. walled' \subseteq Users
    BY <1>7 DEF VerifyCreate
  <2> QED BY <1>1, <1>7, <2>1, <2>3, <2>4 DEF VerifyCreate, Requests
<1>18. CASE VerifySeal(w)
  <2>1. sovereign' \subseteq Users
    BY <1>18 DEF VerifySeal, Save, ClaimOps
  <2> QED BY <1>1, <1>3, <1>18, <2>1 DEF VerifySeal, Requests
<1>8. CASE LinkSpend(w)
  BY <1>1, <1>4, <1>8 DEF LinkSpend, Spend, ClaimOps, Requests
<1>9. CASE LinkCheck(w)
  <2>1. excused' \subseteq Emails
    BY <1>2, <1>9 DEF LinkCheck, Excuse, ClaimOps
  <2>2. req' \in Requests
    BY <1>3, <1>4, <1>9 DEF LinkCheck, ClaimOps
  <2> QED BY <1>1, <1>9, <2>1, <2>2 DEF LinkCheck, Requests
<1>10. CASE LinkClaim(w)
  <2>1. linked' \in [Emails -> Users \cup {Absent}]
    BY <1>2, <1>10 DEF LinkClaim, ClaimOps
  <2> QED BY <1>1, <1>3, <1>10, <2>1 DEF LinkClaim, Requests
<1>11. CASE OAuthMatch(w)
  <2>1. req[w].op \in LookupOps
    BY <1>11 DEF OAuthMatch, LookupOps
  <2>2. ASSUME NEW u \in Users, Resolve(w, u) PROVE req' \in Requests
    BY <1>2, <2>1, <2>2, ResolveTyped DEF Requests
  <2>3. req' \in Requests
    BY <1>4, <1>11, <2>1, <2>2 DEF OAuthMatch, LookupOps
  <2> QED BY <1>1, <1>11, <2>3 DEF OAuthMatch, Requests
<1>12. CASE OAuthMatchLinked(w)
  <2>1. req[w].op \in LookupOps
    BY <1>12 DEF OAuthMatchLinked, LookupOps
  <2>2. excused' \subseteq Emails
    BY <1>2, <1>12, <2>1 DEF OAuthMatchLinked, Excuse
  <2>3. ASSUME NEW u \in Users, Resolve(w, u) PROVE req' \in Requests
    BY <1>2, <2>1, <2>3, ResolveTyped DEF Requests
  <2>4. linked[e] # Absent => linked[e] \in Users
    BY <1>2, <2>1
  <2>5. req' \in Requests
    BY <1>4, <1>12, <2>1, <2>3, <2>4 DEF OAuthMatchLinked, LookupOps
  <2> QED BY <1>1, <1>12, <2>2, <2>5 DEF OAuthMatchLinked, Requests
<1>20. CASE OAuthSave(w)
  <2>1. req' \in Requests
    BY <1>4, <1>20 DEF OAuthSave, MergeOps
  <2>2. sovereign' \subseteq Users
    BY <1>2, <1>20, SaveTyped DEF OAuthSave, MergeOps
  <2> QED BY <1>1, <1>20, <2>1, <2>2 DEF OAuthSave, Requests
<1>13. CASE OAuthAttach(w)
  <2>1. req' \in Requests
    BY <1>2, <1>3, <1>4, <1>13, <1>19 DEF OAuthAttach, MergeOps
  <2> QED BY <1>1, <1>13, <2>1 DEF OAuthAttach, Requests
<1>14. CASE OAuthLink(w)
  <2>1. req' \in Requests
    BY <1>2, <1>3, <1>14, <1>19 DEF OAuthLink, MergeOps
  <2>2. identity' \in [Profiles -> Users \cup {Absent}]
    BY <1>2, <1>14 DEF OAuthLink, File, MergeOps
  <2> QED BY <1>1, <1>14, <2>1, <2>2 DEF OAuthLink, Requests
<1>15. CASE OAuthEnroll(w)
  <2>1. req[w].op \in LookupOps /\ e \in Emails
    BY <1>2, <1>15 DEF OAuthEnroll, LookupOps
  <2>2. ASSUME NEW u \in Users, Merge(w, "bind", u, FALSE) PROVE req' \in Requests
    BY <1>2, <2>1, <2>2, MergeTyped DEF MergeOps, Requests
  <2>3. req' \in Requests
    BY <1>3, <1>15, <2>2 DEF OAuthEnroll
  <2>4. known' \subseteq Users /\ primary' \in [Users -> Emails \cup {Absent}]
    BY <1>15, <2>1, ProvisionTyped DEF OAuthEnroll
  <2> QED BY <1>1, <1>15, <2>3, <2>4 DEF OAuthEnroll, Requests
<1>16. CASE OAuthBind(w)
  <2>1. req' \in Requests
    BY <1>2, <1>3, <1>16, <1>19 DEF OAuthBind, MergeOps
  <2>2. identity' \in [Profiles -> Users \cup {Absent}]
    BY <1>2, <1>16 DEF OAuthBind, File, MergeOps
  <2>3. sovereign' \subseteq Users
    BY <1>2, <1>16, SaveTyped DEF OAuthBind, MergeOps
  <2> QED BY <1>1, <1>16, <2>1, <2>2, <2>3 DEF OAuthBind, Requests
<1>17. CASE OAuthLogin(w)
  BY <1>1, <1>3, <1>17 DEF OAuthLogin, Requests
<1> QED
  BY <1>5, <1>6, <1>7, <1>8, <1>9, <1>10, <1>11, <1>12, <1>13, <1>14, <1>15, <1>16, <1>17,
     <1>18, <1>20 DEF Handler

LEMMA LossTyped ==
    ASSUME TypeOK,
           \/ \E b \in Backends, k \in Keys : Lapse(b, k)
           \/ \E w \in Workers : WorkerRestart(w)
    PROVE  TypeOK'
<1>1. Fades
  BY LossFades
<1> QED BY <1>1, DoneTyped DEF Fades, Lapse, WorkerRestart, TypeOK, rows

LEMMA GraduateTyped == ASSUME TypeOK, NEW u \in Users, Graduate(u) PROVE TypeOK'
BY DEF TypeOK, Graduate

\* Every challenge, request and row stays well-formed: no handler leaves the
\* others a cache entry or a row they cannot read.
THEOREM TypeCorrect == Spec => []TypeOK
<1>1. Init => TypeOK
  BY EmailAssumption DEF Init, TypeOK, Empty
<1>2. TypeOK /\ [Next]_vars => TypeOK'
  <2>1. TypeOK /\ Next => TypeOK'
    BY StepCases, ChallengeIsMail, MailTyped, StartTyped, HandlerTyped, LossTyped,
       GraduateTyped
  <2>2. TypeOK /\ UNCHANGED vars => TypeOK'
    BY DEF TypeOK, vars
  <2> QED BY <2>1, <2>2
<1> QED BY <1>1, <1>2, PTL DEF Spec

-----------------------------------------------------------------------------
(* Addresses proven.                                                       *)

Mailed(e, u) == \E n \in Codes : mail[n] = [key |-> <<"link", e>>, user |-> u]

LinkOps == {"link_spend", "link_check", "link_claim"}

\* A code in the cache was mailed for the key it lies under.
Filed ==
    \A b \in Backends, k \in Keys :
        store[b][k] # Absent =>
            mail[store[b][k]] \in Mails /\ mail[store[b][k]].key = k

\* A request that links an address has been given a code for the two.
Bound ==
    \A w \in Workers : req[w] # Absent /\ req[w].op \in LinkOps =>
        req[w].user \in Users /\ Mailed(req[w].email, req[w].user)

LinkInv == Filed /\ Bound /\ AddressesProven

\* What was mailed stays mailed.
Keeps == \A n \in Codes : mail[n] # Absent => mail'[n] = mail[n]

LEMMA NotAbsent ==
    \A e, u : [key |-> <<"link", e>>, user |-> u] \in Mails
                => [key |-> <<"link", e>>, user |-> u] # Absent
BY EmailAssumption

LEMMA MailedStays ==
    ASSUME Keeps, NEW e \in Emails, NEW u \in Users, Mailed(e, u)
    PROVE  Mailed(e, u)'
<1>1. PICK n \in Codes : mail[n] = [key |-> <<"link", e>>, user |-> u]
  BY DEF Mailed
<1>2. mail[n] # Absent
  BY <1>1, NotAbsent, KeysOf DEF Mails
<1> QED BY <1>1, <1>2 DEF Keeps, Mailed

LEMMA MailKeeps ==
    ASSUME TypeOK, NEW w \in Workers, NEW n \in Codes, NEW key \in Keys,
           NEW u \in Users \cup {Absent}, Mail(w, n, key, u)
    PROVE  Keeps
BY DEF TypeOK, Mail, Keeps

LEMMA MailFiled ==
    ASSUME TypeOK, Filed, NEW w \in Workers, NEW n \in Codes, NEW key \in Keys,
           NEW u \in Users \cup {Absent}, Mail(w, n, key, u)
    PROVE  Filed'
<1>1. PICK r \in RedisOutcomes : store' = AfterSet(r, w, key, n)
  BY DEF Mail
<1>2. mail'[n] = [key |-> key, user |-> u] /\ mail'[n] \in Mails
  BY DEF Mail, TypeOK, Mails
<1> SUFFICES ASSUME NEW b \in Backends, NEW k \in Keys, store'[b][k] # Absent
             PROVE  mail'[store'[b][k]] \in Mails /\ mail'[store'[b][k]].key = k
  BY DEF Filed
<1>3. CASE store'[b][k] = store[b][k]
  <2>1. store[b][k] \in Codes /\ mail[store[b][k]] \in Mails
    BY <1>3 DEF TypeOK, Filed
  <2>2. mail[store[b][k]] # Absent
    BY <2>1, EmailAssumption
  <2> QED BY <1>3, <2>1, <2>2, MailKeeps DEF Keeps, Filed
<1>4. CASE k = key /\ store'[b][k] = n
  BY <1>2, <1>4
<1> QED BY <1>1, <1>3, <1>4, SetValues

LEMMA FadesFiled == ASSUME TypeOK, Filed, Fades PROVE Filed' /\ Keeps
BY DEF Filed, Fades, Keeps

\* The requests that link, and the rows they leave, after any other step.
LEMMA LinkSteps ==
    ASSUME TypeOK, Keeps, Bound, AddressesProven,
           \A w \in Workers : req'[w] # Absent /\ req'[w].op \in LinkOps =>
                /\ req[w] # Absent /\ req[w].op \in LinkOps
                /\ req'[w].user = req[w].user /\ req'[w].email = req[w].email,
           \A e \in Emails : \/ linked'[e] \in {linked[e], Absent}
                             \/ \E w \in Workers :
                                    /\ req[w] # Absent /\ req[w].op \in LinkOps
                                    /\ e = req[w].email /\ linked'[e] = req[w].user
    PROVE  Bound' /\ AddressesProven'
<1>1. ASSUME NEW w \in Workers, req'[w] # Absent, req'[w].op \in LinkOps
      PROVE  req'[w].user \in Users /\ Mailed(req[w].email, req[w].user)'
  <2>1. PICK e \in Emails, u \in Users :
            e = req[w].email /\ u = req[w].user /\ Mailed(e, u)
    BY <1>1, ReqFields DEF Bound, LinkOps, ClaimOps
  <2>2. Mailed(e, u)'
    BY <2>1, MailedStays
  <2>3. req'[w].user = u /\ req'[w].email = e
    BY <1>1, <2>1
  <2> QED BY <2>2, <2>3 DEF Mailed
<1>2. ASSUME NEW e \in Emails, linked'[e] # Absent
      PROVE  \E n \in Codes : mail'[n] = [key |-> <<"link", e>>, user |-> linked'[e]]
  <2>1. CASE linked'[e] = linked[e]
    <3>1. PICK u \in Users : u = linked[e]
      BY <1>2, <2>1 DEF TypeOK
    <3>2. Mailed(e, u)
      BY <1>2, <2>1, <3>1 DEF AddressesProven, Mailed
    <3>3. Mailed(e, u)'
      BY <3>2, MailedStays
    <3> QED BY <2>1, <3>1, <3>3 DEF Mailed
  <2>2. CASE linked'[e] # linked[e]
    <3>1. PICK w \in Workers : /\ req[w] # Absent /\ req[w].op \in LinkOps
                               /\ e = req[w].email /\ linked'[e] = req[w].user
      BY <1>2, <2>2
    <3>2. PICK u \in Users : u = req[w].user /\ Mailed(e, u)
      BY <3>1 DEF Bound
    <3>3. Mailed(e, u)'
      BY <3>2, MailedStays
    <3> QED BY <3>1, <3>2, <3>3 DEF Mailed
  <2> QED BY <2>1, <2>2
<1> QED BY <1>1, <1>2 DEF Bound, AddressesProven

LEMMA LinkReadBound ==
    ASSUME TypeOK, LinkInv, NEW w \in Workers, NEW u \in Users, NEW e \in Emails,
           LinkRead(w, u, e)
    PROVE  Bound' /\ AddressesProven'
<1>1. Mailed(e, u)
  <2>1. PICK r \in RedisOutcomes :
            CacheGet(r, w, <<"link", e>>) # Absent /\ OwnCode(CacheGet(r, w, <<"link", e>>), u)
    BY DEF LinkRead
  <2>2. PICK b \in Backends : CacheGet(r, w, <<"link", e>>) = store[b][<<"link", e>>]
    BY GetEffect DEF Backends
  <2>3. PICK n \in Codes : n = store[b][<<"link", e>>]
    BY <2>1, <2>2, KeysOf DEF TypeOK
  <2>4. n # Absent /\ mail[n].user = u
    BY <2>1, <2>2, <2>3 DEF OwnCode
  <2>5. mail[n] \in Mails /\ mail[n].key = <<"link", e>>
    BY <2>3, <2>4, KeysOf DEF LinkInv, Filed
  <2> QED BY <2>4, <2>5 DEF Mailed, Mails
<1>2. UNCHANGED <<mail, linked>>
  BY DEF LinkRead, rows
<1>3. \A v \in Workers : req'[v] = IF v = w
            THEN [op |-> "link_spend", email |-> e, user |-> u] ELSE req[v]
  BY DEF LinkRead, Serve, TypeOK
<1> QED BY <1>1, <1>2, <1>3 DEF LinkInv, Bound, AddressesProven, Mailed

\* A step that sends no request to link anything on its way.
LEMMA HandlerLinks ==
    ASSUME TypeOK, NEW w \in Workers, Handler(w)
    PROVE  /\ \A v \in Workers : req'[v] # Absent /\ req'[v].op \in LinkOps =>
                /\ req[v] # Absent /\ req[v].op \in LinkOps
                /\ req'[v].user = req[v].user /\ req'[v].email = req[v].email
           /\ \A e \in Emails : \/ linked'[e] \in {linked[e], Absent}
                                \/ \E v \in Workers :
                                    /\ req[v] # Absent /\ req[v].op \in LinkOps
                                    /\ e = req[v].email /\ linked'[e] = req[v].user
<1> DEFINE Requests ==
               \A v \in Workers : req'[v] # Absent /\ req'[v].op \in LinkOps =>
                /\ req[v] # Absent /\ req[v].op \in LinkOps
                /\ req'[v].user = req[v].user /\ req'[v].email = req[v].email
<1>1. req[w] # Absent
  BY DEF Handler, VerifySpend, LinkSpend, Spend, Serving, VerifyResolve,
     VerifyCreate, VerifySeal, LinkCheck, LinkClaim, OAuthMatch, OAuthMatchLinked, OAuthSave, OAuthAttach,
     OAuthLink, OAuthEnroll, OAuthBind, OAuthLogin
<1>2. Done(w) => Requests
  BY DEF Done, Serve, TypeOK
<1>3. ASSUME NEW op, Step(w, op), op \in LinkOps => req[w].op \in LinkOps PROVE Requests
  BY <1>1, <1>3, StepIs DEF LinkOps, ClaimOps
<1>4. ASSUME NEW u, NEW own, NEW op \in {"save", "bind"}, Merge(w, op, u, own)
      PROVE  Requests
  BY <1>4 DEF Merge, Serve, TypeOK, LinkOps
<1>8. ASSUME NEW u, LogIn(w, u) PROVE Requests
  BY <1>8 DEF LogIn, Serve, TypeOK, LinkOps
<1>5. ASSUME NEW u, Serving(w, "otp_create"),
             Serve(w, [req[w] EXCEPT !.op = "otp_seal", !.user = u])
      PROVE  Requests
  <2>1. req[w] \in Claims
    BY <1>5, ReqFields DEF Serving, ClaimOps
  <2>2. [req[w] EXCEPT !.op = "otp_seal", !.user = u].op = "otp_seal"
    BY <2>1 DEF Claims
  <2> QED BY <1>5, <2>2 DEF Serve, TypeOK, LinkOps
<1> HIDE DEF Requests
<1>6. CASE ~LinkClaim(w)
  <2>1. linked' = linked
    BY <1>6 DEF Handler, VerifySpend, LinkSpend, Spend, VerifyResolve, VerifyCreate,
       VerifySeal, LinkCheck, OAuthMatch, OAuthMatchLinked, OAuthSave, OAuthAttach, OAuthLink,
       OAuthEnroll, OAuthBind, OAuthLogin, rows
  <2>2. ASSUME VerifySpend(w) \/ LinkSpend(w) PROVE Requests
    BY <1>3, <2>2 DEF VerifySpend, LinkSpend, Spend, Serving, LinkOps
  <2>3. ASSUME VerifyResolve(w) \/ VerifySeal(w) \/ LinkCheck(w) \/ OAuthLogin(w)
       PROVE  Requests
    BY <1>2, <1>3, <2>3 DEF VerifyResolve, VerifySeal, LinkCheck, OAuthLogin,
       Serving, LinkOps
  <2>4. ASSUME OAuthMatch(w) \/ OAuthMatchLinked(w) PROVE Requests
    BY <1>2, <1>3, <1>4, <2>4, ResolveCases DEF OAuthMatch, OAuthMatchLinked, LinkOps
  <2>5. ASSUME OAuthSave(w) \/ OAuthAttach(w) \/ OAuthLink(w) \/ OAuthBind(w)
        PROVE  Requests
    BY <1>2, <1>3, <1>8, <2>5 DEF OAuthSave, OAuthAttach, OAuthLink, OAuthBind, LinkOps
  <2>6. ASSUME OAuthEnroll(w) \/ VerifyCreate(w) PROVE Requests
    BY <1>2, <1>4, <1>5, <2>6 DEF OAuthEnroll, VerifyCreate
  <2>7. Requests
    BY <1>6, <2>2, <2>3, <2>4, <2>5, <2>6 DEF Handler
  <2> QED BY <2>1, <2>7 DEF Requests
<1>7. CASE LinkClaim(w)
  <2>1. Requests
    BY <1>2, <1>7 DEF LinkClaim
  <2>2. \A e \in Emails : \/ linked'[e] = linked[e]
                          \/ e = req[w].email /\ linked'[e] = req[w].user
    BY <1>7 DEF LinkClaim, TypeOK
  <2> QED BY <1>1, <1>7, <2>1, <2>2 DEF LinkClaim, Serving, LinkOps, Requests
<1> QED BY <1>6, <1>7

LEMMA LinkInvStep ==
    ASSUME TypeOK, LinkInv, Next
    PROVE  LinkInv'
<1>1. ASSUME NEW w \in Workers, NEW e \in Emails, NEW n \in Codes, Challenge(w, e, n)
      PROVE  LinkInv'
  <2>1. PICK key \in Keys, u \in Users \cup {Absent} : Mail(w, n, key, u)
    BY <1>1, ChallengeIsMail
  <2>2. Filed' /\ Keeps
    BY <2>1, MailFiled, MailKeeps DEF LinkInv
  <2>3. req' = req /\ linked' = linked
    BY <2>1 DEF Mail, rows
  <2>4. Bound' /\ AddressesProven'
    BY <2>2, <2>3, LinkSteps DEF LinkInv
  <2> QED BY <2>2, <2>4 DEF LinkInv
<1>2. ASSUME NEW w \in Workers, NEW e \in Emails, Start(w, e)
      PROVE  LinkInv'
  <2>1. Filed' /\ Keeps
    BY <1>2, StartFades, FadesFiled DEF LinkInv
  <2>2. ASSUME NEW u \in Users, LinkRead(w, u, e) PROVE Bound' /\ AddressesProven'
    BY <2>2, LinkReadBound
  <2>3. CASE ~\E u \in Users : LinkRead(w, u, e)
    <3>1. \A v \in Workers : req'[v] # Absent /\ req'[v].op \in LinkOps => req'[v] = req[v]
      BY <1>2, <2>3 DEF Start, VerifyRead, LinkRemove, OAuthBegin,
         LogIn, Serve, TypeOK, LinkOps
    <3>2. \A d \in Emails : linked'[d] \in {linked[d], Absent}
      BY <1>2, <2>3 DEF Start, VerifyRead, LinkRemove, OAuthBegin,
         rows, TypeOK
    <3> QED BY <2>1, <3>1, <3>2, LinkSteps DEF LinkInv
  <2> QED BY <2>1, <2>2, <2>3 DEF LinkInv
<1>3. ASSUME NEW w \in Workers, Handler(w) PROVE LinkInv'
  <2>1. Filed' /\ Keeps
    BY <1>3, HandlerFades, FadesFiled DEF LinkInv
  <2>2. Bound' /\ AddressesProven'
    BY <1>3, <2>1, HandlerLinks, LinkSteps DEF LinkInv
  <2> QED BY <2>1, <2>2 DEF LinkInv
<1>4. CASE \/ \E b \in Backends, k \in Keys : Lapse(b, k)
           \/ \E w \in Workers : WorkerRestart(w)
  <2>1. Filed' /\ Keeps
    BY <1>4, LossFades, FadesFiled DEF LinkInv
  <2>2. \A v \in Workers : req'[v] # Absent => req'[v] = req[v]
    BY <1>4 DEF Lapse, WorkerRestart, Done, Serve, TypeOK
  <2>3. linked' = linked
    BY <1>4 DEF Lapse, WorkerRestart, rows
  <2>4. Bound' /\ AddressesProven'
    BY <2>1, <2>2, <2>3, LinkSteps DEF LinkInv
  <2> QED BY <2>1, <2>4 DEF LinkInv
<1>5. ASSUME NEW u \in Users, Graduate(u) PROVE LinkInv'
  BY <1>5 DEF Graduate, LinkInv, Filed, Bound, Mailed, AddressesProven
<1> QED BY <1>1, <1>2, <1>3, <1>4, <1>5, StepCases

\* No address is linked without a code for it and for that account having
\* been mailed there, however many challenges overwrite each other.
THEOREM EveryLinkIsProven == Spec => []AddressesProven
<1>1. Init => LinkInv
  BY DEF Init, LinkInv, Filed, Bound, AddressesProven, Empty
<1>2. LinkInv /\ TypeOK /\ [Next]_vars => LinkInv'
  <2>1. LinkInv /\ UNCHANGED vars => LinkInv'
    BY DEF LinkInv, Filed, Bound, AddressesProven, Mailed, vars
  <2> QED BY <2>1, LinkInvStep
<1>3. LinkInv => AddressesProven
  BY DEF LinkInv
<1> QED BY <1>1, <1>2, <1>3, TypeCorrect, PTL DEF Spec

-----------------------------------------------------------------------------
(* Splits explained.                                                       *)

\* An address is the primary one of at most one account.
OnePrimary == \A e \in Emails, u, v \in Users : IsPrimary(u, e) /\ IsPrimary(v, e) => u = v

\* At e nothing has gone wrong: it is linked or primary, at most one request
\* is about to claim it, and what that one found still holds.
Tidy(e) ==
    /\ linked[e] # Absent => Free(e)
    /\ \A v, w \in Workers : Claiming(v, e) /\ Claiming(w, e) => v = w
    /\ \A w \in Workers : Claiming(w, e) =>
        IF req[w].op = "link_claim" THEN Free(e) ELSE linked[e] = Absent

SplitInv == OnePrimary /\ \A e \in Emails \ excused : Tidy(e)

\* A step that gives nobody an address and lets nobody claim one.
Calm ==
    /\ known' = known /\ primary' = primary /\ excused' = excused
    /\ \A e \in Emails : linked'[e] \in {linked[e], Absent}
    /\ \A e \in Emails, w \in Workers :
        Claiming(w, e)' => Claiming(w, e) /\ req'[w].op = req[w].op

LEMMA CalmSplits == ASSUME SplitInv, Calm PROVE SplitInv'
<1>1. \A e \in Emails : (Free(e)' <=> Free(e)) /\ \A u : IsPrimary(u, e)' <=> IsPrimary(u, e)
  BY DEF Calm, Free, IsPrimary
<1>2. OnePrimary'
  BY <1>1 DEF SplitInv, OnePrimary
<1>3. ASSUME NEW e \in Emails, e \notin excused PROVE Tidy(e)'
  <2>1. Tidy(e)
    BY <1>3 DEF SplitInv
  <2> QED BY <1>1, <2>1 DEF Calm, Tidy
<1>4. excused' = excused
  BY DEF Calm
<1> QED BY <1>2, <1>3, <1>4 DEF SplitInv

\* Worker w moves on to a claim of its address, having found it as it must.
LEMMA EnterSplits ==
    ASSUME TypeOK, SplitInv, NEW w \in Workers,
           NEW op \in {"otp_create", "link_claim", "enroll"},
           req[w] # Absent, req[w].op \in ClaimOps \cup LookupOps, Step(w, op),
           Excuse(w, req[w].email, FALSE) \/ excused' = excused \cup {req[w].email},
           IF op = "link_claim"
           THEN Free(req[w].email)
           ELSE linked[req[w].email] = Absent \/ req[w].email \in excused',
           UNCHANGED <<known, primary, linked>>
    PROVE  SplitInv'
<1>1. PICK d \in Emails : d = req[w].email
  BY ReqFields
<1>2. \A e : (Free(e)' <=> Free(e)) /\ \A u : IsPrimary(u, e)' <=> IsPrimary(u, e)
  BY DEF Free, IsPrimary
<1>3. OnePrimary'
  BY <1>2 DEF SplitInv, OnePrimary
<1>4. /\ req'[w].op = op /\ req'[w].email = d
      /\ \A v \in Workers \ {w} : req'[v] = req[v]
  BY <1>1, StepIs
<1>5. ASSUME NEW e \in Emails, NEW v \in Workers, Claiming(v, e)'
      PROVE  \/ Claiming(v, e) /\ req'[v] = req[v]
             \/ v = w /\ e = d
  <2>1. CASE v = w
    BY <1>4, <1>5, <2>1 DEF Claiming
  <2>2. CASE v # w
    BY <1>4, <1>5, <2>2 DEF Claiming
  <2> QED BY <2>1, <2>2
<1>6. ASSUME NEW e \in Emails, e \notin excused' PROVE Tidy(e)'
  <2>1. e \notin excused
    BY <1>6 DEF Excuse
  <2>2. Tidy(e)
    BY <2>1 DEF SplitInv
  <2>3. CASE e # d
    BY <1>2, <1>5, <2>2, <2>3 DEF Tidy
  <2>4. CASE e = d
    <3>1. \A v \in Workers \ {w} : ~Claiming(v, e)
      BY <1>1, <1>6, <2>4 DEF Excuse
    <3>2. \A v \in Workers : Claiming(v, e)' => v = w
      BY <1>5, <3>1
    <3>3. IF req'[w].op = "link_claim" THEN Free(e)' ELSE linked'[e] = Absent
      BY <1>1, <1>2, <1>4, <1>6, <2>4
    <3>4. linked'[e] # Absent => Free(e)'
      BY <1>2, <2>2 DEF Tidy
    <3> QED BY <3>2, <3>3, <3>4 DEF Tidy
  <2> QED BY <2>3, <2>4
<1> QED BY <1>3, <1>6 DEF SplitInv

\* Worker w, which has found the address linked to nobody, makes it the
\* primary one of a new account.
LEMMA ProvisionSplits ==
    ASSUME TypeOK, SplitInv, NEW w \in Workers, NEW u \in Users \ known,
           Claiming(w, req[w].email), req[w].op # "link_claim",
           Fits(req[w].email), Provision(u, req[w].email),
           UNCHANGED <<linked, excused>>,
           \A v \in Workers \ {w} : req'[v] = req[v],
           req'[w].op \in {"otp_seal", "bind"}
    PROVE  SplitInv'
<1>1. PICK d \in Emails : d = req[w].email
  BY ReqFields DEF Claiming, ClaimOps, LookupOps
<1>2. \A e \in Emails, v \in Users :
        IsPrimary(v, e)' <=> IsPrimary(v, e) \/ (v = u /\ e = d)
  BY <1>1 DEF Provision, IsPrimary, TypeOK
<1>3. Free(d)
  BY <1>1 DEF Fits
<1>4. OnePrimary'
  BY <1>2, <1>3 DEF SplitInv, OnePrimary, Free
<1>5. \A e \in Emails, v \in Workers :
        Claiming(v, e)' => v # w /\ Claiming(v, e) /\ req'[v] = req[v]
  BY DEF Claiming
<1>6. \A e \in Emails : e # d => (Free(e)' <=> Free(e))
  BY <1>2 DEF Free
<1>7. ASSUME NEW e \in Emails, e \notin excused' PROVE Tidy(e)'
  <2>1. Tidy(e)
    BY <1>7 DEF SplitInv
  <2>2. CASE e # d
    BY <1>5, <1>6, <2>1, <2>2 DEF Tidy
  <2>3. CASE e = d
    <3>1. \A v \in Workers : ~Claiming(v, e)'
      BY <1>1, <1>5, <2>1, <2>3 DEF Tidy
    <3>2. linked'[e] = Absent
      BY <1>1, <2>1, <2>3 DEF Tidy
    <3> QED BY <3>1, <3>2 DEF Tidy
  <2> QED BY <2>2, <2>3
<1> QED BY <1>4, <1>7 DEF SplitInv

\* Worker w, which has found the address free, takes it.
LEMMA ClaimSplits ==
    ASSUME TypeOK, SplitInv, NEW w \in Workers, LinkClaim(w)
    PROVE  SplitInv'
<1>1. PICK d \in Emails : d = req[w].email
  BY ReqFields DEF LinkClaim, Serving, ClaimOps
<1>2. Claiming(w, d) /\ req[w].op = "link_claim"
  BY <1>1 DEF LinkClaim, Serving, Claiming
<1>3. \A e \in Emails : (Free(e)' <=> Free(e)) /\ \A u : IsPrimary(u, e)' <=> IsPrimary(u, e)
  BY DEF LinkClaim, Free, IsPrimary
<1>4. OnePrimary'
  BY <1>3 DEF SplitInv, OnePrimary
<1>5. \A e \in Emails : e # d => linked'[e] = linked[e]
  BY <1>1 DEF LinkClaim, TypeOK
<1>6. req'[w] = Absent /\ \A v \in Workers \ {w} : req'[v] = req[v]
  BY DEF LinkClaim, Done, Serve, TypeOK
<1>7. \A e \in Emails, v \in Workers :
        Claiming(v, e)' => v # w /\ Claiming(v, e) /\ req'[v] = req[v]
  BY <1>6 DEF Claiming
<1>8. ASSUME NEW e \in Emails, e \notin excused' PROVE Tidy(e)'
  <2>1. Tidy(e)
    BY <1>8 DEF SplitInv, LinkClaim
  <2>2. CASE e # d
    BY <1>3, <1>5, <1>7, <2>1, <2>2 DEF Tidy
  <2>3. CASE e = d
    <3>1. Free(e)'
      BY <1>2, <1>3, <2>1, <2>3 DEF Tidy
    <3>2. \A v \in Workers : ~Claiming(v, e)'
      BY <1>2, <1>7, <2>1, <2>3 DEF Tidy
    <3> QED BY <3>1, <3>2 DEF Tidy
  <2> QED BY <2>2, <2>3
<1> QED BY <1>4, <1>8 DEF SplitInv

\* After w's step w claims nothing, and the others are where they were.
Quiet(w) ==
    /\ \A v \in Workers \ {w} : req'[v] = req[v]
    /\ req'[w] = Absent \/ req'[w].op \notin {"otp_create", "link_claim", "enroll"}

LEMMA QuietCalm ==
    ASSUME NEW w \in Workers, Quiet(w), UNCHANGED <<known, primary, excused>>,
           \A e \in Emails : linked'[e] \in {linked[e], Absent}
    PROVE  Calm
<1>1. ASSUME NEW e \in Emails, NEW v \in Workers, Claiming(v, e)'
      PROVE  Claiming(v, e) /\ req'[v].op = req[v].op
  <2>1. v # w
    BY <1>1 DEF Claiming, Quiet
  <2> QED BY <1>1, <2>1 DEF Claiming, Quiet
<1> QED BY <1>1 DEF Calm

LEMMA QuietMoves ==
    ASSUME TypeOK, NEW w \in Workers, req[w] # Absent
    PROVE  /\ Done(w) => Quiet(w)
           /\ \A op : Step(w, op) /\ op \notin {"otp_create", "link_claim", "enroll"}
                => Quiet(w)
           /\ \A u : LogIn(w, u) \/ Resolve(w, u) => Quiet(w)
<1>1. Done(w) => Quiet(w)
  BY DEF Done, Serve, Quiet, TypeOK
<1>2. ASSUME NEW op, Step(w, op), op \notin {"otp_create", "link_claim", "enroll"}
      PROVE  Quiet(w)
  BY <1>2, StepIs DEF Quiet
<1>3. ASSUME NEW u, LogIn(w, u) PROVE Quiet(w)
  BY <1>3 DEF LogIn, Serve, Quiet, TypeOK
<1>4. ASSUME NEW u, Resolve(w, u) PROVE Quiet(w)
  <2>1. ASSUME NEW own, Merge(w, "save", u, own) PROVE Quiet(w)
    BY <2>1 DEF Merge, Serve, Quiet, TypeOK
  <2> QED BY <1>1, <1>4, <2>1, ResolveCases
<1> QED BY <1>1, <1>2, <1>3, <1>4

LEMMA HandlerSplits ==
    ASSUME TypeOK, SplitInv, NEW w \in Workers, Handler(w)
    PROVE  SplitInv'
<1> DEFINE d == req[w].email
<1>1. req[w] # Absent
  BY DEF Handler, VerifySpend, LinkSpend, Spend, Serving, VerifyResolve, VerifyCreate,
     VerifySeal, LinkCheck, LinkClaim, OAuthMatch, OAuthMatchLinked, OAuthSave, OAuthAttach,
     OAuthLink, OAuthEnroll, OAuthBind, OAuthLogin
<1>2. ASSUME Quiet(w), UNCHANGED <<known, primary, linked, excused>> PROVE SplitInv'
  BY <1>2, QuietCalm, CalmSplits
<1>3. CASE VerifySpend(w) \/ LinkSpend(w)
  BY <1>1, <1>2, <1>3, QuietMoves DEF VerifySpend, LinkSpend, Spend, rows
<1>4. CASE VerifyResolve(w)
  <2>1. CASE Done(w) /\ UNCHANGED excused
    BY <1>1, <1>2, <1>4, <2>1, QuietMoves DEF VerifyResolve
  <2>2. CASE Step(w, "otp_create") /\ Excuse(w, d, linked[d] # Absent)
    <3>1. \/ Excuse(w, d, FALSE)
          \/ excused' = excused \cup {d}
      BY <2>2 DEF Excuse
    <3>2. linked[d] = Absent \/ d \in excused'
      BY <2>2 DEF Excuse
    <3> QED
      BY <1>1, <1>4, <2>2, <3>1, <3>2, EnterSplits DEF VerifyResolve, Serving, ClaimOps
  <2> QED BY <1>4, <2>1, <2>2 DEF VerifyResolve
<1>5. CASE VerifyCreate(w)
  <2>1. Claiming(w, d) /\ req[w] \in Claims
    BY <1>1, <1>5, ReqFields DEF VerifyCreate, Serving, Claiming, ClaimOps
  <2>2. ASSUME NEW u \in Users \ known, Fits(d), Provision(u, d),
               Serve(w, [req[w] EXCEPT !.op = "otp_seal", !.user = u])
        PROVE  SplitInv'
    <3>1. [req[w] EXCEPT !.op = "otp_seal", !.user = u].op = "otp_seal"
      BY <2>1 DEF Claims
    <3>2. req'[w].op = "otp_seal" /\ \A v \in Workers \ {w} : req'[v] = req[v]
      BY <2>2, <3>1 DEF Serve, TypeOK
    <3> QED BY <1>5, <2>1, <2>2, <3>2, ProvisionSplits DEF VerifyCreate, Serving
  <2>3. CASE Done(w) /\ UNCHANGED <<known, primary>>
    BY <1>1, <1>2, <1>5, <2>3, QuietMoves DEF VerifyCreate
  <2> QED BY <1>5, <2>2, <2>3 DEF VerifyCreate
<1>12. CASE VerifySeal(w)
  BY <1>1, <1>2, <1>12, QuietMoves DEF VerifySeal
<1>6. CASE LinkCheck(w)
  <2>1. CASE Step(w, "link_claim") /\ Excuse(w, d, FALSE) /\ Unclaimed(d)
    BY <1>1, <1>6, <2>1, EnterSplits DEF LinkCheck, Unclaimed, rows, Serving, ClaimOps
  <2>2. CASE Done(w) /\ UNCHANGED excused
    BY <1>1, <1>2, <1>6, <2>2, QuietMoves DEF LinkCheck, rows
  <2> QED BY <1>6, <2>1, <2>2 DEF LinkCheck
<1>7. CASE LinkClaim(w)
  BY <1>7, ClaimSplits
<1>8. CASE OAuthMatch(w)
  <2>1. Quiet(w)
    BY <1>1, <1>8, QuietMoves DEF OAuthMatch
  <2> QED BY <1>2, <1>8, <2>1 DEF OAuthMatch, rows
<1>9. CASE OAuthMatchLinked(w)
  <2>1. CASE Resolve(w, linked[d]) /\ UNCHANGED excused
    <3>1. Quiet(w)
      BY <1>1, <1>9, <2>1, QuietMoves DEF OAuthMatchLinked
    <3> QED BY <1>2, <1>9, <2>1, <3>1 DEF OAuthMatchLinked, rows
  <2>2. CASE linked[d] = Absent /\ Step(w, "enroll") /\ Excuse(w, d, FALSE)
    BY <1>1, <1>9, <2>2, EnterSplits DEF OAuthMatchLinked, rows, Serving, LookupOps
  <2> QED BY <1>9, <2>1, <2>2 DEF OAuthMatchLinked
<1>10. CASE \/ OAuthSave(w) \/ OAuthAttach(w) \/ OAuthLink(w) \/ OAuthBind(w)
            \/ OAuthLogin(w)
  <2>1. Quiet(w)
    BY <1>1, <1>10, QuietMoves DEF OAuthSave, OAuthAttach, OAuthLink, OAuthBind, OAuthLogin
  <2> QED
    BY <1>2, <1>10, <2>1 DEF OAuthSave, OAuthAttach, OAuthLink, OAuthBind, OAuthLogin, rows
<1>11. CASE OAuthEnroll(w)
  <2>1. Claiming(w, d)
    BY <1>11 DEF OAuthEnroll, Serving, Claiming
  <2>2. ASSUME NEW u \in Users \ known, Fits(d), Provision(u, d), Merge(w, "bind", u, FALSE)
        PROVE  SplitInv'
    <3>1. req'[w].op = "bind" /\ \A v \in Workers \ {w} : req'[v] = req[v]
      BY <2>2 DEF Merge, Serve, TypeOK
    <3> QED BY <1>11, <2>1, <2>2, <3>1, ProvisionSplits DEF OAuthEnroll, Serving
  <2>3. CASE Done(w) /\ UNCHANGED <<known, primary>>
    BY <1>1, <1>2, <1>11, <2>3, QuietMoves DEF OAuthEnroll
  <2> QED BY <1>11, <2>2, <2>3 DEF OAuthEnroll
<1> QED
  BY <1>3, <1>4, <1>5, <1>6, <1>7, <1>8, <1>9, <1>10, <1>11, <1>12 DEF Handler

LEMMA SplitStep ==
    ASSUME TypeOK, SplitInv, Next
    PROVE  SplitInv'
<1>1. ASSUME NEW w \in Workers, NEW e \in Emails, Start(w, e)
      PROVE  SplitInv'
  <2>1. Quiet(w) \/ req' = req
    BY <1>1 DEF Start, VerifyRead, LinkRemove, LinkRead, OAuthBegin, LogIn,
       Serve, Quiet, TypeOK
  <2>2. UNCHANGED <<known, primary, excused>>
    BY <1>1 DEF Start, VerifyRead, LinkRemove, LinkRead, OAuthBegin, rows
  <2>3. \A d \in Emails : linked'[d] \in {linked[d], Absent}
    BY <1>1 DEF Start, VerifyRead, LinkRemove, LinkRead, OAuthBegin,
       rows, TypeOK
  <2>4. Calm
    BY <2>1, <2>2, <2>3, QuietCalm DEF Calm, Claiming
  <2> QED BY <2>4, CalmSplits
<1>2. CASE \/ \E w \in Workers, e \in Emails, n \in Codes : Challenge(w, e, n)
           \/ \E w \in Workers : WorkerRestart(w)
           \/ \E u \in Users : Graduate(u)
           \/ \E b \in Backends, k \in Keys : Lapse(b, k)
  <2>1. \A v \in Workers : req'[v] # Absent => req'[v] = req[v]
    BY <1>2 DEF Challenge, Mail, WorkerRestart, Graduate, Lapse, Done, Serve, TypeOK
  <2>2. UNCHANGED <<known, primary, excused, linked>>
    BY <1>2 DEF Challenge, Mail, WorkerRestart, Graduate, Lapse, rows
  <2>3. Calm
    BY <2>1, <2>2 DEF Calm, Claiming
  <2> QED BY <2>3, CalmSplits
<1> QED BY <1>1, <1>2, HandlerSplits, StepCases

\* One account comes of an address, whatever is spent twice, races or fails;
\* a second one has it only as a linked address, and only where a sign-in by
\* mail found it linked or two requests were about to claim it.
THEOREM SplitsAreExplained == Spec => []SplitsExplained
<1>1. Init => SplitInv
  BY EmailAssumption DEF Init, SplitInv, OnePrimary, IsPrimary, Tidy, Claiming
<1>2. SplitInv /\ TypeOK /\ [Next]_vars => SplitInv'
  <2>1. SplitInv /\ UNCHANGED vars => SplitInv'
    BY DEF SplitInv, OnePrimary, IsPrimary, Tidy, Free, Claiming, vars
  <2> QED BY <2>1, SplitStep
<1>3. SplitInv /\ TypeOK => SplitsExplained
  BY EmailAssumption
     DEF SplitInv, OnePrimary, Tidy, SplitsExplained, Owners, Free, TypeOK
<1> QED BY <1>1, <1>2, <1>3, TypeCorrect, PTL DEF Spec

-----------------------------------------------------------------------------
(* What OneAccountPerAddress, which two accounts can violate, hangs on.    *)

\* Never are two requests about to claim one address.
NoRacingClaims ==
    \A e \in Emails, v, w \in Workers : Claiming(v, e) /\ Claiming(w, e) => v = w

\* A sign-in by mail whose address is nobody's primary one is not linked
\* either: what a look at the locker would tell.
NoBlindSignIns ==
    \A w \in Workers :
        Serving(w, "otp_resolve") /\ Free(req[w].email) => linked[req[w].email] = Absent

\* A claim that is alone and not blind needs no excuse.
LEMMA EnterAlone ==
    ASSUME TypeOK, NEW w \in Workers, NEW op \in {"otp_create", "link_claim", "enroll"},
           req[w] # Absent, Onward(w, op), Step(w, op),
           Excuse(w, req[w].email, FALSE), NoRacingClaims'
    PROVE  excused' = excused
<1>1. PICK d \in Emails : d = req[w].email
  BY ReqFields DEF Onward, ClaimOps, LookupOps, MergeOps
<1>2. /\ req'[w].op = op /\ req'[w].email = d
      /\ \A v \in Workers \ {w} : req'[v] = req[v]
  BY <1>1, StepIs DEF Onward, ClaimOps, LookupOps, MergeOps
<1>3. req'[w] # Absent
  <2>1. req'[w] = [req[w] EXCEPT !.op = op]
    BY DEF Step, Serve, TypeOK
  <2>2. CASE req[w].op \in ClaimOps /\ op \in ClaimOps
    <3>1. [req[w] EXCEPT !.op = op] \in Claims
      BY <2>2, ReqFields DEF Claims, ClaimOps
    <3> QED BY <2>1, <3>1, EmailAssumption
  <2>3. CASE req[w].op \in LookupOps /\ op \in LookupOps
    <3>1. [req[w] EXCEPT !.op = op] \in Lookups
      BY <2>3, ReqFields DEF Lookups, LookupOps
    <3> QED BY <2>1, <3>1, EmailAssumption DEF OAuth
  <2> QED BY <2>2, <2>3 DEF Onward, MergeOps
<1>4. Claiming(w, d)'
  BY <1>2, <1>3 DEF Claiming
<1>5. ASSUME NEW v \in Workers \ {w}, Claiming(v, d) PROVE FALSE
  <2>1. Claiming(v, d)'
    BY <1>2, <1>5 DEF Claiming
  <2> QED BY <1>4, <2>1 DEF NoRacingClaims
<1> QED BY <1>1, <1>5 DEF Excuse

LEMMA NeedsNoExcuse ==
    ASSUME TypeOK, Next, NoBlindSignIns, NoRacingClaims'
    PROVE  excused' = excused
<1>1. ASSUME NEW w \in Workers, VerifyResolve(w) PROVE excused' = excused
  <2>1. req[w] # Absent /\ Serving(w, "otp_resolve")
    BY <1>1 DEF VerifyResolve, Serving
  <2>2. CASE Free(req[w].email) /\ Step(w, "otp_create")
             /\ Excuse(w, req[w].email, linked[req[w].email] # Absent)
    <3>1. Excuse(w, req[w].email, FALSE)
      BY <2>1, <2>2 DEF NoBlindSignIns, Excuse
    <3> QED BY <2>1, <2>2, <3>1, EnterAlone DEF Serving, Onward, ClaimOps
  <2> QED BY <1>1, <2>2 DEF VerifyResolve
<1>2. ASSUME NEW w \in Workers, LinkCheck(w) PROVE excused' = excused
  BY <1>2, EnterAlone DEF LinkCheck, Serving, Onward, ClaimOps
<1>3. ASSUME NEW w \in Workers, OAuthMatchLinked(w) PROVE excused' = excused
  BY <1>3, EnterAlone DEF OAuthMatchLinked, Serving, Onward, LookupOps
<1>4. ASSUME NEW w \in Workers, Handler(w),
             ~VerifyResolve(w), ~LinkCheck(w), ~OAuthMatchLinked(w)
      PROVE  excused' = excused
  BY <1>4
     DEF Handler, VerifySpend, Spend, VerifyCreate, VerifySeal, LinkSpend, LinkClaim,
         OAuthMatch, OAuthSave, OAuthAttach, OAuthLink, OAuthEnroll, OAuthBind, OAuthLogin
<1>5. ASSUME NEW w \in Workers, NEW e \in Emails,
             Start(w, e) \/ \E n \in Codes : Challenge(w, e, n)
      PROVE  excused' = excused
  BY <1>5 DEF Start, VerifyRead, LinkRemove, LinkRead, OAuthBegin,
     Challenge, Mail
<1> QED
  BY <1>1, <1>2, <1>3, <1>4, <1>5, StepCases DEF WorkerRestart, Graduate, Lapse

\* If a sign-in by mail looked at the linked addresses too, and an address were
\* reserved while a request is about to claim it, it would be of one account
\* at any time: nothing else breaks what the documentation says.
THEOREM SplitsHaveTwoCauses ==
    Spec /\ []NoBlindSignIns /\ []NoRacingClaims => []OneAccountPerAddress
<1> DEFINE Unexcused == excused = {}
<1>1. Init => Unexcused
  BY DEF Init
<1>2. /\ Unexcused /\ TypeOK /\ NoBlindSignIns /\ NoRacingClaims' /\ [Next]_vars
      => Unexcused'
  BY NeedsNoExcuse DEF vars
<1>3. Unexcused /\ SplitsExplained => OneAccountPerAddress
  BY DEF SplitsExplained, OneAccountPerAddress
<1> QED BY <1>1, <1>2, <1>3, TypeCorrect, SplitsAreExplained, PTL DEF Spec

-----------------------------------------------------------------------------
(* Identities.                                                             *)

\* An identity on file stays there.
LEMMA StaysOnFile ==
    ASSUME TypeOK, NEW w \in Workers, Handler(w), NEW p \in Profiles, identity[p] # Absent
    PROVE  identity'[p] = identity[p]
BY DEF Handler, VerifySpend, LinkSpend, Spend, VerifyResolve, VerifyCreate, VerifySeal,
   LinkCheck, LinkClaim, OAuthMatch, OAuthMatchLinked, OAuthSave, OAuthAttach, OAuthLink,
   OAuthEnroll, OAuthBind, OAuthLogin, File, rows, TypeOK

\* How a request comes to sign in.
LEMMA LogsIn ==
    ASSUME TypeOK, NEW w \in Workers, Handler(w), Serving(w, "login")'
    PROVE  /\ OAuthAttach(w) \/ OAuthLink(w) \/ OAuthBind(w)
           /\ req[w] \in Merges /\ LogIn(w, req[w].user)
<1>1. ~Done(w)
  BY DEF Serving, Done, Serve, TypeOK
<1>2. req[w] # Absent
  BY DEF Handler, VerifySpend, LinkSpend, Spend, Serving, VerifyResolve, VerifyCreate,
     VerifySeal, LinkCheck, LinkClaim, OAuthMatch, OAuthMatchLinked, OAuthSave, OAuthAttach,
     OAuthLink, OAuthEnroll, OAuthBind, OAuthLogin
<1>3. ASSUME NEW op, Step(w, op) PROVE op = "login"
  BY <1>2, <1>3, StepIs DEF Serving
<1>4. ASSUME NEW op, NEW u, NEW own, Merge(w, op, u, own) PROVE op = "login"
  BY <1>4 DEF Serving, Merge, Serve, TypeOK
<1>5. ~VerifyCreate(w)
  <2>1. ASSUME NEW u, Serving(w, "otp_create"),
               Serve(w, [req[w] EXCEPT !.op = "otp_seal", !.user = u])
        PROVE  FALSE
    <3>1. req[w] \in Claims
      BY <2>1, ReqFields DEF Serving, ClaimOps
    <3> QED BY <2>1, <3>1 DEF Claims, Serving, Serve, TypeOK
  <2> QED BY <1>1, <2>1 DEF VerifyCreate
<1>6. ~VerifySpend(w) /\ ~LinkSpend(w) /\ ~VerifyResolve(w) /\ ~VerifySeal(w)
      /\ ~LinkCheck(w) /\ ~LinkClaim(w) /\ ~OAuthSave(w) /\ ~OAuthLogin(w)
  BY <1>1, <1>3 DEF VerifySpend, LinkSpend, Spend, VerifyResolve, VerifySeal, LinkCheck,
     LinkClaim, OAuthSave, OAuthLogin
<1>7. ~OAuthMatch(w) /\ ~OAuthMatchLinked(w) /\ ~OAuthEnroll(w)
  BY <1>1, <1>3, <1>4, ResolveCases DEF OAuthMatch, OAuthMatchLinked, OAuthEnroll
<1>8. OAuthAttach(w) \/ OAuthLink(w) \/ OAuthBind(w)
  BY <1>5, <1>6, <1>7 DEF Handler
<1> QED
  BY <1>1, <1>2, <1>3, <1>8, ReqFields DEF OAuthAttach, OAuthLink, OAuthBind, Serving, MergeOps

LEMMA OnFileStep ==
    ASSUME TypeOK, IdentityOnFile, Next
    PROVE  IdentityOnFile'
<1>1. ASSUME NEW w \in Workers, Handler(w) PROVE IdentityOnFile'
  <2>1. \A v \in Workers \ {w} : req'[v] = req[v]
    BY <1>1 DEF Handler, VerifySpend, LinkSpend, Spend, VerifyResolve, VerifyCreate,
       VerifySeal, LinkCheck, LinkClaim, OAuthMatch, OAuthMatchLinked, Resolve, OAuthSave,
       OAuthAttach, OAuthLink, OAuthEnroll, OAuthBind, OAuthLogin, Step, Merge, LogIn, Done,
       Serve, TypeOK
  <2>2. ASSUME NEW v \in Workers \ {w}, Serving(v, "login")'
        PROVE  \E p \in Profiles : identity'[p] = req'[v].user
    <3>1. Serving(v, "login") /\ req'[v] = req[v]
      BY <2>1, <2>2 DEF Serving
    <3>2. PICK p \in Profiles : identity[p] = req[v].user
      BY <3>1 DEF IdentityOnFile
    <3>3. req[v].user # Absent
      BY <3>1, EmailAssumption
         DEF Serving, TypeOK, Claims, OAuth, Lookups, Merges, Logins
    <3> QED BY <1>1, <3>1, <3>2, <3>3, StaysOnFile
  <2>3. ASSUME Serving(w, "login")'
        PROVE  \E p \in Profiles : identity'[p] = req'[w].user
    <3>1. /\ OAuthAttach(w) \/ OAuthLink(w) \/ OAuthBind(w)
          /\ req[w] \in Merges /\ LogIn(w, req[w].user)
      BY <1>1, <2>3, LogsIn
    <3>2. req'[w].user = req[w].user /\ ~Done(w) /\ ~Step(w, "link")
      <4>1. req'[w] = [op |-> "login", user |-> req[w].user]
        BY <3>1 DEF LogIn, Serve, TypeOK
      <4>2. req'[w] # Absent
        BY <2>3 DEF Serving
      <4>3. [req[w] EXCEPT !.op = "link"].op = "link"
        BY <3>1 DEF Merges
      <4> QED BY <4>1, <4>2, <4>3 DEF Done, Step, Serve, TypeOK
    <3>3. CASE OAuthAttach(w)
      BY <3>2, <3>3 DEF OAuthAttach, Sole, Held, rows
    <3>4. CASE OAuthLink(w)
      BY <3>1, <3>2, <3>4 DEF OAuthLink, File, Sole, Held, Merges, TypeOK
    <3>5. CASE OAuthBind(w)
      BY <3>1, <3>2, <3>5 DEF OAuthBind, File, Merges, TypeOK
    <3> QED BY <3>1, <3>3, <3>4, <3>5
  <2> QED BY <2>2, <2>3 DEF IdentityOnFile
<1>2. ASSUME NEW w \in Workers, NEW e \in Emails, Start(w, e) PROVE IdentityOnFile'
  <2>1. identity' = identity
    BY <1>2 DEF Start, VerifyRead, LinkRemove, LinkRead, OAuthBegin, rows
  <2>2. \A v \in Workers : Serving(v, "login")' =>
            req'[v] = req[v] \/ \E p \in Profiles : req'[v].user = identity[p]
    BY <1>2 DEF Start, VerifyRead, LinkRemove, LinkRead, OAuthBegin, LogIn, Serve, Serving,
       TypeOK
  <2> QED BY <2>1, <2>2 DEF IdentityOnFile, Serving
<1>3. CASE \/ \E w \in Workers, e \in Emails, n \in Codes : Challenge(w, e, n)
           \/ \E w \in Workers : WorkerRestart(w)
           \/ \E u \in Users : Graduate(u)
           \/ \E b \in Backends, k \in Keys : Lapse(b, k)
  <2>1. \A v \in Workers : req'[v] # Absent => req'[v] = req[v]
    BY <1>3 DEF Challenge, Mail, WorkerRestart, Graduate, Lapse, Done, Serve, TypeOK
  <2>2. identity' = identity
    BY <1>3 DEF Challenge, Mail, WorkerRestart, Graduate, Lapse, rows
  <2> QED BY <2>1, <2>2 DEF IdentityOnFile, Serving
<1> QED BY <1>1, <1>2, <1>3, StepCases

\* Whoever a profile signs in has an identity on file, whatever raced it.
THEOREM SignInsAreOnFile == Spec => []IdentityOnFile
<1>1. Init => IdentityOnFile
  BY DEF Init, IdentityOnFile, Serving
<1>2. IdentityOnFile /\ TypeOK /\ [Next]_vars => IdentityOnFile'
  <2>1. IdentityOnFile /\ UNCHANGED vars => IdentityOnFile'
    BY DEF IdentityOnFile, Serving, vars
  <2> QED BY <2>1, OnFileStep
<1> QED BY <1>1, <1>2, TypeCorrect, PTL DEF Spec

-----------------------------------------------------------------------------
(* Sovereign accounts.                                                     *)

\* Accounts that graduated while no request had their row in hand; accounts
\* that graduated at all.
Clear == sovereign \ overtaken
Graduated == sovereign \cup overtaken

\* Who merges a profile into a clear account read that it is sovereign, and was
\* signed in to it; nobody else has its row.
Guarded(q) ==
    /\ q.op \in MergeOps =>
        /\ q.user \in Clear => q.standing = "sovereign" /\ q.own
        /\ q.standing = "sovereign" => q.user \in Graduated
    /\ q.op = "otp_seal" => q.user \notin Clear

GuardInv ==
    /\ Graduated \subseteq known
    /\ \A w \in Workers : req[w] # Absent => Guarded(req[w])

\* No handler makes a clear account managed, or any sovereign that has not
\* graduated.
LEMMA SavesKeep ==
    ASSUME TypeOK, GuardInv, NEW w \in Workers, Handler(w)
    PROVE  Clear' = Clear /\ Graduated' = Graduated /\ Clear \subseteq sovereign'
<1>1. ASSUME NEW u, NEW standing, Save(u, standing), overtaken' = overtaken,
             u \in Clear => standing = "sovereign",
             standing = "sovereign" => u \in Graduated
      PROVE  Clear' = Clear /\ Graduated' = Graduated /\ Clear \subseteq sovereign'
  BY <1>1 DEF Save, Clear, Graduated
<1>2. CASE VerifySeal(w)
  <2>1. Guarded(req[w])
    BY <1>2 DEF GuardInv, VerifySeal, Serving
  <2> QED BY <1>1, <1>2, <2>1 DEF VerifySeal, Serving, Guarded
<1>3. CASE OAuthSave(w) \/ OAuthBind(w)
  <2>1. Guarded(req[w])
    BY <1>3 DEF GuardInv, OAuthSave, OAuthBind, Serving
  <2>2. req[w].op \in MergeOps
    BY <1>3 DEF OAuthSave, OAuthBind, Serving, MergeOps
  <2> QED BY <1>1, <1>3, <2>1, <2>2 DEF OAuthSave, OAuthBind, Guarded
<1>4. CASE ~VerifySeal(w) /\ ~OAuthSave(w) /\ ~OAuthBind(w)
  <2>1. UNCHANGED <<sovereign, overtaken>>
    BY <1>4 DEF Handler, VerifySpend, LinkSpend, Spend, VerifyResolve, VerifyCreate,
       LinkCheck, LinkClaim, OAuthMatch, OAuthMatchLinked, OAuthAttach, OAuthLink,
       OAuthEnroll, OAuthLogin, rows
  <2> QED BY <2>1 DEF Clear, Graduated
<1> QED BY <1>2, <1>3, <1>4

\* What a handler makes of its own request.
LEMMA GuardedByStep ==
    ASSUME TypeOK, GuardInv, NEW w \in Workers, Handler(w), req'[w] # Absent
    PROVE  Guarded(req[w])'
<1>1. Clear' = Clear /\ Graduated' = Graduated
  BY SavesKeep
<1>2. req[w] # Absent /\ Guarded(req[w]) /\ ~Done(w)
  BY DEF GuardInv, Handler, VerifySpend, LinkSpend, Spend, Serving, VerifyResolve,
     VerifyCreate, VerifySeal, LinkCheck, LinkClaim, OAuthMatch, OAuthMatchLinked, OAuthSave,
     OAuthAttach, OAuthLink, OAuthEnroll, OAuthBind, OAuthLogin, Done, Serve, TypeOK
<1>3. ASSUME NEW op, Step(w, op),
             op \notin MergeOps \cup {"otp_seal"} \/ (req[w].op \in MergeOps /\ op \in MergeOps)
      PROVE  Guarded(req[w])'
  BY <1>1, <1>2, <1>3, StepIs DEF Guarded, MergeOps
<1>4. ASSUME NEW u, LogIn(w, u) PROVE Guarded(req[w])'
  BY <1>4 DEF LogIn, Serve, TypeOK, Guarded, MergeOps
<1>5. ASSUME NEW u, NEW op \in MergeOps, NEW own, Merge(w, op, u, own),
             u \in sovereign => own
      PROVE  Guarded(req[w])'
  <2>1. req'[w].op = op /\ req'[w].user = u /\ req'[w].own = own
        /\ req'[w].standing = Standing(u)
    BY <1>5 DEF Merge, Serve, TypeOK
  <2> QED BY <1>1, <1>5, <2>1 DEF Guarded, Standing, Clear, Graduated, MergeOps
<1>6. ASSUME VerifyCreate(w) PROVE Guarded(req[w])'
  <2>1. PICK u \in Users \ known : Serve(w, [req[w] EXCEPT !.op = "otp_seal", !.user = u])
    BY <1>2, <1>6 DEF VerifyCreate
  <2>2. req[w] \in Claims
    BY <1>2, <1>6, ReqFields DEF VerifyCreate, Serving, ClaimOps
  <2>3. req'[w].op = "otp_seal" /\ req'[w].user = u
    BY <2>1, <2>2 DEF Serve, TypeOK, Claims
  <2>4. u \notin Clear
    BY DEF GuardInv, Graduated, Clear
  <2> QED BY <1>1, <2>3, <2>4 DEF Guarded, MergeOps
<1>7. ASSUME OAuthEnroll(w) PROVE Guarded(req[w])'
  <2>1. PICK u \in Users \ known : Merge(w, "bind", u, FALSE)
    BY <1>2, <1>7 DEF OAuthEnroll
  <2>2. u \notin sovereign
    BY DEF GuardInv, Graduated
  <2> QED BY <1>5, <2>1, <2>2 DEF MergeOps
<1>8. ASSUME OAuthMatch(w) \/ OAuthMatchLinked(w) PROVE Guarded(req[w])'
  <2>1. ASSUME NEW u, Resolve(w, u) PROVE Guarded(req[w])'
    BY <1>2, <1>5, <2>1, ResolveCases DEF Admits, MergeOps
  <2> QED BY <1>3, <1>8, <2>1 DEF OAuthMatch, OAuthMatchLinked, MergeOps
<1>9. ASSUME OAuthSave(w) \/ OAuthAttach(w) \/ OAuthLink(w) \/ OAuthBind(w)
      PROVE  Guarded(req[w])'
  <2>1. req[w].op \in MergeOps
    BY <1>9 DEF OAuthSave, OAuthAttach, OAuthLink, OAuthBind, Serving, MergeOps
  <2> QED
    BY <1>2, <1>3, <1>4, <1>9, <2>1 DEF OAuthSave, OAuthAttach, OAuthLink, OAuthBind, MergeOps
<1>10. ASSUME VerifySpend(w) \/ LinkSpend(w) \/ VerifyResolve(w) \/ LinkCheck(w)
       PROVE  Guarded(req[w])'
  BY <1>2, <1>3, <1>10 DEF VerifySpend, LinkSpend, Spend, VerifyResolve, LinkCheck, MergeOps
<1> QED
  BY <1>2, <1>6, <1>7, <1>8, <1>9, <1>10 DEF Handler, VerifySeal, LinkClaim, OAuthLogin

LEMMA GuardStep ==
    ASSUME TypeOK, GuardInv, Next
    PROVE  GuardInv' /\ Clear \subseteq sovereign'
<1>1. ASSUME NEW w \in Workers, Handler(w) PROVE GuardInv' /\ Clear \subseteq sovereign'
  <2>1. Clear' = Clear /\ Graduated' = Graduated /\ Clear \subseteq sovereign'
    BY <1>1, SavesKeep
  <2>2. \A v \in Workers \ {w} : req'[v] = req[v]
    BY <1>1 DEF Handler, VerifySpend, LinkSpend, Spend, VerifyResolve, VerifyCreate,
       VerifySeal, LinkCheck, LinkClaim, OAuthMatch, OAuthMatchLinked, Resolve, OAuthSave,
       OAuthAttach, OAuthLink, OAuthEnroll, OAuthBind, OAuthLogin, Step, Merge, LogIn, Done,
       Serve, TypeOK
  <2>3. \A v \in Workers \ {w} : req'[v] # Absent => Guarded(req[v])'
    BY <2>1, <2>2 DEF GuardInv, Guarded
  <2>4. known \subseteq known'
    BY <1>1 DEF Handler, VerifySpend, LinkSpend, Spend, VerifyResolve, VerifyCreate,
       VerifySeal, LinkCheck, LinkClaim, OAuthMatch, OAuthMatchLinked, OAuthSave,
       OAuthAttach, OAuthLink, OAuthEnroll, OAuthBind, OAuthLogin, Provision, rows
  <2> QED BY <1>1, <2>1, <2>3, <2>4, GuardedByStep DEF GuardInv
<1>2. ASSUME NEW w \in Workers, NEW e \in Emails, Start(w, e)
      PROVE  GuardInv' /\ Clear \subseteq sovereign'
  <2>1. UNCHANGED <<known, sovereign, overtaken>>
    BY <1>2 DEF Start, VerifyRead, LinkRemove, LinkRead, OAuthBegin, rows
  <2>2. \A v \in Workers : req'[v] = req[v]
            \/ req'[v].op \in {"otp_spend", "link_spend", "match", "login"}
    BY <1>2 DEF Start, VerifyRead, LinkRemove, LinkRead, OAuthBegin, LogIn, Serve, TypeOK
  <2> QED BY <2>1, <2>2 DEF GuardInv, Guarded, Clear, Graduated, MergeOps
<1>3. CASE \/ \E w \in Workers, e \in Emails, n \in Codes : Challenge(w, e, n)
           \/ \E w \in Workers : WorkerRestart(w)
           \/ \E b \in Backends, k \in Keys : Lapse(b, k)
  <2>1. \A v \in Workers : req'[v] # Absent => req'[v] = req[v]
    BY <1>3 DEF Challenge, Mail, WorkerRestart, Lapse, Done, Serve, TypeOK
  <2>2. UNCHANGED <<known, sovereign, overtaken>>
    BY <1>3 DEF Challenge, Mail, WorkerRestart, Lapse, rows
  <2> QED BY <2>1, <2>2 DEF GuardInv, Guarded, Clear, Graduated
<1>4. ASSUME NEW u \in Users, Graduate(u) PROVE GuardInv' /\ Clear \subseteq sovereign'
  <2>1. /\ known' = known /\ req' = req /\ u \in known
        /\ Graduated' = Graduated \cup {u} /\ Clear \subseteq sovereign'
        /\ Clear' \subseteq Clear \cup {u}
    BY <1>4 DEF Graduate, Graduated, Clear
  <2>2. ASSUME NEW w \in Workers, req[w] # Absent, u \in Clear',
               req[w].op \in MergeOps \cup {"otp_seal"}
        PROVE  req[w].user # u
    <3>1. ~InHand(w, u)
      BY <1>4, <2>2 DEF Graduate, Clear
    <3> QED BY <2>2, <3>1, ReqFields DEF InHand
  <2> QED BY <2>1, <2>2 DEF GuardInv, Guarded
<1> QED BY <1>1, <1>2, <1>3, <1>4, StepCases

\* An account that graduates while no request has its row in hand stays
\* sovereign, and only a browser signed in to it gives it an identity: who
\* filed one was guarded, and so was every whole-row save.
THEOREM SovereignsAreGuarded == Spec => SovereignGuarded
<1> DEFINE Kept == \A u \in sovereign \ overtaken :
                        /\ u \in sovereign'
                        /\ \A w \in Workers : Files(w, u) => req[w].own
<1>1. Init => GuardInv
  BY DEF Init, GuardInv, Graduated
<1>2. GuardInv /\ TypeOK /\ [Next]_vars => GuardInv' /\ [Kept]_vars
  <2>1. GuardInv /\ UNCHANGED vars => GuardInv'
    BY DEF GuardInv, Guarded, Clear, Graduated, vars
  <2>2. ASSUME TypeOK, GuardInv, Next PROVE GuardInv' /\ Kept
    <3>1. GuardInv' /\ Clear \subseteq sovereign'
      BY <2>2, GuardStep
    <3>2. ASSUME NEW u \in Clear, NEW w \in Workers, Files(w, u) PROVE req[w].own
      BY <2>2, <3>2 DEF Files, Serving, GuardInv, Guarded, MergeOps
    <3> QED BY <3>1, <3>2 DEF Clear
  <2> QED BY <2>1, <2>2
<1> QED BY <1>1, <1>2, TypeCorrect, PTL DEF Spec, SovereignGuarded
=============================================================================

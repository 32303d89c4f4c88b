------------------------ MODULE ChallengeLoginProofs ------------------------
(***************************************************************************)
(* What holds of ChallengeLogin for every number of workers, challenges,   *)
(* holders and tabs and every way the cache may fail: type correctness, a  *)
(* session only for who signed, and the bound on reuse.  The argument for  *)
(* the bound: a worker that can still read a challenge, or is serving a    *)
(* request that did, has granted fewer sign-ins than the challenge has     *)
(* copies; a sign-in ends with a delete that takes both copies the worker  *)
(* can read away, or counts as a copy if it never reached Redis.           *)
(***************************************************************************)
EXTENDS ChallengeLogin, TLAPS

\* A set or a delete changes one key, in Redis and in the worker's LocMem.
LEMMA AfterSetEffect ==
    ASSUME store \in [Backends -> [Keys -> Entries \cup {Absent}]],
           NEW r, NEW w \in Workers, NEW c \in Keys,
           NEW e \in Entries \cup {Absent},
           store' = AfterSet(r, w, c, e)
    PROVE  /\ store' \in [Backends -> [Keys -> Entries \cup {Absent}]]
           /\ \A b \in Backends, k \in Keys :
                store'[b][k] = store[b][k] \/ (k = c /\ store'[b][k] = e)
           /\ store'[w][c] = e
           /\ Executed(r) => store'[Redis][c] = e
<1>1. w \in Backends /\ Redis \in Backends /\ w # Redis
  BY CacheAssumption DEF Backends
<1>2. store' \in [Backends -> [Keys -> Entries \cup {Absent}]]
  BY DEF AfterSet, Executed
<1>3. \A b \in Backends, k \in Keys :
        store'[b][k] = store[b][k] \/ (k = c /\ store'[b][k] = e)
  BY DEF AfterSet, Executed
<1>4. store'[w][c] = e /\ (Executed(r) => store'[Redis][c] = e)
  BY <1>1 DEF AfterSet, Executed
<1> QED
  BY <1>2, <1>3, <1>4

\* Losing entries only ever makes them absent.
LEMMA LossEffect ==
    ASSUME store \in [Backends -> [Keys -> Entries \cup {Absent}]],
           NEW b \in Backends,
           store' = Forget(b) \/ \E c \in Keys : store' = Drop(b, c)
    PROVE  /\ store' \in [Backends -> [Keys -> Entries \cup {Absent}]]
           /\ \A a \in Backends, k \in Keys :
                store'[a][k] = store[a][k] \/ store'[a][k] = Absent
  BY DEF Drop, Forget, Empty

-----------------------------------------------------------------------------

\* Every write of a challenge stores an entry and counts it.
LEMMA StoreEffect ==
    ASSUME TypeOK, NEW w \in Workers, NEW c \in Keys, NEW e \in Entries,
           Store(w, c, e)
    PROVE  /\ store' \in [Backends -> [Keys -> Entries \cup {Absent}]]
           /\ \A b \in Backends, k \in Keys :
                store'[b][k] = store[b][k] \/ (k = c /\ store'[b][k] = e)
           /\ copies' \in [Keys -> Nat]
           /\ copies'[c] = copies[c] + 1
           /\ \A k \in Keys : k # c => copies'[k] = copies[k]
<1>1. PICK r \in RedisOutcomes : store' = AfterSet(r, w, c, e)
  BY DEF Store
<1>2. /\ store' \in [Backends -> [Keys -> Entries \cup {Absent}]]
      /\ \A b \in Backends, k \in Keys :
            store'[b][k] = store[b][k] \/ (k = c /\ store'[b][k] = e)
  <2>1. /\ e \in Entries \cup {Absent}
        /\ store \in [Backends -> [Keys -> Entries \cup {Absent}]]
    BY DEF TypeOK
  <2> QED
    BY <1>1, <2>1 DEF AfterSet, Executed
<1>3. copies \in [Keys -> Nat] /\ copies' = [copies EXCEPT ![c] = @ + 1]
  BY DEF Store, TypeOK
<1> QED
  BY <1>2, <1>3

\* A delete leaves the worker unable to read the challenge, or is counted.
LEMMA ConsumeEffect ==
    ASSUME TypeOK, NEW w \in Workers, NEW c \in Keys, Consume(w, c)
    PROVE  /\ store' \in [Backends -> [Keys -> Entries \cup {Absent}]]
           /\ \A b \in Backends, k \in Keys :
                store'[b][k] = store[b][k] \/ store'[b][k] = Absent
           /\ copies' \in [Keys -> Nat]
           /\ \A k \in Keys : copies'[k] >= copies[k]
           /\ \/ copies'[c] = copies[c] + 1
              \/ store'[w][c] = Absent /\ store'[Redis][c] = Absent
<1>1. PICK r \in RedisOutcomes :
        /\ store' = AfterDelete(r, w, c)
        /\ copies' = IF Executed(r) THEN copies ELSE [copies EXCEPT ![c] = @ + 1]
  BY DEF Consume
<1>2. /\ store' \in [Backends -> [Keys -> Entries \cup {Absent}]]
      /\ \A b \in Backends, k \in Keys :
            store'[b][k] = store[b][k] \/ store'[b][k] = Absent
      /\ store'[w][c] = Absent
      /\ Executed(r) => store'[Redis][c] = Absent
  <2>1. store' = AfterSet(r, w, c, Absent)
    BY <1>1 DEF AfterDelete
  <2>2. Absent \in Entries \cup {Absent}
    OBVIOUS
  <2>3. store \in [Backends -> [Keys -> Entries \cup {Absent}]]
    BY DEF TypeOK
  <2> QED
    BY <2>1, <2>2, <2>3, AfterSetEffect
<1>3. CASE Executed(r)
  BY <1>1, <1>2, <1>3 DEF TypeOK
<1>4. CASE ~Executed(r)
  BY <1>1, <1>2, <1>4 DEF TypeOK
<1> QED
  BY <1>3, <1>4

\* Worker w has taken a request on challenge c that d signed.
Took(w, c, d) ==
    \E q \in Requests :
        /\ Begin(w, q)
        /\ q.key = c /\ q.did = d
        /\ signed' = signed \cup {<<d, c>>}
        /\ \E r \in RedisOutcomes : CacheGet(r, w, c) # Absent
        /\ q.op = "mobile" => \E r \in RedisOutcomes : CacheGet(r, w, c) = Pending
        /\ q.op = "admin" => \E r \in RedisOutcomes : CacheGet(r, w, c) = AdminLogin
        /\ q.op # "poll"

\* A read that goes on leaves a request in its worker and changes nothing
\* else; the holder it names has signed the challenge, now or before.
LEMMA ReadEffect ==
    ASSUME TypeOK, NEW w \in Workers, NEW c \in Keys, NEW d \in Dids,
           NEW valid \in BOOLEAN,
           \/ MobileRead(w, c, d, valid)
           \/ \E b \in Tabs : VerifyRead(w, b, c, d, valid)
           \/ \E b \in Tabs : AdminRead(w, b, c, d, valid)
    PROVE  Took(w, c, d)
<1>1. ASSUME NEW b \in Tabs, VerifyRead(w, b, c, d, valid) PROVE Took(w, c, d)
  <2>1. PICK r \in RedisOutcomes, op \in {"root", "vc"} :
            /\ CacheGet(r, w, c) # Absent
            /\ Present([op |-> op, key |-> c, did |-> d, tab |-> b], valid)
            /\ Begin(w, [op |-> op, key |-> c, did |-> d, tab |-> b])
    BY <1>1 DEF VerifyRead
  <2>2. [op |-> op, key |-> c, did |-> d, tab |-> b] \in Requests
    BY DEF Requests
  <2> QED
    BY <2>1, <2>2 DEF Present, Accepts, Took
<1>2. CASE MobileRead(w, c, d, valid)
  <2>1. [op |-> "mobile", key |-> c, did |-> d] \in Requests
    BY DEF Requests
  <2>2. Pending # Absent
    BY LoginAssumption DEF Entries
  <2> QED
    BY <1>2, <2>1, <2>2 DEF MobileRead, Present, Accepts, Took
<1>3. ASSUME NEW b \in Tabs, AdminRead(w, b, c, d, valid) PROVE Took(w, c, d)
  <2>1. [op |-> "admin", key |-> c, did |-> d, tab |-> b] \in Requests
    BY DEF Requests
  <2>2. AdminLogin # Absent
    BY LoginAssumption DEF Entries
  <2> QED
    BY <1>3, <2>1, <2>2 DEF AdminRead, AdminTakes, Present, Accepts, Took
<1> QED
  BY <1>1, <1>2, <1>3

\* A poll that goes on acts for the holder named by the entry it read.
LEMMA PollEffect ==
    ASSUME TypeOK, NEW w \in Workers, NEW c \in Keys, NEW b \in Tabs,
           PollRead(w, b, c)
    PROVE  \E q \in Requests :
                /\ Begin(w, q)
                /\ q.op = "poll" /\ q.key = c
                /\ UNCHANGED signed
                /\ \E r \in RedisOutcomes : CacheGet(r, w, c) = Solved(q.did)
                /\ Solved(q.did) # Absent
<1>1. PICK r \in RedisOutcomes, d \in Dids :
        /\ CacheGet(r, w, c) = Solved(d)
        /\ Begin(w, [op |-> "poll", key |-> c, did |-> d, tab |-> b])
        /\ UNCHANGED signed
  BY DEF PollRead
<1>2. [op |-> "poll", key |-> c, did |-> d, tab |-> b] \in Requests
  BY DEF Requests
<1>3. Solved(d) # Absent
  BY LoginAssumption DEF Entries
<1> QED
  BY <1>1, <1>2, <1>3

\* Finishing a browser's request signs its tab in and consumes the
\* challenge, or leaves sessions alone and consumes or keeps it.
LEMMA FinishEffect ==
    ASSUME TypeOK, NEW w \in Workers, FinishSignIn(w) \/ FinishAdmin(w)
    PROVE  LET q == req[w]
           IN  /\ q \in Requests
               /\ q.op # "mobile" /\ q.tab \in Tabs
               /\ q.key \in Keys /\ q.did \in Dids
               /\ \/ Consume(w, q.key) /\ NoSession
                  \/ Keep /\ NoSession
                  \/ /\ Consume(w, q.key)
                     /\ \E via \in Via :
                            /\ SignIn(w, q, via)
                            /\ via = "oob_qr" => q.op = "poll"
                            /\ via = "admin" => q.op = "admin"
               /\ users' \subseteq Dids
               /\ req' = [req EXCEPT ![w] = Absent]
               /\ UNCHANGED <<issued, signed>>
<1> DEFINE q == req[w]
<1>1. q \in Requests /\ q.op \in {"root", "vc", "poll", "admin"}
  BY DEF FinishSignIn, FinishAdmin, TypeOK
<1>2. q.op # "mobile" /\ q.tab \in Tabs /\ q.key \in Keys /\ q.did \in Dids
  BY <1>1 DEF Requests
<1>3. CASE FinishSignIn(w)
  <2>1. q.op \in {"root", "vc", "poll"} /\ req' = [req EXCEPT ![w] = Absent]
            /\ UNCHANGED <<issued, signed>>
    BY <1>3 DEF FinishSignIn
  <2>2. CASE Consume(w, q.key) /\ NoSession /\ UNCHANGED users
    BY <1>1, <1>2, <2>1, <2>2 DEF TypeOK
  <2>3. CASE /\ IF q.op = "vc" THEN Consume(w, q.key) ELSE Keep
             /\ NoSession
             /\ users' = users \cup {q.did}
    BY <1>1, <1>2, <2>1, <2>3 DEF TypeOK
  <2>4. CASE /\ Consume(w, q.key)
             /\ SignIn(w, q, IF q.op = "poll" THEN "oob_qr" ELSE "websocket")
             /\ users' = users \cup {q.did}
    <3>1. \E via \in Via :
            /\ SignIn(w, q, via)
            /\ via = "oob_qr" => q.op = "poll"
            /\ via = "admin" => q.op = "admin"
      BY <2>4 DEF Via
    <3> QED
      BY <1>1, <1>2, <2>1, <2>4, <3>1 DEF TypeOK
  <2> QED
    BY <1>3, <2>2, <2>3, <2>4 DEF FinishSignIn
<1>4. CASE FinishAdmin(w)
  <2>1. q.op = "admin" /\ req' = [req EXCEPT ![w] = Absent]
            /\ UNCHANGED <<issued, users, signed>>
    BY <1>4 DEF FinishAdmin
  <2>2. CASE Consume(w, q.key) /\ SignIn(w, q, "admin")
    BY <1>1, <1>2, <2>1, <2>2 DEF TypeOK, Via
  <2>3. CASE Keep /\ NoSession
    BY <1>1, <1>2, <2>1, <2>3 DEF TypeOK
  <2> QED
    BY <1>4, <2>2, <2>3 DEF FinishAdmin
<1> QED
  BY <1>3, <1>4

\* The states of ChallengeLogin are well typed.
THEOREM TypeCorrect == Spec => []TypeOK
<1> USE CacheAssumption, LoginAssumption
<1>1. Init => TypeOK
  BY DEF Init, TypeOK, Backends, Empty
<1>2. TypeOK /\ [Next]_vars => TypeOK'
  <2> SUFFICES ASSUME TypeOK, [Next]_vars PROVE TypeOK'
    OBVIOUS
  <2>1. ASSUME NEW w \in Workers, NEW c \in Keys,
               ChallengePost(w, c) \/ AdminChallenge(w, c)
        PROVE  TypeOK'
    <3>1. PICK e \in Entries, kind \in {"login", "admin"} : Issue(w, c, kind, e)
      BY <2>1 DEF ChallengePost, AdminChallenge, Entries
    <3> QED
      BY <3>1, StoreEffect DEF Issue, TypeOK
  <2>2. ASSUME NEW w \in Workers, NEW q \in Requests, Begin(w, q),
               signed' \in {signed, signed \cup {<<q.did, q.key>>}}
        PROVE  TypeOK'
    <3>1. q.did \in Dids /\ q.key \in Keys
      BY DEF Requests
    <3> QED
      BY <2>2, <3>1 DEF Begin, TypeOK
  <2>3. ASSUME NEW w \in Workers, FinishSignIn(w) \/ FinishAdmin(w) PROVE TypeOK'
    <3> DEFINE q == req[w]
    <3>1. q.tab \in Tabs /\ q.key \in Keys /\ q.did \in Dids
      BY <2>3, FinishEffect
    <3>2. /\ store' \in [Backends -> [Keys -> Entries \cup {Absent}]]
          /\ copies' \in [Keys -> Nat]
      <4>1. CASE Keep
        BY <4>1 DEF Keep, TypeOK
      <4>2. CASE Consume(w, q.key)
        BY <3>1, <4>2, ConsumeEffect
      <4> QED
        BY <2>3, <4>1, <4>2, FinishEffect
    <3>3. /\ session' \in [Tabs -> Sessions \cup {Absent}]
          /\ logins' \in [Workers -> [Keys -> Nat]]
      <4>1. CASE NoSession
        BY <4>1 DEF NoSession, TypeOK
      <4>2. ASSUME NEW via \in Via, SignIn(w, q, via)
            PROVE  /\ session' \in [Tabs -> Sessions \cup {Absent}]
                   /\ logins' \in [Workers -> [Keys -> Nat]]
        <5>1. [did |-> q.did, key |-> q.key, via |-> via] \in Sessions
          BY <3>1 DEF Sessions
        <5>2. session' \in [Tabs -> Sessions \cup {Absent}]
          BY <4>2, <5>1 DEF SignIn, TypeOK
        <5>3. logins' = [logins EXCEPT ![w][q.key] = @ + 1] /\ logins[w][q.key] + 1 \in Nat
          BY <3>1, <4>2 DEF SignIn, TypeOK
        <5> QED
          BY <3>1, <5>2, <5>3 DEF TypeOK
      <4> QED
        BY <2>3, <4>1, <4>2, FinishEffect
    <3>4. /\ users' \subseteq Dids
          /\ req' \in [Workers -> Requests \cup {Absent}]
          /\ UNCHANGED <<issued, signed>>
      BY <2>3, FinishEffect DEF TypeOK
    <3> QED
      BY <3>2, <3>3, <3>4 DEF TypeOK
  <2>4. ASSUME NEW w \in Workers, FinishMobile(w) PROVE TypeOK'
    <3>1. req[w].key \in Keys /\ Solved(req[w].did) \in Entries
      BY <2>4 DEF FinishMobile, TypeOK, Requests, Entries
    <3> QED
      BY <2>4, <3>1, StoreEffect DEF FinishMobile, TypeOK
  <2>5. ASSUME NEW b \in Backends,
               Lose(Forget(b)) \/ \E c \in Keys : Lose(Drop(b, c)),
               req' \in [Workers -> Requests \cup {Absent}]
        PROVE TypeOK'
    BY <2>5, LossEffect DEF Lose, TypeOK
  <2>6. CASE UNCHANGED vars
    BY <2>6 DEF vars, TypeOK
  <2>7. ASSUME NEW w \in Workers, NEW c \in Keys, NEW d \in Dids,
               NEW valid \in BOOLEAN,
               \/ MobileRead(w, c, d, valid)
               \/ \E b \in Tabs : VerifyRead(w, b, c, d, valid)
               \/ \E b \in Tabs : AdminRead(w, b, c, d, valid)
        PROVE  TypeOK'
    BY <2>2, <2>7, ReadEffect DEF Took
  <2>8. ASSUME NEW w \in Workers, NEW c \in Keys, NEW b \in Tabs, PollRead(w, b, c)
        PROVE  TypeOK'
    BY <2>2, <2>8, PollEffect
  <2>9. ASSUME NEW b \in Backends, NEW c \in Keys, Lapse(b, c) PROVE TypeOK'
    BY <2>5, <2>9 DEF Lapse, TypeOK
  <2>10. CASE RedisRestart
    <3>1. Redis \in Backends /\ Lose(Forget(Redis)) /\ UNCHANGED req
      BY <2>10 DEF RedisRestart, Backends
    <3> QED
      BY <2>5, <3>1 DEF TypeOK
  <2>11. ASSUME NEW w \in Workers, WorkerRestart(w) PROVE TypeOK'
    <3>1. w \in Backends /\ Lose(Forget(w)) /\ req' = [req EXCEPT ![w] = Absent]
      BY <2>11 DEF WorkerRestart, Backends
    <3> QED
      BY <2>5, <3>1 DEF TypeOK
  <2> QED
    BY <2>1, <2>3, <2>4, <2>6, <2>7, <2>8, <2>9, <2>10, <2>11 DEF Next
<1> QED
  BY <1>1, <1>2, PTL DEF Spec

-----------------------------------------------------------------------------
(* Reuse.                                                                  *)

\* Worker w would find challenge c, in Redis or in its own LocMem.
Readable(w, c) == store[Redis][c] # Absent \/ store[w][c] # Absent

\* Worker w is serving a request of a browser that found challenge c.
Serving(w, c) == req[w] # Absent /\ req[w].op # "mobile" /\ req[w].key = c

\* Whoever may still grant a sign-in has granted fewer than there are copies.
ReuseInv ==
    \A w \in Workers, c \in Keys :
        /\ logins[w][c] <= copies[c]
        /\ Readable(w, c) \/ Serving(w, c) => logins[w][c] < copies[c]

LEMMA ReuseInvInit == Init => ReuseInv
  BY CacheAssumption DEF Init, ReuseInv, Readable, Serving, Backends, Empty

LEMMA FoundIsReadable ==
    ASSUME NEW w \in Workers, NEW c \in Keys, NEW r, CacheGet(r, w, c) # Absent
    PROVE  Readable(w, c)
  BY DEF CacheGet, Readable

LEMMA ReuseInvStep == TypeOK /\ ReuseInv /\ [Next]_vars => ReuseInv'
<1> SUFFICES ASSUME TypeOK, ReuseInv, [Next]_vars PROVE ReuseInv'
  OBVIOUS
<1>0. Redis \in Backends /\ Workers \subseteq Backends
  BY DEF Backends
<1>1. ASSUME NEW w \in Workers, NEW c \in Keys, NEW e \in Entries, Store(w, c, e),
             UNCHANGED logins,
             req' = req \/ req' = [req EXCEPT ![w] = Absent]
      PROVE  ReuseInv'
  <2> SUFFICES ASSUME NEW v \in Workers, NEW k \in Keys
               PROVE  /\ logins'[v][k] <= copies'[k]
                      /\ Readable(v, k)' \/ Serving(v, k)'
                            => logins'[v][k] < copies'[k]
    BY DEF ReuseInv
  <2>1. logins[v][k] \in Nat /\ copies[k] \in Nat
    BY DEF TypeOK
  <2>2. CASE k = c
    BY <1>1, <2>1, <2>2, StoreEffect DEF ReuseInv
  <2>3. CASE k # c
    <3>1. copies'[k] = copies[k] /\ (Readable(v, k)' => Readable(v, k))
      BY <1>0, <1>1, <2>3, StoreEffect DEF Readable
    <3>2. Serving(v, k)' => Serving(v, k)
      BY <1>1 DEF Serving, TypeOK
    <3> QED
      BY <1>1, <3>1, <3>2 DEF ReuseInv
  <2> QED
    BY <2>2, <2>3
<1>2. ASSUME NEW w \in Workers, NEW q \in Requests, Begin(w, q),
             \E r \in RedisOutcomes : CacheGet(r, w, q.key) # Absent
      PROVE  ReuseInv'
  <2>1. q.key \in Keys
    BY DEF Requests
  <2>2. Readable(w, q.key)
    BY <1>2, <2>1, FoundIsReadable
  <2>3. \A v \in Workers, k \in Keys :
            Serving(v, k)' => Serving(v, k) \/ (v = w /\ k = q.key)
    BY <1>2 DEF Begin, Serving, TypeOK
  <2>4. \A v \in Workers, k \in Keys : Readable(v, k)' = Readable(v, k)
    BY <1>2 DEF Begin, Readable
  <2> QED
    BY <1>2, <2>2, <2>3, <2>4 DEF Begin, ReuseInv
<1>3. ASSUME NEW w \in Workers, FinishSignIn(w) \/ FinishAdmin(w) PROVE ReuseInv'
  <2> DEFINE q == req[w]
  <2>1. /\ q.key \in Keys /\ q.op # "mobile" /\ q # Absent
        /\ req' = [req EXCEPT ![w] = Absent]
    BY <1>3, FinishEffect DEF FinishSignIn, FinishAdmin
  <2>2. logins[w][q.key] < copies[q.key]
    BY <2>1 DEF ReuseInv, Serving
  <2>3. \A v \in Workers, k \in Keys :
            /\ Serving(v, k)' => Serving(v, k) /\ v # w
            /\ logins[v][k] \in Nat /\ copies[k] \in Nat
    BY <2>1 DEF Serving, TypeOK
  <2>4. CASE Keep /\ NoSession
    <3>1. \A v \in Workers, k \in Keys : Readable(v, k)' = Readable(v, k)
      BY <2>4 DEF Keep, Readable
    <3> QED
      BY <2>3, <2>4, <3>1 DEF Keep, NoSession, ReuseInv
  <2>5. ASSUME Consume(w, q.key) PROVE
            \A v \in Workers, k \in Keys :
                /\ Readable(v, k)' => Readable(v, k)
                /\ copies'[k] \in Nat /\ copies'[k] >= copies[k]
    BY <1>0, <2>1, <2>5, ConsumeEffect DEF Readable
  <2>6. CASE Consume(w, q.key) /\ NoSession
    BY <2>3, <2>5, <2>6 DEF NoSession, ReuseInv
  <2>7. ASSUME Consume(w, q.key), NEW via \in Via, SignIn(w, q, via) PROVE ReuseInv'
    <3>0. PICK c \in Keys : c = q.key
      BY <2>1
    <3>1. \/ copies'[c] = copies[c] + 1
          \/ ~Readable(w, c)'
      BY <3>0, <2>1, <2>7, ConsumeEffect DEF Readable
    <3>2. ~Serving(w, c)'
      BY <3>0, <2>1 DEF Serving, TypeOK
    <3>3. logins'[w][c] = logins[w][c] + 1
      BY <3>0, <2>1, <2>7 DEF SignIn, TypeOK
    <3>4. \A v \in Workers, k \in Keys :
            <<v, k>> # <<w, c>> => logins'[v][k] = logins[v][k]
      BY <3>0, <2>1, <2>7 DEF SignIn, TypeOK
    <3>5. /\ logins'[w][c] <= copies'[c]
          /\ Readable(w, c)' \/ Serving(w, c)'
                => logins'[w][c] < copies'[c]
      BY <3>0, <2>1, <2>2, <2>3, <2>5, <2>7, <3>1, <3>2, <3>3
    <3> SUFFICES ASSUME NEW v \in Workers, NEW k \in Keys, <<v, k>> # <<w, c>>
                 PROVE  /\ logins'[v][k] <= copies'[k]
                        /\ Readable(v, k)' \/ Serving(v, k)'
                              => logins'[v][k] < copies'[k]
      BY <3>5 DEF ReuseInv
    <3> QED
      BY <3>0, <2>3, <2>5, <2>7, <3>4 DEF ReuseInv
  <2> QED
    BY <1>3, <2>4, <2>6, <2>7, FinishEffect
<1>4. ASSUME NEW b \in Backends,
             Lose(Forget(b)) \/ \E c \in Keys : Lose(Drop(b, c)),
             \A v \in Workers : req'[v] \in {req[v], Absent}
      PROVE  ReuseInv'
  <2>1. \A v \in Workers, k \in Keys :
            /\ Readable(v, k)' => Readable(v, k)
            /\ Serving(v, k)' => Serving(v, k)
    BY <1>0, <1>4, LossEffect DEF Lose, Readable, Serving, TypeOK
  <2> QED
    BY <1>4, <2>1 DEF Lose, ReuseInv
<1>5. CASE UNCHANGED vars
  BY <1>5 DEF vars, ReuseInv, Readable, Serving
<1>6. ASSUME NEW w \in Workers, NEW c \in Keys,
             ChallengePost(w, c) \/ AdminChallenge(w, c)
      PROVE  ReuseInv'
  <2>1. PICK e \in Entries, kind \in {"login", "admin"} : Issue(w, c, kind, e)
    BY <1>6 DEF ChallengePost, AdminChallenge, Entries
  <2> QED
    BY <1>1, <2>1 DEF Issue
<1>7. ASSUME NEW w \in Workers, FinishMobile(w) PROVE ReuseInv'
  <2>1. req[w].key \in Keys /\ Solved(req[w].did) \in Entries
    BY <1>7 DEF FinishMobile, TypeOK, Requests, Entries
  <2> QED
    BY <1>1, <1>7, <2>1 DEF FinishMobile
<1>8. ASSUME NEW w \in Workers, NEW c \in Keys, NEW d \in Dids,
             NEW valid \in BOOLEAN,
             \/ MobileRead(w, c, d, valid)
             \/ \E b \in Tabs : VerifyRead(w, b, c, d, valid)
             \/ \E b \in Tabs : AdminRead(w, b, c, d, valid)
      PROVE  ReuseInv'
  BY <1>2, <1>8, ReadEffect DEF Took
<1>9. ASSUME NEW w \in Workers, NEW c \in Keys, NEW b \in Tabs, PollRead(w, b, c)
      PROVE  ReuseInv'
  BY <1>2, <1>9, PollEffect
<1>10. ASSUME NEW b \in Backends, NEW c \in Keys, Lapse(b, c) PROVE ReuseInv'
  BY <1>4, <1>10 DEF Lapse
<1>11. CASE RedisRestart
  BY <1>0, <1>4, <1>11 DEF RedisRestart
<1>12. ASSUME NEW w \in Workers, WorkerRestart(w) PROVE ReuseInv'
  BY <1>0, <1>4, <1>12 DEF WorkerRestart, TypeOK
<1> QED
  BY <1>3, <1>5, <1>6, <1>7, <1>8, <1>9, <1>10, <1>11, <1>12 DEF Next

\* What deleting a used challenge does achieve, for any number of workers and
\* under every failure of the cache.
THEOREM ReuseIsBounded == Spec => []ReuseBound
<1>1. TypeOK /\ ReuseInv /\ [Next]_vars => ReuseInv'
  BY ReuseInvStep
<1>2. ReuseInv => ReuseBound
  BY DEF ReuseInv, ReuseBound
<1> QED
  BY <1>1, <1>2, ReuseInvInit, TypeCorrect, PTL DEF Spec

-----------------------------------------------------------------------------
(* Signatures.                                                             *)

\* Every entry that names a holder, every request in progress and every
\* session goes back to that holder's signature over that challenge.
OriginInv ==
    /\ \A b \in Backends, c \in Keys, d \in Dids :
            store[b][c] = Solved(d) => <<d, c>> \in signed
    /\ \A w \in Workers :
            req[w] # Absent => <<req[w].did, req[w].key>> \in signed
    /\ SignedLogin

LEMMA EntriesDiffer ==
    /\ \A d, e \in Dids : Solved(d) = Solved(e) => d = e
    /\ \A d \in Dids : Solved(d) \notin {Pending, AdminLogin, Absent}
    /\ Pending # AdminLogin /\ Absent \notin {Pending, AdminLogin}
<1>1. \A d, e \in Dids : Solved(d) = Solved(e) => d = e
  <2> TAKE d, e \in Dids
  <2> HAVE Solved(d) = Solved(e)
  <2>1. Solved(d).did = Solved(e).did
    OBVIOUS
  <2> QED
    BY <2>1 DEF Solved
<1>2. ASSUME NEW d \in Dids PROVE Solved(d) \notin {Pending, AdminLogin, Absent}
  <2>1. /\ Solved(d).status = "solved"
        /\ Pending.status = "pending"
        /\ AdminLogin.status = "admin_login"
    BY DEF Solved, Pending, AdminLogin
  <2>2. Solved(d) # Absent
    BY LoginAssumption DEF Entries
  <2> QED
    BY <2>1, <2>2
<1>3. Pending # AdminLogin
  BY DEF Pending, AdminLogin
<1>4. Absent \notin {Pending, AdminLogin}
  BY LoginAssumption DEF Entries
<1> QED
  BY <1>1, <1>2, <1>3, <1>4

LEMMA OriginInvInit == Init => OriginInv
  BY EntriesDiffer DEF Init, OriginInv, SignedLogin, Backends, Empty

LEMMA OriginInvStep == TypeOK /\ OriginInv /\ [Next]_vars => OriginInv'
<1> SUFFICES ASSUME TypeOK, OriginInv, [Next]_vars PROVE OriginInv'
  OBVIOUS
<1>0. Redis \in Backends /\ Workers \subseteq Backends
  BY DEF Backends
<1>1. ASSUME NEW w \in Workers, NEW c \in Keys, NEW e \in Entries, Store(w, c, e),
             \A d \in Dids : e = Solved(d) => <<d, c>> \in signed,
             UNCHANGED <<session, signed>>,
             \A v \in Workers : req'[v] \in {req[v], Absent}
      PROVE  OriginInv'
  <2>1. \A b \in Backends, k \in Keys, d \in Dids :
            store'[b][k] = Solved(d) => <<d, k>> \in signed'
    BY <1>1, StoreEffect DEF OriginInv
  <2> QED
    BY <1>1, <2>1 DEF OriginInv, SignedLogin
<1>2. ASSUME NEW w \in Workers, NEW q \in Requests, Begin(w, q),
             signed \subseteq signed', <<q.did, q.key>> \in signed'
      PROVE  OriginInv'
  BY <1>2 DEF Begin, OriginInv, SignedLogin, TypeOK
<1>3. ASSUME NEW w \in Workers, FinishSignIn(w) \/ FinishAdmin(w) PROVE OriginInv'
  <2> DEFINE q == req[w]
  <2>1. /\ q.key \in Keys /\ q.tab \in Tabs /\ q.did \in Dids /\ q # Absent
        /\ req' = [req EXCEPT ![w] = Absent]
        /\ UNCHANGED signed
    BY <1>3, FinishEffect DEF FinishSignIn, FinishAdmin
  <2>2. <<q.did, q.key>> \in signed
    BY <2>1 DEF OriginInv
  <2>3. \A b \in Backends, k \in Keys, d \in Dids :
            store'[b][k] = Solved(d) => <<d, k>> \in signed
    <3>1. CASE Keep
      BY <3>1 DEF Keep, OriginInv
    <3>2. CASE Consume(w, q.key)
      BY <2>1, <3>2, ConsumeEffect, EntriesDiffer DEF OriginInv
    <3> QED
      BY <1>3, <3>1, <3>2, FinishEffect
  <2>4. \A b \in Tabs :
            session'[b] # Absent => <<session'[b].did, session'[b].key>> \in signed
    <3>1. CASE NoSession
      BY <3>1 DEF NoSession, OriginInv, SignedLogin
    <3>2. ASSUME NEW via \in Via, SignIn(w, q, via)
          PROVE  \A b \in Tabs :
                    session'[b] # Absent =>
                        <<session'[b].did, session'[b].key>> \in signed
      BY <2>1, <2>2, <3>2 DEF SignIn, OriginInv, SignedLogin, TypeOK
    <3> QED
      BY <1>3, <3>1, <3>2, FinishEffect
  <2>5. \A v \in Workers :
            req'[v] # Absent => <<req'[v].did, req'[v].key>> \in signed
    BY <2>1 DEF OriginInv, TypeOK
  <2> QED
    BY <2>1, <2>3, <2>4, <2>5 DEF OriginInv, SignedLogin
<1>4. ASSUME NEW b \in Backends,
             Lose(Forget(b)) \/ \E c \in Keys : Lose(Drop(b, c)),
             \A v \in Workers : req'[v] \in {req[v], Absent}
      PROVE  OriginInv'
  <2>1. \A a \in Backends, k \in Keys, d \in Dids :
            store'[a][k] = Solved(d) => <<d, k>> \in signed
    BY <1>4, LossEffect, EntriesDiffer DEF Lose, OriginInv, TypeOK
  <2> QED
    BY <1>4, <2>1 DEF Lose, OriginInv, SignedLogin
<1>5. CASE UNCHANGED vars
  BY <1>5 DEF vars, OriginInv, SignedLogin
<1>6. ASSUME NEW w \in Workers, NEW c \in Keys,
             ChallengePost(w, c) \/ AdminChallenge(w, c)
      PROVE  OriginInv'
  <2>1. PICK e \in {Pending, AdminLogin}, kind \in {"login", "admin"} :
            Issue(w, c, kind, e)
    BY <1>6 DEF ChallengePost, AdminChallenge
  <2>2. e \in Entries /\ \A d \in Dids : e # Solved(d)
    BY EntriesDiffer DEF Entries
  <2> QED
    BY <1>1, <2>1, <2>2 DEF Issue
<1>7. ASSUME NEW w \in Workers, FinishMobile(w) PROVE OriginInv'
  <2>1. PICK c \in Keys, d \in Dids : c = req[w].key /\ d = req[w].did
    BY <1>7 DEF FinishMobile, TypeOK, Requests
  <2>2. /\ Solved(d) \in Entries
        /\ <<d, c>> \in signed
        /\ \A e \in Dids : Solved(d) = Solved(e) => <<e, c>> \in signed
    BY <1>7, <2>1, EntriesDiffer DEF FinishMobile, OriginInv, Entries
  <2>3. \A v \in Workers : req'[v] \in {req[v], Absent}
    BY <1>7 DEF FinishMobile, TypeOK
  <2>4. Store(w, c, Solved(d)) /\ UNCHANGED <<session, signed>>
    BY <1>7, <2>1 DEF FinishMobile
  <2> QED
    BY <1>1, <2>2, <2>3, <2>4
<1>8. ASSUME NEW w \in Workers, NEW c \in Keys, NEW d \in Dids,
             NEW valid \in BOOLEAN,
             \/ MobileRead(w, c, d, valid)
             \/ \E b \in Tabs : VerifyRead(w, b, c, d, valid)
             \/ \E b \in Tabs : AdminRead(w, b, c, d, valid)
      PROVE  OriginInv'
  <2>1. PICK q \in Requests :
            /\ Begin(w, q)
            /\ q.key = c /\ q.did = d
            /\ signed' = signed \cup {<<d, c>>}
    BY <1>8, ReadEffect DEF Took
  <2> QED
    BY <1>2, <2>1
<1>9. ASSUME NEW w \in Workers, NEW c \in Keys, NEW b \in Tabs, PollRead(w, b, c)
      PROVE  OriginInv'
  <2>1. PICK q \in Requests :
            /\ Begin(w, q)
            /\ q.key = c
            /\ UNCHANGED signed
            /\ \E r \in RedisOutcomes : CacheGet(r, w, c) = Solved(q.did)
    BY <1>9, PollEffect
  <2>2. q.did \in Dids /\ \E a \in Backends : store[a][c] = Solved(q.did)
    BY <1>0, <2>1 DEF CacheGet, Requests
  <2>3. <<q.did, c>> \in signed
    BY <2>2 DEF OriginInv
  <2> QED
    BY <1>2, <2>1, <2>3
<1>10. ASSUME NEW b \in Backends, NEW c \in Keys, Lapse(b, c) PROVE OriginInv'
  BY <1>4, <1>10 DEF Lapse
<1>11. CASE RedisRestart
  BY <1>0, <1>4, <1>11 DEF RedisRestart
<1>12. ASSUME NEW w \in Workers, WorkerRestart(w) PROVE OriginInv'
  BY <1>0, <1>4, <1>12 DEF WorkerRestart, TypeOK
<1> QED
  BY <1>3, <1>5, <1>6, <1>7, <1>8, <1>9, <1>10, <1>11, <1>12 DEF Next

\* Whoever a tab is signed in as has signed the challenge that signed it in.
THEOREM SessionsAreSigned == Spec => []SignedLogin
<1>1. TypeOK /\ OriginInv /\ [Next]_vars => OriginInv'
  BY OriginInvStep
<1>2. OriginInv => SignedLogin
  BY DEF OriginInv
<1> QED
  BY <1>1, <1>2, OriginInvInit, TypeCorrect, PTL DEF Spec

-----------------------------------------------------------------------------
(* The two kinds of challenge.                                             *)

\* What a cached entry says about the challenge it is stored under.
KindOf(e) == IF e = AdminLogin THEN "admin" ELSE "login"

\* Every entry is of the kind its challenge was issued as, and so is every
\* request that depends on the kind of what it read.
KindInv ==
    /\ \A b \in Backends, c \in Keys :
            store[b][c] # Absent => issued[c] = KindOf(store[b][c])
    /\ \A w \in Workers :
            req[w] # Absent =>
                /\ req[w].op = "admin" => issued[req[w].key] = "admin"
                /\ req[w].op \in {"poll", "mobile"} => issued[req[w].key] = "login"
    /\ KindSeparation

LEMMA KindInvInit == Init => KindInv
  BY DEF Init, KindInv, KindSeparation, Empty, Backends

LEMMA KindInvStep == TypeOK /\ KindInv /\ [Next]_vars => KindInv'
<1> SUFFICES ASSUME TypeOK, KindInv, [Next]_vars PROVE KindInv'
  OBVIOUS
<1>0. Redis \in Backends /\ Workers \subseteq Backends
  BY DEF Backends
<1>1. ASSUME NEW w \in Workers, NEW c \in Keys, NEW kind \in {"login", "admin"},
             NEW e \in {Pending, AdminLogin}, KindOf(e) = kind,
             Issue(w, c, kind, e)
      PROVE  KindInv'
  <2>1. e \in Entries
    BY DEF Entries
  <2>2. /\ issued[c] = "none"
        /\ issued' = [issued EXCEPT ![c] = kind]
        /\ UNCHANGED <<req, session>>
    BY <1>1 DEF Issue
  <2>3. /\ issued'[c] = kind
        /\ \A k \in Keys : k # c => issued'[k] = issued[k]
    BY <2>2 DEF TypeOK
  <2>4. \A b \in Backends, k \in Keys :
            store'[b][k] = store[b][k] \/ (k = c /\ store'[b][k] = e)
    BY <1>1, <2>1, StoreEffect DEF Issue
  <2>5. \A b \in Backends, k \in Keys :
            store'[b][k] # Absent => issued'[k] = KindOf(store'[b][k])
    BY <1>1, <2>2, <2>3, <2>4 DEF KindInv, KindOf
  <2>6. \A v \in Workers :
            req'[v] # Absent =>
                /\ req'[v].op = "admin" => issued'[req'[v].key] = "admin"
                /\ req'[v].op \in {"poll", "mobile"} => issued'[req'[v].key] = "login"
    BY <2>2 DEF KindInv, TypeOK
  <2>7. KindSeparation'
    BY <2>2 DEF KindInv, KindSeparation, TypeOK
  <2> QED
    BY <2>5, <2>6, <2>7 DEF KindInv, KindOf
<1>2. ASSUME NEW w \in Workers, NEW q \in Requests, Begin(w, q),
             q.op = "admin" => issued[q.key] = "admin",
             q.op \in {"poll", "mobile"} => issued[q.key] = "login"
      PROVE  KindInv'
  BY <1>2 DEF Begin, KindInv, KindOf, KindSeparation, TypeOK
<1>3. ASSUME NEW w \in Workers, NEW c \in Keys, NEW d \in Dids,
             NEW valid \in BOOLEAN,
             \/ MobileRead(w, c, d, valid)
             \/ \E b \in Tabs : VerifyRead(w, b, c, d, valid)
             \/ \E b \in Tabs : AdminRead(w, b, c, d, valid)
      PROVE  KindInv'
  <2>1. PICK q \in Requests :
            /\ Begin(w, q)
            /\ q.key = c
            /\ q.op = "mobile" => \E r \in RedisOutcomes : CacheGet(r, w, c) = Pending
            /\ q.op = "admin" => \E r \in RedisOutcomes : CacheGet(r, w, c) = AdminLogin
            /\ q.op # "poll"
    BY <1>3, ReadEffect DEF Took
  <2>2. \A r \in RedisOutcomes : \E b \in Backends : CacheGet(r, w, c) = store[b][c]
    BY <1>0 DEF CacheGet
  <2>3. q.op = "admin" => issued[c] = "admin"
    BY <2>1, <2>2, EntriesDiffer DEF KindInv, KindOf
  <2>4. q.op = "mobile" => issued[c] = "login"
    BY <2>1, <2>2, EntriesDiffer DEF KindInv, KindOf
  <2> QED
    BY <1>2, <2>1, <2>3, <2>4
<1>4. ASSUME NEW w \in Workers, NEW c \in Keys, NEW b \in Tabs, PollRead(w, b, c)
      PROVE  KindInv'
  <2>1. PICK q \in Requests :
            /\ Begin(w, q)
            /\ q.op = "poll" /\ q.key = c
            /\ \E r \in RedisOutcomes : CacheGet(r, w, c) = Solved(q.did)
    BY <1>4, PollEffect
  <2>2. q.did \in Dids /\ \E a \in Backends : store[a][c] = Solved(q.did)
    BY <1>0, <2>1 DEF CacheGet, Requests
  <2>3. issued[c] = "login"
    BY <2>2, EntriesDiffer DEF KindInv, KindOf
  <2> QED
    BY <1>2, <2>1, <2>3
<1>5. ASSUME NEW w \in Workers, FinishSignIn(w) \/ FinishAdmin(w) PROVE KindInv'
  <2>1. /\ req[w] \in Requests
        /\ req[w].key \in Keys /\ req[w].tab \in Tabs
        /\ req' = [req EXCEPT ![w] = Absent]
        /\ UNCHANGED issued
    BY <1>5, FinishEffect
  <2>2. \A b \in Backends, k \in Keys :
            store'[b][k] = store[b][k] \/ store'[b][k] = Absent
    <3>1. CASE Keep
      BY <3>1 DEF Keep
    <3>2. CASE Consume(w, req[w].key)
      BY <2>1, <3>2, ConsumeEffect
    <3> QED
      BY <1>5, <3>1, <3>2, FinishEffect
  <2>3. \A b \in Backends, k \in Keys :
            store'[b][k] # Absent => issued'[k] = KindOf(store'[b][k])
    BY <2>1, <2>2 DEF KindInv
  <2>4. KindSeparation'
    <3>1. CASE NoSession
      BY <2>1, <3>1 DEF NoSession, KindInv, KindSeparation
    <3>2. ASSUME NEW via \in Via, SignIn(w, req[w], via),
                 via = "oob_qr" => req[w].op = "poll",
                 via = "admin" => req[w].op = "admin"
          PROVE  KindSeparation'
      <4>1. session' = [session EXCEPT ![req[w].tab] =
                            [did |-> req[w].did, key |-> req[w].key, via |-> via]]
        BY <3>2 DEF SignIn
      <4>2. /\ via = "admin" => issued[req[w].key] = "admin"
            /\ via = "oob_qr" => issued[req[w].key] = "login"
        BY <2>1, <3>2, LoginAssumption DEF KindInv
      <4> QED
        BY <2>1, <4>1, <4>2 DEF KindInv, KindSeparation, TypeOK
    <3> QED
      BY <1>5, <3>1, <3>2, FinishEffect
  <2>5. \A v \in Workers : req'[v] = req[v] \/ req'[v] = Absent
    BY <2>1 DEF TypeOK
  <2> QED
    BY <2>1, <2>3, <2>4, <2>5 DEF KindInv, KindOf
<1>6. ASSUME NEW w \in Workers, FinishMobile(w) PROVE KindInv'
  <2>1. PICK c \in Keys, d \in Dids : c = req[w].key /\ d = req[w].did
    BY <1>6 DEF FinishMobile, TypeOK, Requests
  <2>2. Solved(d) \in Entries /\ Store(w, c, Solved(d)) /\ issued[c] = "login"
    BY <1>6, <2>1 DEF FinishMobile, Entries, KindInv
  <2>3. \A b \in Backends, k \in Keys :
            store'[b][k] = store[b][k] \/ (k = c /\ store'[b][k] = Solved(d))
    BY <2>2, StoreEffect
  <2>4. /\ UNCHANGED <<issued, session>>
        /\ \A v \in Workers : req'[v] = req[v] \/ req'[v] = Absent
    BY <1>6 DEF FinishMobile, TypeOK
  <2>5. \A b \in Backends, k \in Keys :
            store'[b][k] # Absent => issued'[k] = KindOf(store'[b][k])
    BY <2>2, <2>3, <2>4, EntriesDiffer DEF KindInv, KindOf
  <2> QED
    BY <2>4, <2>5 DEF KindInv, KindOf, KindSeparation
<1>7. ASSUME NEW b \in Backends,
             Lose(Forget(b)) \/ \E c \in Keys : Lose(Drop(b, c)),
             \A v \in Workers : req'[v] = req[v] \/ req'[v] = Absent
      PROVE  KindInv'
  <2>1. \A a \in Backends, k \in Keys :
            store'[a][k] = store[a][k] \/ store'[a][k] = Absent
    BY <1>7, LossEffect DEF Lose, TypeOK
  <2>2. UNCHANGED <<issued, session>>
    BY <1>7 DEF Lose
  <2> QED
    BY <1>7, <2>1, <2>2 DEF KindInv, KindOf, KindSeparation
<1>8. ASSUME NEW w \in Workers, NEW c \in Keys,
             ChallengePost(w, c) \/ AdminChallenge(w, c)
      PROVE  KindInv'
  <2>1. KindOf(Pending) = "login" /\ KindOf(AdminLogin) = "admin"
    BY EntriesDiffer DEF KindOf
  <2> QED
    BY <1>1, <1>8, <2>1 DEF ChallengePost, AdminChallenge
<1>9. ASSUME NEW b \in Backends, NEW c \in Keys, Lapse(b, c) PROVE KindInv'
  BY <1>7, <1>9 DEF Lapse
<1>10. CASE RedisRestart
  BY <1>0, <1>7, <1>10 DEF RedisRestart
<1>11. ASSUME NEW w \in Workers, WorkerRestart(w) PROVE KindInv'
  BY <1>0, <1>7, <1>11 DEF WorkerRestart, TypeOK
<1>12. CASE UNCHANGED vars
  BY <1>12 DEF vars, KindInv, KindOf, KindSeparation
<1> QED
  BY <1>3, <1>4, <1>5, <1>6, <1>8, <1>9, <1>10, <1>11, <1>12 DEF Next

\* The admin console opens on admin challenges only, a poll on others only.
THEOREM KindsStaySeparate == Spec => []KindSeparation
<1>1. KindInv => KindSeparation
  BY DEF KindInv
<1> QED
  BY <1>1, KindInvInit, KindInvStep, TypeCorrect, PTL DEF Spec

-----------------------------------------------------------------------------
(* The ledger.                                                             *)

\* What a browser's finished request comes to: nobody is signed in and at
\* most a disabled account is made, or the holder who asked is signed in.
LEMMA FinishDetail ==
    ASSUME TypeOK, NEW w \in Workers, FinishSignIn(w) \/ FinishAdmin(w)
    PROVE  LET q == req[w]
           IN  \/ (Keep \/ Consume(w, q.key)) /\ NoSession /\ UNCHANGED users
               \/ /\ Keep \/ Consume(w, q.key)
                  /\ NoSession
                  /\ Passes(q) /\ q.did \notin Active
                  /\ users' = users \cup {q.did}
               \/ \E via \in Via :
                    /\ Consume(w, q.key)
                    /\ SignIn(w, q, via)
                    /\ q.did \in Active
                    /\ users' = users \cup {q.did}
                    /\ via = "oob_qr" => q.op = "poll"
                    /\ via = "admin" => q.op = "admin" /\ q.did \in users \cap Staff
                    /\ via # "admin" => Passes(q)
<1> DEFINE q == req[w]
<1>1. CASE FinishSignIn(w)
  <2>1. ASSUME /\ Passes(q) /\ q.did \in Active
               /\ Consume(w, q.key)
               /\ SignIn(w, q, IF q.op = "poll" THEN "oob_qr" ELSE "websocket")
               /\ users' = users \cup {q.did}
        PROVE  \E via \in Via :
                    /\ Consume(w, q.key)
                    /\ SignIn(w, q, via)
                    /\ q.did \in Active
                    /\ users' = users \cup {q.did}
                    /\ via = "oob_qr" => q.op = "poll"
                    /\ via = "admin" => q.op = "admin" /\ q.did \in users \cap Staff
                    /\ via # "admin" => Passes(q)
    BY <2>1 DEF Via
  <2> QED
    BY <1>1, <2>1 DEF FinishSignIn
<1>2. CASE FinishAdmin(w)
  <2>1. UNCHANGED users
    BY <1>2 DEF FinishAdmin
  <2>2. CASE q.did \in users \cap Staff \cap Active
    <3>1. "admin" \in Via /\ Consume(w, q.key) /\ SignIn(w, q, "admin")
      BY <1>2, <2>2 DEF FinishAdmin, Via
    <3>2. q.op = "admin" /\ users' = users \cup {q.did}
      BY <1>2, <2>1, <2>2 DEF FinishAdmin
    <3> QED
      BY <2>2, <3>1, <3>2
  <2>3. CASE q.did \notin users \cap Staff \cap Active
    BY <1>2, <2>1, <2>3 DEF FinishAdmin
  <2> QED
    BY <2>2, <2>3
<1> QED
  BY <1>1, <1>2

LEMMA ConsumeCopies ==
    ASSUME NEW w, NEW c, Consume(w, c) \/ Keep
    PROVE  Ledger!MaybeCopy(c)
  BY DEF Consume, Keep, Ledger!MaybeCopy, Ledger!Copy

\* A challenge a worker has found was issued.
LEMMA FoundIsIssued ==
    ASSUME TypeOK, KindInv, NEW w \in Workers, NEW c \in Keys,
           \E r \in RedisOutcomes : CacheGet(r, w, c) # Absent
    PROVE  issued[c] # "none"
<1>1. \E b \in Backends : store[b][c] # Absent
  BY DEF CacheGet, Backends
<1> QED
  BY <1>1 DEF KindInv, KindOf

\* A browser's request is finished the way the ledger allows: its holder
\* has signed, and a sign-in finds a copy of the challenge left.
LEMMA FinishLedger ==
    ASSUME TypeOK, ReuseInv, OriginInv, KindInv, NEW w \in Workers,
           FinishSignIn(w) \/ FinishAdmin(w)
    PROVE  Ledger!LedgerNext
<1>1. PICK c \in Keys, d \in Dids, b \in Tabs :
        /\ c = req[w].key /\ d = req[w].did /\ b = req[w].tab
        /\ UNCHANGED <<issued, signed>>
  BY FinishEffect
<1>2. req[w] # Absent /\ req[w].op # "mobile"
  BY FinishEffect DEF FinishSignIn, FinishAdmin
<1>3. <<d, c>> \in signed
  BY <1>1, <1>2 DEF OriginInv
<1>4. logins[w][c] < copies[c]
  BY <1>1, <1>2 DEF ReuseInv, Serving
<1>5. /\ req[w].op = "admin" => issued[c] = "admin"
      /\ req[w].op = "poll" => issued[c] = "login"
  BY <1>1, <1>2 DEF KindInv
<1>6. Passes(req[w]) <=> Ledger!Welcome(b, d)
  BY <1>1 DEF Passes, Ledger!Welcome
<1>7. CASE (Keep \/ Consume(w, c)) /\ NoSession /\ UNCHANGED users
  <2>1. Ledger!MaybeCopy(c)
    BY <1>7, ConsumeCopies
  <2>2. UNCHANGED <<issued, signed, logins, session, users>>
    BY <1>1, <1>7 DEF NoSession
  <2>3. UNCHANGED Ledger!ledgerVars \/ Ledger!Restore(c)
    BY <2>1, <2>2 DEF Ledger!MaybeCopy, Ledger!Restore, Ledger!ledgerVars
  <2> QED
    BY <1>3, <2>3 DEF Ledger!LedgerNext
<1>8. CASE /\ Keep \/ Consume(w, c)
           /\ NoSession
           /\ Passes(req[w]) /\ d \notin Active
           /\ users' = users \cup {d}
  <2>1. Ledger!Enrol(b, d, c)
    BY <1>1, <1>6, <1>8, ConsumeCopies DEF NoSession, Ledger!Enrol
  <2> QED
    BY <1>3, <2>1 DEF Ledger!LedgerNext
<1>9. ASSUME NEW via \in Via,
             Consume(w, c),
             SignIn(w, req[w], via),
             d \in Active,
             users' = users \cup {d},
             via = "oob_qr" => req[w].op = "poll",
             via = "admin" => req[w].op = "admin" /\ d \in users \cap Staff,
             via # "admin" => Passes(req[w])
      PROVE  Ledger!LedgerNext
  <2>1. Ledger!Fits(b, d, c, via)
    BY <1>5, <1>6, <1>9 DEF Ledger!Fits
  <2>2. /\ session' = [session EXCEPT ![b] = [did |-> d, key |-> c, via |-> via]]
        /\ logins' = [logins EXCEPT ![w][c] = @ + 1]
    BY <1>1, <1>9 DEF SignIn
  <2>3. Ledger!SignIn(w, b, d, c, via)
    BY <1>1, <1>4, <1>9, <2>1, <2>2, ConsumeCopies DEF Ledger!SignIn
  <2>4. via \in {"websocket", "oob_qr", "admin"}
    BY DEF Via
  <2> QED
    BY <1>3, <2>3, <2>4 DEF Ledger!LedgerNext
<1> QED
  BY <1>1, <1>7, <1>8, <1>9, FinishDetail

\* Every step is one of the ledger's, or none of its business.
LEMMA LedgerStep ==
    ASSUME TypeOK, ReuseInv, OriginInv, KindInv, [Next]_vars
    PROVE  Ledger!LedgerNext
<1>1. ASSUME NEW w \in Workers, NEW c \in Keys,
             ChallengePost(w, c) \/ AdminChallenge(w, c)
      PROVE  Ledger!LedgerNext
  <2>1. PICK kind \in {"login", "admin"}, e \in Entries : Issue(w, c, kind, e)
    BY <1>1 DEF ChallengePost, AdminChallenge, Entries
  <2>2. Ledger!Issue(c, kind)
    BY <2>1 DEF Issue, Store, Ledger!Issue, Ledger!Copy
  <2> QED
    BY <2>2 DEF Ledger!LedgerNext
<1>2. ASSUME NEW w \in Workers, NEW c \in Keys, NEW d \in Dids, Took(w, c, d)
      PROVE  Ledger!LedgerNext
  <2>1. issued[c] # "none"
    BY <1>2, FoundIsIssued DEF Took
  <2>2. Ledger!Sign(d, c)
    BY <1>2, <2>1 DEF Took, Begin, Ledger!Sign
  <2> QED
    BY <2>2 DEF Ledger!LedgerNext
<1>3. CASE UNCHANGED Ledger!ledgerVars
  BY <1>3 DEF Ledger!LedgerNext
<1>4. ASSUME NEW w \in Workers, NEW c \in Keys, NEW b \in Tabs, PollRead(w, b, c)
      PROVE  Ledger!LedgerNext
  BY <1>3, <1>4 DEF PollRead, Begin, Ledger!ledgerVars
<1>5. ASSUME NEW w \in Workers, FinishMobile(w) PROVE Ledger!LedgerNext
  <2>1. PICK c \in Keys, d \in Dids : c = req[w].key /\ d = req[w].did
    BY <1>5 DEF FinishMobile, TypeOK, Requests
  <2>2. <<d, c>> \in signed
    BY <1>5, <2>1 DEF FinishMobile, OriginInv
  <2>3. Ledger!Restore(c)
    BY <1>5, <2>1 DEF FinishMobile, Store, Ledger!Restore, Ledger!Copy
  <2> QED
    BY <2>2, <2>3 DEF Ledger!LedgerNext
<1>6. CASE \/ \E b \in Backends, c \in Keys : Lapse(b, c)
           \/ \E w \in Workers : WorkerRestart(w)
           \/ RedisRestart
           \/ UNCHANGED vars
  BY <1>3, <1>6
     DEF Lapse, WorkerRestart, RedisRestart, Lose, vars, Ledger!ledgerVars
<1> QED
  BY <1>1, <1>2, <1>4, <1>5, <1>6, FinishLedger, ReadEffect DEF Next

\* Four handlers, any number of workers and every failure of the cache sign
\* in whom the ledger lets sign in, when it lets them.
THEOREM SignInsKeepTheLedger == Spec => LedgerSpec
<1>1. Init => Ledger!LedgerInit
  BY LoginAssumption DEF Init, Ledger!LedgerInit
<1>2. TypeOK /\ ReuseInv /\ OriginInv /\ KindInv /\ [Next]_vars
        => [Ledger!LedgerNext]_(Ledger!ledgerVars)
  BY LedgerStep
<1>3. Spec => Ledger!LedgerInit /\ [][Ledger!LedgerNext]_(Ledger!ledgerVars)
  BY <1>1, <1>2, TypeCorrect, ReuseInvInit, ReuseInvStep, OriginInvInit,
     OriginInvStep, KindInvInit, KindInvStep, PTL DEF Spec
<1> QED
  BY <1>3 DEF LedgerSpec, Ledger!LedgerSpec

-----------------------------------------------------------------------------
(* What a single-use challenge would take.                                 *)

\* The one worker has granted at most one sign-in on a challenge, and then
\* neither holds it, nor can find it, nor will anyone issue it again.
UsedUp(w, c) ==
    /\ logins[w][c] = 1
    /\ ~Readable(w, c)
    /\ req[w] # Absent => req[w].key # c
    /\ issued[c] # "none"

SingleInv(w) ==
    /\ req[w] # Absent => issued[req[w].key] # "none"
    /\ \A c \in Keys : logins[w][c] = 0 \/ UsedUp(w, c)

\* A delete that Redis executes leaves nothing for its worker to find.
LEMMA ConsumeTakesAll ==
    ASSUME TypeOK, "down" \notin RedisOutcomes,
           NEW w \in Workers, NEW c \in Keys, Consume(w, c)
    PROVE  /\ ~Readable(w, c)'
           /\ \A k \in Keys : Readable(w, k)' => Readable(w, k)
<1>1. PICK r \in RedisOutcomes : store' = AfterDelete(r, w, c)
  BY DEF Consume
<1>2. Executed(r)
  BY DEF Executed
<1>3. /\ \A b \in Backends, k \in Keys :
            store'[b][k] = store[b][k] \/ (k = c /\ store'[b][k] = Absent)
      /\ store'[w][c] = Absent
      /\ store'[Redis][c] = Absent
  BY <1>1, <1>2, AfterSetEffect DEF AfterDelete, TypeOK
<1> QED
  BY <1>3 DEF Readable, Backends

LEMMA SingleInvStep ==
    ASSUME NEW w, Workers = {w}, "down" \notin RedisOutcomes,
           TypeOK, KindInv, SingleInv(w), [Next]_vars
    PROVE  SingleInv(w)'
<1>0. w \in Workers /\ w \in Backends /\ Redis \in Backends
  BY DEF Backends
<1>1. ASSUME NEW q \in Requests, Begin(w, q),
             \E r \in RedisOutcomes : CacheGet(r, w, q.key) # Absent
      PROVE  SingleInv(w)'
  <2>1. q.key \in Keys
    BY DEF Requests
  <2>2. issued[q.key] # "none" /\ Readable(w, q.key)
    BY <1>0, <1>1, <2>1, FoundIsIssued, FoundIsReadable
  <2>3. /\ req'[w] = q
        /\ UNCHANGED <<issued, logins>>
        /\ \A c \in Keys : Readable(w, c)' = Readable(w, c)
    BY <1>0, <1>1 DEF Begin, Readable, TypeOK
  <2> QED
    BY <2>1, <2>2, <2>3 DEF SingleInv, UsedUp
<1>2. ASSUME NEW v \in Workers, NEW c \in Keys, NEW d \in Dids,
             NEW valid \in BOOLEAN,
             \/ MobileRead(v, c, d, valid)
             \/ \E b \in Tabs : VerifyRead(v, b, c, d, valid)
             \/ \E b \in Tabs : AdminRead(v, b, c, d, valid)
      PROVE  SingleInv(w)'
  BY <1>1, <1>2, ReadEffect DEF Took
<1>3. ASSUME NEW v \in Workers, NEW c \in Keys, NEW b \in Tabs, PollRead(v, b, c)
      PROVE  SingleInv(w)'
  BY <1>1, <1>3, PollEffect
<1>4. ASSUME NEW c \in Keys, NEW e \in Entries, Store(w, c, e),
             UNCHANGED logins, logins[w][c] = 0,
             req'[w] \in {req[w], Absent},
             \A k \in Keys : issued[k] # "none" => issued'[k] # "none",
             req[w] # Absent => req[w].key \in Keys
      PROVE  SingleInv(w)'
  <2>1. \A k \in Keys : k # c => (Readable(w, k)' <=> Readable(w, k))
    BY <1>0, <1>4, StoreEffect DEF Readable
  <2> QED
    BY <1>4, <2>1 DEF SingleInv, UsedUp
<1>5. ASSUME NEW c \in Keys, ChallengePost(w, c) \/ AdminChallenge(w, c)
      PROVE  SingleInv(w)'
  <2>1. PICK kind \in {"login", "admin"}, e \in Entries : Issue(w, c, kind, e)
    BY <1>5 DEF ChallengePost, AdminChallenge, Entries
  <2>2. logins[w][c] = 0
    BY <2>1 DEF Issue, SingleInv, UsedUp
  <2>3. \A k \in Keys : issued[k] # "none" => issued'[k] # "none"
    BY <2>1 DEF Issue, TypeOK
  <2> QED
    BY <1>4, <2>1, <2>2, <2>3 DEF Issue
<1>6. CASE FinishMobile(w)
  <2>1. PICK c \in Keys, d \in Dids : c = req[w].key /\ d = req[w].did
    BY <1>0, <1>6 DEF FinishMobile, TypeOK, Requests
  <2>2. Solved(d) \in Entries /\ Store(w, c, Solved(d)) /\ logins[w][c] = 0
    BY <1>6, <2>1 DEF FinishMobile, Entries, SingleInv, UsedUp
  <2>3. req'[w] = Absent /\ UNCHANGED <<issued, logins>>
    BY <1>0, <1>6 DEF FinishMobile, TypeOK
  <2> QED
    BY <1>4, <2>1, <2>2, <2>3
<1>7. CASE FinishSignIn(w) \/ FinishAdmin(w)
  <2>1. PICK c \in Keys :
            /\ c = req[w].key /\ req[w] # Absent
            /\ req'[w] = Absent
            /\ UNCHANGED issued
    BY <1>0, <1>7, FinishEffect DEF FinishSignIn, FinishAdmin, TypeOK
  <2>2. logins[w][c] = 0 /\ issued[c] # "none"
    BY <2>1 DEF SingleInv, UsedUp
  <2>3. CASE NoSession
    <3>1. \A k \in Keys : Readable(w, k)' => Readable(w, k)
      BY <1>0, <1>7, <2>1, ConsumeTakesAll, FinishEffect DEF Keep, Readable
    <3> QED
      BY <2>1, <2>3, <3>1 DEF NoSession, SingleInv, UsedUp
  <2>4. ASSUME Consume(w, c), NEW via \in Via, SignIn(w, req[w], via)
        PROVE  SingleInv(w)'
    <3>1. ~Readable(w, c)' /\ \A k \in Keys : Readable(w, k)' => Readable(w, k)
      BY <1>0, <2>4, ConsumeTakesAll
    <3>2. /\ logins'[w][c] = 1
          /\ \A k \in Keys : k # c => logins'[w][k] = logins[w][k]
      BY <1>0, <2>1, <2>2, <2>4 DEF SignIn, TypeOK
    <3> QED
      BY <2>1, <2>2, <3>1, <3>2 DEF SingleInv, UsedUp
  <2> QED
    BY <1>0, <1>7, <2>1, <2>3, <2>4, FinishEffect
<1>8. ASSUME NEW b \in Backends,
             Lose(Forget(b)) \/ \E c \in Keys : Lose(Drop(b, c)),
             req'[w] \in {req[w], Absent}
      PROVE  SingleInv(w)'
  <2>1. \A k \in Keys : Readable(w, k)' => Readable(w, k)
    BY <1>0, <1>8, LossEffect DEF Lose, Readable, TypeOK
  <2> QED
    BY <1>8, <2>1 DEF Lose, SingleInv, UsedUp
<1>9. ASSUME NEW b \in Backends, NEW c \in Keys, Lapse(b, c) PROVE SingleInv(w)'
  BY <1>8, <1>9 DEF Lapse
<1>10. CASE RedisRestart
  BY <1>0, <1>8, <1>10 DEF RedisRestart
<1>11. CASE WorkerRestart(w)
  BY <1>0, <1>8, <1>11 DEF WorkerRestart, TypeOK
<1>12. CASE UNCHANGED vars
  BY <1>12 DEF vars, SingleInv, UsedUp, Readable
<1> QED
  BY <1>2, <1>3, <1>5, <1>6, <1>7, <1>9, <1>10, <1>11, <1>12 DEF Next

\* One worker, and a Redis that executes what it is asked (its answers may
\* still get lost, and it, its worker and single entries may still be lost),
\* are enough for a challenge to be single-use.  The run that violates
\* SingleUse shows that a second worker is one too many.
THEOREM OneWorkerUsesOnce ==
    ASSUME NEW w, Workers = {w}, "down" \notin RedisOutcomes
    PROVE  Spec => []SingleUse
<1>1. Init => SingleInv(w)
  BY DEF Init, SingleInv
<1>2. TypeOK /\ KindInv /\ SingleInv(w) /\ [Next]_vars => SingleInv(w)'
  BY SingleInvStep
<1>3. SingleInv(w) => SingleUse
  BY DEF SingleInv, UsedUp, SingleUse
<1> QED
  BY <1>1, <1>2, <1>3, TypeCorrect, KindInvInit, KindInvStep, PTL DEF Spec
=============================================================================

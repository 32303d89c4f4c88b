-------------------------- MODULE InviteQuotaProofs --------------------------
(***************************************************************************)
(* What holds of InviteQuota for every set of workers and tokens, and      *)
(* whatever Redis and the process supervisor do.  TypeOK,                  *)
(* EveryAdmissionCounted and BudgetPerCounter are inductive together: a    *)
(* granted claim moves granted and the counter by the same step, and only  *)
(* a seeding, which resets granted, changes the seed.                      *)
(***************************************************************************)
EXTENDS InviteQuota, TLAPS

\* An add either seeds a counter that was not there, with the uses_count of
\* the claiming token, or leaves every counter as it is; and the claim either
\* goes on to its incr or settles as denied.
LEMMA AddEffect ==
    ASSUME TypeOK, NEW w \in Workers, Add(w)
    PROVE  /\ token[w] \in Tokens
           /\ NonceOf[token[w]] \in Keys
           /\ backend[w] \in Backends
           /\ \/ UNCHANGED <<store, seed, granted>>
              \/ /\ store[backend[w]][NonceOf[token[w]]] = Absent
                 /\ store' = [store EXCEPT ![backend[w]][NonceOf[token[w]]]
                                            = UsesCount[token[w]]]
                 /\ seed' = [seed EXCEPT ![backend[w]][NonceOf[token[w]]] = token[w]]
                 /\ granted' = [granted EXCEPT ![backend[w]][NonceOf[token[w]]] = 0]
           /\ \/ /\ pc' = [pc EXCEPT ![w] = "incr"]
                 /\ UNCHANGED <<token, backend>>
              \/ Settle(w, "denied")
           /\ UNCHANGED expired
<1> DEFINE b == backend[w]
           t == token[w]
           n == NonceOf[t]
<1>1. t \in Tokens /\ n \in Keys /\ b \in Backends
  BY InviteAssumption DEF TypeOK, Add, Claiming, Backends
<1>2. PICK r \in OutcomesAt(b) :
        /\ IF Executed(r)
           THEN /\ store' = [store EXCEPT ![b][n] = Seeded(b, t)]
                /\ IF store[b][n] = Absent
                   THEN /\ seed' = [seed EXCEPT ![b][n] = t]
                        /\ granted' = [granted EXCEPT ![b][n] = 0]
                   ELSE UNCHANGED <<seed, granted>>
           ELSE UNCHANGED <<store, seed, granted>>
        /\ IF Answered(r)
           THEN /\ pc' = [pc EXCEPT ![w] = "incr"]
                /\ UNCHANGED <<token, backend>>
           ELSE Settle(w, "denied")
  BY DEF Add
<1>3. \/ UNCHANGED <<store, seed, granted>>
      \/ /\ store[b][n] = Absent
         /\ store' = [store EXCEPT ![b][n] = UsesCount[t]]
         /\ seed' = [seed EXCEPT ![b][n] = t]
         /\ granted' = [granted EXCEPT ![b][n] = 0]
  <2>1. CASE ~Executed(r)
    BY <1>2, <2>1
  <2>2. CASE Executed(r) /\ store[b][n] = Absent
    BY <1>2, <2>2 DEF Seeded
  <2>3. CASE Executed(r) /\ store[b][n] # Absent
    <3>1. store' = [store EXCEPT ![b][n] = store[b][n]]
      BY <1>2, <2>3 DEF Seeded
    <3>2. store' = store
      BY <1>1, <3>1 DEF TypeOK
    <3> QED
      BY <1>2, <2>3, <3>2
  <2> QED
    BY <2>1, <2>2, <2>3
<1>4. /\ \/ /\ pc' = [pc EXCEPT ![w] = "incr"]
            /\ UNCHANGED <<token, backend>>
         \/ Settle(w, "denied")
      /\ UNCHANGED expired
  BY <1>2 DEF Add
<1> QED
  BY <1>1, <1>3, <1>4

\* An incr finds its counter gone, counts without admitting, leaves the
\* counter untouched, or counts and admits within the token's max_uses.
LEMMA IncrEffect ==
    ASSUME TypeOK, NEW w \in Workers, Incr(w)
    PROVE  /\ token[w] \in Tokens
           /\ NonceOf[token[w]] \in Keys
           /\ backend[w] \in {w, Redis}
           /\ \/ /\ UNCHANGED <<store, granted>>
                 /\ Settle(w, "denied")
              \/ /\ store[backend[w]][NonceOf[token[w]]] \in Nat
                 /\ store' = [store EXCEPT ![backend[w]][NonceOf[token[w]]] = @ + 1]
                 /\ \/ /\ UNCHANGED granted
                       /\ Settle(w, "denied")
                    \/ /\ store[backend[w]][NonceOf[token[w]]] + 1
                                <= MaxUses[token[w]]
                       /\ granted' = [granted EXCEPT ![backend[w]][NonceOf[token[w]]]
                                                   = @ + 1]
                       /\ Settle(w, "admitted")
           /\ UNCHANGED <<seed, expired>>
<1> DEFINE b == backend[w]
           t == token[w]
           n == NonceOf[t]
<1>1. t \in Tokens /\ n \in Keys /\ b \in {w, Redis}
  BY InviteAssumption DEF TypeOK, Incr, Claiming
<1>2. CASE store[b][n] = Absent
  BY <1>1, <1>2 DEF Incr
<1>3. CASE store[b][n] # Absent
  <2>1. store[b][n] \in Nat
    BY <1>1, <1>3 DEF TypeOK, Backends
  <2>2. PICK r \in OutcomesAt(b) :
          /\ store' = IF Executed(r)
                      THEN [store EXCEPT ![b][n] = store[b][n] + 1]
                      ELSE store
          /\ IF WithinBudget(r, store[b][n] + 1, t)
             THEN /\ granted' = [granted EXCEPT ![b][n] = @ + 1]
                  /\ Settle(w, "admitted")
             ELSE /\ Settle(w, "denied")
                  /\ UNCHANGED granted
    BY <1>3 DEF Incr
  <2>3. CASE WithinBudget(r, store[b][n] + 1, t)
    BY <1>1, <2>1, <2>2, <2>3 DEF WithinBudget, Answered, Executed, Incr
  <2>4. CASE ~WithinBudget(r, store[b][n] + 1, t)
    BY <1>1, <2>1, <2>2, <2>4 DEF Incr
  <2> QED
    BY <2>3, <2>4
<1> QED
  BY <1>2, <1>3

\* The states of InviteQuota are well typed: in particular a claim past its
\* probe is pinned to Redis or to its own worker's LocMem, never to another's.
THEOREM TypeCorrect == Spec => []TypeOK
<1> USE CacheAssumption, InviteAssumption
<1>1. Init => TypeOK
  BY DEF Init, TypeOK, Backends, Empty, Claiming, Settled
<1>2. TypeOK /\ [Next]_vars => TypeOK'
  <2> SUFFICES ASSUME TypeOK, [Next]_vars PROVE TypeOK'
    OBVIOUS
  <2> USE DEF TypeOK, Backends, Claiming, Settled
  <2>1. ASSUME NEW w \in Workers, NEW t \in Tokens, Redeem(w, t) PROVE TypeOK'
    BY <2>1 DEF Redeem
  <2>2. ASSUME NEW w \in Workers, Probe(w) PROVE TypeOK'
    BY <2>2 DEF Probe, LiveBackend
  <2>3. ASSUME NEW w \in Workers, Add(w) PROVE TypeOK'
    <3> DEFINE t == token[w]
               n == NonceOf[t]
               b == backend[w]
    <3>1. pc[w] = "add" /\ t \in Tokens /\ n \in Keys /\ b \in {w, Redis}
      BY <2>3, AddEffect DEF Add
    <3>2. /\ store' \in [Backends -> [Keys -> Nat \cup {Absent}]]
          /\ seed' \in [Backends -> [Keys -> Tokens \cup {Absent}]]
          /\ granted' \in [Backends -> [Keys -> Nat]]
          /\ \A c \in Backends, k \in Keys :
                store'[c][k] # Absent => seed'[c][k] \in Tokens
      <4>1. CASE UNCHANGED <<store, seed, granted>>
        BY <4>1
      <4>2. CASE /\ store' = [store EXCEPT ![b][n] = UsesCount[t]]
                 /\ seed' = [seed EXCEPT ![b][n] = t]
                 /\ granted' = [granted EXCEPT ![b][n] = 0]
        BY <3>1, <4>2
      <4> QED
        BY <2>3, <4>1, <4>2, AddEffect
    <3>3. /\ pc' \in [Workers -> Claiming \cup Settled]
          /\ token' \in [Workers -> Tokens \cup {Absent}]
          /\ backend' \in [Workers -> Backends \cup {Absent}]
          /\ expired' \subseteq Tokens
          /\ \A u \in Workers :
                /\ pc'[u] \in Claiming => token'[u] \in Tokens
                /\ pc'[u] \in {"add", "incr"} => backend'[u] \in {u, Redis}
      <4>1. CASE Settle(w, "denied")
        BY <2>3, <4>1, AddEffect DEF Settle
      <4>2. CASE /\ pc' = [pc EXCEPT ![w] = "incr"]
                 /\ UNCHANGED <<token, backend>>
        BY <2>3, <3>1, <4>2, AddEffect
      <4> QED
        BY <2>3, <4>1, <4>2, AddEffect
    <3> QED
      BY <3>2, <3>3
  <2>4. ASSUME NEW w \in Workers, Incr(w) PROVE TypeOK'
    <3> DEFINE n == NonceOf[token[w]]
               b == backend[w]
    <3>1. /\ store' \in [Backends -> [Keys -> Nat \cup {Absent}]]
          /\ granted' \in [Backends -> [Keys -> Nat]]
          /\ \A c \in Backends, k \in Keys :
                store'[c][k] # Absent => store[c][k] # Absent
      <4>1. n \in Keys /\ b \in Backends
        BY <2>4, IncrEffect
      <4>2. CASE UNCHANGED <<store, granted>>
        BY <4>2
      <4>3. CASE /\ store[b][n] \in Nat
                 /\ store' = [store EXCEPT ![b][n] = @ + 1]
                 /\ \/ UNCHANGED granted
                    \/ granted' = [granted EXCEPT ![b][n] = @ + 1]
        <5>1. store[b][n] + 1 \in Nat /\ granted[b][n] + 1 \in Nat
          BY <4>1, <4>3
        <5>2. store' \in [Backends -> [Keys -> Nat \cup {Absent}]]
          BY <4>1, <4>3, <5>1
        <5>3. granted' \in [Backends -> [Keys -> Nat]]
          <6>1. CASE UNCHANGED granted
            BY <6>1
          <6>2. CASE granted' = [granted EXCEPT ![b][n] = @ + 1]
            BY <4>1, <5>1, <6>2
          <6> QED
            BY <4>3, <6>1, <6>2
        <5>4. \A c \in Backends, k \in Keys :
                store'[c][k] # Absent => store[c][k] # Absent
          BY <4>1, <4>3, CacheAssumption
        <5> QED
          BY <5>2, <5>3, <5>4
      <4> QED
        BY <2>4, <4>2, <4>3, IncrEffect
    <3>2. Settle(w, "denied") \/ Settle(w, "admitted")
      BY <2>4, IncrEffect
    <3>3. UNCHANGED <<seed, expired>>
      BY <2>4, IncrEffect
    <3> QED
      BY <3>1, <3>2, <3>3 DEF Settle
  <2>5. ASSUME NEW w \in Workers, NEW n \in Keys, Cull(w, n) PROVE TypeOK'
    BY <2>5 DEF Cull, Drop
  <2>6. ASSUME NEW w \in Workers, WorkerRestart(w) PROVE TypeOK'
    BY <2>6 DEF WorkerRestart, Settle, Forget, Empty
  <2>7. ASSUME NEW t \in Tokens, Expire(t) PROVE TypeOK'
    BY <2>7 DEF Expire
  <2>8. ASSUME NEW b \in Backends, NEW n \in Keys, Lapse(b, n) PROVE TypeOK'
    BY <2>8 DEF Lapse, Drop
  <2>9. CASE RedisRestart
    BY <2>9 DEF RedisRestart, Forget, Empty
  <2>10. CASE UNCHANGED vars
    BY <2>10 DEF vars
  <2> QED
    BY <2>1, <2>2, <2>3, <2>4, <2>5, <2>6, <2>7, <2>8, <2>9, <2>10 DEF Next
<1> QED
  BY <1>1, <1>2, PTL DEF Spec

-----------------------------------------------------------------------------

\* The counting invariant: what TLC checks as EveryAdmissionCounted and
\* BudgetPerCounter, which need each other and TypeOK to be inductive.
CountInv == EveryAdmissionCounted /\ BudgetPerCounter

LEMMA CountInvInit == Init => CountInv
  BY DEF Init, CountInv, EveryAdmissionCounted, BudgetPerCounter, Backends, Empty

LEMMA CountInvStep == TypeOK /\ CountInv /\ [Next]_vars => CountInv'
<1> SUFFICES ASSUME TypeOK, CountInv, [Next]_vars PROVE CountInv'
  OBVIOUS
<1> USE DEF CountInv, EveryAdmissionCounted, BudgetPerCounter
<1>1. ASSUME NEW w \in Workers, Add(w) PROVE CountInv'
  <2> DEFINE n == NonceOf[token[w]]
             b == backend[w]
  <2>1. CASE UNCHANGED <<store, seed, granted>>
    BY <2>1
  <2>2. CASE /\ store' = [store EXCEPT ![b][n] = UsesCount[token[w]]]
             /\ seed' = [seed EXCEPT ![b][n] = token[w]]
             /\ granted' = [granted EXCEPT ![b][n] = 0]
    <3>1. token[w] \in Tokens /\ n \in Keys /\ b \in Backends
      BY <1>1, AddEffect
    <3>2. /\ granted'[b][n] = 0
          /\ seed'[b][n] = token[w]
          /\ store'[b][n] = UsesCount[token[w]]
          /\ UsesCount[token[w]] \in Nat
      BY <2>2, <3>1, InviteAssumption DEF TypeOK
    <3>3. \A c \in Backends, k \in Keys :
            <<c, k>> # <<b, n>> =>
                /\ store'[c][k] = store[c][k]
                /\ granted'[c][k] = granted[c][k]
                /\ seed'[c][k] = seed[c][k]
      BY <2>2, <3>1 DEF TypeOK
    <3> QED
      BY <3>2, <3>3
  <2> QED
    BY <1>1, <2>1, <2>2, AddEffect
<1>2. ASSUME NEW w \in Workers, Incr(w) PROVE CountInv'
  <2> DEFINE n == NonceOf[token[w]]
             b == backend[w]
  <2>1. /\ token[w] \in Tokens /\ n \in Keys /\ b \in Backends
        /\ UNCHANGED seed
    BY <1>2, IncrEffect DEF Backends
  <2>2. CASE UNCHANGED <<store, granted>>
    BY <2>1, <2>2
  <2>3. CASE /\ store[b][n] \in Nat
             /\ store' = [store EXCEPT ![b][n] = @ + 1]
             /\ UNCHANGED granted
    BY <2>1, <2>3, CacheAssumption, InviteAssumption DEF TypeOK
  <2>4. CASE /\ store[b][n] \in Nat
             /\ store' = [store EXCEPT ![b][n] = @ + 1]
             /\ store[b][n] + 1 <= MaxUses[token[w]]
             /\ granted' = [granted EXCEPT ![b][n] = @ + 1]
    <3>1. granted[b][n] + UsesCount[seed[b][n]] <= store[b][n]
      BY <2>1, <2>4, CacheAssumption
    <3>2. /\ granted[b][n] \in Nat
          /\ UsesCount[seed[b][n]] \in Nat
          /\ MaxUses[token[w]] \in Nat
      BY <2>1, <2>4, CacheAssumption, InviteAssumption DEF TypeOK
    <3>3. granted'[b][n] = granted[b][n] + 1 /\ store'[b][n] = store[b][n] + 1
      BY <2>1, <2>4 DEF TypeOK
    <3>4. granted'[b][n] + UsesCount[seed'[b][n]] <= store'[b][n]
      BY <2>1, <2>4, <3>1, <3>2, <3>3
    <3>5. granted'[b][n] + UsesCount[seed'[b][n]] <= MaxUses[token[w]]
      BY <2>1, <2>4, <3>1, <3>2, <3>3
    <3>6. \A c \in Backends, k \in Keys :
            <<c, k>> # <<b, n>> =>
                store'[c][k] = store[c][k] /\ granted'[c][k] = granted[c][k]
      BY <2>1, <2>4 DEF TypeOK
    <3> QED
      BY <2>1, <3>4, <3>5, <3>6
  <2> QED
    BY <1>2, <2>2, <2>3, <2>4, IncrEffect
<1>3. ASSUME NEW w \in Workers, NEW n \in Keys, Cull(w, n) PROVE CountInv'
  BY <1>3 DEF Cull, Drop, TypeOK, Backends
<1>4. ASSUME NEW w \in Workers, WorkerRestart(w) PROVE CountInv'
  BY <1>4 DEF WorkerRestart, Forget, Empty, TypeOK, Backends
<1>5. ASSUME NEW b \in Backends, NEW n \in Keys, Lapse(b, n) PROVE CountInv'
  BY <1>5 DEF Lapse, Drop, TypeOK
<1>6. CASE RedisRestart
  BY <1>6 DEF RedisRestart, Forget, Empty, TypeOK, Backends
<1>7. CASE UNCHANGED <<store, seed, granted>>
  BY <1>7
<1> QED
  BY <1>1, <1>2, <1>3, <1>4, <1>5, <1>6, <1>7
     DEF Next, Redeem, Probe, Expire, vars

\* claim_unit fails closed: no admission goes uncounted at the backend its
\* claim was pinned to, whatever fails and whoever interleaves.
THEOREM AdmissionsAreCounted == Spec => []EveryAdmissionCounted
<1>1. TypeOK /\ CountInv /\ [Next]_vars => CountInv'
  BY CountInvStep
<1>2. CountInv => EveryAdmissionCounted
  BY DEF CountInv
<1> QED
  BY <1>1, <1>2, CountInvInit, TypeCorrect, PTL DEF Spec

\* One counter never admits beyond the widest budget signed for its nonce.
THEOREM BudgetHolds == Spec => []BudgetPerCounter
<1>1. TypeOK /\ CountInv /\ [Next]_vars => CountInv'
  BY CountInvStep
<1>2. CountInv => BudgetPerCounter
  BY DEF CountInv
<1> QED
  BY <1>1, <1>2, CountInvInit, TypeCorrect, PTL DEF Spec

\* A counter that stays in place never moves backwards: the add of one claim
\* never resets what the incr of another has counted.
THEOREM CountersAdvance == Spec => NeverBackwards
<1> DEFINE A == \A b \in Backends, n \in Keys :
                  store[b][n] # Absent /\ store'[b][n] # Absent
                      => store'[b][n] >= store[b][n]
<1>1. TypeOK /\ [Next]_vars => A
  <2> SUFFICES ASSUME TypeOK, [Next]_vars,
                      NEW c \in Backends, NEW k \in Keys,
                      store[c][k] # Absent, store'[c][k] # Absent
               PROVE  store'[c][k] >= store[c][k]
    OBVIOUS
  <2>1. store[c][k] \in Nat
    BY DEF TypeOK
  <2>2. ASSUME NEW w \in Workers, Add(w) PROVE store'[c][k] >= store[c][k]
    <3>1. /\ NonceOf[token[w]] \in Keys /\ backend[w] \in Backends
          /\ \/ UNCHANGED store
             \/ /\ store[backend[w]][NonceOf[token[w]]] = Absent
                /\ store' = [store EXCEPT ![backend[w]][NonceOf[token[w]]]
                                           = UsesCount[token[w]]]
      BY <2>2, AddEffect
    <3>2. store'[c][k] = store[c][k]
      BY <3>1 DEF TypeOK
    <3> QED
      BY <2>1, <3>2
  <2>3. ASSUME NEW w \in Workers, Incr(w) PROVE store'[c][k] >= store[c][k]
    <3>1. /\ NonceOf[token[w]] \in Keys /\ backend[w] \in Backends
          /\ \/ UNCHANGED store
             \/ store' = [store EXCEPT ![backend[w]][NonceOf[token[w]]] = @ + 1]
      BY <2>3, IncrEffect DEF Backends
    <3>2. store'[c][k] = store[c][k] \/ store'[c][k] = store[c][k] + 1
      <4>1. CASE c = backend[w] /\ k = NonceOf[token[w]]
        BY <3>1, <4>1 DEF TypeOK
      <4>2. CASE ~(c = backend[w] /\ k = NonceOf[token[w]])
        BY <3>1, <4>2 DEF TypeOK
      <4> QED
        BY <4>1, <4>2
    <3> QED
      BY <2>1, <3>2
  <2>4. ASSUME NEW w \in Workers, NEW n \in Keys, Cull(w, n)
        PROVE store'[c][k] >= store[c][k]
    BY <2>1, <2>4 DEF Cull, Drop, TypeOK, Backends
  <2>5. ASSUME NEW w \in Workers, WorkerRestart(w)
        PROVE store'[c][k] >= store[c][k]
    BY <2>1, <2>5 DEF WorkerRestart, Forget, Empty, TypeOK, Backends
  <2>6. ASSUME NEW b \in Backends, NEW n \in Keys, Lapse(b, n)
        PROVE store'[c][k] >= store[c][k]
    BY <2>1, <2>6 DEF Lapse, Drop, TypeOK
  <2>7. CASE RedisRestart
    BY <2>1, <2>7 DEF RedisRestart, Forget, Empty, TypeOK, Backends
  <2>8. CASE UNCHANGED store
    BY <2>1, <2>8
  <2> QED
    BY <2>2, <2>3, <2>4, <2>5, <2>6, <2>7, <2>8
       DEF Next, Redeem, Probe, Expire, vars
<1>2. TypeOK /\ [Next]_vars => [A]_vars
  BY <1>1
<1>3. Spec => [][A]_vars
  BY <1>2, TypeCorrect, PTL DEF Spec
<1> QED
  BY <1>3 DEF NeverBackwards

-----------------------------------------------------------------------------
(* With a Redis that answers and keeps its data, and a nonce per token, a   *)
(* claim is one atomic decision of UseBudget: probe and add are stutters,   *)
(* the incr is the decision.                                                *)

Reliable ==
    /\ RedisOutcomes = {"ok"}
    /\ Losses = {}
    /\ \A t, u \in Tokens : NonceOf[t] = NonceOf[u] => t = u

\* What a claim relies on between its calls when nothing fails.
PinInv ==
    \A w \in Workers :
        /\ pc[w] \in Settled => token[w] = Absent
        /\ pc[w] \in {"add", "incr"} => backend[w] = Redis
        /\ pc[w] = "incr" => store[Redis][NonceOf[token[w]]] # Absent

LEMMA PinInvInit == Init => PinInv
  BY DEF Init, PinInv, Settled

\* Nothing takes a counter away again once a claim has seen it.
LEMMA PinInvStep ==
    ASSUME Reliable
    PROVE  TypeOK /\ PinInv /\ [Next]_vars => PinInv'
<1> SUFFICES ASSUME TypeOK, PinInv, [Next]_vars PROVE PinInv'
  OBVIOUS
<1> USE DEF PinInv, Settled
<1>1. ASSUME NEW w \in Workers, NEW t \in Tokens, Redeem(w, t) PROVE PinInv'
  BY <1>1 DEF Redeem, TypeOK
<1>2. ASSUME NEW w \in Workers, Probe(w) PROVE PinInv'
  BY <1>2 DEF Probe, LiveBackend, Answered, Reliable, TypeOK
<1>3. ASSUME NEW w \in Workers, Add(w) PROVE PinInv'
  <2> DEFINE n == NonceOf[token[w]]
  <2>1. pc[w] = "add" /\ backend[w] = Redis
    BY <1>3 DEF Add
  <2>2. token[w] \in Tokens /\ n \in Keys /\ Redis \in Backends
    BY <1>3, AddEffect DEF Backends
  <2>3. /\ store' = [store EXCEPT ![Redis][n] = Seeded(Redis, token[w])]
        /\ pc' = [pc EXCEPT ![w] = "incr"]
        /\ UNCHANGED <<token, backend>>
    BY <1>3, <2>1 DEF Add, OutcomesAt, Reliable, Executed, Answered
  <2>4. Seeded(Redis, token[w]) # Absent
    BY <2>2, CacheAssumption, InviteAssumption DEF Seeded
  <2>5. \A k \in Keys : store[Redis][k] # Absent => store'[Redis][k] # Absent
    BY <2>2, <2>3, <2>4 DEF TypeOK
  <2>6. store'[Redis][n] # Absent
    BY <2>2, <2>3, <2>4 DEF TypeOK
  <2>7. \A u \in Workers : pc[u] = "incr" => NonceOf[token[u]] \in Keys
    BY InviteAssumption DEF TypeOK, Claiming
  <2> QED
    BY <2>1, <2>3, <2>5, <2>6, <2>7 DEF TypeOK
<1>4. ASSUME NEW w \in Workers, Incr(w) PROVE PinInv'
  <2> DEFINE n == NonceOf[token[w]]
  <2>1. /\ pc' = [pc EXCEPT ![w] = "denied"] \/ pc' = [pc EXCEPT ![w] = "admitted"]
        /\ token' = [token EXCEPT ![w] = Absent]
        /\ backend' = [backend EXCEPT ![w] = Absent]
    BY <1>4, IncrEffect DEF Settle
  <2>2. backend[w] = Redis /\ n \in Keys
    BY <1>4, IncrEffect DEF Incr
  <2>3. \A k \in Keys : store[Redis][k] # Absent => store'[Redis][k] # Absent
    <3>1. CASE UNCHANGED store
      BY <3>1
    <3>2. CASE /\ store[Redis][n] \in Nat
               /\ store' = [store EXCEPT ![Redis][n] = @ + 1]
      BY <2>2, <3>2, CacheAssumption DEF TypeOK, Backends
    <3> QED
      BY <1>4, <2>2, <3>1, <3>2, IncrEffect
  <2>4. \A u \in Workers : pc[u] = "incr" => NonceOf[token[u]] \in Keys
    BY InviteAssumption DEF TypeOK, Claiming
  <2> QED
    BY <2>1, <2>3, <2>4 DEF TypeOK
<1>5. CASE UNCHANGED <<store, pc, token, backend>>
  BY <1>5
<1> QED
  BY <1>1, <1>2, <1>3, <1>4, <1>5
     DEF Next, Cull, WorkerRestart, Lapse, RedisRestart, Expire, Reliable, vars

\* Settling a claim is the answer UseBudget gives.
LEMMA SettleAnswers ==
    ASSUME TypeOK, NEW w \in Workers, NEW v \in {"admitted", "denied"}, Settle(w, v)
    PROVE  Budget!Answer(w, v)
<1>1. token' = [token EXCEPT ![w] = Absent] /\ pc' = [pc EXCEPT ![w] = v]
  BY DEF Settle
<1>2. [u \in Workers |-> IF pc'[u] \in Claiming \cup {"idle"} THEN "none" ELSE pc'[u]]
        = [[u \in Workers |-> IF pc[u] \in Claiming \cup {"idle"} THEN "none" ELSE pc[u]]
             EXCEPT ![w] = v]
  BY <1>1 DEF TypeOK, Claiming
<1> QED
  BY <1>1, <1>2 DEF Budget!Answer

\* Under Reliable, InviteQuota implements UseBudget: a token admits exactly
\* as often as its signed budget allows, and a refusal means it is spent.
THEOREM ClaimsAreExact == ASSUME Reliable PROVE Spec => BudgetSpec
<1> USE DEF Settled, Claiming
<1>1. Init => Budget!BudgetInit
  <2> SUFFICES ASSUME Init PROVE Budget!BudgetInit
    OBVIOUS
  <2>1. \A t \in Tokens : CountOf(t) = UsesCount[t]
    BY InviteAssumption DEF Init, CountOf, Backends, Empty
  <2> QED
    BY <2>1 DEF Init, Budget!BudgetInit, Budget!Unspent
<1>2. TypeOK /\ PinInv /\ [Next]_vars => [Budget!BudgetNext]_(Budget!budgetVars)
  <2> SUFFICES ASSUME TypeOK, PinInv, [Next]_vars
               PROVE  Budget!BudgetNext \/ UNCHANGED Budget!budgetVars
    BY DEF Budget!budgetVars
  <2>1. ASSUME NEW w \in Workers, NEW t \in Tokens, Redeem(w, t)
        PROVE Budget!Ask(w, t)
    BY <2>1 DEF Redeem, Budget!Ask, PinInv, TypeOK, CountOf
  <2>2. ASSUME NEW w \in Workers, Probe(w) PROVE UNCHANGED Budget!budgetVars
    BY <2>2 DEF Probe, Budget!budgetVars, TypeOK, CountOf
  <2>3. ASSUME NEW w \in Workers, Add(w) PROVE UNCHANGED Budget!budgetVars
    <3> DEFINE n == NonceOf[token[w]]
    <3>1. pc[w] = "add" /\ backend[w] = Redis
      BY <2>3 DEF Add, PinInv
    <3>2. token[w] \in Tokens /\ n \in Keys /\ Redis \in Backends
      BY <2>3, AddEffect DEF Backends
    <3>3. /\ store' = [store EXCEPT ![Redis][n] = Seeded(Redis, token[w])]
          /\ pc' = [pc EXCEPT ![w] = "incr"]
          /\ UNCHANGED <<token, backend>>
      BY <2>3, <3>1 DEF Add, OutcomesAt, Reliable, Executed, Answered
    <3>4. \A t \in Tokens : CountOf(t)' = CountOf(t)
      <4> SUFFICES ASSUME NEW t \in Tokens PROVE CountOf(t)' = CountOf(t)
        OBVIOUS
      <4>1. CASE t = token[w]
        BY <3>2, <3>3, <4>1, CacheAssumption, InviteAssumption
           DEF CountOf, Seeded, TypeOK
      <4>2. CASE t # token[w]
        <5>1. NonceOf[t] # n
          BY <3>2, <4>2 DEF Reliable
        <5> QED
          BY <3>2, <3>3, <5>1 DEF CountOf, TypeOK
      <4> QED
        BY <4>1, <4>2
    <3> QED
      BY <3>1, <3>3, <3>4 DEF Budget!budgetVars, TypeOK
  <2>4. ASSUME NEW w \in Workers, NEW t \in Tokens, token[w] = t, Incr(w)
        PROVE Budget!Admit(w, t) \/ Budget!Deny(w, t)
    <3> DEFINE n == NonceOf[t]
               c == store[Redis][n]
    <3>1. pc[w] = "incr" /\ backend[w] = Redis /\ c # Absent
      BY <2>4 DEF Incr, PinInv
    <3>2. t \in Tokens /\ n \in Keys /\ Redis \in Backends
      BY <2>4, IncrEffect DEF Backends
    <3>3. c \in Nat /\ MaxUses[t] \in Nat
      BY <3>1, <3>2, InviteAssumption DEF TypeOK
    <3>4. /\ store' = [store EXCEPT ![Redis][n] = c + 1]
          /\ IF c + 1 <= MaxUses[t] THEN Settle(w, "admitted")
                                    ELSE Settle(w, "denied")
      BY <2>4, <3>1 DEF Incr, OutcomesAt, Reliable, Executed, Answered, WithinBudget
    <3>5. CountOf(t) = c /\ CountOf(t)' = c + 1
      <4>1. (n \in Keys /\ c + 1 \in Nat) /\ UNCHANGED NonceOf
        BY <3>2, <3>3
      <4>2. store'[Redis][n] = c + 1
        BY <3>2, <3>4 DEF TypeOK
      <4> QED
        BY <3>1, <4>1, <4>2, CacheAssumption DEF CountOf
    <3>6. \A u \in Tokens : u # t => CountOf(u)' = CountOf(u)
      <4> SUFFICES ASSUME NEW u \in Tokens, u # t PROVE CountOf(u)' = CountOf(u)
        OBVIOUS
      <4>1. NonceOf[u] # n
        BY <3>2 DEF Reliable
      <4> QED
        BY <3>2, <3>4, <4>1 DEF CountOf, TypeOK
    <3>7. CASE c + 1 <= MaxUses[t]
      <4>1. Settle(w, "admitted")
        BY <3>4, <3>7
      <4>2. Budget!Answer(w, "admitted")
        BY <4>1, SettleAnswers
      <4> DEFINE Left == [u \in Tokens |-> IF CountOf(u) < MaxUses[u]
                                          THEN MaxUses[u] - CountOf(u)
                                          ELSE 0]
      <4>3. Left[t] = MaxUses[t] - c /\ Left[t] > 0
        BY <3>2, <3>3, <3>5, <3>7
      <4>4. (IF CountOf(t)' < MaxUses[t] THEN MaxUses[t] - CountOf(t)' ELSE 0)
                = MaxUses[t] - c - 1
        BY <3>3, <3>5, <3>7
      <4>5. Left' = [Left EXCEPT ![t] = @ - 1]
        BY <3>2, <3>6, <4>3, <4>4
      <4> HIDE DEF Left
      <4> QED
        BY <2>4, <3>2, <4>2, <4>3, <4>5 DEF Budget!Admit, Left
    <3>8. CASE ~(c + 1 <= MaxUses[t])
      <4>1. Settle(w, "denied")
        BY <3>4, <3>8
      <4>2. Budget!Answer(w, "denied")
        BY <4>1, SettleAnswers
      <4> QED
        BY <2>4, <3>2, <3>3, <3>5, <3>6, <3>8, <4>2 DEF Budget!Deny
    <3> QED
      BY <3>7, <3>8
  <2>5. CASE UNCHANGED <<store, pc, token, backend>>
    BY <2>5 DEF Budget!budgetVars, CountOf
  <2> QED
    <3>1. ASSUME NEW w \in Workers, Incr(w) PROVE Budget!BudgetNext
      <4>1. PICK t \in Tokens : token[w] = t
        BY <3>1, IncrEffect
      <4>2. Budget!Admit(w, t) \/ Budget!Deny(w, t)
        BY <2>4, <3>1, <4>1
      <4> QED
        BY <4>1, <4>2 DEF Budget!BudgetNext
    <3>2. ASSUME NEW w \in Workers, NEW t \in Tokens, Redeem(w, t)
          PROVE Budget!BudgetNext
      BY <2>1, <3>2 DEF Budget!BudgetNext
    <3> QED
      BY <3>1, <3>2, <2>2, <2>3, <2>5
         DEF Next, Cull, WorkerRestart, Lapse, RedisRestart, Expire, Reliable, vars
<1>3. TypeOK /\ PinInv /\ [Next]_vars => PinInv'
  BY PinInvStep
<1>4. Spec => Budget!BudgetInit /\ [][Budget!BudgetNext]_(Budget!budgetVars)
  BY <1>1, <1>2, <1>3, PinInvInit, TypeCorrect, PTL DEF Spec
<1> QED
  BY <1>4 DEF BudgetSpec, Budget!BudgetSpec
=============================================================================

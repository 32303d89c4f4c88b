------------------------ MODULE ResilientCacheProofs ------------------------
(***************************************************************************)
(* What the calls of ResilientCache do to the backends, for every set V of *)
(* values (Absent among them) and whatever Redis does.  The proofs about   *)
(* the protocols that keep their state in the cache cite these.            *)
(***************************************************************************)
EXTENDS ResilientCache, TLAPS

\* A set changes one key, to the value set, wherever it changes anything.
LEMMA SetTyped ==
    ASSUME NEW V, store \in [Backends -> [Keys -> V]],
           NEW r, NEW w \in Workers, NEW k \in Keys, NEW v \in V
    PROVE  AfterSet(r, w, k, v) \in [Backends -> [Keys -> V]]
BY DEF AfterSet

LEMMA SetValues ==
    ASSUME NEW r, NEW w, NEW k, NEW v, NEW b \in Backends, NEW j \in Keys
    PROVE  \/ AfterSet(r, w, k, v)[b][j] = store[b][j]
           \/ j = k /\ AfterSet(r, w, k, v)[b][j] = v
BY DEF AfterSet

\* A set that Redis executes is in Redis.
LEMMA SetReaches ==
    ASSUME NEW r, NEW w, NEW k \in Keys, NEW v, Executed(r)
    PROVE  AfterSet(r, w, k, v)[Redis][k] = v
BY DEF AfterSet, Backends

\* A delete leaves every entry or makes it absent.
LEMMA DeleteTyped ==
    ASSUME NEW V, Absent \in V, store \in [Backends -> [Keys -> V]],
           NEW r, NEW w \in Workers, NEW k \in Keys
    PROVE  AfterDelete(r, w, k) \in [Backends -> [Keys -> V]]
BY DEF AfterDelete, AfterSet

LEMMA DeleteValues ==
    ASSUME NEW r, NEW w, NEW k, NEW b \in Backends, NEW j \in Keys
    PROVE  \/ AfterDelete(r, w, k)[b][j] = store[b][j]
           \/ j = k /\ AfterDelete(r, w, k)[b][j] = Absent
BY DEF AfterDelete, AfterSet

\* So does every way of losing entries.
LEMMA DropTyped ==
    ASSUME NEW V, Absent \in V, store \in [Backends -> [Keys -> V]],
           NEW b \in Backends, NEW k \in Keys
    PROVE  Drop(b, k) \in [Backends -> [Keys -> V]]
BY DEF Drop

LEMMA ForgetTyped ==
    ASSUME NEW V, Absent \in V, store \in [Backends -> [Keys -> V]], NEW b \in Backends
    PROVE  Forget(b) \in [Backends -> [Keys -> V]]
BY DEF Forget, Empty

\* A get answers with what Redis or the worker's LocMem holds.
LEMMA GetEffect ==
    ASSUME NEW r, NEW w, NEW k
    PROVE  CacheGet(r, w, k) \in {store[Redis][k], store[w][k]}
BY DEF CacheGet
=============================================================================

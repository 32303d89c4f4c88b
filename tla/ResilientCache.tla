--------------------------- MODULE ResilientCache ---------------------------
(***************************************************************************)
(* auth_bridge/resilient_cache.py: one Redis shared by every gunicorn      *)
(* worker, and in each worker process a private LocMemCache that takes     *)
(* over call by call when Redis does not answer.                           *)
(*                                                                         *)
(* A sync gunicorn worker serves one request at a time, so a LocMemCache   *)
(* is only ever touched by the request its worker is serving, and a        *)
(* wrapper call that writes Redis and then LocMem is one step: no one else *)
(* can see LocMem between the two.                                         *)
(***************************************************************************)
EXTENDS Integers

CONSTANTS
    Workers,        \* worker processes (docker-entrypoint.sh: --workers 4)
    Redis,          \* the shared primary backend
    Keys,           \* cache keys
    Absent,         \* what a backend answers for a key it does not hold
    RedisOutcomes,  \* what a Redis call may do, a subset of Outcomes
    Losses          \* how a backend may lose entries, a subset of LossKinds

\* "ok": executed and answered.  "down": not executed, the client raises.
\* "lost": executed, but the reply never arrives and the client raises.
Outcomes == {"ok", "down", "lost"}

\* Redis restarts empty (docker-compose.peer.yml runs it without persistence),
\* a worker is restarted, LocMem culls an entry, an entry's TTL lapses.
LossKinds == {"redis", "worker", "cull", "lapse"}

ASSUME CacheAssumption ==
    /\ Redis \notin Workers
    /\ Absent \notin Int
    /\ RedisOutcomes \subseteq Outcomes
    /\ "ok" \in RedisOutcomes
    /\ Losses \subseteq LossKinds

VARIABLE store      \* store[b][k]: what backend b holds under key k

Backends == Workers \cup {Redis}

Executed(r) == r # "down"
Answered(r) == r = "ok"

\* LocMem calls do not fail.
OutcomesAt(b) == IF b = Redis THEN RedisOutcomes ELSE {"ok"}

\* The value ResilientCache.get returns in worker w when Redis does r:
\* a miss in Redis falls through to LocMem exactly as an outage does.
CacheGet(r, w, k) ==
    IF Answered(r) /\ store[Redis][k] # Absent
    THEN store[Redis][k]
    ELSE store[w][k]

\* Both backends as ResilientCache.set(k, v) leaves them.
AfterSet(r, w, k, v) ==
    [b \in Backends |-> [j \in Keys |->
        IF j = k /\ (b = w \/ (b = Redis /\ Executed(r)))
        THEN v
        ELSE store[b][j]]]

\* ResilientCache.delete: an error from Redis is swallowed, and the only
\* LocMem copy removed is the one of the worker that runs the delete.
AfterDelete(r, w, k) == AfterSet(r, w, k, Absent)

\* Mutant: no fallback backend, None when Redis does not answer.
LiveBackendOrNone(r, w) == IF Answered(r) THEN Redis ELSE Absent

\* ResilientCache._live_backend: the backend whose probe write was answered.
LiveBackend(r, w) == IF Answered(r) THEN Redis ELSE w

Empty == [k \in Keys |-> Absent]
Forget(b) == [store EXCEPT ![b] = Empty]
Drop(b, k) == [store EXCEPT ![b][k] = Absent]
=============================================================================

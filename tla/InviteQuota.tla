----------------------------- MODULE InviteQuota -----------------------------
(***************************************************************************)
(* Spending an RFC-002 invite: consume_use (auth_bridge/invite_tokens.py)  *)
(* over ResilientCache.claim_unit.  A claim is three cache calls - probe,  *)
(* add, incr - made by one worker while other workers, the TTL, Redis and  *)
(* the process supervisor act in between.                                  *)
(*                                                                         *)
(* A token here is one that verify_invite_token has carried past schema,   *)
(* signature, authorization, ceiling and tier: pure checks that change     *)
(* nothing.  Its counter key is named by its nonce, which tokens may share.*)
(***************************************************************************)
EXTENDS ResilientCache

CONSTANTS
    Tokens,     \* admissible invite tokens
    NonceOf,    \* NonceOf[t] \in Keys: the counter key of t
    MaxUses,    \* the signed max_uses of t
    UsesCount,  \* the signed uses_count of t
    MaxCount    \* bound: no new claim on a counter that reached MaxCount

ASSUME InviteAssumption ==
    /\ Tokens # {}
    /\ Absent \notin Tokens \cup Workers \cup {Redis}
    /\ NonceOf \in [Tokens -> Keys]
    /\ MaxUses \in [Tokens -> Nat \ {0}]     \* validate_schema: 1 <= max_uses
    /\ UsesCount \in [Tokens -> Nat]         \* validate_schema: uses_count >= 0
    /\ MaxCount \in Nat

VARIABLES
    seed,       \* history: seed[b][n], the token whose claim last seeded b's counter
    granted,    \* history: granted[b][n], admissions counted since that seeding
    expired,    \* tokens whose expires_at has passed
    pc,         \* pc[w]: where worker w's redemption is
    token,      \* token[w]: the token worker w is redeeming
    backend     \* backend[w]: the backend its claim is pinned to

vars == <<store, seed, granted, expired, pc, token, backend>>

Claiming == {"probe", "add", "incr"}
Settled == {"idle", "admitted", "denied"}

TypeOK ==
    /\ store \in [Backends -> [Keys -> Nat \cup {Absent}]]
    /\ seed \in [Backends -> [Keys -> Tokens \cup {Absent}]]
    /\ granted \in [Backends -> [Keys -> Nat]]
    /\ expired \subseteq Tokens
    /\ pc \in [Workers -> Claiming \cup Settled]
    /\ token \in [Workers -> Tokens \cup {Absent}]
    /\ backend \in [Workers -> Backends \cup {Absent}]
    /\ \A w \in Workers :
        /\ pc[w] \in Claiming => token[w] \in Tokens
        /\ pc[w] \in {"add", "incr"} => backend[w] \in {w, Redis}
    /\ \A b \in Backends, n \in Keys :
        store[b][n] # Absent => seed[b][n] \in Tokens

Init ==
    /\ store = [b \in Backends |-> Empty]
    /\ seed = [b \in Backends |-> Empty]
    /\ granted = [b \in Backends |-> [n \in Keys |-> 0]]
    /\ expired = {}
    /\ pc = [w \in Workers |-> "idle"]
    /\ token = [w \in Workers |-> Absent]
    /\ backend = [w \in Workers |-> Absent]

-----------------------------------------------------------------------------
(* One redemption.                                                         *)

\* A request carrying t reaches worker w and passes validate_expiry.
Redeem(w, t) ==
    /\ pc[w] \in Settled
    /\ t \notin expired
    /\ \A b \in Backends :
        store[b][NonceOf[t]] # Absent => store[b][NonceOf[t]] < MaxCount
    /\ pc' = [pc EXCEPT ![w] = "probe"]
    /\ token' = [token EXCEPT ![w] = t]
    /\ UNCHANGED <<store, seed, granted, expired, backend>>

\* _live_backend: the claim is pinned to whichever backend took the probe.
Probe(w) ==
    /\ pc[w] = "probe"
    /\ \E r \in RedisOutcomes :
        backend' = [backend EXCEPT ![w] = LiveBackend(r, w)]
    /\ pc' = [pc EXCEPT ![w] = "add"]
    /\ UNCHANGED <<store, seed, granted, expired, token>>

\* The request is over: admitted, or refused with INVITE_USED.
Settle(w, verdict) ==
    /\ pc' = [pc EXCEPT ![w] = verdict]
    /\ token' = [token EXCEPT ![w] = Absent]
    /\ backend' = [backend EXCEPT ![w] = Absent]

\* Mutant: the counter is set to its floor, not added.
SeedAlways(b, t) == UsesCount[t]

\* backend.add(key, initial): seeds the counter only where there is none.
Seeded(b, t) ==
    IF store[b][NonceOf[t]] = Absent
    THEN UsesCount[t]
    ELSE store[b][NonceOf[t]]

\* The add of the claim.  An add that raises ends the claim unadmitted.
Add(w) ==
    LET b == backend[w]
        t == token[w]
        n == NonceOf[t]
    IN  /\ pc[w] = "add"
        /\ \E r \in OutcomesAt(b) :
            /\ IF Executed(r)
               THEN /\ store' = [store EXCEPT ![b][n] = Seeded(b, t)]
                    /\ IF store[b][n] = Absent
                       THEN /\ seed' = [seed EXCEPT ![b][n] = t]
                            /\ granted' = [granted EXCEPT ![b][n] = 0]
                       ELSE UNCHANGED <<seed, granted>>
               ELSE UNCHANGED <<store, seed, granted>>
            /\ IF Answered(r)
               THEN /\ pc' = [pc EXCEPT ![w] = "incr"]
                    /\ UNCHANGED <<token, backend>>
               ELSE Settle(w, "denied")
        /\ UNCHANGED expired

\* Mutants: an exception in the claim admits; the count before is compared.
FailOpen(r, count, t) == ~Answered(r) \/ count <= MaxUses[t]
OffByOne(r, count, t) == Answered(r) /\ count - 1 <= MaxUses[t]

\* consume_use: refuse a claim that came back uncounted or above the cap.
WithinBudget(r, count, t) == Answered(r) /\ count <= MaxUses[t]

\* The incr of the claim, and consume_use's verdict on what it returned.
\* incr raises on a key that is gone; a refused claim has still counted.
Incr(w) ==
    LET b == backend[w]
        t == token[w]
        n == NonceOf[t]
        count == store[b][n] + 1
    IN  /\ pc[w] = "incr"
        /\ IF store[b][n] = Absent
           THEN /\ Settle(w, "denied")
                /\ UNCHANGED <<store, granted>>
           ELSE \E r \in OutcomesAt(b) :
                /\ store' = IF Executed(r)
                            THEN [store EXCEPT ![b][n] = count]
                            ELSE store
                /\ IF WithinBudget(r, count, t)
                   THEN /\ granted' = [granted EXCEPT ![b][n] = @ + 1]
                        /\ Settle(w, "admitted")
                   ELSE /\ Settle(w, "denied")
                        /\ UNCHANGED granted
        /\ UNCHANGED <<seed, expired>>

-----------------------------------------------------------------------------
(* What happens around it.                                                 *)

\* expires_at passes.
Expire(t) ==
    /\ t \notin expired
    /\ expired' = expired \cup {t}
    /\ UNCHANGED <<store, seed, granted, pc, token, backend>>

\* consume_use sets the TTL to what is left of the seeding token's life.
MayLapse(b, n) == seed[b][n] \in expired

Lapse(b, n) ==
    /\ "lapse" \in Losses
    /\ store[b][n] # Absent
    /\ MayLapse(b, n)
    /\ store' = Drop(b, n)
    /\ UNCHANGED <<seed, granted, expired, pc, token, backend>>

\* LocMemCache keeps 300 entries and culls the least recently used.
Cull(w, n) ==
    /\ "cull" \in Losses
    /\ store[w][n] # Absent
    /\ store' = Drop(w, n)
    /\ UNCHANGED <<seed, granted, expired, pc, token, backend>>

RedisRestart ==
    /\ "redis" \in Losses
    /\ store' = Forget(Redis)
    /\ UNCHANGED <<seed, granted, expired, pc, token, backend>>

\* The worker is killed or recycled: its request and its LocMem go with it.
WorkerRestart(w) ==
    /\ "worker" \in Losses
    /\ store' = Forget(w)
    /\ Settle(w, "idle")
    /\ UNCHANGED <<seed, granted, expired>>

Next ==
    \/ \E w \in Workers :
        \/ \E t \in Tokens : Redeem(w, t)
        \/ Probe(w)
        \/ Add(w)
        \/ Incr(w)
        \/ \E n \in Keys : Cull(w, n)
        \/ WorkerRestart(w)
    \/ \E t \in Tokens : Expire(t)
    \/ \E b \in Backends, n \in Keys : Lapse(b, n)
    \/ RedisRestart

Spec == Init /\ [][Next]_vars

-----------------------------------------------------------------------------
(* Properties.                                                             *)

\* Every admission was counted where it was claimed: however Redis fails and
\* whoever interleaves, a counter that is still there has advanced past its
\* seed by at least the admissions it granted (claim_unit fails closed).
EveryAdmissionCounted ==
    \A b \in Backends, n \in Keys :
        store[b][n] # Absent =>
            granted[b][n] + UsesCount[seed[b][n]] <= store[b][n]

\* One counter never admits beyond the widest budget signed for its nonce,
\* not even after it is lost, until a fresh claim seeds it again
\* (consume_use: count > cap is refused).
BudgetPerCounter ==
    \A b \in Backends, n \in Keys :
        granted[b][n] > 0 =>
            \E t \in Tokens :
                /\ NonceOf[t] = n
                /\ granted[b][n] + UsesCount[seed[b][n]] <= MaxUses[t]

\* A counter that stays in place never moves backwards, so no claim restores
\* a budget another claim has spent (the promise of claim_unit's docstring).
NeverBackwards ==
    [][\A b \in Backends, n \in Keys :
        store[b][n] # Absent /\ store'[b][n] # Absent
            => store'[b][n] >= store[b][n]]_vars

-----------------------------------------------------------------------------
(* With a Redis that answers and keeps its data, a claim is one atomic     *)
(* decision of UseBudget.                                                  *)

CountOf(t) ==
    IF store[Redis][NonceOf[t]] = Absent
    THEN UsesCount[t]
    ELSE store[Redis][NonceOf[t]]

Budget == INSTANCE UseBudget WITH
    left <- [t \in Tokens |-> IF CountOf(t) < MaxUses[t]
                              THEN MaxUses[t] - CountOf(t)
                              ELSE 0],
    request <- token,
    verdict <- [w \in Workers |-> IF pc[w] \in Claiming \cup {"idle"}
                                  THEN "none"
                                  ELSE pc[w]],
    None <- Absent

\* The three calls of claim_unit are one linearizable decision: a token admits
\* exactly max_uses - uses_count times, and a refusal means it is spent.
BudgetSpec == Budget!BudgetSpec
=============================================================================

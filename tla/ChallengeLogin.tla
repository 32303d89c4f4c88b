--------------------------- MODULE ChallengeLogin ---------------------------
(***************************************************************************)
(* Signing in with a DID (auth_bridge/views.py, admin_views.py).  A        *)
(* challenge is a cache entry; four handlers turn it into a session.  Each *)
(* reads it, verifies a presentation, consults the database and only then  *)
(* writes or deletes it, while other workers serve the same challenge: the *)
(* read is one action here and everything after it another.                *)
(*                                                                         *)
(* A presentation names a DID and is submitted together with a challenge;  *)
(* `valid` says whether the handler's cryptography accepts it.  Whether    *)
(* the signature also covers that challenge is the signer's and the Rust   *)
(* bridge's affair and is not modelled.  The emergency bypass is off, as   *)
(* in production (ALLOW_EMERGENCY_BYPASS and DEBUG unset).                 *)
(***************************************************************************)
EXTENDS ResilientCache

CONSTANTS
    Dids,       \* holders' identifiers
    Tabs,       \* browser sessions
    Admitted,   \* DIDs the beta gate lets through: admin and allowlisted
    Invited,    \* tabs whose session has redeemed an invite (beta_access)
    Active,     \* DIDs whose account is enabled
    Staff,      \* DIDs whose account is staff
    Enrolled,   \* DIDs that may have an account from an earlier day
    MaxCopies   \* bound: no new request on a challenge stored that often

Pending == [status |-> "pending"]
AdminLogin == [status |-> "admin_login"]
Solved(d) == [status |-> "solved", did |-> d]

Entries == {Pending, AdminLogin} \cup {Solved(d) : d \in Dids}

\* What a worker is serving between its read and its last write.
Requests ==
    [op : {"root", "vc", "poll", "admin"}, key : Keys, did : Dids, tab : Tabs]
        \cup [op : {"mobile"}, key : Keys, did : Dids]

ASSUME LoginAssumption ==
    /\ Admitted \subseteq Dids
    /\ Invited \subseteq Tabs
    /\ Active \subseteq Dids
    /\ Staff \subseteq Dids
    /\ Enrolled \subseteq Dids
    /\ MaxCopies \in Nat
    /\ Absent \notin Entries \cup Requests

VARIABLES
    issued,     \* issued[c]: what challenge c was issued for, or "none"
    req,        \* req[w]: the request worker w is serving, or Absent
    session,    \* session[b]: who tab b is signed in as, and through what
    users,      \* DIDs with a row in the user table
    signed,     \* history: <<d, c>>, a presentation of d verified with c
    logins,     \* history: logins[w][c], sign-ins worker w granted on c
    copies      \* history: copies[c], writes of c and deletes Redis missed

vars == <<store, issued, req, session, users, signed, logins, copies>>

Via == {"websocket", "oob_qr", "admin"}
Sessions == [did : Dids, key : Keys, via : Via]

TypeOK ==
    /\ store \in [Backends -> [Keys -> Entries \cup {Absent}]]
    /\ issued \in [Keys -> {"none", "login", "admin"}]
    /\ req \in [Workers -> Requests \cup {Absent}]
    /\ session \in [Tabs -> Sessions \cup {Absent}]
    /\ users \subseteq Dids
    /\ signed \subseteq Dids \X Keys
    /\ logins \in [Workers -> [Keys -> Nat]]
    /\ copies \in [Keys -> Nat]

Init ==
    /\ store = [b \in Backends |-> Empty]
    /\ issued = [c \in Keys |-> "none"]
    /\ req = [w \in Workers |-> Absent]
    /\ session = [b \in Tabs |-> Absent]
    /\ users \in SUBSET Enrolled
    /\ signed = {}
    /\ logins = [w \in Workers |-> [c \in Keys |-> 0]]
    /\ copies = [c \in Keys |-> 0]

-----------------------------------------------------------------------------
(* Issuing a challenge: a fresh uuid, stored in one cache call.            *)

Store(w, c, entry) ==
    /\ \E r \in RedisOutcomes : store' = AfterSet(r, w, c, entry)
    /\ copies' = [copies EXCEPT ![c] = @ + 1]

Issue(w, c, kind, entry) ==
    /\ req[w] = Absent
    /\ issued[c] = "none"
    /\ issued' = [issued EXCEPT ![c] = kind]
    /\ Store(w, c, entry)
    /\ UNCHANGED <<req, session, users, signed, logins>>

\* ChallengeView.post
ChallengePost(w, c) == Issue(w, c, "login", Pending)

\* custom_admin_login
AdminChallenge(w, c) == Issue(w, c, "admin", AdminLogin)

-----------------------------------------------------------------------------
(* First half of a handler: read the challenge, check it, and verify the   *)
(* presentation.  A refusal here changes nothing.                          *)

Begin(w, q) ==
    /\ req[w] = Absent
    /\ copies[q.key] < MaxCopies
    /\ req' = [req EXCEPT ![w] = q]
    /\ UNCHANGED <<store, issued, session, users, logins, copies>>

\* Mutant: an unverified presentation is let through (SEC-001).
AcceptsAny(valid) == TRUE

Accepts(valid) == valid

Present(q, valid) ==
    /\ Accepts(valid)
    /\ signed' = IF valid THEN signed \cup {<<q.did, q.key>>} ELSE signed

\* verify_signature asks only that the challenge is still cached.  The root
\* flow carries no credential ("root"), the other goes through Rust ("vc").
VerifyRead(w, b, c, d, valid) ==
    \E r \in RedisOutcomes, op \in {"root", "vc"} :
        LET q == [op |-> op, key |-> c, did |-> d, tab |-> b]
        IN  /\ CacheGet(r, w, c) # Absent
            /\ Present(q, valid)
            /\ Begin(w, q)

\* mobile_verify_signature: an entry that is not JSON or is solved is refused.
MobileRead(w, c, d, valid) ==
    LET q == [op |-> "mobile", key |-> c, did |-> d]
    IN  /\ \E r \in RedisOutcomes : CacheGet(r, w, c) = Pending
        /\ Present(q, valid)
        /\ Begin(w, q)

\* check_challenge_status: the DID comes from the entry, not from the tab.
PollRead(w, b, c) ==
    \E r \in RedisOutcomes, d \in Dids :
        /\ CacheGet(r, w, c) = Solved(d)
        /\ Begin(w, [op |-> "poll", key |-> c, did |-> d, tab |-> b])
        /\ UNCHANGED signed

\* Mutant: any cached challenge is good enough for the admin console.
AdminTakesAny(entry) == entry # Absent

AdminTakes(entry) == entry = AdminLogin

\* custom_admin_verify
AdminRead(w, b, c, d, valid) ==
    LET q == [op |-> "admin", key |-> c, did |-> d, tab |-> b]
    IN  /\ \E r \in RedisOutcomes : AdminTakes(CacheGet(r, w, c))
        /\ Present(q, valid)
        /\ Begin(w, q)

-----------------------------------------------------------------------------
(* Second half: gate, account, session, and the fate of the challenge.     *)

Keep == UNCHANGED <<store, copies>>

\* Mutant: the entry is overwritten with a status of its own, not deleted.
ConsumeByMarking(w, c) ==
    /\ \E r \in RedisOutcomes : store' = AfterSet(r, w, c, [status |-> "used"])
    /\ UNCHANGED copies

\* Mutant: only Redis is cleared, the worker's own copy stays.
ConsumeRedisOnly(w, c) ==
    /\ store' = [store EXCEPT ![Redis][c] = Absent]
    /\ UNCHANGED copies

Consume(w, c) ==
    \E r \in RedisOutcomes :
        /\ store' = AfterDelete(r, w, c)
        /\ copies' = IF Executed(r) THEN copies ELSE [copies EXCEPT ![c] = @ + 1]

NoSession == UNCHANGED <<session, logins>>

SignIn(w, q, via) ==
    /\ session' = [session EXCEPT ![q.tab] =
                       [did |-> q.did, key |-> q.key, via |-> via]]
    /\ logins' = [logins EXCEPT ![w][q.key] = @ + 1]

\* Mutant: the gate is for newcomers.
PassesKnown(q) == q.did \in Admitted \cup users \/ q.tab \in Invited

\* _did_passes_gate: a redeemed invite opens the gate to every DID of the tab.
Passes(q) == q.did \in Admitted \/ q.tab \in Invited

\* verify_signature and check_challenge_status.  A DID the gate stops never
\* gets a user row; a disabled one does, and keeps its challenge unless the
\* Rust flow deleted it before looking.
FinishSignIn(w) ==
    LET q == req[w]
    IN  /\ q # Absent
        /\ q.op \in {"root", "vc", "poll"}
        /\ \/ /\ ~Passes(q)
              /\ Consume(w, q.key)
              /\ NoSession
              /\ UNCHANGED users
           \/ /\ Passes(q) /\ q.did \notin Active
              /\ IF q.op = "vc" THEN Consume(w, q.key) ELSE Keep
              /\ NoSession
              /\ users' = users \cup {q.did}
           \/ /\ Passes(q) /\ q.did \in Active
              /\ Consume(w, q.key)
              /\ SignIn(w, q, IF q.op = "poll" THEN "oob_qr" ELSE "websocket")
              /\ users' = users \cup {q.did}
        /\ req' = [req EXCEPT ![w] = Absent]
        /\ UNCHANGED <<issued, signed>>

\* custom_admin_verify never creates a user and keeps a refused challenge.
FinishAdmin(w) ==
    LET q == req[w]
    IN  /\ q # Absent
        /\ q.op = "admin"
        /\ IF q.did \in users \cap Staff \cap Active
           THEN Consume(w, q.key) /\ SignIn(w, q, "admin")
           ELSE Keep /\ NoSession
        /\ req' = [req EXCEPT ![w] = Absent]
        /\ UNCHANGED <<issued, users, signed>>

\* mobile_verify_signature writes what it read back as solved, whatever has
\* become of the challenge since.
FinishMobile(w) ==
    LET q == req[w]
    IN  /\ q # Absent
        /\ q.op = "mobile"
        /\ Store(w, q.key, Solved(q.did))
        /\ req' = [req EXCEPT ![w] = Absent]
        /\ UNCHANGED <<issued, session, users, signed, logins>>

-----------------------------------------------------------------------------
(* What happens around it: TTLs of single copies, restarts, culling.       *)

Lose(s) ==
    /\ store' = s
    /\ UNCHANGED <<issued, session, users, signed, logins, copies>>

Lapse(b, c) ==
    /\ "lapse" \in Losses \/ ("cull" \in Losses /\ b # Redis)
    /\ store[b][c] # Absent
    /\ Lose(Drop(b, c))
    /\ UNCHANGED req

RedisRestart ==
    /\ "redis" \in Losses
    /\ Lose(Forget(Redis))
    /\ UNCHANGED req

WorkerRestart(w) ==
    /\ "worker" \in Losses
    /\ Lose(Forget(w))
    /\ req' = [req EXCEPT ![w] = Absent]

Next ==
    \/ \E w \in Workers, c \in Keys :
        \/ ChallengePost(w, c)
        \/ AdminChallenge(w, c)
        \/ \E d \in Dids, valid \in BOOLEAN :
            \/ MobileRead(w, c, d, valid)
            \/ \E b \in Tabs : VerifyRead(w, b, c, d, valid)
            \/ \E b \in Tabs : AdminRead(w, b, c, d, valid)
        \/ \E b \in Tabs : PollRead(w, b, c)
    \/ \E w \in Workers :
        \/ FinishSignIn(w)
        \/ FinishAdmin(w)
        \/ FinishMobile(w)
        \/ WorkerRestart(w)
    \/ \E b \in Backends, c \in Keys : Lapse(b, c)
    \/ RedisRestart

Spec == Init /\ [][Next]_vars

-----------------------------------------------------------------------------
(* Properties.                                                             *)

\* Whoever a tab is signed in as has had a presentation verified for the very
\* challenge that signed it in, even when it came from a phone through one
\* worker and the session from a poll through another that read an outdated
\* copy.
SignedLogin ==
    \A b \in Tabs :
        session[b] # Absent => <<session[b].did, session[b].key>> \in signed

\* The two kinds of challenge share one key space but not their fate: the
\* admin console opens on admin challenges only, and a poll never signs in
\* on one (custom_admin_verify, and the JSON that an admin entry is not).
KindSeparation ==
    \A b \in Tabs :
        session[b] # Absent =>
            /\ session[b].via = "admin" => issued[session[b].key] = "admin"
            /\ session[b].via = "oob_qr" => issued[session[b].key] = "login"

\* What deleting a used challenge does achieve, whatever fails: a worker
\* grants no more sign-ins on it than there were writes of it and deletes
\* that never reached Redis.
ReuseBound ==
    \A w \in Workers, c \in Keys : logins[w][c] <= copies[c]

\* AGENT.md, IDP_DEVELOPER_GUIDE.md: a challenge is single-use.
SingleUse ==
    \A c \in Keys, v, w \in Workers :
        /\ logins[w][c] <= 1
        /\ logins[v][c] = 1 /\ logins[w][c] = 1 => v = w

\* The promise, step by step: whatever the workers have in hand and whatever
\* the cache forgets, every sign-in is one the ledger allows at that very
\* moment, to someone who signed that challenge, whom the gate lets through,
\* whose account is enabled, and with a copy of it left to that worker.
Ledger == INSTANCE SignInLedger WITH
    Challenges <- Keys,
    None <- Absent,
    spent <- logins

LedgerSpec == Ledger!LedgerSpec
=============================================================================

------------------------------ MODULE Passkeys ------------------------------
(***************************************************************************)
(* Passkey ceremonies (auth_bridge/views_passkeys.py, passkeys.py).  A     *)
(* begin handler leaves a ceremony in the cache; a complete handler reads  *)
(* it, verifies what the authenticator signed for it, writes the database  *)
(* and only then deletes it.  An assertion carries its authenticator's     *)
(* signature counter, which is compared with the one the handler read from *)
(* the credential's row and saved over it, with no lock on the row.        *)
(*                                                                         *)
(* Authenticators are the environment: several may hold one credential,    *)
(* each with a counter of its own, and what one has signed may be sent     *)
(* more than once.  What a sign-in does to the session is in Airlock.      *)
(***************************************************************************)
EXTENDS ResilientCache

CONSTANTS
    Users,      \* accounts
    Active,     \* accounts that are enabled
    Creds,      \* credential ids
    Devices,    \* authenticators
    Holds,      \* Holds[x]: the credential authenticator x holds
    Silent,     \* authenticators that may report 0 instead of counting
    MaxCount    \* bound: a counter stops there

Counts == 0..MaxCount

Registration(u) == [kind |-> "reg", user |-> u]
Authentication == [kind |-> "auth"]
Entries == {Authentication} \cup {Registration(u) : u \in Users}

\* The server state of both ceremonies is the challenge, which stands here
\* for the ceremony it was made in.
Attestations == [key : Keys, count : Counts]
Assertions == [cred : Creds, key : Keys, count : Counts]

Rows == [user : Users, count : Counts]

Requests ==
    [op : {"create"}, user : Users, cred : Creds, count : Counts, key : Keys]
        \cup [op : {"save"}, seen : Counts, sent : Assertions]
        \cup [op : {"destroy"}, key : Keys]

ASSUME PasskeyAssumption ==
    /\ Active \subseteq Users
    /\ Holds \in [Devices -> Creds]
    /\ Silent \subseteq Devices
    /\ MaxCount \in Nat
    /\ Absent \notin Entries \cup Requests \cup Rows \cup Attestations

VARIABLES
    begun,      \* begun[k]: the entry ceremony k began with, or Absent
    made,       \* made[c]: the ceremony credential c was created in, with the
                \* counter attested there; Absent before that
    counter,    \* counter[x]: authenticator x's signature counter
    signed,     \* assertions the authenticators have signed
    rows,       \* rows[c]: the PasskeyCredential of c, or Absent
    req,        \* req[w]: the request worker w is serving, or Absent
    accepted,   \* history: <<c, n>>, an assertion of c with count n was accepted
    twice,      \* history: credentials with two such for one count
    excused     \* history: credentials whose counter was saved over one the
                \* handler had not seen, or set to 0

vars == <<store, begun, made, counter, signed, rows, req, accepted, twice,
          excused>>
authenticators == <<made, counter, signed>>
history == <<accepted, twice, excused>>

TypeOK ==
    /\ store \in [Backends -> [Keys -> Entries \cup {Absent}]]
    /\ begun \in [Keys -> Entries \cup {Absent}]
    /\ made \in [Creds -> Attestations \cup {Absent}]
    /\ counter \in [Devices -> Counts]
    /\ signed \subseteq Assertions
    /\ rows \in [Creds -> Rows \cup {Absent}]
    /\ req \in [Workers -> Requests \cup {Absent}]
    /\ accepted \subseteq Creds \X Counts
    /\ twice \subseteq Creds
    /\ excused \subseteq Creds

Init ==
    /\ store = [b \in Backends |-> Empty]
    /\ begun = [k \in Keys |-> Absent]
    /\ made = [c \in Creds |-> Absent]
    /\ counter = [x \in Devices |-> 0]
    /\ signed = {}
    /\ rows = [c \in Creds |-> Absent]
    /\ req = [w \in Workers |-> Absent]
    /\ accepted = {}
    /\ twice = {}
    /\ excused = {}

Serving(w, op) == req[w] # Absent /\ req[w].op = op
Serve(w, q) == req' = [req EXCEPT ![w] = q]
Done(w) == Serve(w, Absent)

-----------------------------------------------------------------------------
(* Authenticators.                                                         *)

\* navigator.credentials.create: the credential is born for one ceremony, its
\* counter at 0 or wherever the authenticator's is.
Create(x, k, n) ==
    /\ begun[k] # Absent
    /\ begun[k].kind = "reg"
    /\ made[Holds[x]] = Absent
    /\ made' = [made EXCEPT ![Holds[x]] = [key |-> k, count |-> n]]
    /\ counter' = [y \in Devices |-> IF Holds[y] = Holds[x] THEN n ELSE counter[y]]
    /\ UNCHANGED <<store, begun, signed, rows, req, history>>

\* navigator.credentials.get: count one up, then sign.
Sign(x, k) ==
    /\ begun[k] = Authentication
    /\ made[Holds[x]] # Absent
    /\ \E n \in Counts :
        /\ \/ n = counter[x] + 1 /\ counter' = [counter EXCEPT ![x] = n]
           \/ x \in Silent /\ n = 0 /\ UNCHANGED counter
        /\ signed' = signed \cup {[cred |-> Holds[x], key |-> k, count |-> n]}
    /\ UNCHANGED <<store, begun, made, rows, req, history>>

-----------------------------------------------------------------------------
(* Begin handlers: a fresh ceremony id and one cache call (_store_ceremony).*)

Begin(w, k, entry) ==
    /\ req[w] = Absent
    /\ begun[k] = Absent
    /\ begun' = [begun EXCEPT ![k] = entry]
    /\ \E r \in RedisOutcomes : store' = AfterSet(r, w, k, entry)
    /\ UNCHANGED <<authenticators, rows, req, history>>

\* passkey_register_begin, for the user of the session.
RegisterBegin(w, k, u) == Begin(w, k, Registration(u))

\* passkey_authenticate_begin, for nobody in particular.
AuthenticateBegin(w, k) == Begin(w, k, Authentication)

-----------------------------------------------------------------------------
(* passkey_register_complete.                                              *)

\* Mutant: whoever is signed in completes the registration.
AnyRegistration(entry, u) == entry # Absent /\ entry.kind = "reg"

OwnRegistration(entry, u) == entry = Registration(u)

\* The ceremony is read, is the user's own, and what the authenticator made
\* was made for it.
RegisterRead(w, u, c) ==
    LET k == made[c].key
    IN  /\ req[w] = Absent
        /\ made[c] # Absent
        /\ \E r \in RedisOutcomes : OwnRegistration(CacheGet(r, w, k), u)
        /\ Serve(w, [op |-> "create", user |-> u, cred |-> c, key |-> k,
                     count |-> made[c].count])
        /\ UNCHANGED <<store, begun, authenticators, rows, history>>

\* Mutant: a credential id that has a row already is written over.
CreateOver(w) ==
    LET q == req[w]
    IN  /\ Serving(w, "create")
        /\ rows' = [rows EXCEPT ![q.cred] = [user |-> q.user, count |-> q.count]]
        /\ Serve(w, [op |-> "destroy", key |-> q.key])
        /\ UNCHANGED <<store, begun, authenticators, history>>

\* A credential id that has a row already is refused with 409 and the
\* ceremony stays; otherwise the row is created.
RegisterCreate(w) ==
    LET q == req[w]
    IN  /\ Serving(w, "create")
        /\ \/ /\ rows[q.cred] # Absent
              /\ Done(w)
              /\ UNCHANGED rows
           \/ /\ rows[q.cred] = Absent
              /\ rows' = [rows EXCEPT ![q.cred] = [user |-> q.user, count |-> q.count]]
              /\ Serve(w, [op |-> "destroy", key |-> q.key])
        /\ UNCHANGED <<store, begun, authenticators, history>>

-----------------------------------------------------------------------------
(* passkey_authenticate_complete.                                          *)

\* Mutant: an equal counter is taken for a retry.
FallsBack(sent, seen) == sent # 0 /\ seen # 0 /\ sent < seen

\* The clone check; 0 on either side switches it off.
Regresses(sent, seen) == sent # 0 /\ seen # 0 /\ sent <= seen

\* The ceremony and the row are read, and everything is checked against them.
\* The user handle an authenticator may return is the user it was made for.
AuthenticateRead(w, a) ==
    /\ req[w] = Absent
    /\ a \in signed
    /\ \E r \in RedisOutcomes : CacheGet(r, w, a.key) = Authentication
    /\ rows[a.cred] # Absent
    /\ rows[a.cred].user \in Active
    /\ begun[made[a.cred].key] = Registration(rows[a.cred].user)
    /\ ~Regresses(a.count, rows[a.cred].count)
    /\ Serve(w, [op |-> "save", seen |-> rows[a.cred].count, sent |-> a])
    /\ UNCHANGED <<store, begun, authenticators, rows, history>>

\* Mutants: the counter is left as it is; the next one expected is stored.
Kept(r, n) == r
Expecting(r, n) == [r EXCEPT !.count = n + 1]

Counted(r, n) == [r EXCEPT !.count = n]

\* row.save(update_fields=...): the assertion is accepted.
AuthenticateSave(w) ==
    LET a == req[w].sent
        stale == rows[a.cred].count # req[w].seen
    IN  /\ Serving(w, "save")
        /\ rows' = [rows EXCEPT ![a.cred] = Counted(@, a.count)]
        /\ accepted' = accepted \cup {<<a.cred, a.count>>}
        /\ twice' = IF <<a.cred, a.count>> \in accepted THEN twice \cup {a.cred} ELSE twice
        /\ excused' = IF stale \/ a.count = 0 THEN excused \cup {a.cred} ELSE excused
        /\ Serve(w, [op |-> "destroy", key |-> a.key])
        /\ UNCHANGED <<store, begun, authenticators>>

\* _destroy_ceremony; the gate and the login that may follow are in Airlock.
Destroy(w) ==
    /\ Serving(w, "destroy")
    /\ \E r \in RedisOutcomes : store' = AfterDelete(r, w, req[w].key)
    /\ Done(w)
    /\ UNCHANGED <<begun, authenticators, rows, history>>

-----------------------------------------------------------------------------
(* What happens around them.                                               *)

Lapse(b, k) ==
    /\ "lapse" \in Losses \/ ("cull" \in Losses /\ b # Redis)
    /\ store[b][k] # Absent
    /\ store' = Drop(b, k)
    /\ UNCHANGED <<begun, authenticators, rows, req, history>>

RedisRestart ==
    /\ "redis" \in Losses
    /\ store' = Forget(Redis)
    /\ UNCHANGED <<begun, authenticators, rows, req, history>>

\* A worker may die between any two writes of a handler.
WorkerRestart(w) ==
    /\ "worker" \in Losses
    /\ store' = Forget(w)
    /\ Done(w)
    /\ UNCHANGED <<begun, authenticators, rows, history>>

Next ==
    \/ \E x \in Devices, k \in Keys :
        \/ \E n \in Counts : Create(x, k, n)
        \/ Sign(x, k)
    \/ \E w \in Workers, k \in Keys :
        \/ AuthenticateBegin(w, k)
        \/ \E u \in Users : RegisterBegin(w, k, u)
    \/ \E w \in Workers :
        \/ \E u \in Users, c \in Creds : RegisterRead(w, u, c)
        \/ RegisterCreate(w)
        \/ \E a \in signed : AuthenticateRead(w, a)
        \/ AuthenticateSave(w)
        \/ Destroy(w)
        \/ WorkerRestart(w)
    \/ \E b \in Backends, k \in Keys : Lapse(b, k)
    \/ RedisRestart

Spec == Init /\ [][Next]_vars

-----------------------------------------------------------------------------
(* Properties.                                                             *)

\* A credential belongs to the user whose own ceremony it was created in,
\* whoever sends the attestation, through whichever worker, and how often.
OwnPasskeys ==
    \A c \in Creds :
        rows[c] # Absent =>
            made[c] # Absent /\ begun[made[c].key] = Registration(rows[c].user)

\* What the counter is for: two authenticators with one credential, or one
\* assertion sent twice while its ceremony outlives its deletion, do not both
\* get in on the same count, as long as no two of their requests overlap
\* and none of them reports 0.
CountOnce == twice \subseteq excused

\* The stored counter never falls behind an accepted one, on the same terms.
CounterAhead ==
    \A c \in Creds \ excused, n \in Counts :
        <<c, n>> \in accepted => rows[c] # Absent /\ n <= rows[c].count
-----------------------------------------------------------------------------
(* The promise of PasskeyService: a ceremony stands for the user who began *)
(* it, and a request for nothing until it writes.                          *)

\* For whom, and with which count, each credential was created.
Births ==
    [c \in Creds |->
        IF made[c] = Absent THEN Absent
        ELSE [user |-> begun[made[c].key].user, count |-> made[c].count]]

\* What the authenticators have signed, whichever ceremony it was for.
Shown == {<<a.cred, a.count>> : a \in signed}

Service == INSTANCE PasskeyService WITH
    None <- Absent, born <- Births, shown <- Shown, broken <- excused

\* Whatever requests overlap, whatever the cache loses and wherever a worker
\* dies: a credential is registered once, as it was created, by the user whose
\* ceremony that was; each sign-in is by its active owner with what one of its
\* authenticators signed, and takes the counter from below its count to it,
\* except where two requests overlapped on the row or the count was 0.
PasskeyServiceSpec == Service!PasskeySpec
=============================================================================

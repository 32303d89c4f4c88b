------------------------ MODULE TokenEndpointProofs ------------------------
(***************************************************************************)
(* What holds of TokenEndpoint for every number of workers, dependents and *)
(* codes.  The arguments: a request let in over a revoked row has missed   *)
(* its first look or lost its code, a row stays a row, a worker's memory   *)
(* stays as it is while it serves, and a code not `gone` still has its     *)
(* challenge in Redis.                                                     *)
(***************************************************************************)
EXTENDS TokenEndpoint, ResilientCacheProofs

Values == {"ticket", "S256", Absent}

LEMMA KeysOf == Dids \subseteq Keys /\ Codes \subseteq Keys /\ Dids \cap Codes = {}
BY TokenAssumption

\* What a request carries, by its kind.
LEMMA ReqFields ==
    ASSUME TypeOK, NEW w \in Workers, ~Idle(w)
    PROVE  /\ req[w].did \in Dids
           /\ req[w].op \in {"visit", "bearer"} => req[w] \in Visits
           /\ req[w].op \in {"gate", "library", "save"} => req[w] \in TokenRequests
           /\ req[w].op \in {"ticket", "visit", "bearer", "gate", "library", "save"}
BY DEF TypeOK, Idle, Requests, Visits, TokenRequests

\* A token request moves on: its standing so far stays with it.
LEMMA Moved ==
    ASSUME TypeOK, NEW w \in Workers, ~Idle(w), req[w] \in TokenRequests,
           NEW op \in {"gate", "library", "save"}
    PROVE  /\ \A proven \in BOOLEAN :
                [req[w] EXCEPT !.op = op, !.proven = proven] \in TokenRequests
           /\ \A missed \in SUBSET Looks, d \in Dids \cup {Absent} :
                Granted(req[w], missed, d) \in TokenRequests
BY DEF TokenRequests, Granted, Verifiers

\* Every step, by who takes it.
Begins(w) ==
    \/ \E d \in Dids : RefreshBegin(w, d)
    \/ \E d \in Dids, bearer \in BOOLEAN : VisitBegin(w, d, bearer)
    \/ \E c \in Codes, verifier \in Verifiers, view \in {"gate", "library"} :
            ExchangeBegin(w, c, verifier, view)

Loss ==
    \/ \E b \in Backends, k \in Keys : Lapse(b, k)
    \/ RedisRestart
    \/ \E w \in Workers : WorkerRestart(w)

LEMMA StepCases ==
    ASSUME Next
    PROVE  \/ \E w \in Workers, d \in Dids, standing \in {"valid", "revoked"} :
                Register(w, d, standing)
           \/ \E w \in Workers, d \in Dids : TicketHeard(w, d)
           \/ \E w \in Workers, d \in Dids, c \in Codes : Mint(w, d, c)
           \/ \E d \in Dids, c \in Codes : MintInLibrary(d, c)
           \/ \E w \in Workers : Begins(w)
           \/ \E w \in Workers : TicketRecorded(w)
           \/ \E w \in Workers : Gate(w)
           \/ \E w \in Workers : Hook(w)
           \/ \E w \in Workers : Refuse(w)
           \/ \E w \in Workers : Save(w)
           \/ \E w \in Workers : VisitEnd(w)
           \/ Loss
BY DEF Next, Begins, Loss

\* The steps the database sees nothing of.
Bystander ==
    \/ \E w \in Workers, d \in Dids : TicketHeard(w, d)
    \/ \E w \in Workers, d \in Dids, c \in Codes : Mint(w, d, c)
    \/ \E d \in Dids, c \in Codes : MintInLibrary(d, c)
    \/ \E w \in Workers : Begins(w) \/ Gate(w) \/ Hook(w) \/ Refuse(w) \/ Save(w)
                            \/ VisitEnd(w)
    \/ Loss

LEMMA BystanderKeeps ==
    ASSUME Bystander
    PROVE  UNCHANGED row
BY DEF Bystander, TicketHeard, Mint, MintInLibrary, Begins, RefreshBegin, VisitBegin, ExchangeBegin,
   Gate, Hook, Refuse, Save, VisitEnd, Loss, Lapse, RedisRestart, WorkerRestart, registry

-----------------------------------------------------------------------------
(* Types.                                                                  *)

LEMMA DoneTyped ==
    ASSUME TypeOK, NEW w \in Workers, Done(w)
    PROVE  req' \in [Workers -> Requests \cup {Absent}]
BY DEF TypeOK, Done, Serve

LEMMA ServeTyped ==
    ASSUME TypeOK, NEW w \in Workers, NEW q \in Requests, Serve(w, q)
    PROVE  req' \in [Workers -> Requests \cup {Absent}]
BY DEF TypeOK, Serve

LEMMA TokensAreRequests == TokenRequests \subseteq Requests
BY DEF Requests

\* The looks missed by a request when the hook is through with it.
HookMissed(w, failed) ==
    IF failed /\ row[req[w].did] # "none"
    THEN req[w].missed \cup {"hook"} ELSE req[w].missed

\* How the hook lets a request pass: without a credential, or with d's.
HookPlain(w, failed) ==
    /\ ~IsDependent(w, req[w].did, failed)
    /\ Serve(w, Granted(req[w], HookMissed(w, failed), Absent))

HookMarked(w, failed, d) ==
    /\ HookClears(w, req[w].did, failed)
    /\ Serve(w, Granted(req[w], HookMissed(w, failed), d))

LEMMA HookCases ==
    ASSUME NEW w \in Workers, Hook(w)
    PROVE  \E failed \in BOOLEAN :
              \/ HookPlain(w, failed)
              \/ \E d \in Dids : HookMarked(w, failed, d)
BY DEF Hook, HookPlain, HookMarked, HookMissed, VCs

\* The hook goes on with a token request.
LEMMA HookServes ==
    ASSUME TypeOK, NEW w \in Workers, Hook(w)
    PROVE  \E q \in TokenRequests : Serve(w, q)
<1>1. ~Idle(w) /\ req[w] \in TokenRequests
  BY ReqFields DEF Hook
<1>2. PICK failed \in BOOLEAN :
          HookPlain(w, failed) \/ \E d \in Dids : HookMarked(w, failed, d)
  BY HookCases
<1>3. HookMissed(w, failed) \in SUBSET Looks
  BY <1>1 DEF HookMissed, TokenRequests, Looks
<1>4. CASE HookPlain(w, failed)
  BY <1>1, <1>3, <1>4, Moved DEF HookPlain
<1>5. ASSUME NEW d \in Dids, HookMarked(w, failed, d)
      PROVE  \E q \in TokenRequests : Serve(w, q)
  BY <1>1, <1>3, <1>5, Moved DEF HookMarked
<1> QED BY <1>2, <1>4, <1>5

\* What the PKCE gate looks at is a code, and what the hook looks at has no
\* credential accepted yet.
Gated ==
    \A w \in Workers : ~Idle(w) =>
        /\ req[w].op = "gate" => req[w].code \in Codes
        /\ req[w].op \in {"gate", "library"} => req[w].about = Absent

\* A token request as the middleware lets it in.
Arrived(w, q, d) ==
    \E failed \in BOOLEAN :
        /\ q.op \in {"gate", "library"} /\ q \in TokenRequests
        /\ q.did = d /\ q.noted = row[d] /\ q.missed = Arriving(d, failed)
        /\ ~q.proven /\ q.about = Absent
        /\ \/ q.code = Refresh /\ q.op = "library" /\ d \in tokens
           \/ q.code \in Codes /\ owner[q.code] = d
        /\ q.op = "library" => q.verifier = "none"
        /\ failed \/ (q.code \in Codes /\ q.code \notin live) \/ Cleared(w, d, FALSE)
        /\ Serve(w, q)

Visited(w, q, d) ==
    \E failed \in BOOLEAN :
        /\ q \in Visits
        /\ q.did = d /\ q.noted = row[d] /\ q.missed = Arriving(d, failed)
        /\ (q.op = "bearer" /\ failed) \/ Cleared(w, d, failed)
        /\ Serve(w, q)

LEMMA ArrivingLooks ==
    ASSUME NEW d, NEW failed PROVE Arriving(d, failed) \in SUBSET Looks
BY DEF Arriving, Looks

LEMMA BeginCases ==
    ASSUME TypeOK, NEW w \in Workers, Begins(w)
    PROVE  \E q \in Requests, d \in Dids : Arrived(w, q, d) \/ Visited(w, q, d)
<1>1. ASSUME NEW d \in Dids, RefreshBegin(w, d)
      PROVE  \E q \in Requests : Arrived(w, q, d)
  <2>1. PICK failed \in BOOLEAN :
          /\ failed \/ Cleared(w, d, FALSE)
          /\ Serve(w, [op |-> "library", code |-> Refresh, did |-> d, verifier |-> "none",
                       proven |-> FALSE, noted |-> row[d],
                       missed |-> Arriving(d, failed), about |-> Absent])
    BY <1>1 DEF RefreshBegin
  <2> DEFINE q == [op |-> "library", code |-> Refresh, did |-> d, verifier |-> "none",
                   proven |-> FALSE, noted |-> row[d],
                   missed |-> Arriving(d, failed), about |-> Absent]
  <2>2. q \in TokenRequests
    BY ArrivingLooks DEF TypeOK, TokenRequests, Verifiers
  <2>3. Serve(w, q) /\ d \in tokens
    BY <1>1, <2>1 DEF RefreshBegin
  <2>4. /\ q.op = "library" /\ q.code = Refresh /\ q.did = d /\ q.verifier = "none"
        /\ q.proven = FALSE /\ q.noted = row[d] /\ q.about = Absent
        /\ q.missed = Arriving(d, failed)
    OBVIOUS
  <2> HIDE DEF q
  <2> QED BY <2>1, <2>2, <2>3, <2>4, TokensAreRequests DEF Arrived
<1>2. ASSUME NEW d \in Dids, NEW bearer \in BOOLEAN, VisitBegin(w, d, bearer)
      PROVE  \E q \in Requests : Visited(w, q, d)
  <2> DEFINE op == IF bearer THEN "bearer" ELSE "visit"
  <2>1. PICK failed \in BOOLEAN :
          /\ (bearer /\ failed) \/ Cleared(w, d, failed)
          /\ Serve(w, [op |-> op, did |-> d, noted |-> row[d],
                       missed |-> Arriving(d, failed)])
    BY <1>2 DEF VisitBegin
  <2> DEFINE q == [op |-> op, did |-> d, noted |-> row[d], missed |-> Arriving(d, failed)]
  <2>2. q \in Visits
    BY ArrivingLooks DEF TypeOK, Visits
  <2>3. /\ q.op = op /\ q.did = d /\ q.noted = row[d]
        /\ q.missed = Arriving(d, failed) /\ Serve(w, q)
    BY <2>1
  <2>4. bearer => q.op = "bearer"
    BY <2>3
  <2> HIDE DEF q
  <2> QED BY <2>1, <2>2, <2>3, <2>4 DEF Visited, Requests
<1>3. ASSUME NEW c \in Codes, NEW verifier \in Verifiers, NEW view \in {"gate", "library"},
             ExchangeBegin(w, c, verifier, view)
      PROVE  owner[c] \in Dids /\ \E q \in Requests : Arrived(w, q, owner[c])
  <2>1. owner[c] \in Dids
    BY <1>3 DEF ExchangeBegin, TypeOK
  <2>2. PICK failed \in BOOLEAN :
          /\ failed \/ c \notin live \/ Cleared(w, owner[c], FALSE)
          /\ view = "library" => verifier = "none"
          /\ Serve(w, [op |-> view, code |-> c, did |-> owner[c], verifier |-> verifier,
                       proven |-> FALSE, noted |-> row[owner[c]],
                       missed |-> Arriving(owner[c], failed), about |-> Absent])
    BY <1>3 DEF ExchangeBegin
  <2> DEFINE q == [op |-> view, code |-> c, did |-> owner[c], verifier |-> verifier,
                   proven |-> FALSE, noted |-> row[owner[c]],
                   missed |-> Arriving(owner[c], failed), about |-> Absent]
  <2>3. q \in TokenRequests
    BY <2>1, ArrivingLooks DEF TypeOK, TokenRequests
  <2>4. /\ q.op = view /\ q.code = c /\ q.did = owner[c] /\ q.verifier = verifier
        /\ q.proven = FALSE /\ q.noted = row[owner[c]] /\ q.about = Absent
        /\ q.missed = Arriving(owner[c], failed) /\ Serve(w, q)
    BY <2>2
  <2> HIDE DEF q
  <2> QED BY <2>1, <2>2, <2>3, <2>4, TokensAreRequests DEF Arrived
<1> QED BY <1>1, <1>2, <1>3 DEF Begins

LEMMA BeginServes ==
    ASSUME TypeOK, NEW w \in Workers, Begins(w)
    PROVE  \E q \in Requests : Serve(w, q)
BY BeginCases DEF Arrived, Visited

\* What is known of a request the middleware has just let in.
LEMMA BeginRequest ==
    ASSUME TypeOK, NEW w \in Workers, Begins(w), NEW q, q = req'[w]
    PROVE  /\ q.op \in {"gate", "library", "visit", "bearer"}
           /\ q.did \in Dids
           /\ q.noted = row[q.did]
           /\ q.missed \in {{}, {"arrival"}}
           /\ q.op \in {"visit", "bearer"} =>
                ~(q.noted = "revoked" /\ "arrival" \notin q.missed)
           /\ q.op = "visit" => q.did \notin heard[w]
           /\ q.op \in {"gate", "library"} =>
                /\ q \in TokenRequests /\ ~q.proven /\ q.about = Absent
                /\ \/ q.code = Refresh /\ q.op = "library" /\ q.did \in tokens
                   \/ q.code \in Codes /\ owner[q.code] = q.did
                /\ q.op = "library" => q.verifier = "none"
                /\ q.noted = "revoked" /\ "arrival" \notin q.missed =>
                        q.code \in Codes /\ q.code \notin live
<1>1. PICK p \in Requests, d \in Dids : Arrived(w, p, d) \/ Visited(w, p, d)
  BY BeginCases
<1>2. q = p
  BY <1>1 DEF Arrived, Visited, Serve, TypeOK
<1>3. row[d] = "revoked" => ~Cleared(w, d, FALSE)
  BY DEF Cleared, Revoked
<1>4. ASSUME NEW failed \in BOOLEAN, Cleared(w, d, failed) PROVE d \notin heard[w]
  BY <1>4 DEF Cleared, Revoked
<1>5. CASE Arrived(w, p, d)
  <2>1. PICK failed \in BOOLEAN :
          /\ q.missed = Arriving(d, failed)
          /\ failed \/ (q.code \in Codes /\ q.code \notin live) \/ Cleared(w, d, FALSE)
    BY <1>2, <1>5 DEF Arrived
  <2>2. q.missed \in {{}, {"arrival"}} /\ (failed /\ row[d] = "revoked" => "arrival" \in q.missed)
    BY <2>1 DEF Arriving
  <2> QED BY <1>2, <1>3, <1>5, <2>1, <2>2 DEF Arrived
<1>6. CASE Visited(w, p, d)
  <2>1. PICK failed \in BOOLEAN :
          /\ q.missed = Arriving(d, failed)
          /\ (q.op = "bearer" /\ failed) \/ Cleared(w, d, failed)
    BY <1>2, <1>6 DEF Visited
  <2>2. q.missed \in {{}, {"arrival"}} /\ (failed /\ row[d] = "revoked" => "arrival" \in q.missed)
    BY <2>1 DEF Arriving
  <2>3. q \in Visits /\ q.did = d /\ q.noted = row[d]
    BY <1>2, <1>6 DEF Visited
  <2> QED BY <1>3, <1>4, <2>1, <2>2, <2>3 DEF Visits
<1> QED BY <1>1, <1>5, <1>6

LEMMA TypeStep == ASSUME TypeOK, Gated, Next PROVE TypeOK'
<1> USE DEF Values
<1>1. ASSUME NEW w \in Workers, NEW d \in Dids, NEW standing \in {"valid", "revoked"},
             Register(w, d, standing)
      PROVE  TypeOK'
  <2>1. vector' \in [Workers -> [Dids -> Standings]] /\ row' \in [Dids -> Standings]
    BY <1>1 DEF Register, TypeOK, Standings
  <2> QED BY <1>1, <2>1 DEF Register, TypeOK, grants
<1>2. ASSUME NEW w \in Workers, NEW d \in Dids, TicketHeard(w, d) PROVE TypeOK'
  <2>1. PICK r \in RedisOutcomes : store' = AfterSet(r, w, d, "ticket")
    BY <1>2 DEF TicketHeard
  <2>2. store' \in [Backends -> [Keys -> Values]]
    BY <2>1, KeysOf, SetTyped DEF TypeOK
  <2>3. [op |-> "ticket", did |-> d] \in Requests
    BY DEF Requests
  <2>4. req' \in [Workers -> Requests \cup {Absent}]
    BY <1>2, <2>3, ServeTyped DEF TicketHeard
  <2>5. heard' \in [Workers -> SUBSET Dids]
    BY <1>2 DEF TicketHeard, TypeOK
  <2> QED BY <1>2, <2>2, <2>4, <2>5 DEF TicketHeard, TypeOK, grants
<1>3. ASSUME NEW w \in Workers, NEW d \in Dids, NEW c \in Codes, Mint(w, d, c)
      PROVE  TypeOK'
  <2>1. PICK r \in RedisOutcomes :
            /\ store' = AfterSet(r, w, c, "S256")
            /\ gone' = IF Executed(r) THEN gone ELSE gone \cup {c}
    BY <1>3 DEF Mint
  <2>2. store' \in [Backends -> [Keys -> Values]]
    BY <2>1, KeysOf, SetTyped DEF TypeOK
  <2> QED BY <1>3, <2>1, <2>2 DEF Mint, TypeOK, registry
<1>4. ASSUME NEW w \in Workers, Begins(w) PROVE TypeOK'
  <2>1. PICK q \in Requests : Serve(w, q)
    BY <1>4, BeginServes
  <2>2. req' \in [Workers -> Requests \cup {Absent}]
    BY <2>1, ServeTyped
  <2>3. UNCHANGED <<store, registry, grants, gone>>
    BY <1>4 DEF Begins, RefreshBegin, VisitBegin, ExchangeBegin
  <2> QED BY <2>2, <2>3 DEF TypeOK, registry, grants
<1>5. ASSUME NEW w \in Workers, TicketRecorded(w) PROVE TypeOK'
  <2>1. req[w].did \in Dids
    BY <1>5, ReqFields DEF TicketRecorded
  <2>2. /\ vector' \in [Workers -> [Dids -> Standings]]
        /\ row' \in [Dids -> Standings]
    BY <1>5, <2>1 DEF TicketRecorded, MarkRow, TypeOK, Standings
  <2> QED BY <1>5, <2>2, DoneTyped DEF TicketRecorded, TypeOK, grants
<1>6. ASSUME NEW w \in Workers, Gate(w) PROVE TypeOK'
  <2>1. ~Idle(w) /\ req[w] \in TokenRequests
    BY <1>6, ReqFields DEF Gate
  <2>2. ASSUME NEW proven \in BOOLEAN,
               Serve(w, [req[w] EXCEPT !.op = "library", !.proven = proven])
        PROVE  req' \in [Workers -> Requests \cup {Absent}]
    BY <2>1, <2>2, Moved, ServeTyped, TokensAreRequests
  <2>3. req' \in [Workers -> Requests \cup {Absent}]
    BY <1>6, <2>2, DoneTyped DEF Gate
  <2>4. req[w].code \in Codes
    BY <1>6 DEF Gate, Gated
  <2>5. store' \in [Backends -> [Keys -> Values]]
    <3>1. ASSUME NEW r \in RedisOutcomes, store' = AfterDelete(r, w, req[w].code)
          PROVE  store' \in [Backends -> [Keys -> Values]]
      BY <2>4, <3>1, KeysOf, DeleteTyped DEF TypeOK
    <3> QED BY <1>6, <3>1 DEF Gate, TypeOK
  <2>6. gone' \subseteq Codes
    BY <1>6, <2>4 DEF Gate, TypeOK
  <2> QED BY <1>6, <2>3, <2>5, <2>6 DEF Gate, TypeOK, registry, grants
<1>7. ASSUME NEW w \in Workers, Hook(w) PROVE TypeOK'
  <2>1. PICK q \in TokenRequests : Serve(w, q)
    BY <1>7, HookServes
  <2> QED BY <1>7, <2>1, ServeTyped, TokensAreRequests DEF Hook, TypeOK, registry, grants
<1>8. ASSUME NEW w \in Workers, Refuse(w) \/ VisitEnd(w) PROVE TypeOK'
  BY <1>8, DoneTyped DEF Refuse, VisitEnd, TypeOK, registry, grants
<1>9. ASSUME NEW w \in Workers, Save(w) PROVE TypeOK'
  <2>1. req[w].did \in Dids
    BY <1>9, ReqFields DEF Save
  <2> QED BY <1>9, <2>1, DoneTyped DEF Save, TypeOK, registry
<1>10. ASSUME NEW b \in Backends, NEW k \in Keys, Lapse(b, k) PROVE TypeOK'
  <2>1. store' \in [Backends -> [Keys -> Values]]
    BY <1>10, DropTyped DEF Lapse, TypeOK
  <2> QED BY <1>10, <2>1 DEF Lapse, TypeOK, registry, grants
<1>11. ASSUME RedisRestart PROVE TypeOK'
  <2>1. store' \in [Backends -> [Keys -> Values]]
    BY <1>11, ForgetTyped DEF RedisRestart, TypeOK, Backends
  <2> QED BY <1>11, <2>1 DEF RedisRestart, TypeOK, registry, grants
<1>12. ASSUME NEW w \in Workers, WorkerRestart(w) PROVE TypeOK'
  <2>1. store' \in [Backends -> [Keys -> Values]]
    BY <1>12, ForgetTyped DEF WorkerRestart, TypeOK, Backends
  <2>2. /\ vector' \in [Workers -> [Dids -> Standings]]
        /\ heard' \in [Workers -> SUBSET Dids]
    BY <1>12 DEF WorkerRestart, TypeOK, Standings
  <2> QED BY <1>12, <2>1, <2>2, DoneTyped DEF WorkerRestart, TypeOK, grants
<1>13. ASSUME NEW d \in Dids, NEW c \in Codes, MintInLibrary(d, c) PROVE TypeOK'
  BY <1>13 DEF MintInLibrary, TypeOK, registry
<1> QED
  BY <1>1, <1>2, <1>3, <1>4, <1>5, <1>6, <1>7, <1>8, <1>9, <1>10, <1>11, <1>12, <1>13,
     StepCases
     DEF Loss

\* What a worker may be serving after a step.
Moves(w) ==
    \/ req'[w] = req[w]
    \/ req'[w] = Absent
    \/ req'[w].op = "ticket"
    \/ Begins(w) \/ Gate(w) \/ Hook(w)

LEMMA StepMoves == ASSUME TypeOK, Next, NEW w \in Workers PROVE Moves(w)
<1>1. ASSUME NEW v \in Workers, NEW d \in Dids, NEW standing \in {"valid", "revoked"},
             Register(v, d, standing)
      PROVE  req' = req
  BY <1>1 DEF Register
<1>2. ASSUME NEW v \in Workers, NEW d \in Dids, NEW c \in Codes, Mint(v, d, c)
      PROVE  req' = req
  BY <1>2 DEF Mint
<1>7. ASSUME NEW d \in Dids, NEW c \in Codes, MintInLibrary(d, c)
      PROVE  req' = req
  BY <1>7 DEF MintInLibrary
<1>3. ASSUME NEW v \in Workers, NEW d \in Dids, TicketHeard(v, d)
      PROVE  req'[w].op = "ticket" \/ req'[w] = req[w]
  BY <1>3 DEF TicketHeard, Serve, TypeOK
<1>4. ASSUME NEW v \in Workers, Begins(v) \/ Gate(v) \/ Hook(v)
      PROVE  v = w \/ req'[w] = req[w]
  BY <1>4 DEF Begins, RefreshBegin, VisitBegin, ExchangeBegin, Gate, Hook, Done, Serve,
     TypeOK
<1>5. ASSUME NEW v \in Workers,
             TicketRecorded(v) \/ Refuse(v) \/ Save(v) \/ VisitEnd(v) \/ WorkerRestart(v)
      PROVE  req'[w] \in {req[w], Absent}
  BY <1>5 DEF TicketRecorded, Refuse, Save, VisitEnd, WorkerRestart, Done, Serve, TypeOK
<1>6. ASSUME RedisRestart \/ \E b \in Backends, k \in Keys : Lapse(b, k)
      PROVE  req' = req
  BY <1>6 DEF RedisRestart, Lapse
<1> QED BY <1>1, <1>2, <1>3, <1>4, <1>5, <1>6, <1>7, StepCases DEF Loss, Moves

\* What the middleware noted of a request stays with it.
Same(q, p) ==
    /\ q.code = p.code /\ q.did = p.did /\ q.noted = p.noted
    /\ "arrival" \in q.missed <=> "arrival" \in p.missed

\* A request the PKCE gate lets pass.
LEMMA GateRequest ==
    ASSUME TypeOK, NEW w \in Workers, Gate(w), NEW q, q = req'[w], q # Absent
    PROVE  /\ req[w] \in TokenRequests /\ req[w].op = "gate"
           /\ q.op = "library" /\ Same(q, req[w]) /\ q.verifier = req[w].verifier
           /\ q.missed = req[w].missed /\ q.about = req[w].about
           /\ q.proven => q.verifier = "right"
           /\ req[w].verifier = "wrong" => \E r \in RedisOutcomes :
                /\ CacheGet(r, w, req[w].code) = Absent
                /\ gone' = IF Answered(r) THEN gone ELSE gone \cup {req[w].code}
<1>1. req[w] \in TokenRequests /\ req[w].op = "gate"
  BY ReqFields DEF Gate
<1>2. ~Done(w)
  BY DEF Done, Serve, TypeOK
<1>3. PICK proven \in BOOLEAN :
        /\ q = [req[w] EXCEPT !.op = "library", !.proven = proven]
        /\ proven => req[w].verifier = "right"
  BY <1>2 DEF Gate, Matches, Serve, TypeOK
<1>4. /\ q.op = "library" /\ Same(q, req[w]) /\ q.proven = proven
      /\ q.verifier = req[w].verifier
      /\ q.missed = req[w].missed /\ q.about = req[w].about
  BY <1>1, <1>3 DEF TokenRequests, Same
<1>5. req[w].verifier = "wrong" => \E r \in RedisOutcomes :
        /\ CacheGet(r, w, req[w].code) = Absent
        /\ gone' = IF Answered(r) THEN gone ELSE gone \cup {req[w].code}
  BY <1>2 DEF Gate, Matches
<1> QED BY <1>1, <1>3, <1>4, <1>5 DEF Same

\* And one the hook lets have a token.
LEMMA HookRequest ==
    ASSUME TypeOK, Gated, NEW w \in Workers, Hook(w), NEW q, q = req'[w]
    PROVE  /\ req[w] \in TokenRequests /\ req[w].op = "library"
           /\ req[w].code = Refresh \/ req[w].code \in live
           /\ q.op = "save" /\ Same(q, req[w])
           /\ req[w].missed \subseteq q.missed /\ q.missed \subseteq Looks
           /\ q.about = Absent /\ row[q.did] # "none"
                => "hook" \in q.missed /\ vector[w][q.did] = "none"
           /\ q.about # Absent => q.did \notin heard[w]
           /\ row[q.did] = "revoked" => "hook" \in q.missed
<1>1. /\ ~Idle(w) /\ req[w] \in TokenRequests /\ req[w].op = "library"
      /\ req[w].code = Refresh \/ req[w].code \in live
  BY ReqFields DEF Hook
<1>2. req[w].about = Absent /\ Absent \notin Dids
  BY <1>1, TokenAssumption DEF Gated
<1>3. PICK failed \in BOOLEAN :
          HookPlain(w, failed) \/ \E d \in Dids : HookMarked(w, failed, d)
  BY HookCases
<1> DEFINE m == HookMissed(w, failed)
<1>4. /\ req[w].missed \subseteq m /\ m \subseteq Looks /\ req[w].did \in Dids
      /\ "arrival" \in m <=> "arrival" \in req[w].missed
      /\ failed /\ row[req[w].did] # "none" => "hook" \in m
  BY <1>1 DEF HookMissed, TokenRequests, Looks
<1>5. CASE HookPlain(w, failed)
  <2>1. q = Granted(req[w], m, Absent)
    BY <1>5 DEF HookPlain, Serve, TypeOK
  <2> HIDE DEF m
  <2>2. /\ q.op = "save" /\ Same(q, req[w])
        /\ q.missed = m /\ q.about = Absent /\ q.did = req[w].did
    BY <1>1, <1>2, <1>4, <2>1 DEF TokenRequests, Same, Granted
  <2>3. vector[w][q.did] = "none" /\ (~failed => row[q.did] = "none")
    BY <1>5, <2>2 DEF HookPlain, IsDependent
  <2> QED BY <1>1, <1>4, <2>2, <2>3
<1>6. ASSUME NEW d \in Dids, HookMarked(w, failed, d)
      PROVE  /\ q.op = "save" /\ Same(q, req[w])
             /\ q.missed = m /\ q.about = d /\ q.did = req[w].did
             /\ q.did \notin heard[w] /\ (~failed => row[q.did] # "revoked")
  <2>1. q = Granted(req[w], m, d)
    BY <1>6 DEF HookMarked, Serve, TypeOK
  <2> HIDE DEF m
  <2>2. /\ q.op = "save" /\ Same(q, req[w])
        /\ q.missed = m /\ q.about = d /\ q.did = req[w].did
    BY <1>1, <1>4, <2>1 DEF TokenRequests, Same, Granted
  <2> QED BY <1>6, <2>2 DEF HookMarked, HookClears, Cleared, Revoked
<1> HIDE DEF m
<1> QED BY <1>1, <1>2, <1>3, <1>4, <1>5, <1>6

LEMMA GatedStep == ASSUME TypeOK, Gated, Next PROVE Gated'
<1> SUFFICES ASSUME NEW w \in Workers, NEW q, q = req'[w], q # Absent, q # req[w]
             PROVE  /\ q.op = "gate" => q.code \in Codes
                    /\ q.op \in {"gate", "library"} => q.about = Absent
  BY DEF Gated, Idle
<1>1. CASE Begins(w)
  BY <1>1, BeginRequest
<1>2. CASE Gate(w)
  <2>1. q.op = "library" /\ q.about = req[w].about /\ req[w].op = "gate"
    BY <1>2, GateRequest
  <2> QED BY <1>2, <2>1 DEF Gated, Gate
<1>3. CASE Hook(w)
  BY <1>3, HookRequest
<1>4. Moves(w)
  BY StepMoves
<1> QED BY <1>1, <1>2, <1>3, <1>4 DEF Moves

Typed == TypeOK /\ Gated

LEMMA TypedHolds == Spec => []Typed
<1>1. Init => Typed
  BY TokenAssumption DEF Init, Typed, TypeOK, Gated, Idle, Empty, Standings
<1>2. Typed /\ [Next]_vars => Typed'
  <2>1. Typed /\ UNCHANGED vars => Typed'
    BY DEF Typed, TypeOK, Gated, Idle, vars
  <2> QED BY <2>1, TypeStep, GatedStep DEF Typed
<1> QED BY <1>1, <1>2, PTL DEF Spec

\* Registry, tickets, codes and requests stay well-formed.
THEOREM TypeCorrect == Spec => []TypeOK
<1>1. Typed => TypeOK
  BY DEF Typed
<1> QED BY <1>1, TypedHolds, PTL

-----------------------------------------------------------------------------
(* What only grows.                                                        *)

Grows ==
    /\ gone \subseteq gone'
    /\ \A d \in Dids : row[d] # "none" => row'[d] # "none"
    /\ \A c \in Codes : owner[c] # Absent =>
            owner'[c] # Absent /\ (c \notin live => c \notin live')

LEMMA StepGrows == ASSUME TypeOK, Next PROVE Grows
<1>1. gone \subseteq gone'
  <2>1. CASE RedisRestart
    BY <2>1 DEF RedisRestart, TypeOK
  <2>2. CASE ~RedisRestart
    BY <2>2, StepCases
       DEF Register, TicketHeard, Mint, MintInLibrary, Begins, RefreshBegin, VisitBegin,
           ExchangeBegin, TicketRecorded, Gate, Hook, Refuse, Save, VisitEnd, Loss, Lapse, WorkerRestart
  <2> QED BY <2>1, <2>2
<1>2. \A d \in Dids : row[d] # "none" => row'[d] # "none"
  <2>1. ASSUME NEW w \in Workers, NEW e \in Dids, NEW standing \in {"valid", "revoked"},
               Register(w, e, standing)
        PROVE  \A d \in Dids : row[d] # "none" => row'[d] # "none"
    BY <2>1 DEF Register, TypeOK
  <2>2. ASSUME NEW w \in Workers, TicketRecorded(w)
        PROVE  \A d \in Dids : row[d] # "none" => row'[d] # "none"
    BY <2>2 DEF TicketRecorded, MarkRow, TypeOK
  <2> QED BY <2>1, <2>2, StepCases, BystanderKeeps DEF Bystander
<1>3. ASSUME NEW c \in Codes, owner[c] # Absent
      PROVE  owner'[c] # Absent /\ (c \notin live => c \notin live')
  <2>1. ASSUME NEW w \in Workers, NEW d \in Dids, NEW e \in Codes, Mint(w, d, e)
        PROVE  e # c /\ owner'[c] = owner[c] /\ live' = live \cup {e}
    BY <1>3, <2>1 DEF Mint, TypeOK
  <2>3. ASSUME NEW d \in Dids, NEW e \in Codes, MintInLibrary(d, e)
        PROVE  e # c /\ owner'[c] = owner[c] /\ live' = live \cup {e}
    BY <1>3, <2>3 DEF MintInLibrary, TypeOK
  <2>2. ASSUME ~\E w \in Workers, d \in Dids, e \in Codes : Mint(w, d, e),
               ~\E d \in Dids, e \in Codes : MintInLibrary(d, e)
        PROVE  owner' = owner /\ live' \subseteq live
    BY <2>2, StepCases
       DEF Register, TicketHeard, Begins, RefreshBegin, VisitBegin, ExchangeBegin,
           TicketRecorded, Gate, Hook, Refuse, Save, VisitEnd, Loss, Lapse, RedisRestart,
           WorkerRestart, grants
  <2> QED BY <1>3, <2>1, <2>2, <2>3
<1> QED BY <1>1, <1>2, <1>3 DEF Grows

\* A worker's memory stays as it is while a request of its goes on.
LEMMA MemoryStays ==
    ASSUME TypeOK, Next, NEW w \in Workers, NEW q, q = req'[w], q # Absent,
           q.op # "ticket"
    PROVE  heard'[w] = heard[w] /\ (~Idle(w) => vector'[w] = vector[w])
<1>1. ASSUME NEW v \in Workers, NEW d \in Dids, NEW standing \in {"valid", "revoked"},
             Register(v, d, standing)
      PROVE  heard' = heard /\ (~Idle(w) => vector'[w] = vector[w])
  BY <1>1 DEF Register, TypeOK
<1>2. ASSUME NEW v \in Workers, NEW d \in Dids, TicketHeard(v, d)
      PROVE  heard'[w] = heard[w] /\ vector' = vector
  <2>1. v # w
    BY <1>2 DEF TicketHeard, Serve, TypeOK
  <2> QED BY <1>2, <2>1 DEF TicketHeard, TypeOK
<1>3. ASSUME NEW v \in Workers, TicketRecorded(v)
      PROVE  heard' = heard /\ vector'[w] = vector[w]
  <2>1. v # w
    BY <1>3 DEF TicketRecorded, Done, Serve, TypeOK
  <2> QED BY <1>3, <2>1 DEF TicketRecorded, TypeOK
<1>4. ASSUME NEW v \in Workers, WorkerRestart(v)
      PROVE  heard'[w] = heard[w] /\ vector'[w] = vector[w]
  <2>1. v # w
    BY <1>4 DEF WorkerRestart, Done, Serve, TypeOK
  <2> QED BY <1>4, <2>1 DEF WorkerRestart, TypeOK
<1>5. ASSUME \/ \E v \in Workers, d \in Dids, c \in Codes : Mint(v, d, c)
             \/ \E d \in Dids, c \in Codes : MintInLibrary(d, c)
             \/ \E v \in Workers : Begins(v) \/ Gate(v) \/ Hook(v) \/ Refuse(v) \/ Save(v)
                                     \/ VisitEnd(v)
             \/ RedisRestart \/ \E b \in Backends, k \in Keys : Lapse(b, k)
      PROVE  UNCHANGED <<heard, vector>>
  BY <1>5 DEF Mint, MintInLibrary, Begins, RefreshBegin, VisitBegin, ExchangeBegin, Gate,
     Hook, Refuse, Save, VisitEnd, RedisRestart, Lapse, registry
<1> QED BY <1>1, <1>2, <1>3, <1>4, <1>5, StepCases DEF Loss

TokenOps == {"gate", "library", "save"}

-----------------------------------------------------------------------------
(* Revocation.                                                             *)

\* A code that has been exchanged.
Spent(c) == c \in Codes /\ owner[c] # Absent /\ c \notin live

RecordInv ==
    \A w \in Workers : ~Idle(w) /\ req[w].op # "ticket" =>
        /\ Hopeless(req[w]) => req[w].op \in {"gate", "library"} /\ Spent(req[w].code)
        /\ req[w].op = "visit" \/ (req[w].op = "save" /\ req[w].about # Absent)
                => req[w].did \notin heard[w]

LEMMA RecordStep == ASSUME Typed, RecordInv, Next PROVE RecordInv'
<1> USE DEF Typed
<1> SUFFICES ASSUME NEW w \in Workers, NEW q, q = req'[w], q # Absent, q.op # "ticket"
             PROVE  /\ Hopeless(q) => q.op \in {"gate", "library"} /\ Spent(q.code)'
                    /\ q.op = "visit" \/ (q.op = "save" /\ q.about # Absent)
                            => q.did \notin heard'[w]
  BY DEF RecordInv, Hopeless, Spent, Idle
<1>1. ASSUME Spent(q.code) PROVE Spent(q.code)'
  BY <1>1, StepGrows DEF Spent, Grows
<1>2. heard'[w] = heard[w]
  BY MemoryStays
<1>3. CASE q = req[w]
  BY <1>1, <1>2, <1>3 DEF RecordInv, Idle
<1>4. CASE Begins(w)
  <2>1. q.op # "save"
    BY <1>4, BeginRequest
  <2>2. Hopeless(q) => q.op \in {"gate", "library"} /\ q.code \in Codes /\ q.code \notin live
    BY <1>4, BeginRequest DEF Hopeless
  <2>3. Hopeless(q) => Spent(q.code)
    <3>1. q.op \in {"gate", "library"} /\ q.code \in Codes => owner[q.code] # Absent
      BY <1>4, BeginRequest, TokenAssumption
    <3> QED BY <2>2, <3>1 DEF Spent
  <2>4. q.op = "visit" => q.did \notin heard[w]
    BY <1>4, BeginRequest
  <2> QED BY <1>1, <1>2, <2>1, <2>2, <2>3, <2>4
<1>5. CASE Gate(w)
  <2>1. q.op = "library" /\ Same(q, req[w]) /\ req[w].op = "gate" /\ ~Idle(w)
    BY <1>5, GateRequest DEF Gate
  <2>2. Hopeless(q) => Spent(q.code)
    BY <2>1 DEF RecordInv, Same, Hopeless
  <2> QED BY <1>1, <2>1, <2>2
<1>6. CASE Hook(w)
  <2>1. /\ q.op = "save" /\ Same(q, req[w]) /\ req[w].op = "library" /\ ~Idle(w)
        /\ req[w].code = Refresh \/ req[w].code \in live
        /\ q.about # Absent => q.did \notin heard[w]
    BY <1>6, HookRequest DEF Hook
  <2>2. ~Hopeless(req[w])
    BY <2>1, TokenAssumption DEF RecordInv, Spent
  <2>3. ~Hopeless(q)
    BY <2>1, <2>2 DEF Hopeless, Same
  <2> QED BY <1>2, <2>1, <2>3
<1>7. Moves(w)
  BY StepMoves
<1> QED BY <1>3, <1>4, <1>5, <1>6, <1>7 DEF Moves

LEMMA RecordHolds == Spec => []RecordInv
<1>1. Init => RecordInv
  BY DEF Init, RecordInv, Idle
<1>2. RecordInv /\ Typed /\ [Next]_vars => RecordInv'
  <2>1. RecordInv /\ UNCHANGED vars => RecordInv'
    BY DEF RecordInv, Hopeless, Spent, Idle, vars, grants, registry
  <2> QED BY <2>1, RecordStep
<1> QED BY <1>1, <1>2, TypedHolds, PTL DEF Spec

\* A revocation on record is final until the next registration: a request that
\* comes in over it is served, or gets a token, only if its own first look went
\* unanswered, and the worker that heard of it serves no session even then.
THEOREM RevocationIsFinal == Spec => []RevocationHolds
<1>1. RecordInv => RevocationHolds
  BY DEF RecordInv, RevocationHolds, Hopeless, Saving, Visiting, Idle
<1> QED BY <1>1, RecordHolds, PTL

-----------------------------------------------------------------------------
(* Dependents.                                                             *)

KnownInv ==
    \A w \in Workers : ~Idle(w) /\ req[w].op \in TokenOps /\ req[w].noted # "none" =>
        /\ row[req[w].did] # "none"
        /\ req[w].op = "save" /\ req[w].about = Absent
                => "hook" \in req[w].missed /\ vector[w][req[w].did] = "none"

LEMMA KnownStep == ASSUME Typed, KnownInv, Next PROVE KnownInv'
<1> USE DEF Typed
<1> SUFFICES ASSUME NEW w \in Workers, NEW q, q = req'[w], q # Absent,
                    q.op \in TokenOps, q.noted # "none"
             PROVE  /\ row'[q.did] # "none"
                    /\ q.op = "save" /\ q.about = Absent
                            => "hook" \in q.missed /\ vector'[w][q.did] = "none"
  BY DEF KnownInv, Idle
<1>7. q.op # "ticket"
  BY DEF TokenOps
<1>8. ~Idle(w) => vector'[w] = vector[w]
  BY <1>7, MemoryStays
<1>1. CASE q = req[w]
  <2>1. q.did \in Dids
    BY <1>1, ReqFields DEF Idle
  <2> QED BY <1>1, <1>8, <2>1, StepGrows DEF KnownInv, Idle, Grows
<1>2. CASE Begins(w)
  <2>1. q.did \in Dids /\ q.op # "save" /\ row[q.did] # "none"
    BY <1>2, BeginRequest DEF TokenOps
  <2> QED BY <2>1, StepGrows DEF Grows
<1>3. CASE Gate(w)
  <2>1. /\ q.op = "library" /\ Same(q, req[w]) /\ ~Idle(w)
        /\ req[w].op \in TokenOps /\ req[w].did \in Dids
    BY <1>3, GateRequest, ReqFields DEF Gate, TokenOps
  <2> QED BY <2>1, StepGrows DEF KnownInv, Same, Grows
<1>4. CASE Hook(w)
  <2>1. /\ q.op = "save" /\ Same(q, req[w]) /\ ~Idle(w)
        /\ req[w].op \in TokenOps /\ req[w].did \in Dids
        /\ q.about = Absent /\ row[q.did] # "none"
                => "hook" \in q.missed /\ vector[w][q.did] = "none"
    BY <1>4, HookRequest, ReqFields DEF Hook, TokenOps
  <2>2. row[q.did] # "none"
    BY <2>1 DEF KnownInv, Same
  <2> QED BY <1>8, <2>1, <2>2, StepGrows DEF Same, Grows
<1>5. Moves(w)
  BY StepMoves
<1> QED BY <1>1, <1>2, <1>3, <1>4, <1>5, <1>7 DEF Moves

LEMMA KnownHolds == Spec => []KnownInv
<1>1. Init => KnownInv
  BY DEF Init, KnownInv, Idle
<1>2. KnownInv /\ Typed /\ [Next]_vars => KnownInv'
  <2>1. KnownInv /\ UNCHANGED vars => KnownInv'
    BY DEF KnownInv, Idle, vars, registry
  <2> QED BY <2>1, KnownStep
<1> QED BY <1>1, <1>2, TypedHolds, PTL DEF Spec

\* A dependent on record gets the plain token of an adult only if the hook's
\* lookup fails in a worker that has not registered it.
THEOREM DependentsAreMarked == Spec => []DependentsMarked
<1>1. KnownInv => DependentsMarked
  BY DEF KnownInv, DependentsMarked, Saving, TokenOps
<1> QED BY <1>1, KnownHolds, PTL

-----------------------------------------------------------------------------
(* The PKCE gate.                                                          *)

\* A code that is not gone has its challenge in Redis.
Challenged ==
    \A c \in Codes : owner[c] # Absent /\ c \notin gone => store[Redis][c] = "S256"

GateInv ==
    /\ Challenged
    /\ \A w \in Workers : ~Idle(w) /\ req[w].op = "gate" => owner[req[w].code] # Absent
    /\ GateHolds

LEMMA ChallengedStep == ASSUME Typed, Challenged, Next PROVE Challenged'
<1> USE DEF Typed
<1> SUFFICES ASSUME NEW c \in Codes, owner'[c] # Absent, c \notin gone'
             PROVE  store'[Redis][c] = "S256"
  BY DEF Challenged
<1>1. c \notin gone /\ Redis \in Backends /\ c \in Keys
  BY StepGrows, KeysOf DEF Grows, Backends
<1>2. ASSUME NEW w \in Workers, NEW d \in Dids, Mint(w, d, c)
      PROVE  store'[Redis][c] = "S256"
  <2>1. PICK r \in RedisOutcomes :
            /\ store' = AfterSet(r, w, c, "S256")
            /\ gone' = IF Executed(r) THEN gone ELSE gone \cup {c}
    BY <1>2 DEF Mint
  <2> QED BY <1>1, <2>1, SetReaches
<1>11. ASSUME NEW d \in Dids, NEW e \in Codes, MintInLibrary(d, e)
       PROVE  e # c /\ owner'[c] = owner[c] /\ store' = store
  BY <1>11 DEF MintInLibrary, TypeOK
<1>3. ASSUME ~\E w \in Workers, d \in Dids : Mint(w, d, c)
      PROVE  store[Redis][c] = "S256"
  <2>1. owner[c] # Absent
    <3>1. ASSUME NEW w \in Workers, NEW d \in Dids, NEW e \in Codes, Mint(w, d, e)
          PROVE  owner'[c] = owner[c]
      BY <1>3, <3>1 DEF Mint, TypeOK
    <3>2. ASSUME ~\E w \in Workers, d \in Dids, e \in Codes : Mint(w, d, e),
                 ~\E d \in Dids, e \in Codes : MintInLibrary(d, e)
          PROVE  owner' = owner
      BY <3>2, StepCases
         DEF Register, TicketHeard, Begins, RefreshBegin, VisitBegin, ExchangeBegin,
             TicketRecorded, Gate, Hook, Refuse, Save, VisitEnd, Loss, Lapse,
             RedisRestart, WorkerRestart, grants
    <3> QED BY <1>11, <3>1, <3>2
  <2> QED BY <1>1, <2>1 DEF Challenged
<1>4. ASSUME NEW w \in Workers, NEW d \in Dids, TicketHeard(w, d)
      PROVE  store'[Redis][c] = store[Redis][c]
  BY <1>1, <1>4, KeysOf DEF TicketHeard, AfterSet
<1>5. ASSUME NEW w \in Workers, NEW d \in Dids, NEW e \in Codes, e # c, Mint(w, d, e)
      PROVE  store'[Redis][c] = store[Redis][c]
  BY <1>1, <1>5 DEF Mint, AfterSet
<1>6. ASSUME NEW w \in Workers, Gate(w)
      PROVE  store'[Redis][c] = store[Redis][c]
  <2>1. CASE UNCHANGED store
    BY <2>1
  <2>2. ASSUME NEW r \in RedisOutcomes, store' = AfterDelete(r, w, req[w].code),
               gone' = gone \cup {req[w].code}
        PROVE  store'[Redis][c] = store[Redis][c]
    BY <1>1, <2>2 DEF AfterDelete, AfterSet
  <2> QED BY <1>6, <2>1, <2>2 DEF Gate
<1>7. ASSUME NEW b \in Backends, NEW k \in Keys, Lapse(b, k)
      PROVE  store'[Redis][c] = store[Redis][c]
  BY <1>1, <1>7 DEF Lapse, Drop, TypeOK
<1>8. ~RedisRestart
  BY <1>1 DEF RedisRestart, grants
<1>9. ASSUME NEW w \in Workers, WorkerRestart(w)
      PROVE  store'[Redis][c] = store[Redis][c]
  BY <1>1, <1>9, CacheAssumption DEF WorkerRestart, Forget, TypeOK
<1>10. ASSUME \/ \E w \in Workers, d \in Dids, standing \in {"valid", "revoked"} :
                    Register(w, d, standing)
              \/ \E w \in Workers : \/ Begins(w) \/ TicketRecorded(w) \/ Hook(w)
                                    \/ Refuse(w) \/ Save(w) \/ VisitEnd(w)
       PROVE  store' = store
  BY <1>10 DEF Register, Begins, RefreshBegin, VisitBegin, ExchangeBegin, TicketRecorded,
     Hook, Refuse, Save, VisitEnd
<1> QED BY <1>2, <1>3, <1>4, <1>5, <1>6, <1>7, <1>8, <1>9, <1>10, <1>11, StepCases DEF Loss

\* A verifier that does not match passes only over a code that is gone.
LEMMA PassGone ==
    ASSUME Typed, GateInv, NEW w \in Workers, Gate(w), NEW q, q = req'[w], q # Absent,
           q.verifier = "wrong"
    PROVE  q.code \in gone' /\ ~q.proven
<1>1. /\ Same(q, req[w]) /\ req[w].verifier = "wrong" /\ ~q.proven
      /\ req[w].code \in Codes /\ owner[req[w].code] # Absent
  BY GateRequest DEF Typed, Gated, Gate, GateInv
<1>2. PICK r \in RedisOutcomes :
        /\ CacheGet(r, w, req[w].code) = Absent
        /\ gone' = IF Answered(r) THEN gone ELSE gone \cup {req[w].code}
  BY <1>1, GateRequest DEF Typed
<1>3. Absent # "S256"
  BY TokenAssumption
<1>4. req[w].code \in gone'
  BY <1>1, <1>2, <1>3 DEF GateInv, Challenged, CacheGet
<1> QED BY <1>1, <1>4 DEF Same

LEMMA GateStep == ASSUME Typed, GateInv, Next PROVE GateInv'
<1>1. Challenged'
  BY ChallengedStep DEF GateInv
<1>2. ASSUME NEW w \in Workers, NEW q, q = req'[w], q # Absent
      PROVE  /\ q.op = "gate" => owner'[q.code] # Absent
             /\ q.op = "library" /\ q.verifier = "wrong"
                    => q.code \in gone' /\ ~q.proven
  <2>1. CASE q = req[w]
    <3>1. q.op = "gate" => q.code \in Codes /\ owner[q.code] # Absent
      BY <1>2, <2>1 DEF GateInv, Idle, Typed, Gated
    <3>2. q.op = "library" /\ q.verifier = "wrong"
            => q.code \in gone /\ ~q.proven
      BY <1>2, <2>1 DEF GateInv, GateHolds, AtLibrary, Idle
    <3> QED BY <3>1, <3>2, StepGrows DEF Typed, Grows
  <2>2. CASE Begins(w)
    <3>1. q.op = "gate" => q.code \in Codes /\ owner[q.code] # Absent
      BY <1>2, <2>2, BeginRequest, TokenAssumption DEF Typed
    <3>2. ~(q.op = "library" /\ q.verifier = "wrong")
      BY <1>2, <2>2, BeginRequest DEF Typed
    <3> QED BY <3>1, <3>2, StepGrows DEF Typed, Grows
  <2>3. CASE Gate(w)
    <3>1. q.op = "library"
      BY <1>2, <2>3, GateRequest DEF Typed
    <3> QED BY <1>2, <2>3, <3>1, PassGone
  <2>4. CASE Hook(w)
    <3>1. q.op = "save"
      BY <1>2, <2>4, HookRequest DEF Typed
    <3> QED BY <3>1
  <2>5. CASE q.op = "ticket"
    BY <2>5
  <2>6. Moves(w)
    BY StepMoves DEF Typed
  <2> QED BY <1>2, <2>1, <2>2, <2>3, <2>4, <2>5, <2>6 DEF Moves
<1> QED BY <1>1, <1>2 DEF GateInv, GateHolds, AtLibrary, Idle

\* A verifier that does not match gets past PkceTokenView only over a code whose
\* cache entry was used, was lost, was out of reach, or was never made.
THEOREM TheGateHolds == Spec => []GateHolds
<1>1. Init => GateInv
  BY DEF Init, GateInv, Challenged, GateHolds, AtLibrary, Idle
<1>2. GateInv /\ Typed /\ [Next]_vars => GateInv'
  <2>1. GateInv /\ UNCHANGED vars => GateInv'
    BY DEF GateInv, Challenged, GateHolds, AtLibrary, Idle, vars, grants
  <2> QED BY <2>1, GateStep
<1>3. GateInv => GateHolds
  BY DEF GateInv
<1> QED BY <1>1, <1>2, <1>3, TypedHolds, PTL DEF Spec

-----------------------------------------------------------------------------
(* TokenEndpoint keeps the promise of DependentAccess: a request comes in  *)
(* where the middleware lets it, and is granted its token in the hook.     *)

Seen == <<row, owner, tokens, Serving>>

\* What is promised of a request that is under way.
Promise(q) ==
    [did |-> q.did,
     as |-> IF q.op \in {"visit", "bearer"} THEN "visitor"
            ELSE IF q.noted = "none" THEN "adult" ELSE "dependent",
     token |-> IF q.op # "save" THEN "none"
               ELSE IF q.about = Absent THEN "plain" ELSE "marked",
     missed |-> q.missed]

Unpromised(q) == q = Absent \/ q.op = "ticket" \/ Hopeless(q)

LEMMA PromisedKinds ==
    ASSUME TypeOK, NEW w \in Workers
    PROVE  /\ Serving[w] = Promised(w)
           /\ Unpromised(req[w]) => Promised(w) = Absent
           /\ ~Unpromised(req[w])
                => /\ Promised(w) = Promise(req[w])
                   /\ Promised(w) \in Promises
                   /\ Promised(w) # Absent
<1>1. ASSUME ~Unpromised(req[w]) PROVE Promise(req[w]) \in Promises
  <2>1. req[w].missed \in SUBSET Looks /\ req[w].did \in Dids
    BY <1>1, ReqFields DEF Unpromised, Idle, Visits, TokenRequests
  <2> QED BY <2>1 DEF Promise, Promises
<1>2. ASSUME ~Unpromised(req[w])
      PROVE  Promised(w) = Promise(req[w])
  BY <1>2 DEF Promised, Promise, Unpromised, Idle
<1>3. Absent \notin Promises
  BY TokenAssumption
<1> QED BY <1>1, <1>2, <1>3 DEF Serving, Promised, Unpromised, Idle

\* The same after the step.
LEMMA PromisedNext ==
    ASSUME TypeOK', NEW w \in Workers, NEW q, q = req'[w]
    PROVE  /\ Unpromised(q) => Serving'[w] = Absent
           /\ ~Unpromised(q) => Serving'[w] = Promise(q)
BY DEF Serving, Promised, Promise, Unpromised, Hopeless, Idle

\* A step of one worker's request.
LEMMA OneServing ==
    ASSUME TypeOK, NEW w \in Workers, \A v \in Workers \ {w} : req'[v] = req[v]
    PROVE  Serving' = [Serving EXCEPT ![w] = Serving'[w]]
<1>1. \A v \in Workers \ {w} : Promised(v)' = Promised(v)
  BY DEF Promised, Hopeless, Idle
<1>2. \A v \in Workers \ {w} : Serving'[v] = Serving[v]
  BY <1>1 DEF Serving
<1> QED BY <1>2 DEF Serving

LEMMA ComeStep ==
    ASSUME Typed, TypeOK', NEW w \in Workers, Begins(w)
    PROVE  Access!AccessNext \/ UNCHANGED Seen
<1> DEFINE q == req'[w]
<1>1. /\ UNCHANGED <<row, owner, tokens>> /\ Idle(w)
      /\ \A v \in Workers \ {w} : req'[v] = req[v]
  BY DEF Begins, RefreshBegin, VisitBegin, ExchangeBegin, registry, grants, Serve, Typed,
     TypeOK
<1>2. Serving' = [Serving EXCEPT ![w] = Serving'[w]]
  BY <1>1, OneServing DEF Typed
<1>3. Serving[w] = Absent
  BY <1>1, PromisedKinds DEF Unpromised, Idle, Typed
<1>4. CASE Serving'[w] = Absent
  <2>1. Serving' = Serving
    BY <1>2, <1>3, <1>4 DEF Serving
  <2> QED BY <1>1, <2>1 DEF Seen
<1>5. CASE Serving'[w] # Absent
  <2>1. ~Unpromised(q) /\ Serving'[w] = Promise(q)
    BY <1>5, PromisedNext
  <2>2. /\ q.op \in {"gate", "library", "visit", "bearer"} /\ q.did \in Dids
        /\ q.noted = row[q.did] /\ q.missed \in {{}, {"arrival"}}
        /\ q.op \in {"gate", "library"} => q.did \in tokens \/ \E c \in Codes : owner[c] = q.did
    BY BeginRequest DEF Typed
  <2>3. row[q.did] = "revoked" => "arrival" \in q.missed
    BY <2>1, <2>2 DEF Unpromised, Hopeless
  <2>4. PICK as \in {"visitor", "adult", "dependent"} :
            /\ Promise(q) = [did |-> q.did, as |-> as, token |-> "none",
                             missed |-> q.missed]
            /\ as # "visitor" =>
                /\ q.op \in {"gate", "library"}
                /\ as = IF row[q.did] = "none" THEN "adult" ELSE "dependent"
    BY <2>2 DEF Promise
  <2>5. Access!Come(w, q.did, as, q.missed)
    BY <1>1, <1>2, <2>1, <2>2, <2>3, <2>4 DEF Access!Come, Access!Serve, Serving
  <2> QED BY <1>3, <1>5, <2>2, <2>5 DEF Access!AccessNext, Access!Attend
<1> QED BY <1>4, <1>5

LEMMA GrantStep ==
    ASSUME Typed, RecordInv, KnownInv, TypeOK', NEW w \in Workers, Hook(w)
    PROVE  Access!AccessNext
<1> DEFINE q == req'[w]
<1>1. /\ UNCHANGED <<row, owner, tokens>> /\ ~Idle(w)
      /\ \A v \in Workers \ {w} : req'[v] = req[v]
  BY DEF Hook, registry, grants, Serve, Typed, TypeOK
<1>2. Serving' = [Serving EXCEPT ![w] = Serving'[w]]
  BY <1>1, OneServing DEF Typed
<1>3. /\ req[w] \in TokenRequests /\ req[w].op = "library"
      /\ req[w].code = Refresh \/ req[w].code \in live
      /\ q.op = "save" /\ Same(q, req[w])
      /\ req[w].missed \subseteq q.missed /\ q.missed \subseteq Looks
      /\ q.about = Absent /\ row[q.did] # "none" => "hook" \in q.missed
      /\ row[q.did] = "revoked" => "hook" \in q.missed
  BY HookRequest DEF Typed
<1>4. q # Absent
  <2>1. PICK p \in TokenRequests : Serve(w, p)
    BY HookServes DEF Typed
  <2>2. q = p
    BY <2>1 DEF Serve, Typed, TypeOK
  <2> QED BY <2>2, TokensAreRequests, TokenAssumption
<1>5. ~Hopeless(req[w]) /\ ~Hopeless(q)
  <2>1. ~Hopeless(req[w])
    BY <1>1, <1>3, TokenAssumption DEF RecordInv, Spent
  <2> QED BY <1>3, <2>1 DEF Hopeless, Same
<1>6. Serving[w] = Promise(req[w]) /\ Serving[w] # Absent /\ Serving'[w] = Promise(q)
  <2>3. /\ req[w] # Absent /\ req[w].op # "ticket" /\ ~Hopeless(req[w])
        /\ q # Absent /\ q.op # "ticket" /\ ~Hopeless(q)
    BY <1>1, <1>3, <1>4, <1>5 DEF Idle
  <2>1. ~Unpromised(req[w])
    BY <2>3 DEF Unpromised
  <2>2. ~Unpromised(q)
    BY <2>3 DEF Unpromised
  <2>4. Serving'[w] = Promise(q)
    BY <2>2, PromisedNext
  <2>5. Serving[w] = Promise(req[w]) /\ Serving[w] # Absent
    BY <2>1, PromisedKinds DEF Typed
  <2> QED BY <2>4, <2>5
<1> DEFINE as == IF q.noted = "none" THEN "adult" ELSE "dependent"
           token == IF q.about = Absent THEN "plain" ELSE "marked"
<1>7. /\ Promise(req[w]) = [did |-> q.did, as |-> as, token |-> "none",
                            missed |-> req[w].missed]
      /\ Promise(q) = [did |-> q.did, as |-> as, token |-> token, missed |-> q.missed]
  BY <1>3 DEF Promise, Same
<1>12. /\ token \in {"plain", "marked"} /\ (q.about # Absent => token = "marked")
       /\ as = "dependent" => q.noted # "none"
       /\ as # "visitor"
  OBVIOUS
<1> HIDE DEF as, token, q
<1>8. /\ Promise(req[w]).as = as /\ Promise(req[w]).token = "none"
      /\ Promise(req[w]).did = q.did /\ Promise(req[w]).missed = req[w].missed
  BY <1>7
<1>9. q.noted # "none" => row[q.did] # "none"
  BY <1>1, <1>3 DEF KnownInv, Same, TokenOps
<1>10. q.missed \in SUBSET {"arrival", "hook"}
  BY <1>3 DEF Looks
<1>11. Access!Grant(w, token, q.missed)
  <2>1. Serving' = [Serving EXCEPT ![w] = [did |-> Serving[w].did, as |-> Serving[w].as,
                                           token |-> token, missed |-> q.missed]]
    BY <1>2, <1>6, <1>7, <1>8
  <2>2. Serving[w].missed \subseteq q.missed
    BY <1>3, <1>6, <1>8
  <2>3. \/ "hook" \in q.missed
        \/ row[Serving[w].did] # "revoked" /\ (Serving[w].as = "dependent" => token = "marked")
    BY <1>3, <1>6, <1>8, <1>9, <1>12
  <2> QED BY <1>1, <2>1, <2>2, <2>3 DEF Access!Grant, Access!Serve, Serving
<1>13. Serving'[w].token = token
  BY <1>6, <1>7
<1> QED BY <1>6, <1>8, <1>10, <1>11, <1>12, <1>13 DEF Access!AccessNext, Access!Attend

LEMMA IssueStep ==
    ASSUME Typed, RecordInv, TypeOK', NEW w \in Workers, Save(w)
    PROVE  Access!AccessNext
<1>1. /\ UNCHANGED <<row, owner>> /\ ~Idle(w) /\ req[w].op = "save" /\ req'[w] = Absent
      /\ tokens' = tokens \cup {req[w].did}
      /\ \A v \in Workers \ {w} : req'[v] = req[v]
  BY DEF Save, registry, Done, Serve, Typed, TypeOK
<1>2. Serving' = [Serving EXCEPT ![w] = Serving'[w]]
  BY <1>1, OneServing DEF Typed
<1>3. ~Unpromised(req[w])
  BY <1>1 DEF RecordInv, Unpromised, Idle
<1>4. Serving[w] = Promise(req[w]) /\ Serving[w] # Absent /\ Serving'[w] = Absent
  BY <1>1, <1>3, PromisedKinds, PromisedNext DEF Unpromised, Typed
<1>5. /\ Promise(req[w]).did = req[w].did
      /\ Promise(req[w]).as # "visitor" /\ Promise(req[w]).token # "none"
  BY <1>1 DEF Promise
<1>6. Access!Issue(w)
  BY <1>1, <1>2, <1>4, <1>5 DEF Access!Issue, Access!Serve, Serving
<1> QED BY <1>4, <1>5, <1>6 DEF Access!AccessNext, Access!Attend

\* A request that ends, or one that goes on as it was.
LEMMA LeaveStep ==
    ASSUME Typed, TypeOK', NEW w \in Workers, UNCHANGED <<row, owner, tokens>>,
           \A v \in Workers \ {w} : req'[v] = req[v],
           req'[w] = Absent \/ Serving'[w] = Serving[w]
    PROVE  Access!AccessNext \/ UNCHANGED Seen
<1>1. Serving' = [Serving EXCEPT ![w] = Serving'[w]]
  BY OneServing DEF Typed
<1>2. CASE Serving'[w] = Serving[w]
  <2>1. Serving' = Serving
    BY <1>1, <1>2 DEF Serving
  <2> QED BY <2>1 DEF Seen
<1>3. CASE Serving'[w] # Serving[w]
  <2>1. Serving'[w] = Absent
    BY <1>3, PromisedNext DEF Unpromised
  <2>2. Access!Leave(w)
    BY <1>1, <2>1 DEF Access!Leave, Access!Serve, Serving
  <2> QED BY <1>3, <2>1, <2>2 DEF Access!AccessNext, Access!Attend
<1> QED BY <1>2, <1>3

LEMMA GatePasses ==
    ASSUME Typed, TypeOK', NEW w \in Workers, Gate(w)
    PROVE  Access!AccessNext \/ UNCHANGED Seen
<1> DEFINE q == req'[w]
<1>1. /\ UNCHANGED <<row, owner, tokens>> /\ ~Idle(w)
      /\ \A v \in Workers \ {w} : req'[v] = req[v]
  BY DEF Gate, registry, grants, Done, Serve, Typed, TypeOK
<1>2. CASE q # Absent
  <2>1. /\ req[w] \in TokenRequests /\ req[w].op = "gate"
        /\ q.op = "library" /\ Same(q, req[w]) /\ q.missed = req[w].missed
    BY <1>2, GateRequest DEF Typed
  <2>2. Promise(q) = Promise(req[w]) /\ (Unpromised(q) <=> Unpromised(req[w]))
    BY <1>1, <1>2, <2>1 DEF Promise, Same, Unpromised, Hopeless, Idle
  <2>3. Serving'[w] = Serving[w]
    BY <2>2, PromisedKinds, PromisedNext DEF Typed
  <2> QED BY <1>1, <2>3, LeaveStep
<1> QED BY <1>1, <1>2, LeaveStep

LEMMA TicketSteps ==
    ASSUME Typed, TypeOK', NEW w \in Workers,
           TicketRecorded(w) \/ \E d \in Dids : TicketHeard(w, d)
    PROVE  Access!AccessNext \/ UNCHANGED Seen
<1>1. /\ \A v \in Workers \ {w} : req'[v] = req[v]
      /\ UNCHANGED <<owner, tokens>>
      /\ Idle(w) \/ req[w].op = "ticket"
      /\ req'[w] = Absent \/ req'[w].op = "ticket"
  BY DEF TicketRecorded, TicketHeard, grants, Done, Serve, Typed, TypeOK
<1>2. Serving[w] = Absent /\ Serving'[w] = Absent
  BY <1>1, PromisedKinds, PromisedNext DEF Unpromised, Idle, Typed
<1>3. Serving' = [Serving EXCEPT ![w] = Serving'[w]]
  BY <1>1, OneServing DEF Typed
<1>4. Serving' = Serving
  BY <1>2, <1>3 DEF Serving
<1>5. CASE UNCHANGED row
  BY <1>1, <1>4, <1>5 DEF Seen
<1>6. CASE ~UNCHANGED row
  <2>1. PICK d \in Dids : row' = [row EXCEPT ![d] = "revoked"]
    BY <1>6, ReqFields DEF TicketRecorded, TicketHeard, MarkRow, Typed
  <2> QED BY <1>1, <1>4, <2>1 DEF Access!AccessNext, Access!Record
<1> QED BY <1>5, <1>6

LEMMA AccessStep ==
    ASSUME Typed, RecordInv, KnownInv, Typed', [Next]_vars
    PROVE  [Access!AccessNext]_Seen
<1> USE DEF Typed
<1>1. ASSUME NEW w \in Workers, NEW d \in Dids, NEW standing \in {"valid", "revoked"},
             Register(w, d, standing)
      PROVE  Access!AccessNext \/ UNCHANGED Seen
  <2>1. UNCHANGED <<owner, tokens, Serving>>
    BY <1>1 DEF Register, grants, Serving, Promised, Hopeless, Idle
  <2>2. UNCHANGED row \/ row' = [row EXCEPT ![d] = standing]
    BY <1>1 DEF Register
  <2> QED BY <2>1, <2>2 DEF Seen, Access!AccessNext, Access!Record
<1>2. ASSUME NEW w \in Workers, NEW d \in Dids, NEW c \in Codes, Mint(w, d, c)
      PROVE  Access!AccessNext
  <2>1. UNCHANGED <<row, tokens, Serving>>
    BY <1>2 DEF Mint, registry, Serving, Promised, Hopeless, Idle
  <2> QED BY <1>2, <2>1 DEF Mint, Access!AccessNext, Access!SignIn
<1>5. ASSUME NEW d \in Dids, NEW c \in Codes, MintInLibrary(d, c)
      PROVE  Access!AccessNext
  <2>1. UNCHANGED <<row, tokens, Serving>>
    BY <1>5 DEF MintInLibrary, registry, Serving, Promised, Hopeless, Idle
  <2> QED BY <1>5, <2>1 DEF MintInLibrary, Access!AccessNext, Access!SignIn
<1>3. ASSUME NEW w \in Workers, Refuse(w) \/ VisitEnd(w) \/ WorkerRestart(w)
      PROVE  Access!AccessNext \/ UNCHANGED Seen
  <2>1. /\ UNCHANGED <<row, owner, tokens>> /\ req'[w] = Absent
        /\ \A v \in Workers \ {w} : req'[v] = req[v]
    BY <1>3 DEF Refuse, VisitEnd, WorkerRestart, registry, grants, Done, Serve, TypeOK
  <2> QED BY <2>1, LeaveStep
<1>4. ASSUME \/ UNCHANGED vars
             \/ RedisRestart
             \/ \E b \in Backends, k \in Keys : Lapse(b, k)
      PROVE  UNCHANGED Seen
  BY <1>4 DEF vars, RedisRestart, Lapse, registry, grants, Seen, Serving, Promised, Hopeless,
     Idle
<1> QED BY <1>1, <1>2, <1>3, <1>4, <1>5, ComeStep, GrantStep, IssueStep, GatePasses, TicketSteps,
        StepCases DEF Loss

\* Who is served, and with what kind of token, follows the record as it is at
\* the two looks, whatever caches and workers forget: a revocation on record at
\* both is passed over only if both went unanswered.
THEOREM AccessFollowsTheRecord == Spec => DependentAccessSpec
<1>1. Init => Access!AccessInit
  BY DEF Init, Access!AccessInit, Serving, Promised, Idle
<1>2. Typed /\ RecordInv /\ KnownInv /\ Typed' /\ [Next]_vars
        => [Access!AccessNext]_(Access!accessVars)
  BY AccessStep DEF Seen, Access!accessVars
<1>3. Spec => Access!AccessInit /\ [][Access!AccessNext]_(Access!accessVars)
  BY <1>1, <1>2, TypedHolds, RecordHolds, KnownHolds, PTL DEF Spec
<1> QED BY <1>3 DEF DependentAccessSpec, Access!AccessSpec
=============================================================================

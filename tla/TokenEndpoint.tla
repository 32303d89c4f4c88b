--------------------------- MODULE TokenEndpoint ---------------------------
(***************************************************************************)
(* Tokens for dependents (auth_bridge/tokens.py, middleware.py,            *)
(* credentials.py, oidc.py, PkceTokenView of views.py).  A parent's        *)
(* revocation ticket is kept in four places: the memory of the worker that *)
(* received it, the cache, the credential's row, and that worker's copy of *)
(* the credential.  A token request is looked at twice: by the middleware  *)
(* as it arrives, and by the id_token hook inside the library.  Any lookup *)
(* in the database may fail by itself; whoever asked goes on as if nothing *)
(* were on record.                                                         *)
(*                                                                         *)
(* A cache key is a DID (revocation_ticket:<did>) or a code (pkce:<code>). *)
(* Every code modelled was asked for with an S256 challenge.  Whether the  *)
(* library compares it with the verifier itself is left open.              *)
(***************************************************************************)
EXTENDS ResilientCache

CONSTANTS
    Dids,       \* custodial DIDs of users
    Codes,      \* authorization codes
    Refresh     \* what stands for a code in a refresh_token grant

Verifiers == {"right", "wrong", "none"}
Standings == {"none", "valid", "revoked"}

\* An age-bracket credential, by what its validation can tell: well-formed
\* and signed by its issuer, past its expiry, and marked revoked itself.
VCs == [subject : Dids, sound : BOOLEAN, expired : BOOLEAN, marked : BOOLEAN]

\* The two looks at a request, each a lookup or two that may fail.
Looks == {"arrival", "hook"}

\* What a worker is serving.  `verifier`: what PkceTokenView is given.  `noted`:
\* what the row of the DID's credential said when the request came in; the code
\* reads it anew, later.  `missed`: the looks at which the database failed to
\* show what is on record.  `about`: the DID whose credential the hook accepted,
\* Absent if none.
TokenRequests ==
    [op : {"gate", "library", "save"}, code : Codes \cup {Refresh}, did : Dids,
     verifier : Verifiers, proven : BOOLEAN, noted : Standings,
     missed : SUBSET Looks, about : Dids \cup {Absent}]

Visits == [op : {"visit", "bearer"}, did : Dids, noted : Standings, missed : SUBSET Looks]

Requests == [op : {"ticket"}, did : Dids] \cup Visits \cup TokenRequests

\* What DependentAccess, below, notes of a request.
Promises ==
    [did : Dids, as : {"visitor", "adult", "dependent"},
     token : {"none", "plain", "marked"}, missed : SUBSET Looks]

ASSUME TokenAssumption ==
    /\ Keys = Dids \cup Codes
    /\ Dids \cap Codes = {}
    /\ Refresh \notin Codes
    /\ Absent \notin Dids \cup Requests \cup Promises \cup {"ticket", "S256"}

VARIABLES
    row,        \* row[d]: d's IssuedCredential, as committed
    vector,     \* vector[w][d]: d in worker w's _DEPENDENT_REGISTRY
    heard,      \* heard[w]: worker w's _REVOCATION_REGISTRY
    owner,      \* owner[c]: who code c was minted for, or Absent
    live,       \* codes not yet exchanged
    tokens,     \* DIDs with a token the library accepts
    req,        \* req[w]: the request worker w is serving, or Absent
    gone        \* history: codes whose PKCE entry was used, lost or missed, or
                \* that never had one

vars == <<store, row, vector, heard, owner, live, tokens, req, gone>>
registry == <<row, vector, heard>>
grants == <<owner, live, tokens>>

TypeOK ==
    /\ store \in [Backends -> [Keys -> {"ticket", "S256", Absent}]]
    /\ row \in [Dids -> Standings]
    /\ vector \in [Workers -> [Dids -> Standings]]
    /\ heard \in [Workers -> SUBSET Dids]
    /\ owner \in [Codes -> Dids \cup {Absent}]
    /\ live \subseteq Codes
    /\ tokens \subseteq Dids
    /\ req \in [Workers -> Requests \cup {Absent}]
    /\ gone \subseteq Codes

Init ==
    /\ store = [b \in Backends |-> Empty]
    /\ row = [d \in Dids |-> "none"]
    /\ vector = [w \in Workers |-> [d \in Dids |-> "none"]]
    /\ heard = [w \in Workers |-> {}]
    /\ owner = [c \in Codes |-> Absent]
    /\ live = {}
    /\ tokens = {}
    /\ req = [w \in Workers |-> Absent]
    /\ gone = {}

Idle(w) == req[w] = Absent
Serve(w, q) == req' = [req EXCEPT ![w] = q]
Done(w) == Serve(w, Absent)

-----------------------------------------------------------------------------
(* The registry and its tickets.                                           *)

\* register_dependent_vector: this worker's memory, then the row, old or new,
\* which takes the standing given here and forgets an earlier revocation.  A
\* database error is logged and the registration stays in memory.
Register(w, d, standing) ==
    /\ Idle(w)
    /\ vector' = [vector EXCEPT ![w][d] = standing]
    /\ \/ row' = [row EXCEPT ![d] = standing]
       \/ UNCHANGED row
    /\ UNCHANGED <<store, heard, grants, req, gone>>

\* record_revocation_ticket remembers the ticket here and in the cache ...
TicketHeard(w, d) ==
    /\ Idle(w)
    /\ heard' = [heard EXCEPT ![w] = @ \cup {d}]
    /\ \E r \in RedisOutcomes : store' = AfterSet(r, w, d, "ticket")
    /\ Serve(w, [op |-> "ticket", did |-> d])
    /\ UNCHANGED <<row, vector, grants, gone>>

\* Mutant: the ticket goes where the flag belongs.
MarkTicket(d) == row' = [row EXCEPT ![d] = "ticket"]

MarkRow(d) == row' = [row EXCEPT ![d] = "revoked"]

\* ... and then marks the row, if there is one, and this worker's copy.
TicketRecorded(w) ==
    LET d == req[w].did
    IN  /\ ~Idle(w)
        /\ req[w].op = "ticket"
        /\ \/ row[d] # "none" /\ MarkRow(d)
           \/ UNCHANGED row        \* no row, or a database error
        /\ vector' = IF vector[w][d] = "none" THEN vector
                     ELSE [vector EXCEPT ![w][d] = "revoked"]
        /\ Done(w)
        /\ UNCHANGED <<store, heard, grants, gone>>

\* Mutant: the database is not asked, the caches are thought to know.
KnownHere(r, w, d, failed) ==
    \/ d \in heard[w]
    \/ CacheGet(r, w, d) # Absent
    \/ vector[w][d] = "revoked"

\* is_credential_revoked: when the database `failed`, it has nothing to say.
Revoked(r, w, d, failed) ==
    \/ d \in heard[w]
    \/ CacheGet(r, w, d) # Absent
    \/ vector[w][d] = "revoked"
    \/ ~failed /\ row[d] = "revoked"

\* It may come back with a no.
Cleared(w, d, failed) == ~ \A r \in RedisOutcomes : Revoked(r, w, d, failed)

\* Mutant: only what this worker has registered counts.
VectorHere(w, d, failed) == vector[w][d] # "none"

\* get_dependent_vector_for_did: the row or, failing that, this worker's copy.
IsDependent(w, d, failed) ==
    \/ ~failed /\ row[d] # "none"
    \/ vector[w][d] # "none"

-----------------------------------------------------------------------------
(* Codes and the token endpoint.                                           *)

\* _build_oidc_redirect: the code, then its challenge in the cache.
Mint(w, d, c) ==
    /\ Idle(w)
    /\ owner[c] = Absent
    /\ owner' = [owner EXCEPT ![c] = d]
    /\ live' = live \cup {c}
    /\ \E r \in RedisOutcomes :
        /\ store' = AfterSet(r, w, c, "S256")
        /\ gone' = IF Executed(r) THEN gone ELSE gone \cup {c}
    /\ UNCHANGED <<registry, tokens, req>>

\* SovereignAuthorizeView, for the user d of the session, by either method: the
\* library makes the code, and nothing goes into the cache.
MintInLibrary(d, c) ==
    /\ owner[c] = Absent
    /\ owner' = [owner EXCEPT ![c] = d]
    /\ live' = live \cup {c}
    /\ gone' = gone \cup {c}
    /\ UNCHANGED <<store, registry, tokens, req>>

\* The looks missed by a request as it arrives: those that hid a revocation.
Arriving(d, failed) == IF failed /\ row[d] = "revoked" THEN {"arrival"} ELSE {}

\* DependentRevocationMiddleware on an exchange.  A code no longer on file is
\* not checked, and neither is one whose lookup failed: the request goes on, to
\* PkceTokenView or, when its URL lacks the last slash, to the library's view.
ExchangeBegin(w, c, verifier, view) ==
    LET d == owner[c]
    IN  /\ Idle(w)
        /\ d # Absent
        /\ \E failed \in BOOLEAN :
            /\ ~failed /\ c \in live => Cleared(w, d, FALSE)
            /\ view = "library" => verifier = "none"
            /\ Serve(w, [op |-> view, code |-> c, did |-> d, verifier |-> verifier,
                         proven |-> FALSE, noted |-> row[d],
                         missed |-> Arriving(d, failed), about |-> Absent])
        /\ UNCHANGED <<store, registry, grants, gone>>

\* The same on a refresh, which has no code for the gate to look at.  The
\* claim dep.revoked it also reads is always False.
RefreshBegin(w, d) ==
    /\ Idle(w)
    /\ d \in tokens
    /\ \E failed \in BOOLEAN :
        /\ ~failed => Cleared(w, d, FALSE)
        /\ Serve(w, [op |-> "library", code |-> Refresh, did |-> d,
                     verifier |-> "none", proven |-> FALSE, noted |-> row[d],
                     missed |-> Arriving(d, failed), about |-> Absent])
    /\ UNCHANGED <<store, registry, grants, gone>>

\* Mutant: a mismatch is logged and left to the library.
MatchesAny(verifier) == TRUE

\* BASE64URL(SHA256(code_verifier)) against the cached challenge.
Matches(verifier) == verifier = "right"

\* PkceTokenView.post before the library: without a verifier, or when get
\* finds no entry, there is nothing to compare; else the entry is deleted,
\* whichever way the comparison goes.
Gate(w) ==
    LET q == req[w]
        pass(proven) == Serve(w, [q EXCEPT !.op = "library", !.proven = proven])
    IN  /\ ~Idle(w)
        /\ q.op = "gate"
        /\ \/ /\ q.verifier = "none"
              /\ pass(FALSE)
              /\ UNCHANGED <<store, gone>>
           \/ /\ q.verifier # "none"
              /\ \E r \in RedisOutcomes :
                  /\ CacheGet(r, w, q.code) = Absent
                  /\ gone' = IF Answered(r) THEN gone ELSE gone \cup {q.code}
              /\ pass(FALSE)
              /\ UNCHANGED store
           \/ /\ q.verifier # "none"
              /\ \E r \in RedisOutcomes : CacheGet(r, w, q.code) # Absent
              /\ \E r \in RedisOutcomes : store' = AfterDelete(r, w, q.code)
              /\ gone' = gone \cup {q.code}
              /\ IF Matches(q.verifier) THEN pass(TRUE) ELSE Done(w)
        /\ UNCHANGED <<registry, grants>>

\* validate_age_bracket_vc, in the order of its checks.  Its last one looks
\* the subject up with is_credential_revoked, and swallows its own refusal.
Verdict(vc) ==
    IF ~vc.sound THEN "invalid_grant"
    ELSE IF vc.expired THEN "expired"
    ELSE IF vc.marked THEN "revoked"
    ELSE "valid"

\* Mutant: the middleware has looked, so the hook need not.
HookTrusts(w, d, failed) == TRUE

\* Two lookups of the hook can show it a revocation: `failed` is both.
HookClears(w, d, failed) == Cleared(w, d, failed)

\* The request once its token is granted; the gate is behind it.
Granted(q, missed, about) ==
    [q EXCEPT !.op = "save", !.verifier = "none", !.proven = FALSE,
              !.missed = missed, !.about = about]

\* The library finds the code or token, and custom_id_token_claims calls
\* inject_dependent_claims.  `vc` is the credential the session or the
\* request carries or, failing both, the registered one; Absent if there is
\* none.  A plain token is for whoever has neither credential nor vector.
Hook(w) ==
    LET q == req[w]
    IN  /\ ~Idle(w)
        /\ q.op = "library"
        /\ q.code \in live \cup {Refresh}
        /\ \E failed \in BOOLEAN :
            LET missed == IF failed /\ row[q.did] # "none"
                          THEN q.missed \cup {"hook"} ELSE q.missed
            IN  \/ /\ ~IsDependent(w, q.did, failed)
                   /\ Serve(w, Granted(q, missed, Absent))
                \/ \E vc \in VCs :
                   /\ HookClears(w, q.did, failed)
                   /\ Verdict(vc) = "valid"
                   /\ Serve(w, Granted(q, missed, vc.subject))
        /\ UNCHANGED <<store, registry, grants, gone>>

\* Any refusal of the library or the hook, and any error there: 4xx or 500.
Refuse(w) ==
    /\ ~Idle(w)
    /\ req[w].op = "library"
    /\ Done(w)
    /\ UNCHANGED <<store, registry, grants, gone>>

\* The library saves the new token, then deletes the code or the old token.
Save(w) ==
    LET q == req[w]
    IN  /\ ~Idle(w)
        /\ q.op = "save"
        /\ tokens' = tokens \cup {q.did}
        /\ live' = live \ {q.code}
        /\ Done(w)
        /\ UNCHANGED <<store, registry, owner, gone>>

\* A request with a session or, `bearer`, an access token: the middleware, then
\* a view.  If the lookup of the token fails, nothing is looked up at all.
VisitBegin(w, d, bearer) ==
    /\ Idle(w)
    /\ bearer => d \in tokens
    /\ \E failed \in BOOLEAN :
        /\ ~(bearer /\ failed) => Cleared(w, d, failed)
        /\ Serve(w, [op |-> IF bearer THEN "bearer" ELSE "visit", did |-> d,
                     noted |-> row[d], missed |-> Arriving(d, failed)])
    /\ UNCHANGED <<store, registry, grants, gone>>

VisitEnd(w) ==
    /\ ~Idle(w)
    /\ req[w].op \in {"visit", "bearer"}
    /\ Done(w)
    /\ UNCHANGED <<store, registry, grants, gone>>

-----------------------------------------------------------------------------
(* What happens around them.                                               *)

Lapse(b, k) ==
    /\ "lapse" \in Losses \/ ("cull" \in Losses /\ b # Redis)
    /\ store[b][k] # Absent
    /\ store' = Drop(b, k)
    /\ gone' = IF b = Redis THEN gone \cup ({k} \cap Codes) ELSE gone
    /\ UNCHANGED <<registry, grants, req>>

RedisRestart ==
    /\ "redis" \in Losses
    /\ store' = Forget(Redis)
    /\ gone' = gone \cup {c \in Codes : owner[c] # Absent}
    /\ UNCHANGED <<registry, grants, req>>

\* The registries of tokens.py are module globals.
WorkerRestart(w) ==
    /\ "worker" \in Losses
    /\ store' = Forget(w)
    /\ vector' = [vector EXCEPT ![w] = [d \in Dids |-> "none"]]
    /\ heard' = [heard EXCEPT ![w] = {}]
    /\ Done(w)
    /\ UNCHANGED <<row, grants, gone>>

Next ==
    \/ \E w \in Workers, d \in Dids :
        \/ \E standing \in {"valid", "revoked"} : Register(w, d, standing)
        \/ TicketHeard(w, d)
        \/ \E c \in Codes : Mint(w, d, c)
        \/ RefreshBegin(w, d)
        \/ \E bearer \in BOOLEAN : VisitBegin(w, d, bearer)
    \/ \E d \in Dids, c \in Codes : MintInLibrary(d, c)
    \/ \E w \in Workers :
        \/ TicketRecorded(w)
        \/ \E c \in Codes, verifier \in Verifiers, view \in {"gate", "library"} :
            ExchangeBegin(w, c, verifier, view)
        \/ Gate(w)
        \/ Hook(w)
        \/ Refuse(w)
        \/ Save(w)
        \/ VisitEnd(w)
        \/ WorkerRestart(w)
    \/ \E b \in Backends, k \in Keys : Lapse(b, k)
    \/ RedisRestart

Spec == Init /\ [][Next]_vars

-----------------------------------------------------------------------------
(* Properties.                                                             *)

Saving(w) == ~Idle(w) /\ req[w].op = "save"
Visiting(w) == ~Idle(w) /\ req[w].op \in {"visit", "bearer"}
AtLibrary(w) == ~Idle(w) /\ req[w].op = "library"

\* A revocation on record is final until the parent registers the dependent
\* anew: whatever the caches forget and whichever worker restarts, a request
\* that comes in afterwards is neither served nor given a token, by any worker,
\* unless the database failed it in its own arrival (is_credential_revoked and
\* the middleware take an error for a no).  And the worker that heard of the
\* ticket serves no session even then, nor gives a dependent's token.
RevocationHolds ==
    \A w \in Workers :
        /\ (Saving(w) \/ Visiting(w)) /\ req[w].noted = "revoked"
                => "arrival" \in req[w].missed
        /\ (~Idle(w) /\ req[w].op = "visit") \/ (Saving(w) /\ req[w].about # Absent)
                => req[w].did \notin heard[w]

\* A dependent on record gets the plain token of an adult only if the hook's
\* lookup fails in a worker that has not registered it, although that it is one
\* is looked up inside the library, long after the request came in.
DependentsMarked ==
    \A w \in Workers :
        Saving(w) /\ req[w].noted # "none" /\ req[w].about = Absent
            => "hook" \in req[w].missed /\ vector[w][req[w].did] = "none"

\* A verifier that does not match gets past PkceTokenView to the library only
\* when the code's cache entry has been used, was lost or out of reach, or was
\* never made (SovereignAuthorizeView).  The same URL without its last slash is
\* the library's, and there is no gate.
GateHolds ==
    \A w \in Workers :
        AtLibrary(w) /\ req[w].verifier = "wrong" => req[w].code \in gone /\ ~req[w].proven

\* credentials.py: validate_age_bracket_vc validates a credential "against
\* ... revocation": none is accepted whose subject was revoked on record and
\* still is.
SubjectChecked ==
    [][\A w \in Workers : Saving(w)' /\ req'[w] # req[w]
            => \A d \in Dids : row[d] = "revoked" => req'[w].about # d]_vars
-----------------------------------------------------------------------------
(* The promise of DependentAccess: the four places of a revocation are one *)
(* record, looked at when a request comes in and when it gets its token.   *)

\* A token request that came in over a revocation, unchecked because its code
\* is not on file any more, cannot end well.
Hopeless(q) == q.noted = "revoked" /\ "arrival" \notin q.missed

Promised(w) ==
    LET q == req[w]
    IN  IF Idle(w) \/ q.op = "ticket" \/ Hopeless(q) THEN Absent
        ELSE IF q.op \in {"visit", "bearer"}
        THEN [did |-> q.did, as |-> "visitor", token |-> "none", missed |-> q.missed]
        ELSE [did |-> q.did,
              as |-> IF q.noted = "none" THEN "adult" ELSE "dependent",
              token |-> IF q.op # "save" THEN "none"
                        ELSE IF q.about = Absent THEN "plain" ELSE "marked",
              missed |-> q.missed]

Serving == [w \in Workers |-> Promised(w)]

Access == INSTANCE DependentAccess WITH None <- Absent, serving <- Serving

\* Whatever the caches forget, whichever worker heard of a ticket and however
\* late the hook looks: who gets a page or a token, and whether it is marked as
\* a dependent's, is decided by the record at the two looks, and a revocation
\* on record at both of them is passed over only if both went unanswered.
DependentAccessSpec == Access!AccessSpec
=============================================================================

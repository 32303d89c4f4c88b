------------------------------- MODULE Airlock -------------------------------
(***************************************************************************)
(* The browser session between the beta gate, the logins and the           *)
(* authorization codes (auth_bridge/views.py, views_oauth.py,              *)
(* views_passkeys.py, admin_views.py).                                     *)
(*                                                                         *)
(* A session is a database row named by the browser's cookie.  Django      *)
(* reads the whole row when a request starts and writes the whole row when *)
(* it ends, so two requests of one browser overwrite each other; a login   *)
(* moves the row to a new key.  A request is its start (Begin) and the     *)
(* rest of its handler.  A request that changes nothing only leaves; after *)
(* a login nobody can name the row before the response, so the rest of the *)
(* handler is one step.                                                    *)
(*                                                                         *)
(* How identities are proved is the business of other modules: here a      *)
(* request arrives with a proof, or at the form of Django's admin without  *)
(* one.  SYSTEM_GATE_ENABLED is on; accounts are enabled and not revoked.  *)
(***************************************************************************)
EXTENDS Naturals

CONSTANTS
    Browsers,
    Users,      \* accounts, by DID
    Workers,
    Keys,       \* session keys
    Admitted,   \* users the gate lets through: admin and allowlisted
    Staff,      \* users who may enter the admin consoles
    EarlyAcks,  \* users who had acknowledged the disclaimer before
    MaxOverlap, \* bound: how often a browser overlaps two of its requests
    None

\* What a session row holds: the signed-in user, beta_access,
\* verified_pending_did, whether sponsor_did is there, and whether the row is
\* to expire after STATE_TTL instead of Django's default.
Data == [user : Users \cup {None}, beta : BOOLEAN,
         pending : Users \cup {None}, sponsor : BOOLEAN, short : BOOLEAN]

Blank == [user |-> None, beta |-> FALSE, pending |-> None, sponsor |-> FALSE,
          short |-> FALSE]

\* "signin" stands for every login the gate guards: by DID, polled, by email,
\* OAuth or passkey; "admin" is custom_admin_verify, and "console" the form of
\* Django's own admin.
SignIns == {"signin", "admin", "console"}

\* What only a signed-in session has any use for; "authorize" is the GET of
\* SovereignAuthorizeView, "consent" its POST.
Personal == {"authorize", "consent", "acknowledge"}

Ops == SignIns \cup Personal \cup {"redeem", "sponsor", "oauth", "logout"}

\* What a worker is serving: the session key and data it loaded, the user who
\* is to be signed in, and whether the loaded user had acknowledged.
Requests == [op : Ops, b : Browsers, key : Keys \cup {None}, data : Data,
             who : Users \cup {None}, acked : BOOLEAN]

Codes == [user : Users, b : Browsers,
          via : {"signin", "redeem", "authorize", "consent"}]

ASSUME AirlockAssumption ==
    /\ Admitted \subseteq Users
    /\ Staff \subseteq Users
    /\ EarlyAcks \subseteq Users
    /\ MaxOverlap \in Nat
    /\ None \notin Users \cup Keys
    /\ None \notin Data \cup Requests \cup Codes

VARIABLES
    rows,       \* rows[k]: session row k, or None
    cookie,     \* cookie[b]: the key of browser b's session, or None; a cookie
                \* whose row is gone counts as none
    req,        \* req[w]: the request worker w is serving, or None
    acked,      \* users who have cleared show_legal_disclaimer (an OAuth merge
                \* of an old row could set it again: fewer codes, not more)
    code,       \* the authorization code the last step minted, or None
    proven,     \* history: <<b, u>>, a proof of u came through browser b
    named,      \* history: <<b, u>>, b named u at the form of Django's admin
    redeemed,   \* history: browsers whose invite was accepted
    overlaps,   \* history: how often b started a request beside another one
    handed      \* history: how often b was told its sponsor since it last
                \* redeemed a token, counted until its requests first overlap

vars == <<rows, cookie, req, acked, code, proven, named, redeemed, overlaps, handed>>

TypeOK ==
    /\ rows \in [Keys -> Data \cup {None}]
    /\ cookie \in [Browsers -> Keys \cup {None}]
    /\ req \in [Workers -> Requests \cup {None}]
    /\ acked \subseteq Users
    /\ code \in Codes \cup {None}
    /\ proven \subseteq Browsers \X Users
    /\ named \subseteq Browsers \X Staff
    /\ redeemed \subseteq Browsers
    /\ handed \in [Browsers -> Nat]
    /\ overlaps \in [Browsers -> Nat]

Init ==
    /\ rows = [k \in Keys |-> None]
    /\ cookie = [b \in Browsers |-> None]
    /\ req = [w \in Workers |-> None]
    /\ acked = EarlyAcks
    /\ code = None
    /\ proven = {}
    /\ named = {}
    /\ redeemed = {}
    /\ handed = [b \in Browsers |-> 0]
    /\ overlaps = [b \in Browsers |-> 0]

-----------------------------------------------------------------------------
(* The session as Django keeps it.                                         *)

Loaded(b) == IF cookie[b] = None THEN Blank ELSE rows[cookie[b]]

\* Some browser or some request can still name session k.
Named(k) ==
    \/ \E b \in Browsers : cookie[b] = k
    \/ \E w \in Workers : req[w] # None /\ req[w].key = k

\* The rows after a step; one that nobody can name is as good as absent.
Rows(new) == rows' = [k \in Keys |-> IF Named(k)' THEN new[k] ELSE None]

Without(k) == [x \in Keys |-> IF x = k THEN None ELSE rows[x]]

\* SessionStore.save on a row that has been deleted raises, and the request
\* ends in an error.
Saves(q) == q.key = None \/ rows[q.key] # None

\* Browser b's session is gone if it was the one under key k.
Loses(b, k) ==
    cookie' = IF cookie[b] = k THEN [cookie EXCEPT ![b] = None] ELSE cookie

\* A new row under a key of its own; the one it replaces, if any, is deleted.
\* The response with the new cookie may be lost.
Move(q, d) ==
    \/ Loses(q.b, q.key) /\ Rows(Without(q.key))
    \/ \E k \in Keys :
          /\ ~Named(k)
          /\ cookie' = [cookie EXCEPT ![q.b] = k]
          /\ Rows([Without(q.key) EXCEPT ![k] = d])

\* The same row, unless it has been deleted meanwhile; the response also sends
\* the cookie again.
Overwrite(q, d) ==
    IF rows[q.key] # None
    THEN /\ cookie' \in {cookie, [cookie EXCEPT ![q.b] = q.key]}
         /\ Rows([rows EXCEPT ![q.key] = d])
    ELSE UNCHANGED cookie /\ Rows(rows)

\* The session middleware at the end of a request that modified its session.
Save(q, d) == IF q.key = None THEN Move(q, d) ELSE Overwrite(q, d)

\* Mutant: whoever signs in takes the session of another user over as it is.
TakesOver(q, d, u) ==
    \/ d.user = u /\ Overwrite(q, d)
    \/ d.user # u /\ Move(q, [d EXCEPT !.user = u])

\* django.contrib.auth.login and the save.  The key stays only if the session
\* was that user's already; the session of a user is flushed, with everything
\* in it, when another user signs in, and even when the same user does after a
\* change of the password hash: an email login and an OAuth merge set a new
\* unusable password.
LogIn(q, d, u) ==
    \/ d.user = u /\ Overwrite(q, d)
    \/ d.user = None /\ Move(q, [d EXCEPT !.user = u])
    \/ d.user # None /\ Move(q, [Blank EXCEPT !.user = u])

-----------------------------------------------------------------------------
(* Starting and leaving.                                                   *)

\* Requests whose session decides that they end without effect are not
\* begun: nobody to authorize or acknowledge, no sponsor to tell, no session
\* to leave.
Worthwhile(b, op, d) ==
    /\ op = "logout" => cookie[b] # None
    /\ op \in Personal => d.user # None
    /\ op = "sponsor" => d.sponsor /\ (d.user # None \/ d.beta)

\* Who may be signed in.
Entrants(op) ==
    IF op = "signin" THEN Users ELSE IF op \in SignIns THEN Staff ELSE {None}

\* DIDAuthBackend.authenticate takes any password for an active DID, and the
\* form of Django's admin asks nothing more than is_staff: no proof arrives.
Begin(w, b, op, who) ==
    LET d == Loaded(b)
    IN  /\ req[w] = None
        /\ who \in Entrants(op)
        /\ Worthwhile(b, op, d)
        /\ req' = [req EXCEPT ![w] =
                       [op |-> op, b |-> b, key |-> cookie[b], data |-> d, who |-> who,
                        acked |-> op = "authorize" /\ d.user \in acked]]
        /\ proven' = IF who = None \/ op = "console" THEN proven
                     ELSE proven \cup {<<b, who>>}
        /\ named' = IF op = "console" THEN named \cup {<<b, who>>} ELSE named
        /\ IF \E v \in Workers : req[v] # None /\ req[v].b = b
           THEN /\ overlaps[b] < MaxOverlap
                /\ overlaps' = [overlaps EXCEPT ![b] = @ + 1]
           ELSE UNCHANGED overlaps
        /\ code' = None
        /\ UNCHANGED <<rows, cookie, acked, redeemed, handed>>

Serve(w, op) ==
    /\ req[w] # None
    /\ req[w].op = op
    /\ req' = [req EXCEPT ![w] = None]
    /\ UNCHANGED <<proven, named, overlaps>>

\* The request was refused, read only, or died with its worker.
Leave(w) ==
    /\ req[w] # None
    /\ req' = [req EXCEPT ![w] = None]
    /\ code' = None
    /\ UNCHANGED <<cookie, acked, proven, named, redeemed, overlaps, handed>>
    /\ Rows(rows)

-----------------------------------------------------------------------------
(* Handlers.  Each decides on the session its request loaded.              *)

\* _did_passes_gate
Passes(u, d) == u \in Admitted \/ d.beta

\* _gate_response parks the user whom it stops.
Park(q, u) == Save(q, [q.data EXCEPT !.pending = u])

Mint(u, b, via) == code' = [user |-> u, b |-> b, via |-> via]

\* _build_oidc_redirect: a code if the next URL is an authorize request.
MayMint(u, b, via) == code' = None \/ Mint(u, b, via)

\* Logins by a root DID or a passkey never mint, the others may.
FinishSignIn(w) ==
    LET q == req[w]
    IN  /\ Serve(w, "signin")
        /\ IF Passes(q.who, q.data)
           THEN LogIn(q, q.data, q.who) /\ MayMint(q.who, q.b, "signin")
           ELSE Park(q, q.who) /\ code' = None
        /\ UNCHANGED <<acked, redeemed, handed>>

\* Neither custom_admin_verify nor the LoginView of Django's admin asks the gate.
FinishAdmin(w) ==
    LET q == req[w]
    IN  /\ Serve(w, "admin") \/ Serve(w, "console")
        /\ LogIn(q, q.data, q.who)
        /\ code' = None
        /\ UNCHANGED <<acked, redeemed, handed>>

\* Mutant: the authorize view trusts that a login has asked the gate.
AnySession(u, d) == TRUE

MayAuthorize(u, d) == Passes(u, d)

\* SovereignAuthorizeView.get
FinishAuthorize(w) ==
    LET q == req[w]
    IN  /\ Serve(w, "authorize")
        /\ \/ /\ ~MayAuthorize(q.data.user, q.data)
              /\ Park(q, q.data.user)
              /\ code' = None
           \/ /\ MayAuthorize(q.data.user, q.data)
              /\ ~q.acked
              /\ Overwrite(q, q.data)
              /\ code' = None
           \/ /\ MayAuthorize(q.data.user, q.data)
              /\ q.acked
              /\ UNCHANGED cookie
              /\ Rows(rows)
              /\ Mint(q.data.user, q.b, "authorize")
        /\ UNCHANGED <<acked, redeemed, handed>>

\* The POST it inherits from the library's AuthorizeView, to which the consent
\* form goes: neither the gate nor the disclaimer is asked.
FinishConsent(w) ==
    LET q == req[w]
    IN  /\ Serve(w, "consent")
        /\ UNCHANGED cookie
        /\ Rows(rows)
        /\ Mint(q.data.user, q.b, "consent")
        /\ UNCHANGED <<acked, redeemed, handed>>

\* The session redeem_beta_invite builds; a token brings a sponsor, a legacy
\* key or an allowlisted DID leaves an earlier one.
Opened(d, token) ==
    [d EXCEPT !.beta = TRUE, !.sponsor = @ \/ token, !.pending = None]

\* Mutant: the DID submitted with the invite is signed in, not the stashed one.
SubmittedToo(d) == Users

\* Whom a redemption may sign in.
Waiting(d) == {d.pending} \ {None}

\* The disclaimer stops the code, not the login.
MintIfAcked(u, b) == IF u \in acked THEN MayMint(u, b, "redeem") ELSE code' = None

\* redeem_beta_invite, once the invite is accepted.
FinishRedeem(w, token) ==
    LET q == req[w]
        d == Opened(q.data, token)
    IN  /\ Serve(w, "redeem")
        /\ \/ /\ Waiting(q.data) = {}
              /\ Save(q, d)
              /\ code' = None
           \/ \E u \in Waiting(q.data) :
              /\ LogIn(q, d, u)
              /\ MintIfAcked(u, q.b)
        /\ handed' = IF token THEN [handed EXCEPT ![q.b] = 0] ELSE handed
        /\ redeemed' = redeemed \cup {q.b}
        /\ UNCHANGED acked

\* acknowledge_legal_disclaimer: the user row first, then the session.
FinishAcknowledge(w) ==
    LET q == req[w]
    IN  /\ Serve(w, "acknowledge")
        /\ acked' = acked \cup {q.data.user}
        /\ Overwrite(q, q.data)
        /\ code' = None
        /\ UNCHANGED <<redeemed, handed>>

\* Mutant: the sponsor is told and stays.
Told(d) == d

\* Mutant: the sponsor is destroyed by rebuilding the session around the login.
Rebuilt(d) == [Blank EXCEPT !.user = d.user]

\* Mutant: the entry is set to null instead of being deleted.
Nulled(d) == [d EXCEPT !.sponsor = None]

Forgotten(d) == [d EXCEPT !.sponsor = FALSE]

\* airlock_sponsor: nothing is told unless the session could be saved.
FinishSponsor(w) ==
    LET q == req[w]
    IN  /\ Serve(w, "sponsor")
        /\ Overwrite(q, Forgotten(q.data))
        /\ handed' = IF Saves(q) /\ overlaps[q.b] = 0
                     THEN [handed EXCEPT ![q.b] = @ + 1] ELSE handed
        /\ code' = None
        /\ UNCHANGED <<acked, redeemed>>

\* OAuthInitiateView: set_expiry is about the whole session.
FinishOAuthStart(w) ==
    LET q == req[w]
    IN  /\ Serve(w, "oauth")
        /\ Save(q, [q.data EXCEPT !.short = TRUE])
        /\ code' = None
        /\ UNCHANGED <<acked, redeemed, handed>>

\* OAuthCallbackView pops the state before anything can be refused.
FinishOAuthRefusal(w) ==
    LET q == req[w]
    IN  /\ Serve(w, "oauth")
        /\ q.key # None
        /\ Overwrite(q, q.data)
        /\ code' = None
        /\ UNCHANGED <<acked, redeemed, handed>>

\* GlobalLogoutView
FinishLogout(w) ==
    LET q == req[w]
    IN  /\ Serve(w, "logout")
        /\ \/ Loses(q.b, q.key)
           \/ cookie' = [cookie EXCEPT ![q.b] = None]
        /\ Rows(Without(q.key))
        /\ code' = None
        /\ UNCHANGED <<acked, redeemed, handed>>

\* A session expires, or its user got a new unusable password: it is not loaded
\* any more, but a request that has loaded it may still save it.
Lapse(b) ==
    /\ cookie[b] # None
    /\ cookie' = [cookie EXCEPT ![b] = None]
    /\ code' = None
    /\ UNCHANGED <<req, acked, proven, named, redeemed, overlaps, handed>>
    /\ Rows(rows)

Next ==
    \/ \E b \in Browsers : Lapse(b)
    \/ \E w \in Workers :
          \/ \E b \in Browsers, op \in Ops, who \in Users \cup {None} :
                 Begin(w, b, op, who)
          \/ FinishSignIn(w)
          \/ FinishAdmin(w)
          \/ FinishAuthorize(w)
          \/ FinishConsent(w)
          \/ \E token \in BOOLEAN : FinishRedeem(w, token)
          \/ FinishAcknowledge(w)
          \/ FinishSponsor(w)
          \/ FinishOAuthStart(w)
          \/ FinishOAuthRefusal(w)
          \/ FinishLogout(w)
          \/ Leave(w)

Spec == Init /\ [][Next]_vars

-----------------------------------------------------------------------------
(* Properties.                                                             *)

Signed(b) == Loaded(b).user

\* Who may be in browser b: proved through it, or staff it named to the admin.
Vouched == proven \cup named

\* Whoever a browser is signed in as was proved through that very browser,
\* although a redemption signs in a DID that an earlier request parked and
\* whole sessions are overwritten and moved in between.  The one exception is
\* staff named in that very browser at the form of Django's admin, which takes
\* any password: nobody else is ever let in unproven.
SignedInProven ==
    \A b \in Browsers : Signed(b) # None => <<b, Signed(b)>> \in Vouched

\* No code is for anybody but a user proved, or staff named, in the browser it
\* goes to.  No login, redemption or GET of the authorize view goes round the
\* gate: its code is for a user who is admitted, or whose browser had an invite
\* accepted, whichever door the user came in by and however old the session the
\* handler decided on; past the logins it also waits for the disclaimer.  The
\* POST of the consent form asks neither.
CodesAreEarned ==
    code # None =>
        /\ <<code.b, code.user>> \in Vouched
        /\ code.via # "consent" => code.user \in Admitted \/ code.b \in redeemed
        /\ code.via \in {"redeem", "authorize"} => code.user \in acked

\* A browser that has never had two requests under way at once is told its
\* sponsor at most once per redeemed token (airlock_sponsor).
SponsorOnce == \A b \in Browsers : overlaps[b] = 0 => handed[b] <= 1

\* Such a browser loses the access it redeemed only with its session: by logout
\* or expiry, with a new cookie that got lost, or because a login flushed the
\* session of a user who was signed in.
AccessKept ==
    [][\A b \in Browsers :
          overlaps'[b] = 0 /\ Loaded(b).beta =>
              \/ cookie'[b] = None
              \/ None \notin {Signed(b), Signed(b)'} /\ cookie'[b] # cookie[b]
              \/ Loaded(b)'.beta]_vars

\* The session a browser has, as its requests will find or have found it: what
\* the one under way loaded, and otherwise the row its cookie names.
Held(b) ==
    IF overlaps[b] > 0 THEN Blank
    ELSE IF \E w \in Workers : req[w] # None /\ req[w].b = b
    THEN req[CHOOSE w \in Workers : req[w] # None /\ req[w].b = b].data
    ELSE Loaded(b)

Sessions == [b \in Browsers |-> Held(b)]
Overlapped == {b \in Browsers : overlaps[b] > 0}

\* Reading the whole row first, writing the whole row last and moving it to a
\* new key in between come to one step on one cell per browser, as long as the
\* requests of that browser do not overlap, and whatever other browsers do.
Atomic == INSTANCE AtomicSession WITH session <- Sessions, torn <- Overlapped

AtomicSessionSpec == Atomic!SessionSpec
=============================================================================

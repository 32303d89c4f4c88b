---------------------------- MODULE AtomicSession ----------------------------
(***************************************************************************)
(* A browser's session as whoever writes a handler thinks of it: one cell  *)
(* per browser, no rows, keys or cookies, and every request one step that  *)
(* reads and writes it.  It may be lost at any time, and so may the        *)
(* outcome of any step.  A browser that has two requests under way at once *)
(* tears its session; from then on only what it earned is told of it.      *)
(***************************************************************************)
EXTENDS Naturals

CONSTANTS Browsers, Users, Admitted, Staff, EarlyAcks, None

VARIABLES
    session,    \* session[b]: user, beta, pending, sponsor and short
    torn,       \* browsers whose requests have overlapped; Blank is shown
    proven,     \* <<b, u>>: a proof of u came through browser b
    named,      \* <<b, u>>: b named u, who is staff, at an unguarded form
    redeemed,   \* browsers whose invite was accepted
    acked,      \* users who have acknowledged the disclaimer
    code,       \* the code the last step minted, or None
    handed      \* handed[b]: how often b was told its sponsor, per token

Blank == [user |-> None, beta |-> FALSE, pending |-> None, sponsor |-> FALSE,
          short |-> FALSE]

sessionVars == <<session, torn, proven, named, redeemed, acked, code, handed>>

SessionInit ==
    /\ session = [b \in Browsers |-> Blank]
    /\ torn = {}
    /\ proven = {}
    /\ named = {}
    /\ redeemed = {}
    /\ acked = EarlyAcks
    /\ code = None
    /\ handed = [b \in Browsers |-> 0]

\* A request arrives: for nobody, with a proof of u, or naming u of the staff.
Come(b, u) ==
    /\ \/ u = None /\ UNCHANGED <<proven, named>>
       \/ u \in Users /\ proven' = proven \cup {<<b, u>>} /\ UNCHANGED named
       \/ u \in Staff /\ named' = named \cup {<<b, u>>} /\ UNCHANGED proven
    /\ \/ UNCHANGED <<session, torn>>
       \/ /\ torn' = torn \cup {b}
          /\ session' = [session EXCEPT ![b] = Blank]
    /\ code' = None
    /\ UNCHANGED <<redeemed, acked, handed>>

Becomes(b, d) ==
    session' \in {[session EXCEPT ![b] = d], [session EXCEPT ![b] = Blank]}

\* Signing u in over session d.  What d holds goes with another user's login,
\* and sometimes with the same user's.
Enters(b, d, u) ==
    \/ d.user \in {None, u} /\ Becomes(b, [d EXCEPT !.user = u])
    \/ d.user # None /\ Becomes(b, [Blank EXCEPT !.user = u])

Passes(b, u) == u \in Admitted \/ session[b].beta

Mint(b, u, via) == code' = [user |-> u, b |-> b, via |-> via]

SignIn(b, u) ==
    /\ IF Passes(b, u)
       THEN Enters(b, session[b], u) /\ (code' = None \/ Mint(b, u, "signin"))
       ELSE Becomes(b, [session[b] EXCEPT !.pending = u]) /\ code' = None
    /\ UNCHANGED <<redeemed, acked, handed>>

SignStaffIn(b, u) ==
    /\ u \in Staff
    /\ Enters(b, session[b], u)
    /\ code' = None
    /\ UNCHANGED <<redeemed, acked, handed>>

Authorize(b) ==
    LET u == session[b].user
    IN  /\ u # None
        /\ IF Passes(b, u)
           THEN /\ Becomes(b, session[b])
                /\ code' = None \/ (u \in acked /\ Mint(b, u, "authorize"))
           ELSE Becomes(b, [session[b] EXCEPT !.pending = u]) /\ code' = None
        /\ UNCHANGED <<redeemed, acked, handed>>

\* The consent form is for whoever is signed in, and asks nothing.
Consent(b) ==
    /\ session[b].user # None
    /\ Becomes(b, session[b])
    /\ Mint(b, session[b].user, "consent")
    /\ UNCHANGED <<redeemed, acked, handed>>

\* The user who was stopped by the gate, if any, goes in with the invite.
Redeem(b, token) ==
    LET u == session[b].pending
        d == [session[b] EXCEPT !.beta = TRUE, !.sponsor = @ \/ token, !.pending = None]
    IN  /\ IF u = None
           THEN Becomes(b, d) /\ code' = None
           ELSE /\ Enters(b, d, u)
                /\ code' = None \/ (u \in acked /\ Mint(b, u, "redeem"))
        /\ redeemed' = redeemed \cup {b}
        /\ handed' = IF token THEN [handed EXCEPT ![b] = 0] ELSE handed
        /\ UNCHANGED acked

Acknowledge(b) ==
    /\ session[b].user # None
    /\ acked' = acked \cup {session[b].user}
    /\ Becomes(b, session[b])
    /\ code' = None
    /\ UNCHANGED <<redeemed, handed>>

TellSponsor(b) ==
    /\ session[b].sponsor
    /\ session[b].user # None \/ session[b].beta
    /\ Becomes(b, [session[b] EXCEPT !.sponsor = FALSE])
    /\ handed' = [handed EXCEPT ![b] = @ + 1]
    /\ code' = None
    /\ UNCHANGED <<redeemed, acked>>

\* Starting an OAuth login shortens the life of the whole session.
Shorten(b) ==
    /\ Becomes(b, [session[b] EXCEPT !.short = TRUE])
    /\ code' = None
    /\ UNCHANGED <<redeemed, acked, handed>>

KeepOrLose(b) ==
    /\ Becomes(b, session[b])
    /\ code' = None
    /\ UNCHANGED <<redeemed, acked, handed>>

Whole(b) ==
    \/ \E u \in Users :
        \/ <<b, u>> \in proven /\ SignIn(b, u)
        \/ <<b, u>> \in proven \cup named /\ SignStaffIn(b, u)
    \/ \E token \in BOOLEAN : Redeem(b, token)
    \/ Authorize(b)
    \/ Consent(b)
    \/ Acknowledge(b)
    \/ TellSponsor(b)
    \/ Shorten(b)
    \/ KeepOrLose(b)

\* Two requests that overlap may undo each other's writes, but neither proves,
\* redeems or acknowledges for someone else, and none mints what one alone could
\* not have earned.
Torn(b) ==
    /\ redeemed' \in {redeemed, redeemed \cup {b}}
    /\ \/ UNCHANGED acked
       \/ \E u \in Users : <<b, u>> \in proven \cup named /\ acked' = acked \cup {u}
    /\ \/ code' = None
       \/ \E u \in Users, via \in {"signin", "redeem", "authorize", "consent"} :
            /\ Mint(b, u, via)
            /\ <<b, u>> \in proven \cup named
            /\ via # "consent" => u \in Admitted \/ b \in redeemed'
            /\ via \in {"redeem", "authorize"} => u \in acked
    /\ handed' \in {handed, [handed EXCEPT ![b] = 0]}
    /\ UNCHANGED session

SessionNext ==
    \/ UNCHANGED sessionVars
    \/ \E b \in Browsers :
        \/ \E u \in Users \cup {None} : Come(b, u)
        \/ /\ UNCHANGED <<torn, proven, named>>
           /\ IF b \in torn THEN Torn(b) ELSE Whole(b)

SessionSpec == SessionInit /\ [][SessionNext]_sessionVars
=============================================================================

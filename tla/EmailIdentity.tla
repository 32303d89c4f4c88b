--------------------------- MODULE EmailIdentity ---------------------------
(***************************************************************************)
(* Whose an address is (ChallengeEmailView and VerifyEmailView of views.py, *)
(* views_email_locker.py, pipeline.py).  A code is mailed to an address    *)
(* and kept in the cache, one per address and purpose; who returns it      *)
(* signs in, or links the address to the account of the session.  An OAuth *)
(* profile resolves to an account by its identity on file or by the        *)
(* address its provider vouches for.  Every statement commits by itself.   *)
(*                                                                         *)
(* Codes are told apart although two of six digits may coincide.  The      *)
(* 32-byte token of a sign-in challenge is in no mail, so nobody returns   *)
(* one.  One OAuth provider is modelled.  Sessions are in Airlock, how an   *)
(* account is promoted in Graduation; the credentials the locker issues    *)
(* are signed and not kept.                                                *)
(***************************************************************************)
EXTENDS ResilientCache

CONSTANTS
    Emails,     \* addresses, stripped and in lower case
    Users,      \* account ids
    Profiles,   \* accounts at the OAuth provider
    Codes,      \* one-time codes
    Accounts,   \* accounts there are at first
    Given,      \* Given[u]: the primary address of such an account, or Absent
    Walled,     \* those of them that have a password (createsuperuser)
    Custodial   \* accounts whose key Vault holds at first: they can graduate

Claims == [op : {"otp_spend", "otp_resolve", "otp_create", "otp_seal",
                 "link_spend", "link_check", "link_claim"},
           email : Emails, user : Users \cup {Absent}]

\* A profile in search of its account.
Lookups == [op : {"match", "match_linked", "enroll"}, email : Emails, profile : Profiles]

\* A profile to be filed for its account.  `standing`: what the row said when
\* it was read or made.  `own`: the browser is signed in to that account, which
\* is asked of a sovereign one only.
Merges == [op : {"save", "attach", "link", "bind"}, user : Users, profile : Profiles,
           standing : {"managed", "sovereign"}, own : BOOLEAN]

Logins == [op : {"login"}, user : Users]

OAuth == Lookups \cup Merges \cup Logins

Mails == [key : Keys, user : Users \cup {Absent}]

ASSUME EmailAssumption ==
    /\ Keys = {"otp", "link"} \X Emails
    /\ Accounts \subseteq Users
    /\ Walled \subseteq Accounts
    /\ Custodial \subseteq Users
    /\ Given \in [Accounts -> Emails \cup {Absent}]
    /\ \A u, v \in Accounts : Given[u] = Given[v] /\ Given[u] # Absent => u = v
    /\ Absent \notin Emails \cup Users \cup Codes \cup Mails \cup Claims \cup OAuth

VARIABLES
    mail,       \* mail[n]: what code n was mailed for, or Absent
    known,      \* accounts there are
    primary,    \* primary[u]: User.email, or Absent
    linked,     \* linked[e]: the account of e's LinkedEmail, or Absent
    identity,   \* identity[p]: the account of p's FederatedIdentity, or Absent
    walled,     \* accounts whose password counts as usable
    sovereign,  \* accounts whose row says is_sovereign
    req,        \* req[w]: the request worker w is serving, or Absent
    excused,    \* history: addresses a sign-in found linked, or that two
                \* requests were about to claim at the same time
    overtaken   \* history: accounts a request had in hand as they graduated

history == <<excused, overtaken>>
vars == <<store, mail, known, primary, linked, identity, walled, sovereign, req, history>>
rows == <<known, primary, linked, identity, walled, sovereign>>

TypeOK ==
    /\ store \in [Backends -> [Keys -> Codes \cup {Absent}]]
    /\ mail \in [Codes -> Mails \cup {Absent}]
    /\ known \subseteq Users
    /\ primary \in [Users -> Emails \cup {Absent}]
    /\ linked \in [Emails -> Users \cup {Absent}]
    /\ identity \in [Profiles -> Users \cup {Absent}]
    /\ walled \subseteq Users
    /\ req \in [Workers -> Claims \cup OAuth \cup {Absent}]
    /\ sovereign \subseteq Users
    /\ excused \subseteq Emails
    /\ overtaken \subseteq Users

Init ==
    /\ store = [b \in Backends |-> Empty]
    /\ mail = [n \in Codes |-> Absent]
    /\ known = Accounts
    /\ primary = [u \in Users |-> IF u \in Accounts THEN Given[u] ELSE Absent]
    /\ linked = [e \in Emails |-> Absent]
    /\ identity = [p \in Profiles |-> Absent]
    /\ walled = Walled
    /\ req = [w \in Workers |-> Absent]
    /\ sovereign = {}
    /\ excused = {}
    /\ overtaken = {}

Serving(w, op) == req[w] # Absent /\ req[w].op = op
Serve(w, q) == req' = [req EXCEPT ![w] = q]
Step(w, op) == Serve(w, [req[w] EXCEPT !.op = op])
Done(w) == Serve(w, Absent)

\* The account User.objects.filter(email=e).first() returns.
IsPrimary(u, e) == u \in known /\ primary[u] = e
Free(e) == \A u \in Users : ~IsPrimary(u, e)
Unclaimed(e) == Free(e) /\ linked[e] = Absent

\* A request about to create a row for e, having found that there was none.
Claiming(w, e) ==
    /\ req[w] # Absent
    /\ req[w].op \in {"otp_create", "link_claim", "enroll"}
    /\ req[w].email = e

\* A request that has read or made the row of u and has yet to write for it.
InHand(w, u) ==
    /\ req[w] # Absent
    /\ req[w] \in Merges \/ req[w].op = "otp_seal"
    /\ req[w].user = u

\* excused' when worker w gets there: another one is there too, or `blind`.
Excuse(w, e, blind) ==
    excused' = IF blind \/ \E v \in Workers \ {w} : Claiming(v, e)
               THEN excused \cup {e}
               ELSE excused

\* Mutant: the column is not unique.
FitsAnyway(e) == TRUE

\* User.email is unique.
Fits(e) == Free(e)

\* Mutant: the account is created with an empty address.
ProvisionBlank(u, e) ==
    /\ known' = known \cup {u}
    /\ primary' = [primary EXCEPT ![u] = ""]

\* A new account.
Provision(u, e) ==
    /\ known' = known \cup {u}
    /\ primary' = [primary EXCEPT ![u] = e]

\* User.save() without update_fields writes back what the row once said.
Save(u, standing) ==
    sovereign' = IF standing = "sovereign" THEN sovereign \cup {u} ELSE sovereign \ {u}

-----------------------------------------------------------------------------
(* Sign-in by mail.                                                        *)

\* A code goes into the cache and into the mail.
Mail(w, n, key, u) ==
    /\ req[w] = Absent
    /\ mail[n] = Absent
    /\ mail' = [mail EXCEPT ![n] = [key |-> key, user |-> u]]
    /\ \E r \in RedisOutcomes : store' = AfterSet(r, w, key, n)
    /\ UNCHANGED <<rows, req, history>>

\* ChallengeEmailView.post
ChallengeEmail(w, e, n) == Mail(w, n, <<"otp", e>>, Absent)

\* VerifyEmailView._verify reads the code and compares ...
VerifyRead(w, e) ==
    /\ req[w] = Absent
    /\ \E r \in RedisOutcomes : CacheGet(r, w, <<"otp", e>>) # Absent
    /\ Serve(w, [op |-> "otp_spend", email |-> e, user |-> Absent])
    /\ UNCHANGED <<store, mail, rows, history>>

\* ... deletes it (VerifyLinkEmailView.post does the same with its own) ...
Spend(w, from, key, to) ==
    /\ Serving(w, from)
    /\ \E r \in RedisOutcomes : store' = AfterDelete(r, w, key)
    /\ Step(w, to)
    /\ UNCHANGED <<mail, rows, history>>

VerifySpend(w) == Spend(w, "otp_spend", <<"otp", req[w].email>>, "otp_resolve")

\* ... and looks the address up among the primary ones only.  An account
\* that has it is signed in and loses its password.
VerifyResolve(w) ==
    LET e == req[w].email
    IN  /\ Serving(w, "otp_resolve")
        /\ \/ \E u \in Users :
                /\ IsPrimary(u, e)
                /\ walled' = walled \ {u}
                /\ Done(w)
                /\ UNCHANGED excused
           \/ /\ Free(e)
              /\ Step(w, "otp_create")
              /\ Excuse(w, e, linked[e] # Absent)
              /\ UNCHANGED walled
        /\ UNCHANGED <<store, mail, known, primary, linked, identity, sovereign, overtaken>>

\* A new account, unless the address was taken meanwhile: then it is a 500,
\* and the code is spent.  Its empty password counts as a usable one ...
VerifyCreate(w) ==
    LET e == req[w].email
    IN  /\ Serving(w, "otp_create")
        /\ \/ \E u \in Users \ known :
                /\ Fits(e)
                /\ Provision(u, e)
                /\ walled' = walled \cup {u}
                /\ Serve(w, [req[w] EXCEPT !.op = "otp_seal", !.user = u])
           \/ ~Fits(e) /\ Done(w) /\ UNCHANGED <<known, primary, walled>>
        /\ UNCHANGED <<store, mail, linked, identity, sovereign, history>>

\* ... until a second save.
VerifySeal(w) ==
    /\ Serving(w, "otp_seal")
    /\ walled' = walled \ {req[w].user}
    /\ Save(req[w].user, "managed")
    /\ Done(w)
    /\ UNCHANGED <<store, mail, known, primary, linked, identity, history>>

-----------------------------------------------------------------------------
(* The locker.                                                             *)

\* ChallengeLinkEmailView.post, for the user of the session.
ChallengeLink(w, u, e, n) ==
    /\ u \in known
    /\ Unclaimed(e)
    /\ Mail(w, n, <<"link", e>>, u)

\* Mutant: whoever is signed in may return the code.
AnyonesCode(n, u) == TRUE

OwnCode(n, u) == mail[n].user = u

\* VerifyLinkEmailView.post reads the entry and compares its user and code ...
LinkRead(w, u, e) ==
    /\ req[w] = Absent
    /\ u \in known
    /\ \E r \in RedisOutcomes :
        LET n == CacheGet(r, w, <<"link", e>>) IN n # Absent /\ OwnCode(n, u)
    /\ Serve(w, [op |-> "link_spend", email |-> e, user |-> u])
    /\ UNCHANGED <<store, mail, rows, history>>

LinkSpend(w) == Spend(w, "link_spend", <<"link", req[w].email>>, "link_check")

\* ... looks whether the address is anybody's ...
LinkCheck(w) ==
    LET e == req[w].email
    IN  /\ Serving(w, "link_check")
        /\ IF Unclaimed(e)
           THEN Step(w, "link_claim") /\ Excuse(w, e, FALSE)
           ELSE Done(w) /\ UNCHANGED excused
        /\ UNCHANGED <<store, mail, rows, overtaken>>

\* ... and takes it, or finds that another request has: get_or_create.
LinkClaim(w) ==
    LET e == req[w].email
        u == req[w].user
    IN  /\ Serving(w, "link_claim")
        /\ linked' = IF linked[e] = Absent THEN [linked EXCEPT ![e] = u] ELSE linked
        /\ Done(w)
        /\ UNCHANGED <<store, mail, known, primary, identity, walled, sovereign, history>>

\* RemoveLinkedEmailView.delete, of one's own.
LinkRemove(w, e) ==
    /\ req[w] = Absent
    /\ linked[e] # Absent
    /\ linked' = [linked EXCEPT ![e] = Absent]
    /\ UNCHANGED <<store, mail, known, primary, identity, walled, sovereign, req, history>>

-----------------------------------------------------------------------------
(* process_oauth_identity.                                                 *)

LogIn(w, u) == Serve(w, [op |-> "login", user |-> u])

\* The provider vouches that e is p's.  An identity on file settles it.
OAuthBegin(w, p, e) ==
    /\ req[w] = Absent
    /\ \/ identity[p] # Absent /\ LogIn(w, identity[p])
       \/ identity[p] = Absent
          /\ Serve(w, [op |-> "match", email |-> e, profile |-> p])
    /\ UNCHANGED <<store, mail, rows, history>>

\* Mutant: a sovereign account is linked like any other.
AdmitsAny(u, own) == TRUE

Admits(u, own) == u \in sovereign => own

Standing(u) == IF u \in sovereign THEN "sovereign" ELSE "managed"

Merge(w, op, u, own) ==
    Serve(w, [op |-> op, user |-> u, profile |-> req[w].profile,
              standing |-> Standing(u), own |-> own])

\* What becomes of account u, whose row is read, when the profile's address
\* names it: refused (403), sent for its password (409), or to be linked.
Resolve(w, u) ==
    \E own \in IF u \in sovereign THEN BOOLEAN ELSE {FALSE} :
        IF Admits(u, own) /\ u \notin walled
        THEN Merge(w, "save", u, own)
        ELSE Done(w)

OAuthMatch(w) ==
    /\ Serving(w, "match")
    /\ \/ \E u \in Users : IsPrimary(u, req[w].email) /\ Resolve(w, u)
       \/ Free(req[w].email) /\ Step(w, "match_linked")
    /\ UNCHANGED <<store, mail, rows, history>>

OAuthMatchLinked(w) ==
    LET e == req[w].email
    IN  /\ Serving(w, "match_linked")
        /\ \/ linked[e] # Absent /\ Resolve(w, linked[e]) /\ UNCHANGED excused
           \/ linked[e] = Absent /\ Step(w, "enroll") /\ Excuse(w, e, FALSE)
        /\ UNCHANGED <<store, mail, rows, overtaken>>

\* The row goes back whole, as it was read but for the password.
OAuthSave(w) ==
    /\ Serving(w, "save")
    /\ walled' = walled \ {req[w].user}
    /\ Save(req[w].user, req[w].standing)
    /\ Step(w, "attach")
    /\ UNCHANGED <<store, mail, known, primary, linked, identity, history>>

\* The identities of account u, and whether get() finds one and not several.
Held(u) == {p \in Profiles : identity[p] = u}
Sole(u) == \E p \in Profiles : Held(u) = {p}

\* get_or_create looks for any identity of the account with this provider:
\* several are a 500 ...
OAuthAttach(w) ==
    /\ Serving(w, "attach")
    /\ IF Held(req[w].user) = {} THEN Step(w, "link")
       ELSE IF Sole(req[w].user) THEN LogIn(w, req[w].user) ELSE Done(w)
    /\ UNCHANGED <<store, mail, rows, history>>

\* Mutant: the row is built and never saved.
FileNothing(p, u) == UNCHANGED identity

\* Creating the identity of p for u: (provider, uid) is unique.
File(p, u) == identity' = [identity EXCEPT ![p] = u]

\* ... and creates one; on a conflict it looks once more, and it is a 500 if
\* this account still has none, or has several.
OAuthLink(w) ==
    LET u == req[w].user
        p == req[w].profile
    IN  /\ Serving(w, "link")
        /\ \/ identity[p] = Absent /\ File(p, u) /\ LogIn(w, u)
           \/ /\ identity[p] # Absent
              /\ IF Sole(u) THEN LogIn(w, u) ELSE Done(w)
              /\ UNCHANGED identity
        /\ UNCHANGED <<store, mail, known, primary, linked, walled, sovereign, history>>

\* A new account and, by statements of their own, a second save of it and its
\* identity; the first and the last are a 500 when the address or the profile
\* was taken meanwhile.
OAuthEnroll(w) ==
    LET e == req[w].email
    IN  /\ Serving(w, "enroll")
        /\ \/ \E u \in Users \ known :
                /\ Fits(e)
                /\ Provision(u, e)
                /\ Merge(w, "bind", u, FALSE)
           \/ ~Fits(e) /\ Done(w) /\ UNCHANGED <<known, primary>>
        /\ UNCHANGED <<store, mail, linked, identity, walled, sovereign, history>>

OAuthBind(w) ==
    LET u == req[w].user
        p == req[w].profile
    IN  /\ Serving(w, "bind")
        /\ Save(u, req[w].standing)
        /\ \/ identity[p] = Absent /\ File(p, u) /\ LogIn(w, u)
           \/ identity[p] # Absent /\ Done(w) /\ UNCHANGED identity
        /\ UNCHANGED <<store, mail, known, primary, linked, walled, history>>

\* OAuthCallbackView goes on to the gate and the session.
OAuthLogin(w) ==
    /\ Serving(w, "login")
    /\ Done(w)
    /\ UNCHANGED <<store, mail, rows, history>>

-----------------------------------------------------------------------------
(* What happens around them.                                               *)

\* graduate_confirm commits: the key is shredded, so it happens once.
Graduate(u) ==
    /\ u \in (known \cap Custodial) \ (sovereign \cup overtaken)
    /\ sovereign' = sovereign \cup {u}
    /\ overtaken' = IF \E w \in Workers : InHand(w, u) THEN overtaken \cup {u}
                    ELSE overtaken
    /\ UNCHANGED <<store, mail, known, primary, linked, identity, walled, req, excused>>

Lapse(b, k) ==
    /\ "lapse" \in Losses \/ ("cull" \in Losses /\ b # Redis)
    /\ store[b][k] # Absent
    /\ store' = Drop(b, k)
    /\ UNCHANGED <<mail, rows, req, history>>

\* A worker may die between any two statements.
WorkerRestart(w) ==
    /\ "worker" \in Losses
    /\ store' = Forget(w)
    /\ Done(w)
    /\ UNCHANGED <<mail, rows, history>>

Next ==
    \/ \E w \in Workers, e \in Emails :
        \/ \E n \in Codes :
            \/ ChallengeEmail(w, e, n)
            \/ \E u \in Users : ChallengeLink(w, u, e, n)
        \/ VerifyRead(w, e)
        \/ LinkRemove(w, e)
        \/ \E u \in Users : LinkRead(w, u, e)
        \/ \E p \in Profiles : OAuthBegin(w, p, e)
    \/ \E w \in Workers :
        \/ VerifySpend(w)
        \/ VerifyResolve(w)
        \/ VerifyCreate(w)
        \/ VerifySeal(w)
        \/ LinkSpend(w)
        \/ LinkCheck(w)
        \/ LinkClaim(w)
        \/ OAuthMatch(w)
        \/ OAuthMatchLinked(w)
        \/ OAuthSave(w)
        \/ OAuthAttach(w)
        \/ OAuthLink(w)
        \/ OAuthEnroll(w)
        \/ OAuthBind(w)
        \/ OAuthLogin(w)
        \/ WorkerRestart(w)
    \/ \E u \in Users : Graduate(u)
    \/ \E b \in Backends, k \in Keys : Lapse(b, k)

Spec == Init /\ [][Next]_vars

-----------------------------------------------------------------------------
(* Properties.                                                             *)

\* The accounts an address resolves to.
Owners(e) == {u \in Users : IsPrimary(u, e) \/ linked[e] = u}

\* An address is linked to an account only after a code for the two of them
\* was mailed to it, however the challenges of several users for one address
\* overwrite each other and whichever copy of them is read.
AddressesProven ==
    \A e \in Emails : linked[e] # Absent =>
        \E n \in Codes : mail[n] = [key |-> <<"link", e>>, user |-> linked[e]]

\* However often a code is honoured and whatever races or fails, one account
\* comes of an address.  And only two things leave it to a second one, as a
\* linked address: a sign-in by mail that finds it linked, which it never
\* looks for, or two requests about to claim it at the same time.
SplitsExplained ==
    /\ \A e \in Emails, u, v \in Users : IsPrimary(u, e) /\ IsPrimary(v, e) => u = v
    /\ \A e \in Emails \ excused : \A u, v \in Owners(e) : u = v

\* LONG_TERM_AUTH_TOPOLOGY.md, on the locker: "An email bound to an existing DID
\* cannot be claimed, registered, or usurped by any other identity".
OneAccountPerAddress == \A e \in Emails : \A u, v \in Owners(e) : u = v

\* Worker w files an identity for account u.
Files(w, u) ==
    /\ Serving(w, "link") \/ Serving(w, "bind")
    /\ req[w].user = u
    /\ identity[req[w].profile] = Absent
    /\ identity'[req[w].profile] = u

\* An account that graduates while no merge has its row in hand is out of
\* every stranger's reach from then on: no whole-row save makes it managed
\* again, and whichever way a profile's address leads to it, as the primary
\* one, as one linked in the locker, through whatever race, it gets an
\* identity only from a browser signed in to it.
SovereignGuarded ==
    [][\A u \in sovereign \ overtaken :
        /\ u \in sovereign'
        /\ \A w \in Workers : Files(w, u) => req[w].own]_vars

\* Whoever an OAuth profile signs in has an identity of its provider on file,
\* however its first sign-ins race each other and the changes of its address.
IdentityOnFile ==
    \A w \in Workers :
        Serving(w, "login") => \E p \in Profiles : identity[p] = req[w].user
=============================================================================

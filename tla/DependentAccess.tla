--------------------------- MODULE DependentAccess ---------------------------
(***************************************************************************)
(* What a parent is promised of the tokens of a dependent, with no cache   *)
(* and no memory of a worker in sight: one record says who is a dependent  *)
(* and who is revoked, and it is looked at when a request comes in and     *)
(* again when a token is granted.  A look may go unanswered, and then the  *)
(* request is trusted.                                                     *)
(***************************************************************************)
CONSTANTS Workers, Dids, Codes, None

VARIABLES
    row,        \* row[d]: "none", "valid" or "revoked", on record
    owner,      \* owner[c]: the DID that signed in for code c, or None
    tokens,     \* DIDs with a token
    serving     \* serving[w]: the request worker w is to answer well, or None

accessVars == <<row, owner, tokens, serving>>

AccessInit ==
    /\ row = [d \in Dids |-> "none"]
    /\ owner = [c \in Codes |-> None]
    /\ tokens = {}
    /\ serving = [w \in Workers |-> None]

\* A registration or a ticket; to register anew takes a revocation back.
Record(d, standing) ==
    /\ row' = [row EXCEPT ![d] = standing]
    /\ UNCHANGED <<owner, tokens, serving>>

SignIn(c, d) ==
    /\ owner[c] = None
    /\ owner' = [owner EXCEPT ![c] = d]
    /\ UNCHANGED <<row, tokens, serving>>

Serve(w, request) ==
    /\ \A v \in Workers : serving'[v] = IF v = w THEN request ELSE serving[v]
    /\ UNCHANGED <<row, owner>>

\* Noted of a request is who it is for, as what, the token granted it, and the
\* looks that went unanswered.
Come(w, d, as, missed) ==
    /\ row[d] = "revoked" => "arrival" \in missed
    /\ as # "visitor" =>
        /\ d \in tokens \/ \E c \in Codes : owner[c] = d
        /\ as = IF row[d] = "none" THEN "adult" ELSE "dependent"
    /\ Serve(w, [did |-> d, as |-> as, token |-> "none", missed |-> missed])
    /\ UNCHANGED tokens

\* Nobody revoked by now gets a token, and a dependent's is marked as one.
Grant(w, token, missed) ==
    LET q == serving[w]
    IN  /\ q.missed \subseteq missed
        /\ \/ "hook" \in missed
           \/ row[q.did] # "revoked" /\ (q.as = "dependent" => token = "marked")
        /\ Serve(w, [did |-> q.did, as |-> q.as, token |-> token, missed |-> missed])
        /\ UNCHANGED tokens

Issue(w) ==
    /\ tokens' = tokens \cup {serving[w].did}
    /\ Serve(w, None)

Leave(w) == Serve(w, None) /\ UNCHANGED tokens

\* A request comes in, is granted a token, is answered or gets nothing.
Attend(w) ==
    /\ serving'[w] # serving[w]
    /\ IF serving[w] = None
       THEN \E d \in Dids, as \in {"visitor", "adult", "dependent"},
               missed \in {{}, {"arrival"}} :
               Come(w, d, as, missed)
       ELSE \/ /\ serving[w].as # "visitor"
               /\ IF serving[w].token = "none"
                  THEN \E token \in {"plain", "marked"},
                          missed \in SUBSET {"arrival", "hook"} :
                          Grant(w, token, missed)
                  ELSE Issue(w)
            \/ Leave(w)

AccessNext ==
    \/ UNCHANGED accessVars
    \/ \E d \in Dids :
        \/ \E standing \in {"valid", "revoked"} : Record(d, standing)
        \/ \E c \in Codes : SignIn(c, d)
    \/ \E w \in Workers : Attend(w)

AccessSpec == AccessInit /\ [][AccessNext]_accessVars
=============================================================================

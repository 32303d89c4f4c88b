--------------------------- MODULE AirlockProofs ---------------------------
(* Proofs about Airlock.  Every handler has the same shape (Turn): it       *)
(* writes one session, or none, derived from the session its request        *)
(* loaded.  The properties follow from what a browser owns and from who can *)
(* name a session key.                                                      *)
EXTENDS Airlock, TLAPS

(* What a request carries is fit for its handler. *)
ReqInv ==
    \A w \in Workers : req[w] # None =>
        /\ req[w].op \in SignIns => req[w].who # None
        /\ req[w].op \in Personal => req[w].data.user # None
        /\ req[w].op = "sponsor" => req[w].data.sponsor
        /\ req[w].key = None => req[w].data = Blank

TypeInv == TypeOK /\ ReqInv

(* A session key belongs to one browser. *)
KeyInv ==
    /\ \A b \in Browsers : cookie[b] # None => rows[cookie[b]] # None
    /\ \A a, b \in Browsers : cookie[a] # None /\ cookie[a] = cookie[b] => a = b
    /\ \A w \in Workers, b \in Browsers :
          req[w] # None /\ cookie[b] # None /\ cookie[b] = req[w].key => b = req[w].b
    /\ \A v, w \in Workers :
          /\ req[v] # None /\ req[w] # None
          /\ req[v].key # None /\ req[v].key = req[w].key
          => req[v].b = req[w].b

-----------------------------------------------------------------------------
(* The shape of a step.                                                     *)

(* Request q leaves with session d written, or with its session dropped. *)
Put(q, d) ==
    \/ /\ q.key # None /\ rows[q.key] # None
       /\ q.data.beta => d.beta
       /\ cookie' \in {cookie, [cookie EXCEPT ![q.b] = q.key]}
       /\ Rows([rows EXCEPT ![q.key] = d])
    \/ \E k \in Keys :
          /\ ~Named(k)
          /\ cookie' = [cookie EXCEPT ![q.b] = k]
          /\ Rows([Without(q.key) EXCEPT ![k] = d])
    \/ Loses(q.b, q.key) /\ Rows(Without(q.key))
    \/ cookie' = [cookie EXCEPT ![q.b] = None] /\ Rows(Without(q.key))

(* All sessions stay as they are. *)
Untouched == cookie' = cookie /\ Rows(rows)

Written(q, d) == Put(q, d) \/ Untouched

(* d is made from what q loaded and was shown. *)
Descends(q, d) ==
    /\ d.user \in {None, q.data.user, q.data.pending, q.who}
    /\ d.pending \in {None, q.data.user, q.data.pending, q.who}
    /\ d.beta => q.data.beta \/ q.b \in redeemed'
    /\ q.data.beta => d.beta \/ None \notin {q.data.user, d.user}

Tally(q, d) ==
    \/ handed' = handed /\ (d.sponsor => q.data.sponsor)
    \/ handed' = [handed EXCEPT ![q.b] = 0]
    \/ /\ q.data.sponsor /\ ~d.sponsor /\ Put(q, d)
       /\ handed' = [handed EXCEPT ![q.b] = @ + 1]

Earned(q) ==
    code' # None =>
        /\ code' \in Codes
        /\ code'.b = q.b
        /\ code'.user \in {q.data.user, q.data.pending, q.who}
        /\ code'.via # "consent" =>
              code'.user \in Admitted \/ q.data.beta \/ q.b \in redeemed'
        /\ code'.via \in {"redeem", "authorize"} => code'.user \in acked \/ (q.acked /\ code'.user = q.data.user)

Turn(w, d) ==
    /\ req[w] # None
    /\ req' = [req EXCEPT ![w] = None]
    /\ d \in Data
    /\ Written(req[w], d)
    /\ Descends(req[w], d)
    /\ Tally(req[w], d)
    /\ Earned(req[w])
    /\ redeemed \subseteq redeemed' /\ redeemed' \subseteq Browsers
    /\ acked \subseteq acked' /\ acked' \subseteq Users
    /\ UNCHANGED <<proven, named, overlaps>>

LEMMA BlankType == Blank \in Data
BY DEF Blank, Data

LEMMA SaveWrites ==
    ASSUME NEW q \in Requests, NEW d \in Data, q.data.beta => d.beta,
           Save(q, d) \/ (q.key # None /\ Overwrite(q, d))
    PROVE  Written(q, d) /\ (Saves(q) => Put(q, d))
BY DEF Save, Move, Overwrite, Written, Put, Untouched, Saves

(* A login over session d leaves u's session e, or none. *)
LEMMA LogInWrites ==
    ASSUME NEW q \in Requests, NEW d \in Data, NEW u \in Users, LogIn(q, d, u),
           q.key = None => d.user # u, q.data.beta => d.beta
    PROVE  \E e \in Data :
              /\ Written(q, e)
              /\ e.user = u
              /\ e.pending \in {None, d.pending}
              /\ e.beta => d.beta
              /\ d.beta => e.beta \/ d.user # None
              /\ e.sponsor => d.sponsor
<1>1. CASE d.user = u /\ Overwrite(q, d)
  <2>1. Written(q, d)
    BY <1>1, SaveWrites
  <2> QED BY <1>1, <2>1
<1>2. CASE d.user = None /\ Move(q, [d EXCEPT !.user = u])
  <2>1. [d EXCEPT !.user = u] \in Data
    BY DEF Data
  <2>2. Written(q, [d EXCEPT !.user = u])
    BY <1>2 DEF Move, Written, Put
  <2> QED BY <1>2, <2>1, <2>2 DEF Data
<1>3. CASE d.user # None /\ Move(q, [Blank EXCEPT !.user = u])
  <2>1. [Blank EXCEPT !.user = u] \in Data
    BY BlankType DEF Data
  <2>2. Written(q, [Blank EXCEPT !.user = u])
    BY <1>3 DEF Move, Written, Put
  <2> QED BY <1>3, <2>1, <2>2 DEF Blank
<1> QED BY <1>1, <1>2, <1>3 DEF LogIn

LEMMA ReqTypes ==
    ASSUME TypeInv, NEW w \in Workers, req[w] # None
    PROVE  /\ req[w] \in Requests
           /\ req[w].data \in Data
           /\ req[w].b \in Browsers
           /\ req[w].key \in Keys \cup {None}
           /\ req[w].who \in Users \cup {None}
           /\ req[w].data.user \in Users \cup {None}
           /\ req[w].data.pending \in Users \cup {None}
           /\ req[w].data.beta \in BOOLEAN
           /\ req[w].data.sponsor \in BOOLEAN
<1>1. req[w] \in Requests
  BY DEF TypeInv, TypeOK
<1> QED BY <1>1 DEF Requests, Data

(* Handlers that need a user or a sponsor have a session. *)
LEMMA Carried ==
    ASSUME TypeInv, NEW w \in Workers, req[w] # None
    PROVE  /\ req[w].op \in Personal =>
                  req[w].data.user \in Users /\ req[w].key # None
           /\ req[w].op = "sponsor" => req[w].data.sponsor /\ req[w].key # None
<1>1. /\ req[w].op \in Personal => req[w].data.user # None
      /\ req[w].op = "sponsor" => req[w].data.sponsor
      /\ req[w].key = None => req[w].data = Blank
  BY DEF TypeInv, ReqInv
<1>2. Blank.user = None /\ ~Blank.sponsor
  BY DEF Blank
<1> QED BY <1>1, <1>2, ReqTypes

(* What all handlers keep. *)
LEMMA Frame ==
    ASSUME TypeInv
    PROVE  redeemed \subseteq Browsers /\ acked \subseteq Users /\ None \notin Users
BY AirlockAssumption DEF TypeInv, TypeOK

LEMMA LeaveTurns ==
    ASSUME TypeInv, NEW w \in Workers, Leave(w)
    PROVE  Turn(w, req[w].data)
<1> DEFINE q == req[w]
<1>1. Written(q, q.data)
  BY DEF Leave, Written, Untouched
<1>2. Descends(q, q.data)
  BY DEF Descends
<1>3. Tally(q, q.data)
  BY DEF Tally, Leave
<1>4. Earned(q)
  BY DEF Earned, Leave
<1> QED BY <1>1, <1>2, <1>3, <1>4, ReqTypes, Frame DEF Turn, Leave

LEMMA LogoutTurns ==
    ASSUME TypeInv, NEW w \in Workers, FinishLogout(w)
    PROVE  Turn(w, req[w].data)
<1> DEFINE q == req[w]
<1>1. Written(q, q.data)
  BY DEF FinishLogout, Written, Put
<1>2. Descends(q, q.data)
  BY DEF Descends
<1>3. Tally(q, q.data)
  BY DEF Tally, FinishLogout
<1>4. Earned(q)
  BY DEF Earned, FinishLogout
<1> QED BY <1>1, <1>2, <1>3, <1>4, ReqTypes, Frame DEF Turn, FinishLogout, Serve

(* A handler that saves d, changes no history and mints no code. *)
LEMMA PlainTurns ==
    ASSUME TypeInv, NEW w \in Workers, NEW op, Serve(w, op), NEW d \in Data,
           \/ Save(req[w], d)
           \/ req[w].key # None /\ Overwrite(req[w], d),
           req[w].data.beta => d.beta,
           Descends(req[w], d), d.sponsor => req[w].data.sponsor,
           handed' = handed, redeemed' = redeemed, code' = None,
           acked \subseteq acked', acked' \subseteq Users
    PROVE  Turn(w, d)
<1>1. Written(req[w], d)
  BY SaveWrites, ReqTypes DEF Serve
<1>2. Tally(req[w], d)
  BY DEF Tally
<1>3. Earned(req[w])
  BY DEF Earned
<1> QED BY <1>1, <1>2, <1>3, Frame DEF Turn, Serve

(* A handler that signs u in, over a session d it opened. *)
LEMMA LogInTurns ==
    ASSUME TypeInv, NEW w \in Workers, NEW op, Serve(w, op), NEW d \in Data,
           NEW u \in Users, LogIn(req[w], d, u),
           d.user = req[w].data.user,
           u \in {req[w].data.pending, req[w].who},
           d.pending \in {None, req[w].data.pending},
           d.beta => req[w].data.beta \/ req[w].b \in redeemed',
           req[w].data.beta => d.beta,
           \/ handed' = handed /\ (d.sponsor => req[w].data.sponsor)
           \/ handed' = [handed EXCEPT ![req[w].b] = 0],
           redeemed \subseteq redeemed', redeemed' \subseteq Browsers, acked' = acked,
           Earned(req[w])
    PROVE  \E e \in Data : Turn(w, e)
<1>1. req[w].key = None => d.user # u
  BY ReqTypes, AirlockAssumption DEF TypeInv, ReqInv, Blank, Serve
<1>2. PICK e \in Data :
          /\ Written(req[w], e)
          /\ e.user = u
          /\ e.pending \in {None, d.pending}
          /\ e.beta => d.beta
          /\ d.beta => e.beta \/ d.user # None
          /\ e.sponsor => d.sponsor
  BY <1>1, LogInWrites, ReqTypes DEF Serve
<1>3. Descends(req[w], e)
  BY <1>2, AirlockAssumption DEF Descends
<1>4. Tally(req[w], e)
  BY <1>2 DEF Tally
<1> QED BY <1>2, <1>3, <1>4, Frame DEF Turn, Serve

LEMMA SignInTurns ==
    ASSUME TypeInv, NEW w \in Workers, FinishSignIn(w)
    PROVE  \E d \in Data : Turn(w, d)
<1> DEFINE q == req[w]
           d == [q.data EXCEPT !.pending = q.who]
<1>1. Serve(w, "signin") /\ UNCHANGED <<acked, redeemed, handed>>
  BY DEF FinishSignIn
<1>2. q.who \in Users
  BY <1>1, ReqTypes DEF TypeInv, ReqInv, SignIns, Serve
<1>3. CASE Passes(q.who, q.data)
  <2>1. LogIn(q, q.data, q.who) /\ MayMint(q.who, q.b, "signin")
    BY <1>3 DEF FinishSignIn
  <2>2. Earned(q)
    BY <1>1, <1>2, <1>3, <2>1, ReqTypes DEF Earned, MayMint, Mint, Passes, Codes, Serve
  <2> QED BY <1>1, <1>2, <2>1, <2>2, LogInTurns, ReqTypes, Frame DEF Serve
<1>4. CASE ~Passes(q.who, q.data)
  <2>1. Save(q, d) /\ code' = None
    BY <1>4 DEF FinishSignIn, Park
  <2>2. d \in Data /\ Descends(q, d) /\ (d.sponsor => q.data.sponsor)
        /\ (q.data.beta => d.beta)
    BY <1>1, <1>2, ReqTypes DEF Descends, Data, Serve
  <2> QED BY <1>1, <2>1, <2>2, PlainTurns, Frame
<1> QED BY <1>3, <1>4

LEMMA AdminTurns ==
    ASSUME TypeInv, NEW w \in Workers, FinishAdmin(w)
    PROVE  \E d \in Data : Turn(w, d)
<1> DEFINE q == req[w]
<1>1. /\ Serve(w, "admin") \/ Serve(w, "console")
      /\ UNCHANGED <<acked, redeemed, handed>>
      /\ LogIn(q, q.data, q.who) /\ code' = None
  BY DEF FinishAdmin
<1>2. q.who \in Users
  BY <1>1, ReqTypes DEF TypeInv, ReqInv, SignIns, Serve
<1>3. Earned(q)
  BY <1>1 DEF Earned
<1> QED BY <1>1, <1>2, <1>3, LogInTurns, ReqTypes, Frame DEF Serve

LEMMA AuthorizeTurns ==
    ASSUME TypeInv, NEW w \in Workers, FinishAuthorize(w)
    PROVE  \E d \in Data : Turn(w, d)
<1> DEFINE q == req[w]
           d == [q.data EXCEPT !.pending = q.data.user]
<1>1. Serve(w, "authorize") /\ UNCHANGED <<acked, redeemed, handed>>
  BY DEF FinishAuthorize
<1>2. q.data.user \in Users /\ q.key # None
  BY <1>1, Carried DEF Serve, Personal
<1>3. CASE Save(q, d) /\ code' = None
  <2>1. d \in Data /\ Descends(q, d) /\ (d.sponsor => q.data.sponsor)
        /\ (q.data.beta => d.beta)
    BY <1>1, <1>2, ReqTypes DEF Descends, Data, Serve
  <2> QED BY <1>1, <1>3, <2>1, PlainTurns, Frame
<1>4. CASE Overwrite(q, q.data) /\ code' = None
  <2>1. q.data \in Data /\ Descends(q, q.data)
    BY <1>1, ReqTypes DEF Descends, Serve
  <2> QED BY <1>1, <1>2, <1>4, <2>1, PlainTurns, Frame
<1>5. CASE /\ MayAuthorize(q.data.user, q.data) /\ q.acked
           /\ cookie' = cookie /\ Rows(rows)
           /\ Mint(q.data.user, q.b, "authorize")
  <2>1. Written(q, q.data) /\ Descends(q, q.data) /\ Tally(q, q.data)
    BY <1>1, <1>5 DEF Written, Untouched, Descends, Tally
  <2>2. Earned(q)
    BY <1>1, <1>2, <1>5, ReqTypes DEF Earned, Mint, MayAuthorize, Passes, Codes, Serve
  <2>3. Turn(w, q.data)
    BY <1>1, <2>1, <2>2, ReqTypes, Frame DEF Turn, Serve
  <2> QED BY <2>3 DEF Turn
<1> QED BY <1>3, <1>4, <1>5 DEF FinishAuthorize, Park

LEMMA ConsentTurns ==
    ASSUME TypeInv, NEW w \in Workers, FinishConsent(w)
    PROVE  Turn(w, req[w].data)
<1> DEFINE q == req[w]
<1>1. /\ Serve(w, "consent") /\ UNCHANGED <<acked, redeemed, handed>>
      /\ cookie' = cookie /\ Rows(rows) /\ Mint(q.data.user, q.b, "consent")
  BY DEF FinishConsent
<1>2. q.data.user \in Users
  BY <1>1, Carried DEF Serve, Personal
<1>3. Written(q, q.data) /\ Descends(q, q.data) /\ Tally(q, q.data)
  BY <1>1 DEF Written, Untouched, Descends, Tally
<1>4. Earned(q)
  BY <1>1, <1>2, ReqTypes DEF Earned, Mint, Codes, Serve
<1> QED BY <1>1, <1>3, <1>4, ReqTypes, Frame DEF Turn, Serve

LEMMA RedeemTurns ==
    ASSUME TypeInv, NEW w \in Workers, NEW token \in BOOLEAN, FinishRedeem(w, token)
    PROVE  \E d \in Data : Turn(w, d)
<1> DEFINE q == req[w]
           d == Opened(q.data, token)
<1>1. /\ Serve(w, "redeem") /\ acked' = acked
      /\ redeemed' = redeemed \cup {q.b}
  BY DEF FinishRedeem
<1>2. /\ q \in Requests /\ q.b \in Browsers /\ q.data \in Data
      /\ redeemed \subseteq redeemed' /\ redeemed' \subseteq Browsers
      /\ acked \subseteq Users
  BY <1>1, ReqTypes, Frame DEF Serve
<1>3. /\ d \in Data /\ d.user = q.data.user /\ d.pending = None
      /\ d.beta /\ (d.sponsor => q.data.sponsor \/ token)
  BY <1>2 DEF Opened, Data
<1>4. /\ Tally(q, d)
      /\ \/ handed' = handed /\ (d.sponsor => q.data.sponsor)
         \/ handed' = [handed EXCEPT ![q.b] = 0]
  BY <1>3 DEF FinishRedeem, Tally
<1>5. CASE Save(q, d) /\ code' = None
  <2>1. Written(q, d)
    BY <1>2, <1>3, <1>5, SaveWrites
  <2>2. Descends(q, d)
    BY <1>1, <1>3 DEF Descends
  <2>3. Earned(q)
    BY <1>5 DEF Earned
  <2> QED BY <1>1, <1>2, <1>3, <1>4, <2>1, <2>2, <2>3 DEF Turn, Serve
<1>6. ASSUME NEW u \in Waiting(q.data), LogIn(q, d, u), MintIfAcked(u, q.b)
      PROVE  \E e \in Data : Turn(w, e)
  <2>1. u \in Users /\ u = q.data.pending
    BY <1>2 DEF Waiting, Data
  <2>2. Earned(q)
    BY <1>1, <1>2, <1>6, <2>1 DEF Earned, MintIfAcked, MayMint, Mint, Codes
  <2> QED BY <1>1, <1>2, <1>3, <1>4, <1>6, <2>1, <2>2, LogInTurns
<1> QED BY <1>5, <1>6 DEF FinishRedeem

LEMMA AcknowledgeTurns ==
    ASSUME TypeInv, NEW w \in Workers, FinishAcknowledge(w)
    PROVE  \E d \in Data : Turn(w, d)
<1> DEFINE q == req[w]
<1>1. /\ Serve(w, "acknowledge") /\ UNCHANGED <<redeemed, handed>>
      /\ acked' = acked \cup {q.data.user}
      /\ Overwrite(q, q.data) /\ code' = None
  BY DEF FinishAcknowledge
<1>2. q.data.user \in Users /\ q.key # None
  BY <1>1, Carried DEF Serve, Personal
<1>3. q.data \in Data /\ Descends(q, q.data)
  BY <1>1, ReqTypes DEF Descends, Serve
<1>4. acked \subseteq acked' /\ acked' \subseteq Users
  BY <1>1, <1>2, Frame
<1> QED BY <1>1, <1>2, <1>3, <1>4, PlainTurns

LEMMA SponsorTurns ==
    ASSUME TypeInv, NEW w \in Workers, FinishSponsor(w)
    PROVE  \E d \in Data : Turn(w, d)
<1> DEFINE q == req[w]
           d == Forgotten(q.data)
<1>1. /\ Serve(w, "sponsor") /\ UNCHANGED <<acked, redeemed>>
      /\ Overwrite(q, d) /\ code' = None
      /\ handed' = IF Saves(q) /\ overlaps[q.b] = 0
                   THEN [handed EXCEPT ![q.b] = @ + 1] ELSE handed
  BY DEF FinishSponsor
<1>2. q \in Requests /\ q.data \in Data /\ q.data.sponsor /\ q.key # None
  BY <1>1, ReqTypes, Carried DEF Serve
<1>3. d \in Data /\ Descends(q, d) /\ ~d.sponsor /\ d.beta = q.data.beta
  BY <1>2 DEF Descends, Forgotten, Data
<1>4. Written(q, d) /\ (Saves(q) => Put(q, d))
  BY <1>1, <1>2, <1>3, SaveWrites
<1>5. Tally(q, d) /\ Earned(q)
  BY <1>1, <1>2, <1>3, <1>4 DEF Tally, Earned
<1> QED BY <1>1, <1>3, <1>4, <1>5, Frame DEF Turn, Serve

LEMMA OAuthTurns ==
    ASSUME TypeInv, NEW w \in Workers, FinishOAuthStart(w)
    PROVE  \E d \in Data : Turn(w, d)
<1> DEFINE q == req[w]
           d == [q.data EXCEPT !.short = TRUE]
<1>1. /\ Serve(w, "oauth") /\ UNCHANGED <<acked, redeemed, handed>>
      /\ Save(q, d) /\ code' = None
  BY DEF FinishOAuthStart
<1>2. d \in Data /\ Descends(q, d) /\ (d.sponsor => q.data.sponsor)
      /\ (q.data.beta => d.beta)
  BY <1>1, ReqTypes DEF Descends, Data, Serve
<1> QED BY <1>1, <1>2, PlainTurns, Frame

LEMMA OAuthRefusalTurns ==
    ASSUME TypeInv, NEW w \in Workers, FinishOAuthRefusal(w)
    PROVE  \E d \in Data : Turn(w, d)
<1> DEFINE q == req[w]
<1>1. /\ Serve(w, "oauth") /\ UNCHANGED <<acked, redeemed, handed>>
      /\ q.key # None /\ Overwrite(q, q.data) /\ code' = None
  BY DEF FinishOAuthRefusal
<1>2. q.data \in Data /\ Descends(q, q.data)
  BY <1>1, ReqTypes DEF Descends, Serve
<1> QED BY <1>1, <1>2, PlainTurns, Frame

(* Every step lapses a session, starts a request or is a request's turn. *)
LEMMA StepShape ==
    ASSUME TypeInv, [Next]_vars
    PROVE  \/ UNCHANGED vars
           \/ \E b \in Browsers : Lapse(b)
           \/ \E w \in Workers, b \in Browsers, op \in Ops, who \in Users \cup {None} :
                 Begin(w, b, op, who)
           \/ \E w \in Workers, d \in Data : Turn(w, d)
<1>1. ASSUME NEW w \in Workers, Leave(w) \/ FinishLogout(w) \/ FinishConsent(w)
      PROVE  \E d \in Data : Turn(w, d)
  BY <1>1, LeaveTurns, LogoutTurns, ConsentTurns DEF Turn
<1> QED
  BY <1>1, SignInTurns, AdminTurns, AuthorizeTurns, RedeemTurns, AcknowledgeTurns,
     SponsorTurns, OAuthTurns, OAuthRefusalTurns DEF Next

-----------------------------------------------------------------------------
(* Types and keys.                                                          *)

LEMMA LoadedType ==
    ASSUME TypeInv, KeyInv, NEW b \in Browsers
    PROVE  Loaded(b) \in Data /\ (cookie[b] # None => Loaded(b) = rows[cookie[b]])
BY BlankType DEF Loaded, TypeInv, TypeOK, KeyInv

(* What a turn does to the session of browser a. *)
LEMMA Effect ==
    ASSUME TypeInv, KeyInv, NEW w \in Workers, NEW d \in Data, Turn(w, d),
           NEW a \in Browsers
    PROVE  \/ cookie'[a] = None
           \/ cookie'[a] = cookie[a] /\ rows'[cookie[a]] = rows[cookie[a]]
           \/ /\ a = req[w].b
              /\ cookie'[a] \in Keys
              /\ \/ cookie'[a] = req[w].key /\ (req[w].data.beta => d.beta)
                 \/ ~Named(cookie'[a])
              /\ rows'[cookie'[a]] = d
<1> DEFINE q == req[w]
<1>1. /\ req[w] # None /\ q.b \in Browsers /\ q.key \in Keys \cup {None}
      /\ cookie \in [Browsers -> Keys \cup {None}]
      /\ rows \in [Keys -> Data \cup {None}]
      /\ Written(q, d)
  BY ReqTypes DEF Turn, TypeInv, TypeOK
<1>2. cookie[a] # None /\ cookie[a] = q.key => a = q.b
  BY <1>1 DEF KeyInv
<1>3. cookie[a] # None => cookie[a] \in Keys /\ Named(cookie[a])
  BY <1>1 DEF Named
<1>4. \A k : cookie'[a] = k => Named(k)'
  BY DEF Named
<1>5. CASE /\ q.key # None /\ rows[q.key] # None
           /\ q.data.beta => d.beta
           /\ cookie' \in {cookie, [cookie EXCEPT ![q.b] = q.key]}
           /\ Rows([rows EXCEPT ![q.key] = d])
  BY <1>1, <1>2, <1>3, <1>4, <1>5 DEF Rows
<1>6. ASSUME NEW k \in Keys, ~Named(k), cookie' = [cookie EXCEPT ![q.b] = k],
             Rows([Without(q.key) EXCEPT ![k] = d])
      PROVE  \/ cookie'[a] = cookie[a] /\ rows'[cookie[a]] = rows[cookie[a]]
             \/ /\ a = q.b /\ cookie'[a] \in Keys /\ ~Named(cookie'[a])
                /\ rows'[cookie'[a]] = d
             \/ cookie'[a] = None
  <2>1. CASE a = q.b
    BY <1>1, <1>4, <1>6, <2>1, AirlockAssumption DEF Rows, Without
  <2>2. CASE a # q.b
    BY <1>1, <1>2, <1>3, <1>4, <1>6, <2>2 DEF Rows, Without
  <2> QED BY <2>1, <2>2
<1>7. CASE Loses(q.b, q.key) /\ Rows(Without(q.key))
  <2>1. CASE a = q.b
    BY <1>1, <1>2, <1>3, <1>4, <1>7, <2>1 DEF Rows, Without, Loses
  <2>2. CASE a # q.b
    BY <1>1, <1>2, <1>3, <1>4, <1>7, <2>2 DEF Rows, Without, Loses
  <2> QED BY <2>1, <2>2
<1>8. CASE cookie' = [cookie EXCEPT ![q.b] = None] /\ Rows(Without(q.key))
  BY <1>1, <1>2, <1>3, <1>4, <1>8 DEF Rows, Without
<1>9. CASE Untouched
  BY <1>1, <1>3, <1>4, <1>9 DEF Rows, Untouched
<1> QED BY <1>1, <1>5, <1>6, <1>7, <1>8, <1>9 DEF Written, Put

LEMMA TurnTypes ==
    ASSUME TypeInv, KeyInv, NEW w \in Workers, NEW d \in Data, Turn(w, d)
    PROVE  TypeInv'
<1> DEFINE q == req[w]
<1>1. /\ q \in Requests /\ q.b \in Browsers /\ q.key \in Keys \cup {None}
      /\ Written(q, d) /\ Tally(q, d) /\ Earned(q)
  BY ReqTypes DEF Turn
<1>2. rows' \in [Keys -> Data \cup {None}]
  BY <1>1 DEF Written, Put, Untouched, Rows, Without, TypeInv, TypeOK
<1>3. cookie' \in [Browsers -> Keys \cup {None}]
  BY <1>1 DEF Written, Put, Untouched, Loses, TypeInv, TypeOK
<1>4. req' \in [Workers -> Requests \cup {None}]
  BY DEF Turn, TypeInv, TypeOK
<1>5. handed' \in [Browsers -> Nat]
  BY <1>1 DEF Tally, TypeInv, TypeOK
<1>6. code' \in Codes \cup {None}
  BY <1>1 DEF Earned
<1>7. TypeOK'
  BY <1>2, <1>3, <1>4, <1>5, <1>6 DEF Turn, TypeInv, TypeOK
<1>8. ReqInv'
  BY DEF Turn, TypeInv, TypeOK, ReqInv
<1> QED BY <1>7, <1>8 DEF TypeInv

LEMMA TurnKeys ==
    ASSUME TypeInv, KeyInv, NEW w \in Workers, NEW d \in Data, Turn(w, d)
    PROVE  KeyInv'
<1> DEFINE q == req[w]
<1>1. /\ req[w] # None
      /\ \A v \in Workers : req'[v] # None => v # w /\ req'[v] = req[v]
      /\ d # None
  BY AirlockAssumption DEF Turn, TypeInv, TypeOK
<1>2. ASSUME NEW b \in Browsers, cookie'[b] # None
      PROVE  rows'[cookie'[b]] # None
  BY <1>1, <1>2, Effect DEF KeyInv
<1>3. ASSUME NEW a \in Browsers, NEW b \in Browsers,
             cookie'[a] # None, cookie'[a] = cookie'[b]
      PROVE  a = b
  BY <1>1, <1>3, Effect DEF KeyInv, Named
<1>4. ASSUME NEW v \in Workers, NEW b \in Browsers,
             req'[v] # None, cookie'[b] # None, cookie'[b] = req'[v].key
      PROVE  b = req'[v].b
  BY <1>1, <1>4, Effect DEF KeyInv, Named
<1>5. ASSUME NEW u \in Workers, NEW v \in Workers, req'[u] # None, req'[v] # None,
             req'[u].key # None, req'[u].key = req'[v].key
      PROVE  req'[u].b = req'[v].b
  BY <1>1, <1>5 DEF KeyInv
<1> QED BY <1>2, <1>3, <1>4, <1>5 DEF KeyInv

(* A request to sign someone in comes with a proof, or names staff. *)
LEMMA BeginSays ==
    ASSUME NEW w \in Workers, NEW b \in Browsers, NEW op \in Ops,
           NEW who \in Users \cup {None}, Begin(w, b, op, who)
    PROVE  \/ who = None /\ UNCHANGED <<proven, named>>
           \/ who \in Users /\ proven' = proven \cup {<<b, who>>} /\ named' = named
           \/ who \in Staff /\ named' = named \cup {<<b, who>>} /\ proven' = proven
<1>1. who \in Entrants(op) /\ None \notin Users /\ Staff \subseteq Users
  BY AirlockAssumption DEF Begin
<1>2. op = "console" => who \in Staff
  BY <1>1 DEF Entrants, SignIns
<1> QED BY <1>1, <1>2 DEF Begin

LEMMA BeginVouches ==
    ASSUME NEW w \in Workers, NEW b \in Browsers, NEW op \in Ops,
           NEW who \in Users \cup {None}, Begin(w, b, op, who)
    PROVE  /\ Vouched \subseteq Vouched'
           /\ who # None => <<b, who>> \in Vouched'
BY BeginSays DEF Vouched

LEMMA BeginTypes ==
    ASSUME TypeInv, KeyInv, NEW w \in Workers, NEW b \in Browsers, NEW op \in Ops,
           NEW who \in Users \cup {None}, Begin(w, b, op, who)
    PROVE  TypeInv' /\ KeyInv'
<1> DEFINE r == [op |-> op, b |-> b, key |-> cookie[b], data |-> Loaded(b),
                 who |-> who, acked |-> op = "authorize" /\ Loaded(b).user \in acked]
<1>1. /\ req[w] = None /\ who \in Entrants(op) /\ Worthwhile(b, op, Loaded(b))
      /\ req' = [req EXCEPT ![w] = r]
      /\ UNCHANGED <<rows, cookie, acked, redeemed, handed>> /\ code' = None
      /\ overlaps' \in {overlaps, [overlaps EXCEPT ![b] = @ + 1]}
  BY DEF Begin
<1>2. Loaded(b) \in Data /\ cookie[b] \in Keys \cup {None}
  BY LoadedType DEF TypeInv, TypeOK
<1>3. r \in Requests
  BY <1>2 DEF Requests
<1>4. req' \in [Workers -> Requests \cup {None}]
  BY <1>1, <1>3 DEF TypeInv, TypeOK
<1>5. proven' \subseteq Browsers \X Users /\ named' \subseteq Browsers \X Staff
  BY BeginSays DEF TypeInv, TypeOK
<1>6. overlaps' \in [Browsers -> Nat]
  BY <1>1 DEF TypeInv, TypeOK
<1>7. TypeOK'
  BY <1>1, <1>4, <1>5, <1>6 DEF TypeInv, TypeOK
<1>8. /\ r.op \in SignIns => r.who # None
      /\ r.op \in Personal => r.data.user # None
      /\ r.op = "sponsor" => r.data.sponsor
      /\ r.key = None => r.data = Blank
  BY <1>1, AirlockAssumption DEF SignIns, Entrants, Worthwhile, Loaded
<1>9. \A v \in Workers : req'[v] = IF v = w THEN r ELSE req[v]
  BY <1>1 DEF TypeInv, TypeOK
<1>10. ReqInv'
  BY <1>8, <1>9 DEF TypeInv, ReqInv
<1>11. KeyInv'
  BY <1>1, <1>9 DEF KeyInv
<1> QED BY <1>7, <1>10, <1>11 DEF TypeInv

LEMMA LapseTypes ==
    ASSUME TypeInv, KeyInv, NEW b \in Browsers, Lapse(b)
    PROVE  /\ TypeInv' /\ KeyInv'
           /\ \A a \in Browsers : cookie'[a] # None =>
                 cookie'[a] = cookie[a] /\ rows'[cookie[a]] = rows[cookie[a]]
           /\ \A w \in Workers : req[w] # None /\ req[w].key # None =>
                 rows'[req[w].key] = rows[req[w].key]
<1>1. /\ cookie' = [cookie EXCEPT ![b] = None] /\ Rows(rows) /\ code' = None
      /\ UNCHANGED <<req, acked, proven, named, redeemed, overlaps, handed>>
      /\ cookie \in [Browsers -> Keys \cup {None}]
      /\ rows \in [Keys -> Data \cup {None}]
  BY DEF Lapse, TypeInv, TypeOK
<1>2. TypeOK'
  BY <1>1 DEF TypeInv, TypeOK, Rows
<1>3. ReqInv'
  BY <1>1 DEF TypeInv, ReqInv
<1>4. \A a \in Browsers : cookie'[a] # None =>
          /\ cookie'[a] = cookie[a] /\ cookie[a] \in Keys
          /\ \A k : cookie'[a] = k => Named(k)'
  BY <1>1 DEF Named
<1>5. \A a \in Browsers : cookie'[a] # None =>
          cookie'[a] = cookie[a] /\ rows'[cookie[a]] = rows[cookie[a]]
  BY <1>1, <1>4 DEF Rows
<1>6. ASSUME NEW w \in Workers, req[w] # None, req[w].key # None
      PROVE  rows'[req[w].key] = rows[req[w].key]
  <2>1. req[w].key \in Keys
    BY <1>6, ReqTypes
  <2>2. PICK k \in Keys : k = req[w].key
    BY <2>1
  <2>3. Named(k)'
    BY <1>1, <1>6, <2>2 DEF Named
  <2> QED BY <1>1, <2>2, <2>3 DEF Rows
<1>7. KeyInv'
  BY <1>1, <1>5 DEF KeyInv
<1> QED BY <1>2, <1>3, <1>5, <1>6, <1>7 DEF TypeInv

LEMMA Stutters ==
    ASSUME UNCHANGED vars
    PROVE  /\ TypeInv => TypeInv'
           /\ KeyInv => KeyInv'
           /\ \A b : Loaded(b)' = Loaded(b)
BY DEF vars, TypeInv, TypeOK, ReqInv, KeyInv, Loaded

LEMMA InitTypes == Init => TypeInv /\ KeyInv
BY AirlockAssumption DEF Init, TypeInv, TypeOK, ReqInv, KeyInv

(* Every session row names its user, its parked user and its flags, every   *)
(* request carries what its handler needs, and a session key belongs to one *)
(* browser, whatever requests overlap (SessionStore, cycle_key).            *)
THEOREM TypeCorrect == Spec => [](TypeInv /\ KeyInv)
<1>1. Init => TypeInv /\ KeyInv
  BY InitTypes
<1>2. TypeInv /\ KeyInv /\ [Next]_vars => TypeInv' /\ KeyInv'
  BY StepShape, Stutters, LapseTypes, BeginTypes, TurnTypes, TurnKeys
<1> QED BY <1>1, <1>2, PTL DEF Spec

(* Whatever requests overlap, sessions, cookies and requests in progress stay *)
(* well-formed: no handler leaves a session another one cannot read.          *)
THEOREM StateIsTyped == Spec => []TypeOK
<1>1. TypeInv => TypeOK
  BY DEF TypeInv
<1> QED BY <1>1, TypeCorrect, PTL

-----------------------------------------------------------------------------
(* What a browser owns.                                                     *)

Own(b, d) ==
    /\ d.user # None => <<b, d.user>> \in Vouched
    /\ d.pending # None => <<b, d.pending>> \in Vouched
    /\ d.beta => b \in redeemed

OwnInv ==
    /\ \A b \in Browsers : cookie[b] # None => Own(b, rows[cookie[b]])
    /\ \A w \in Workers : req[w] # None =>
          /\ Own(req[w].b, req[w].data)
          /\ req[w].who # None => <<req[w].b, req[w].who>> \in Vouched
          /\ req[w].acked => req[w].data.user \in acked
    /\ CodesAreEarned

LEMMA OwnLoaded ==
    ASSUME TypeInv, KeyInv, OwnInv, NEW b \in Browsers
    PROVE  Own(b, Loaded(b))
BY DEF OwnInv, Own, Loaded, Blank

LEMMA TurnOwns ==
    ASSUME TypeInv, KeyInv, OwnInv, NEW w \in Workers, NEW d \in Data, Turn(w, d)
    PROVE  OwnInv'
<1> DEFINE q == req[w]
<1>1. /\ req[w] # None
      /\ \A v \in Workers : req'[v] # None => req[v] # None /\ req'[v] = req[v]
      /\ Vouched' = Vouched
      /\ redeemed \subseteq redeemed' /\ acked \subseteq acked'
      /\ Descends(q, d) /\ Earned(q)
  BY DEF Turn, TypeInv, TypeOK, Vouched
<1>2. /\ Own(q.b, q.data)
      /\ q.who # None => <<q.b, q.who>> \in Vouched
      /\ q.acked => q.data.user \in acked
  BY <1>1 DEF OwnInv
<1>3. \A b \in Browsers, e \in Data : Own(b, e) => Own(b, e)'
  BY <1>1 DEF Own
<1>4. ASSUME NEW b \in Browsers, b = q.b
      PROVE  Own(b, d)'
  BY <1>1, <1>2, <1>4 DEF Own, Descends
<1>5. ASSUME NEW b \in Browsers, cookie'[b] # None
      PROVE  Own(b, rows[cookie[b]])'
  <2>1. CASE cookie'[b] = cookie[b] /\ rows'[cookie[b]] = rows[cookie[b]]
    BY <1>1, <1>5, <2>1 DEF Own, OwnInv
  <2>2. CASE b = q.b /\ rows'[cookie'[b]] = d
    BY <1>4, <2>2 DEF Own
  <2> QED BY <1>5, <2>1, <2>2, Effect
<1>6. ASSUME NEW v \in Workers, req'[v] # None
      PROVE  /\ Own(req[v].b, req[v].data)'
             /\ req'[v].who # None => <<req'[v].b, req'[v].who>> \in Vouched'
             /\ req'[v].acked => req'[v].data.user \in acked'
  BY <1>1, <1>6 DEF Own, OwnInv
<1>7. CodesAreEarned'
  <2>1. SUFFICES ASSUME code' # None
                 PROVE  /\ <<code'.b, code'.user>> \in Vouched'
                        /\ code'.via # "consent" => code'.user \in Admitted \/ code'.b \in redeemed'
                        /\ code'.via \in {"redeem", "authorize"} => code'.user \in acked'
    BY DEF CodesAreEarned
  <2>2. code'.user # None
    BY <1>1, <2>1, AirlockAssumption DEF Earned, Codes
  <2> QED BY <1>1, <1>2, <2>1, <2>2 DEF Earned, Own
<1> QED BY <1>5, <1>6, <1>7 DEF OwnInv

LEMMA BeginOwns ==
    ASSUME TypeInv, KeyInv, OwnInv, NEW w \in Workers, NEW b \in Browsers,
           NEW op \in Ops, NEW who \in Users \cup {None}, Begin(w, b, op, who)
    PROVE  OwnInv'
<1> DEFINE r == [op |-> op, b |-> b, key |-> cookie[b], data |-> Loaded(b),
                 who |-> who, acked |-> op = "authorize" /\ Loaded(b).user \in acked]
<1>1. /\ req' = [req EXCEPT ![w] = r]
      /\ UNCHANGED <<rows, cookie, acked, redeemed>> /\ code' = None
      /\ Vouched \subseteq Vouched'
      /\ who # None => <<b, who>> \in Vouched'
  BY BeginVouches DEF Begin
<1>2. \A v \in Workers : req'[v] = IF v = w THEN r ELSE req[v]
  BY <1>1 DEF TypeInv, TypeOK
<1>3. /\ Own(b, Loaded(b))
      /\ r.acked => r.data.user \in acked'
  BY <1>1, OwnLoaded
<1>4. /\ Loaded(b).user # None => <<b, Loaded(b).user>> \in Vouched'
      /\ Loaded(b).pending # None => <<b, Loaded(b).pending>> \in Vouched'
      /\ Loaded(b).beta => b \in redeemed'
  BY <1>1, <1>3 DEF Own
<1>5. ASSUME NEW a \in Browsers, cookie'[a] # None
      PROVE  Own(a, rows[cookie[a]])'
  BY <1>1, <1>5 DEF Own, OwnInv
<1>6. ASSUME NEW v \in Workers, req'[v] # None
      PROVE  /\ Own(req[v].b, req[v].data)'
             /\ req'[v].who # None => <<req'[v].b, req'[v].who>> \in Vouched'
             /\ req'[v].acked => req'[v].data.user \in acked'
  <2>1. CASE v = w
    BY <1>1, <1>2, <1>3, <1>4, <2>1 DEF Own
  <2>2. CASE v # w
    <3>1. req'[v] = req[v] /\ req[v] # None
      BY <1>2, <1>6, <2>2
    <3>2. /\ Own(req[v].b, req[v].data)
          /\ req[v].who # None => <<req[v].b, req[v].who>> \in Vouched
          /\ req[v].acked => req[v].data.user \in acked
      BY <3>1 DEF OwnInv
    <3> QED BY <1>1, <3>1, <3>2 DEF Own
  <2> QED BY <2>1, <2>2
<1>7. CodesAreEarned'
  BY <1>1 DEF CodesAreEarned
<1> QED BY <1>5, <1>6, <1>7 DEF OwnInv

LEMMA LapseOwns ==
    ASSUME TypeInv, KeyInv, OwnInv, NEW b \in Browsers, Lapse(b)
    PROVE  OwnInv'
<1>1. UNCHANGED <<req, acked, proven, named, redeemed>> /\ code' = None
  BY DEF Lapse
<1>2. \A a \in Browsers : cookie'[a] # None =>
          cookie'[a] = cookie[a] /\ rows'[cookie[a]] = rows[cookie[a]]
  BY LapseTypes
<1> QED BY <1>1, <1>2 DEF OwnInv, Own, CodesAreEarned, Vouched

LEMMA Owns == Spec => []OwnInv
<1>1. Init => OwnInv
  BY DEF Init, OwnInv, CodesAreEarned
<1>2. UNCHANGED vars /\ OwnInv => OwnInv'
  BY DEF vars, OwnInv, Own, CodesAreEarned, Vouched
<1>3. TypeInv /\ KeyInv /\ OwnInv /\ [Next]_vars => OwnInv'
  BY <1>2, StepShape, LapseOwns, BeginOwns, TurnOwns
<1> QED BY <1>1, <1>3, TypeCorrect, PTL DEF Spec

(* Whoever a browser is signed in as was proved through that very browser,  *)
(* or is staff it named to Django's admin, although redeem_beta_invite signs *)
(* in a DID that _gate_response parked and requests overwrite and move whole *)
(* sessions.                                                                *)
THEOREM SignedInProvenAlways == Spec => []SignedInProven
<1>1. TypeInv /\ KeyInv /\ OwnInv => SignedInProven
  BY OwnLoaded DEF SignedInProven, Signed, Own
<1> QED BY <1>1, TypeCorrect, Owns, PTL

(* No login, redemption or GET of the authorize view mints a code round the  *)
(* gate, however old the session it decided on (_did_passes_gate), and no    *)
(* request at all mints one for a user not proved, or named to Django's      *)
(* admin, in the browser it goes to.                                        *)
THEOREM CodesAreEarnedAlways == Spec => []CodesAreEarned
<1>1. OwnInv => CodesAreEarned
  BY DEF OwnInv
<1> QED BY <1>1, Owns, PTL

-----------------------------------------------------------------------------
(* A browser whose requests never overlapped.                               *)

(* Its one request still has the session as it is. *)
Alone(w) ==
    /\ \A v \in Workers : req[v] # None /\ req[v].b = req[w].b => v = w
    /\ cookie[req[w].b] \in {None, req[w].key}
    /\ req[w].key # None => rows[req[w].key] = req[w].data
    /\ handed[req[w].b] = 1 => ~req[w].data.sponsor

SerialInv ==
    /\ \A w \in Workers : req[w] # None /\ overlaps[req[w].b] = 0 => Alone(w)
    /\ \A b \in Browsers : overlaps[b] = 0 =>
          /\ handed[b] <= 1
          /\ handed[b] = 1 => ~Loaded(b).sponsor

(* A session that was written is the one its browser has, if it has one. *)
LEMMA PutEffect ==
    ASSUME TypeInv, NEW w \in Workers, NEW d \in Data, req[w] # None,
           Put(req[w], d), cookie[req[w].b] \in {None, req[w].key},
           NEW b \in Browsers, b = req[w].b
    PROVE  cookie'[b] = None \/ rows'[cookie'[b]] = d
<1> DEFINE q == req[w]
<1>1. /\ q.key \in Keys \cup {None}
      /\ cookie \in [Browsers -> Keys \cup {None}]
      /\ rows \in [Keys -> Data \cup {None}]
  BY ReqTypes DEF TypeInv, TypeOK
<1>2. \A k : cookie'[b] = k => Named(k)'
  BY DEF Named
<1>3. CASE /\ q.key # None /\ rows[q.key] # None
           /\ cookie' \in {cookie, [cookie EXCEPT ![q.b] = q.key]}
           /\ Rows([rows EXCEPT ![q.key] = d])
  BY <1>1, <1>2, <1>3 DEF Rows
<1>4. ASSUME NEW k \in Keys, cookie' = [cookie EXCEPT ![q.b] = k],
             Rows([Without(q.key) EXCEPT ![k] = d])
      PROVE  rows'[cookie'[b]] = d
  BY <1>1, <1>2, <1>4 DEF Rows, Without
<1>5. CASE Loses(q.b, q.key) \/ cookie' = [cookie EXCEPT ![q.b] = None]
  BY <1>1, <1>5 DEF Loses
<1> QED BY <1>3, <1>4, <1>5 DEF Put

(* A turn leaves the rows that other browsers' requests loaded. *)
LEMMA OtherRows ==
    ASSUME TypeInv, KeyInv, NEW w \in Workers, NEW d \in Data, Turn(w, d),
           NEW v \in Workers, req'[v] # None, req[v].b # req[w].b, req[v].key # None
    PROVE  rows'[req[v].key] = rows[req[v].key]
<1> DEFINE q == req[w]
<1>1. /\ v # w /\ req'[v] = req[v] /\ req[v] # None /\ q # None
      /\ rows \in [Keys -> Data \cup {None}]
      /\ Written(q, d)
  BY DEF Turn, TypeInv, TypeOK
<1>2. req[v].key \in Keys
  BY <1>1, ReqTypes
<1>3. PICK k \in Keys : k = req[v].key
  BY <1>2
<1>4. k # q.key
  BY <1>1, <1>3 DEF KeyInv
<1>5. Named(k) /\ Named(k)'
  BY <1>1, <1>3 DEF Named
<1>6. rows'[k] = rows[k]
  <2>1. CASE Rows([rows EXCEPT ![q.key] = d])
    BY <1>1, <1>4, <1>5, <2>1 DEF Rows
  <2>2. ASSUME NEW j \in Keys, ~Named(j), Rows([Without(q.key) EXCEPT ![j] = d])
        PROVE  rows'[k] = rows[k]
    <3>1. j # k
      BY <1>5, <2>2
    <3> QED BY <1>1, <1>4, <1>5, <2>2, <3>1 DEF Rows, Without
  <2>3. CASE Rows(Without(q.key)) \/ Rows(rows)
    BY <1>1, <1>4, <1>5, <2>3 DEF Rows, Without
  <2> QED BY <1>1, <2>1, <2>2, <2>3 DEF Written, Put, Untouched
<1> QED BY <1>3, <1>6

LEMMA TurnLoads ==
    ASSUME TypeInv, KeyInv, NEW w \in Workers, NEW d \in Data, Turn(w, d),
           NEW a \in Browsers
    PROVE  \/ cookie'[a] = None /\ Loaded(a)' = Blank
           \/ cookie'[a] = cookie[a] /\ Loaded(a)' = Loaded(a)
           \/ /\ a = req[w].b /\ Loaded(a)' = d
              /\ \/ cookie'[a] = req[w].key /\ (req[w].data.beta => d.beta)
                 \/ ~Named(cookie'[a])
<1>1. TypeInv' /\ KeyInv'
  BY TurnTypes, TurnKeys
<1> QED BY <1>1, Effect DEF Loaded

LEMMA TurnSerial ==
    ASSUME TypeInv, KeyInv, SerialInv, NEW w \in Workers, NEW d \in Data, Turn(w, d)
    PROVE  SerialInv'
<1> DEFINE q == req[w]
<1>1. /\ q # None /\ q.b \in Browsers
      /\ \A v \in Workers : req'[v] # None => v # w /\ req[v] # None /\ req'[v] = req[v]
      /\ overlaps' = overlaps
      /\ cookie \in [Browsers -> Keys \cup {None}]
      /\ handed \in [Browsers -> Nat]
      /\ Tally(q, d)
  BY ReqTypes DEF Turn, TypeInv, TypeOK
<1>2. \A b \in Browsers : b # q.b => handed'[b] = handed[b]
  BY <1>1 DEF Tally
<1>3. ASSUME NEW v \in Workers, req'[v] # None, overlaps'[req'[v].b] = 0
      PROVE  Alone(v)'
  <2>1. /\ v # w /\ req[v] # None /\ req'[v] = req[v] /\ req[v].b \in Browsers
        /\ Alone(v)
    BY <1>1, <1>3, ReqTypes DEF SerialInv
  <2>2. req[v].b # q.b
    BY <1>1, <2>1 DEF Alone
  <2>3. cookie'[req[v].b] \in {None, req[v].key}
    BY <2>1, <2>2, Effect DEF Alone
  <2>4. req[v].key # None => rows'[req[v].key] = req[v].data
    BY <1>3, <2>1, <2>2, OtherRows DEF Alone
  <2>5. handed'[req[v].b] = handed[req[v].b]
    BY <1>2, <2>1, <2>2
  <2> QED BY <1>1, <2>1, <2>3, <2>4, <2>5 DEF Alone
<1>4. ASSUME NEW b \in Browsers, overlaps'[b] = 0
      PROVE  handed'[b] <= 1 /\ (handed'[b] = 1 => ~Loaded(b)'.sponsor)
  <2>1. handed[b] <= 1 /\ (handed[b] = 1 => ~Loaded(b).sponsor)
    BY <1>1, <1>4 DEF SerialInv
  <2>2. CASE b # q.b
    BY <1>2, <2>1, <2>2, TurnLoads DEF Blank
  <2>3. CASE b = q.b
    <3>1. Alone(w)
      BY <1>1, <1>4, <2>3 DEF SerialInv
    <3>2. CASE handed' = handed /\ (d.sponsor => q.data.sponsor)
      BY <2>1, <2>3, <3>1, <3>2, TurnLoads DEF Alone, Blank
    <3>3. CASE handed' = handed /\ Untouched
      <4>1. Loaded(b)' = Loaded(b)
        <5>1. \A k : cookie'[b] = k => Named(k)'
          BY DEF Named
        <5> QED BY <1>1, <3>3, <5>1 DEF Untouched, Rows, Loaded
      <4> QED BY <2>1, <3>3, <4>1
    <3>4. CASE handed' = [handed EXCEPT ![q.b] = 0]
      BY <1>1, <2>3, <3>4
    <3>5. CASE /\ q.data.sponsor /\ ~d.sponsor /\ Put(q, d)
               /\ handed' = [handed EXCEPT ![q.b] = @ + 1]
      <4>1. handed[b] = 0
        BY <1>1, <2>1, <2>3, <3>1, <3>5 DEF Alone
      <4>2. handed'[b] = 1
        BY <1>1, <2>3, <3>5, <4>1
      <4>3. cookie'[b] = None \/ rows'[cookie'[b]] = d
        BY <1>1, <2>3, <3>1, <3>5, PutEffect DEF Alone
      <4> QED BY <3>5, <4>2, <4>3 DEF Loaded, Blank
    <3> QED BY <1>1, <3>2, <3>3, <3>4, <3>5 DEF Tally
  <2> QED BY <2>2, <2>3
<1> QED BY <1>3, <1>4 DEF SerialInv

LEMMA BeginSerial ==
    ASSUME TypeInv, KeyInv, SerialInv, NEW w \in Workers, NEW b \in Browsers,
           NEW op \in Ops, NEW who \in Users \cup {None}, Begin(w, b, op, who)
    PROVE  SerialInv'
<1> DEFINE r == [op |-> op, b |-> b, key |-> cookie[b], data |-> Loaded(b),
                 who |-> who, acked |-> op = "authorize" /\ Loaded(b).user \in acked]
<1>1. /\ req[w] = None /\ req' = [req EXCEPT ![w] = r]
      /\ UNCHANGED <<rows, cookie, handed>>
      /\ IF \E v \in Workers : req[v] # None /\ req[v].b = b
         THEN overlaps' = [overlaps EXCEPT ![b] = @ + 1]
         ELSE overlaps' = overlaps
      /\ overlaps \in [Browsers -> Nat]
  BY DEF Begin, TypeInv, TypeOK
<1>2. \A v \in Workers : req'[v] = IF v = w THEN r ELSE req[v]
  BY <1>1 DEF TypeInv, TypeOK
<1>3. \A a \in Browsers : overlaps'[a] = 0 =>
          /\ overlaps[a] = 0
          /\ a = b => ~ \E v \in Workers : req[v] # None /\ req[v].b = b
  BY <1>1
<1>4. \A a \in Browsers : Loaded(a)' = Loaded(a)
  BY <1>1 DEF Loaded
<1>5. ASSUME NEW v \in Workers, req'[v] # None, overlaps'[req'[v].b] = 0
      PROVE  Alone(v)'
  <2>1. CASE v = w
    <3>1. /\ req'[v] = r /\ overlaps[b] = 0
          /\ \A u \in Workers : req[u] # None => req[u].b # b
      BY <1>2, <1>3, <1>5, <2>1
    <3>2. \A u \in Workers : req'[u] # None /\ req'[u].b = req'[v].b => u = v
      BY <1>2, <2>1, <3>1
    <3>3. cookie[b] # None => rows[cookie[b]] = Loaded(b)
      BY LoadedType
    <3>4. handed[b] = 1 => ~Loaded(b).sponsor
      BY <3>1 DEF SerialInv
    <3> QED BY <1>1, <3>1, <3>2, <3>3, <3>4 DEF Alone
  <2>2. CASE v # w
    <3>1. /\ req'[v] = req[v] /\ req[v] # None /\ req[v].b \in Browsers
      BY <1>2, <1>5, <2>2, ReqTypes
    <3>2. overlaps[req[v].b] = 0 /\ req[v].b # b
      BY <1>3, <1>5, <3>1
    <3>3. Alone(v)
      BY <3>1, <3>2 DEF SerialInv
    <3>4. \A u \in Workers : req'[u] # None /\ req'[u].b = req'[v].b => u = v
      BY <1>2, <3>1, <3>2, <3>3 DEF Alone
    <3> QED BY <1>1, <3>1, <3>3, <3>4 DEF Alone
  <2> QED BY <2>1, <2>2
<1> QED BY <1>1, <1>3, <1>4, <1>5 DEF SerialInv

LEMMA LapseSerial ==
    ASSUME TypeInv, KeyInv, SerialInv, NEW b \in Browsers, Lapse(b)
    PROVE  SerialInv'
<1>1. UNCHANGED <<req, overlaps, handed>>
  BY DEF Lapse
<1>2. \A a \in Browsers : cookie'[a] # None =>
          cookie'[a] = cookie[a] /\ rows'[cookie[a]] = rows[cookie[a]]
  BY LapseTypes
<1>3. \A w \in Workers : req[w] # None /\ req[w].key # None =>
          rows'[req[w].key] = rows[req[w].key]
  BY LapseTypes
<1>4. \A a \in Browsers : Loaded(a)' \in {Loaded(a), Blank}
  BY <1>2 DEF Loaded
<1>5. ASSUME NEW w \in Workers, req'[w] # None, overlaps'[req'[w].b] = 0
      PROVE  Alone(w)'
  <2>1. Alone(w) /\ req[w].b \in Browsers
    BY <1>1, <1>5, ReqTypes DEF SerialInv
  <2> QED BY <1>1, <1>2, <1>3, <1>5, <2>1 DEF Alone
<1> QED BY <1>1, <1>4, <1>5 DEF SerialInv, Blank

LEMMA Serial == Spec => []SerialInv
<1>1. Init => SerialInv
  BY DEF Init, SerialInv, Loaded, Blank
<1>2. UNCHANGED vars /\ SerialInv => SerialInv'
  BY DEF vars, SerialInv, Alone, Loaded
<1>3. TypeInv /\ KeyInv /\ SerialInv /\ [Next]_vars => SerialInv'
  BY <1>2, StepShape, LapseSerial, BeginSerial, TurnSerial
<1> QED BY <1>1, <1>3, TypeCorrect, PTL DEF Spec

(* A browser whose requests have never overlapped is told its sponsor at    *)
(* most once per redeemed token (airlock_sponsor).                          *)
THEOREM SponsorOnceAlways == Spec => []SponsorOnce
<1>1. SerialInv => SponsorOnce
  BY DEF SerialInv, SponsorOnce
<1> QED BY <1>1, Serial, PTL

(* Such a browser loses redeemed access only with its session or because a   *)
(* login flushed a signed-in one (redeem_beta_invite, django.contrib.auth).  *)
THEOREM AccessIsKept == Spec => AccessKept
<1> DEFINE Keeps(b) == \/ cookie'[b] = None
                       \/ None \notin {Signed(b), Signed(b)'} /\ cookie'[b] # cookie[b]
                       \/ Loaded(b)'.beta
<1>1. ASSUME TypeInv, KeyInv, SerialInv, [Next]_vars, NEW b \in Browsers,
             overlaps'[b] = 0, Loaded(b).beta
      PROVE  Keeps(b)
  <2>1. cookie[b] # None
    BY <1>1 DEF Loaded, Blank
  <2>2. CASE UNCHANGED vars
    BY <1>1, <2>2 DEF vars, Loaded
  <2>3. ASSUME NEW a \in Browsers, Lapse(a)
        PROVE  Keeps(b)
    BY <1>1, <2>1, <2>3, LapseTypes DEF Loaded
  <2>4. ASSUME NEW w \in Workers, NEW a \in Browsers, NEW op \in Ops,
               NEW who \in Users \cup {None}, Begin(w, a, op, who)
        PROVE  Keeps(b)
    BY <1>1, <2>4 DEF Begin, Loaded
  <2>5. ASSUME NEW w \in Workers, NEW d \in Data, Turn(w, d)
        PROVE  Keeps(b)
    <3>1. CASE /\ b = req[w].b /\ Loaded(b)' = d
               /\ cookie'[b] = req[w].key => (req[w].data.beta => d.beta)
      <4>1. Alone(w) /\ Descends(req[w], d)
        BY <1>1, <2>5, <3>1 DEF Turn, SerialInv
      <4>2. Loaded(b) = req[w].data /\ cookie[b] = req[w].key
        BY <2>1, <3>1, <4>1 DEF Alone, Loaded
      <4> QED BY <1>1, <3>1, <4>1, <4>2 DEF Descends, Signed
    <3>2. Named(req[w].key)
      BY <2>5 DEF Named, Turn
    <3>3. CASE Loaded(b)' = Loaded(b)
      BY <1>1, <3>3
    <3> QED BY <1>1, <2>5, <3>1, <3>2, <3>3, TurnLoads
  <2> QED BY <1>1, <2>2, <2>3, <2>4, <2>5, StepShape
<1>2. TypeInv /\ KeyInv /\ SerialInv /\ [Next]_vars =>
        [\A b \in Browsers : overlaps'[b] = 0 /\ Loaded(b).beta =>
            \/ cookie'[b] = None
            \/ None \notin {Signed(b), Signed(b)'} /\ cookie'[b] # cookie[b]
            \/ Loaded(b)'.beta]_vars
  BY <1>1
<1> QED BY <1>2, TypeCorrect, Serial, PTL DEF Spec, AccessKept

-----------------------------------------------------------------------------
(* One cell per browser.                                                    *)

(* A guarded login comes with its proof, only staff come to the admin       *)
(* consoles, and nobody who is neither signed in nor invited asks for a     *)
(* sponsor.                                                                 *)
FitInv ==
    \A w \in Workers : req[w] # None =>
        /\ req[w].op = "signin" => <<req[w].b, req[w].who>> \in proven
        /\ req[w].op \in {"admin", "console"} => req[w].who \in Staff
        /\ req[w].op = "sponsor" => req[w].data.user # None \/ req[w].data.beta

LEMMA FitHolds == Spec => []FitInv
<1>1. Init => FitInv
  BY DEF Init, FitInv
<1>2. ASSUME TypeInv, FitInv, NEW w \in Workers, NEW b \in Browsers,
             NEW op \in Ops, NEW who \in Users \cup {None}, Begin(w, b, op, who)
      PROVE  FitInv'
  <2> DEFINE r == [op |-> op, b |-> b, key |-> cookie[b], data |-> Loaded(b), who |-> who,
                   acked |-> op = "authorize" /\ Loaded(b).user \in acked]
  <2>1. /\ who \in Entrants(op) /\ Worthwhile(b, op, Loaded(b))
        /\ req' = [req EXCEPT ![w] = r]
    BY <1>2 DEF Begin
  <2>2. \A v \in Workers : req'[v] = IF v = w THEN r ELSE req[v]
    BY <1>2, <2>1 DEF TypeInv, TypeOK
  <2>3. ASSUME op = "signin" PROVE <<b, who>> \in proven'
    <3>1. who \in Users
      BY <2>1, <2>3 DEF Entrants
    <3> QED BY <1>2, <2>3, <3>1, AirlockAssumption DEF Begin
  <2>4. op \in {"admin", "console"} => who \in Staff
    BY <2>1 DEF Entrants, SignIns
  <2>5. op = "sponsor" => Loaded(b).user # None \/ Loaded(b).beta
    BY <2>1 DEF Worthwhile
  <2>6. proven \subseteq proven'
    BY <1>2, BeginSays
  <2> QED BY <1>2, <2>1, <2>2, <2>3, <2>4, <2>5, <2>6 DEF FitInv
<1>3. ASSUME TypeInv, FitInv, NEW w \in Workers, NEW d \in Data, Turn(w, d)
      PROVE  FitInv'
  BY <1>3 DEF Turn, FitInv, TypeInv, TypeOK
<1>4. TypeInv /\ FitInv /\ [Next]_vars => FitInv'
  BY <1>2, <1>3, StepShape DEF Lapse, vars, FitInv
<1> QED BY <1>1, <1>4, TypeCorrect, PTL DEF Spec

(* Worker v serves browser b. *)
Serves(r, v, b) == r[v] # None /\ r[v].b = b

LEMMA OnlyOne ==
    ASSUME NEW r, NEW b, NEW w \in Workers, Serves(r, w, b),
           \A v \in Workers : Serves(r, v, b) => v = w
    PROVE  (CHOOSE v \in Workers : r[v] # None /\ r[v].b = b) = w
BY DEF Serves

(* The session of a browser whose one request worker w is serving. *)
LEMMA HeldBusy ==
    ASSUME SerialInv, NEW w \in Workers, NEW b \in Browsers, Serves(req, w, b),
           overlaps[b] = 0
    PROVE  Held(b) = req[w].data
<1>1. \A v \in Workers : Serves(req, v, b) => v = w
  BY DEF SerialInv, Alone, Serves
<1>2. (CHOOSE v \in Workers : req[v] # None /\ req[v].b = b) = w
  BY <1>1, OnlyOne
<1>3. \E v \in Workers : req[v] # None /\ req[v].b = b
  BY DEF Serves
<1>4. ~(overlaps[b] > 0)
  OBVIOUS
<1> QED BY <1>2, <1>3, <1>4, Zenon DEF Held

(* The same in the state after a step. *)
LEMMA HeldBusyNext ==
    ASSUME SerialInv', NEW w \in Workers, NEW b \in Browsers, Serves(req', w, b),
           overlaps'[b] = 0
    PROVE  Held(b)' = req'[w].data
<1>1. \A v \in Workers : Serves(req', v, b) => v = w
  BY DEF SerialInv, Alone, Serves
<1>2. (CHOOSE v \in Workers : req'[v] # None /\ req'[v].b = b) = w
  BY <1>1, OnlyOne
<1>3. \E v \in Workers : req'[v] # None /\ req'[v].b = b
  BY DEF Serves
<1>4. ~(overlaps'[b] > 0)
  OBVIOUS
<1> QED BY <1>2, <1>3, <1>4, Zenon DEF Held

(* What a browser holds changes only with its own request or its row. *)
LEMMA HeldSame ==
    ASSUME TypeInv, SerialInv, SerialInv', NEW a \in Browsers,
           overlaps'[a] = overlaps[a],
           \A v \in Workers : Serves(req', v, a) <=> Serves(req, v, a),
           \A v \in Workers : Serves(req, v, a) => req'[v] = req[v],
           Loaded(a)' = Loaded(a) \/ \E v \in Workers : Serves(req, v, a)
    PROVE  Held(a)' = Held(a)
<1>1. overlaps[a] \in Nat
  BY DEF TypeInv, TypeOK
<1>2. CASE overlaps[a] > 0
  BY <1>2 DEF Held
<1>3. ASSUME overlaps[a] = 0, NEW v \in Workers, Serves(req, v, a)
      PROVE  Held(a)' = Held(a)
  BY <1>3, HeldBusy, HeldBusyNext
<1>4. CASE /\ overlaps[a] = 0 /\ Loaded(a)' = Loaded(a)
           /\ \A v \in Workers : ~Serves(req, v, a)
  BY <1>4 DEF Held, Serves
<1> QED BY <1>1, <1>2, <1>3, <1>4

(* A turn leaves what other browsers hold. *)
LEMMA OthersHeld ==
    ASSUME TypeInv, KeyInv, SerialInv, NEW w \in Workers, NEW d \in Data, Turn(w, d),
           NEW a \in Browsers, a # req[w].b
    PROVE  Held(a)' = Held(a)
<1>1. /\ req[w] # None /\ req' = [req EXCEPT ![w] = None] /\ overlaps' = overlaps
      /\ Written(req[w], d) /\ req[w].b \in Browsers
      /\ cookie \in [Browsers -> Keys \cup {None}]
  BY ReqTypes DEF Turn, TypeInv, TypeOK
<1>2. cookie'[a] = cookie[a]
  BY <1>1 DEF Written, Put, Untouched, Loses
<1>3. Loaded(a)' = Loaded(a)
  BY <1>2, TurnLoads DEF Loaded
<1>4. \A v \in Workers : /\ Serves(req', v, a) <=> Serves(req, v, a)
                         /\ Serves(req, v, a) => req'[v] = req[v]
  BY <1>1 DEF Serves, TypeInv, TypeOK
<1> QED BY <1>1, <1>3, <1>4, HeldSame, TurnSerial

(* Request w is its browser's only one. *)
Single(w) == req[w] # None /\ overlaps[req[w].b] = 0

LEMMA SingleHas ==
    ASSUME TypeInv, SerialInv, NEW w \in Workers, Single(w)
    PROVE  /\ Alone(w) /\ Saves(req[w]) /\ req[w].b \in Browsers
           /\ Held(req[w].b) = req[w].data
           /\ Sessions[req[w].b] = req[w].data
<1>1. Alone(w) /\ req[w].b \in Browsers
  BY ReqTypes DEF SerialInv, Single
<1>2. Saves(req[w])
  BY <1>1, ReqTypes, AirlockAssumption DEF Alone, Saves, Single
<1>3. Held(req[w].b) = req[w].data
  BY <1>1, HeldBusy DEF Serves, Single
<1> QED BY <1>1, <1>2, <1>3 DEF Sessions

(* After the turn of a single request its browser holds what it wrote, or   *)
(* nothing.                                                                 *)
LEMMA Settles ==
    ASSUME TypeInv, KeyInv, SerialInv, NEW w \in Workers, Single(w),
           NEW e \in Data, Turn(w, e), NEW d \in Data,
           Put(req[w], d) \/ (Untouched /\ d = req[w].data)
    PROVE  Atomic!Becomes(req[w].b, d)
<1> DEFINE q == req[w]
<1>1. PICK b \in Browsers : b = q.b
  BY SingleHas
<1>2. /\ Alone(w) /\ q # None /\ overlaps[b] = 0
      /\ req' = [req EXCEPT ![w] = None] /\ overlaps' = overlaps
  BY <1>1, SingleHas DEF Single, Turn
<1>3. \A v \in Workers : ~Serves(req', v, b)
  BY <1>1, <1>2 DEF Serves, Alone, TypeInv, TypeOK
<1>4. Held(b)' = Loaded(b)'
  BY <1>2, <1>3 DEF Held, Serves
<1>5. Loaded(b)' \in {d, Blank}
  <2>1. CASE Put(q, d)
    BY <1>1, <1>2, <2>1, PutEffect DEF Alone, Loaded
  <2>2. CASE Untouched /\ d = q.data
    <3>1. \A k : cookie'[b] = k => Named(k)'
      BY DEF Named
    <3>2. cookie \in [Browsers -> Keys \cup {None}]
      BY DEF TypeInv, TypeOK
    <3> QED BY <1>1, <1>2, <2>2, <3>1, <3>2 DEF Untouched, Rows, Loaded, Alone
  <2> QED BY <2>1, <2>2
<1>6. \A a \in Browsers : a # b => Held(a)' = Held(a)
  BY <1>1, OthersHeld
<1>7. \/ Sessions' = [Sessions EXCEPT ![b] = d]
      \/ Sessions' = [Sessions EXCEPT ![b] = Blank]
  BY <1>4, <1>5, <1>6 DEF Sessions
<1> QED BY <1>1, <1>7 DEF Atomic!Becomes, Atomic!Blank, Blank

AtomInv == TypeInv /\ KeyInv /\ SerialInv /\ OwnInv /\ FitInv

(* What is written to a single request's session its browser then holds. *)
LEMMA SavedBecomes ==
    ASSUME AtomInv, NEW w \in Workers, Single(w), NEW e \in Data, Turn(w, e),
           NEW d \in Data, req[w].data.beta => d.beta,
           Save(req[w], d) \/ (req[w].key # None /\ Overwrite(req[w], d))
    PROVE  Atomic!Becomes(req[w].b, d)
<1>1. req[w] \in Requests /\ Saves(req[w])
  BY ReqTypes, SingleHas DEF AtomInv, Single
<1>2. Put(req[w], d)
  BY <1>1, SaveWrites
<1> QED BY <1>2, Settles DEF AtomInv

LEMMA EntersBecomes ==
    ASSUME AtomInv, NEW w \in Workers, Single(w), NEW e \in Data, Turn(w, e),
           NEW d \in Data, req[w].data.beta => d.beta, d.user = req[w].data.user,
           NEW u \in Users, LogIn(req[w], d, u)
    PROVE  Atomic!Enters(req[w].b, d, u)
<1> DEFINE q == req[w]
<1>1. TypeInv /\ KeyInv /\ SerialInv /\ u # None /\ q # None
  BY AirlockAssumption DEF AtomInv, Single
<1>2. CASE d.user = u /\ Overwrite(q, d)
  <2>1. q.key # None
    <3>1. q.key = None => q.data = Blank
      BY <1>1 DEF TypeInv, ReqInv
    <3>2. Blank.user = None
      BY DEF Blank
    <3> QED BY <1>1, <1>2, <3>1, <3>2
  <2>2. Atomic!Becomes(q.b, d)
    BY <1>2, <2>1, SavedBecomes
  <2>3. [d EXCEPT !.user = u] = d
    BY <1>2 DEF Data
  <2> QED BY <1>2, <2>2, <2>3 DEF Atomic!Enters
<1>3. CASE d.user = None /\ Move(q, [d EXCEPT !.user = u])
  <2>1. [d EXCEPT !.user = u] \in Data
    BY DEF Data
  <2>2. Put(q, [d EXCEPT !.user = u])
    BY <1>3 DEF Move, Put
  <2> QED BY <1>1, <1>3, <2>1, <2>2, Settles DEF Atomic!Enters
<1>4. CASE d.user # None /\ Move(q, [Blank EXCEPT !.user = u])
  <2>1. [Blank EXCEPT !.user = u] \in Data
    BY BlankType DEF Data
  <2>2. Put(q, [Blank EXCEPT !.user = u])
    BY <1>4 DEF Move, Put
  <2>3. Atomic!Becomes(q.b, [Blank EXCEPT !.user = u])
    BY <1>1, <2>1, <2>2, Settles
  <2> QED BY <1>4, <2>3 DEF Atomic!Enters, Atomic!Blank, Blank
<1> QED BY <1>2, <1>3, <1>4 DEF LogIn

(* A single request's turn is a step on its browser's cell. *)
LEMMA WholeStep ==
    ASSUME AtomInv, NEW w \in Workers, Single(w), NEW e \in Data, Turn(w, e),
           Atomic!Whole(req[w].b)
    PROVE  Atomic!SessionNext
<1>1. PICK b \in Browsers : b = req[w].b
  BY SingleHas DEF AtomInv
<1>2. b \notin Overlapped
  BY <1>1 DEF Single, Overlapped
<1>3. UNCHANGED <<Overlapped, proven, named>>
  BY DEF Turn, Overlapped
<1> QED BY <1>1, <1>2, <1>3 DEF Atomic!SessionNext

(* A turn of a browser that tore its session earns what it gets all the same. *)
LEMMA TornStep ==
    ASSUME AtomInv, NEW w \in Workers, NEW e \in Data, Turn(w, e), ~Single(w),
           redeemed' \in {redeemed, redeemed \cup {req[w].b}},
           \/ acked' = acked
           \/ /\ code' = None
              /\ \E u \in Users : <<req[w].b, u>> \in Vouched /\ acked' = acked \cup {u},
           handed' \in {handed, [handed EXCEPT ![req[w].b] = 0]}
    PROVE  Atomic!SessionNext
<1>1. TypeInv /\ KeyInv /\ SerialInv /\ OwnInv /\ req[w] # None
  BY DEF AtomInv, Turn
<1>2. PICK b \in Browsers : b = req[w].b
  BY <1>1, ReqTypes
<1>3. overlaps[b] > 0 /\ overlaps' = overlaps /\ UNCHANGED <<proven, named>>
  BY <1>1, <1>2 DEF Single, Turn, TypeInv, TypeOK
<1>4. UNCHANGED Sessions
  <2>1. Held(b)' = Held(b)
    BY <1>3 DEF Held
  <2>2. \A a \in Browsers : Held(a)' = Held(a)
    BY <1>1, <1>2, <2>1, OthersHeld
  <2> QED BY <2>2 DEF Sessions
<1>5. b \in Overlapped /\ UNCHANGED Overlapped
  BY <1>3 DEF Overlapped
<1>6. CASE code' = None
  <2>1. Atomic!Torn(b)
    BY <1>2, <1>4, <1>6 DEF Atomic!Torn, Vouched
  <2> QED BY <1>3, <1>5, <2>1 DEF Atomic!SessionNext
<1>7. CASE code' # None
  <2>1. acked' = acked /\ CodesAreEarned' /\ Earned(req[w])
    BY <1>1, <1>7, TurnOwns DEF OwnInv, Turn
  <2>2. PICK u \in Users, via \in {"signin", "redeem", "authorize", "consent"} :
            code' = [user |-> u, b |-> b, via |-> via]
    <3>1. code' \in Codes /\ code'.b = b
      BY <1>2, <1>7, <2>1 DEF Earned
    <3> QED BY <3>1 DEF Codes
  <2>3. /\ <<b, u>> \in proven \cup named
        /\ via # "consent" => u \in Admitted \/ b \in redeemed'
        /\ via \in {"redeem", "authorize"} => u \in acked
    BY <1>3, <1>7, <2>1, <2>2 DEF CodesAreEarned, Vouched
  <2>4. Atomic!Torn(b)
    BY <1>2, <1>4, <2>1, <2>2, <2>3 DEF Atomic!Torn, Atomic!Mint
  <2> QED BY <1>3, <1>5, <2>4 DEF Atomic!SessionNext
<1> QED BY <1>6, <1>7

-----------------------------------------------------------------------------
(* The handlers, one by one.                                                *)

LEMMA SignInAtomic ==
    ASSUME AtomInv, NEW w \in Workers, FinishSignIn(w) \/ FinishAdmin(w)
    PROVE  Atomic!SessionNext
<1> DEFINE q == req[w]
<1>1. PICK e \in Data : Turn(w, e)
  BY SignInTurns, AdminTurns DEF AtomInv
<1>2. /\ Serve(w, "signin") \/ Serve(w, "admin") \/ Serve(w, "console")
      /\ UNCHANGED <<acked, redeemed, handed>>
  BY DEF FinishSignIn, FinishAdmin
<1>3. CASE ~Single(w)
  BY <1>1, <1>2, <1>3, TornStep
<1>4. CASE Single(w)
  <2>1. /\ q \in Requests /\ q.data \in Data /\ Sessions[q.b] = q.data
    BY <1>4, ReqTypes, SingleHas DEF AtomInv, Single
  <2>2. q.who \in Users /\ <<q.b, q.who>> \in Vouched
    <3>1. q.op \in SignIns /\ q # None
      BY <1>2 DEF Serve, SignIns
    <3> QED BY <3>1, ReqTypes DEF AtomInv, TypeInv, ReqInv, OwnInv
  <2>3. ASSUME FinishSignIn(w)
        PROVE  Atomic!SignIn(q.b, q.who) /\ <<q.b, q.who>> \in proven
    <3>4. <<q.b, q.who>> \in proven
      BY <2>3 DEF FinishSignIn, Serve, AtomInv, FitInv
    <3>1. Atomic!Passes(q.b, q.who) <=> Passes(q.who, q.data)
      BY <2>1 DEF Atomic!Passes, Passes
    <3>2. CASE Passes(q.who, q.data)
      <4>1. Atomic!Enters(q.b, q.data, q.who)
        BY <1>1, <1>4, <2>1, <2>2, <2>3, <3>2, EntersBecomes DEF FinishSignIn
      <4>2. code' = None \/ Atomic!Mint(q.b, q.who, "signin")
        BY <2>3, <3>2 DEF FinishSignIn, MayMint, Mint, Atomic!Mint
      <4> QED BY <1>2, <2>1, <3>1, <3>2, <3>4, <4>1, <4>2 DEF Atomic!SignIn
    <3>3. CASE ~Passes(q.who, q.data)
      <4> DEFINE d == [q.data EXCEPT !.pending = q.who]
      <4>1. d \in Data /\ (q.data.beta => d.beta)
        BY <2>1, <2>2 DEF Data
      <4>2. Save(q, d) /\ code' = None
        BY <2>3, <3>3 DEF FinishSignIn, Park
      <4>3. Atomic!Becomes(q.b, d)
        BY <1>1, <1>4, <4>1, <4>2, SavedBecomes
      <4> QED BY <1>2, <2>1, <3>1, <3>3, <3>4, <4>2, <4>3 DEF Atomic!SignIn
    <3> QED BY <3>2, <3>3, <3>4
  <2>4. ASSUME FinishAdmin(w) PROVE Atomic!SignStaffIn(q.b, q.who)
    <3>1. q.who \in Staff
      BY <2>4 DEF FinishAdmin, Serve, AtomInv, FitInv
    <3>2. Atomic!Enters(q.b, q.data, q.who) /\ code' = None
      BY <1>1, <1>4, <2>1, <2>2, <2>4, EntersBecomes DEF FinishAdmin
    <3> QED BY <1>2, <2>1, <3>1, <3>2 DEF Atomic!SignStaffIn
  <2>5. Atomic!Whole(q.b)
    BY <2>2, <2>3, <2>4 DEF Atomic!Whole, Vouched
  <2> QED BY <1>1, <1>4, <2>5, WholeStep
<1> QED BY <1>3, <1>4

LEMMA AuthorizeAtomic ==
    ASSUME AtomInv, NEW w \in Workers, FinishAuthorize(w)
    PROVE  Atomic!SessionNext
<1> DEFINE q == req[w]
           u == q.data.user
<1>1. PICK e \in Data : Turn(w, e)
  BY AuthorizeTurns DEF AtomInv
<1>2. Serve(w, "authorize") /\ UNCHANGED <<acked, redeemed, handed>>
  BY DEF FinishAuthorize
<1>3. CASE ~Single(w)
  BY <1>1, <1>2, <1>3, TornStep
<1>4. CASE Single(w)
  <2>1. /\ q \in Requests /\ q.data \in Data /\ Sessions[q.b] = q.data
        /\ u \in Users /\ u # None /\ q.key # None
        /\ q.acked => u \in acked
    BY <1>2, <1>4, ReqTypes, SingleHas, Carried, AirlockAssumption
       DEF AtomInv, Single, Serve, Personal, OwnInv
  <2>2. Atomic!Passes(q.b, u) <=> MayAuthorize(u, q.data)
    BY <2>1 DEF Atomic!Passes, MayAuthorize, Passes
  <2>3. ASSUME ~MayAuthorize(u, q.data), Park(q, u), code' = None
        PROVE  Atomic!Authorize(q.b)
    <3> DEFINE d == [q.data EXCEPT !.pending = u]
    <3>1. d \in Data /\ (q.data.beta => d.beta)
      BY <2>1 DEF Data
    <3>2. Atomic!Becomes(q.b, d)
      BY <1>1, <1>4, <2>3, <3>1, SavedBecomes DEF Park
    <3> QED BY <1>2, <2>1, <2>2, <2>3, <3>2 DEF Atomic!Authorize
  <2>4. ASSUME MayAuthorize(u, q.data), Overwrite(q, q.data), code' = None
        PROVE  Atomic!Authorize(q.b)
    <3>1. Atomic!Becomes(q.b, q.data)
      BY <1>1, <1>4, <2>1, <2>4, SavedBecomes
    <3> QED BY <1>2, <2>1, <2>2, <2>4, <3>1 DEF Atomic!Authorize
  <2>5. ASSUME MayAuthorize(u, q.data), q.acked, UNCHANGED cookie, Rows(rows),
               Mint(u, q.b, "authorize")
        PROVE  Atomic!Authorize(q.b)
    <3>1. Atomic!Becomes(q.b, q.data)
      BY <1>1, <1>4, <2>1, <2>5, Settles DEF AtomInv, Untouched
    <3> QED BY <1>2, <2>1, <2>2, <2>5, <3>1 DEF Atomic!Authorize, Atomic!Mint, Mint
  <2>6. Atomic!Authorize(q.b)
    BY <2>3, <2>4, <2>5 DEF FinishAuthorize
  <2> QED BY <1>1, <1>4, <2>6, WholeStep DEF Atomic!Whole
<1> QED BY <1>3, <1>4

LEMMA ConsentAtomic ==
    ASSUME AtomInv, NEW w \in Workers, FinishConsent(w)
    PROVE  Atomic!SessionNext
<1> DEFINE q == req[w]
<1>1. Turn(w, q.data) /\ q.data \in Data
  BY ConsentTurns DEF AtomInv, Turn
<1>2. /\ Serve(w, "consent") /\ UNCHANGED <<acked, redeemed, handed>>
      /\ cookie' = cookie /\ Rows(rows) /\ Mint(q.data.user, q.b, "consent")
  BY DEF FinishConsent
<1>3. CASE ~Single(w)
  BY <1>1, <1>2, <1>3, TornStep
<1>4. CASE Single(w)
  <2>1. Sessions[q.b] = q.data /\ q.data.user # None
    BY <1>2, <1>4, SingleHas, Carried, AirlockAssumption
       DEF AtomInv, Single, Serve, Personal
  <2>2. Atomic!Becomes(q.b, q.data)
    BY <1>1, <1>2, <1>4, Settles DEF AtomInv, Untouched
  <2>3. Atomic!Consent(q.b)
    BY <1>2, <2>1, <2>2 DEF Atomic!Consent, Atomic!Mint, Mint
  <2> QED BY <1>1, <1>4, <2>3, WholeStep DEF Atomic!Whole
<1> QED BY <1>3, <1>4

LEMMA RedeemAtomic ==
    ASSUME AtomInv, NEW w \in Workers, NEW token \in BOOLEAN, FinishRedeem(w, token)
    PROVE  Atomic!SessionNext
<1> DEFINE q == req[w]
           d == Opened(q.data, token)
<1>1. PICK e \in Data : Turn(w, e)
  BY RedeemTurns DEF AtomInv
<1>2. /\ Serve(w, "redeem") /\ acked' = acked
      /\ redeemed' = redeemed \cup {q.b}
      /\ handed' = IF token THEN [handed EXCEPT ![q.b] = 0] ELSE handed
  BY DEF FinishRedeem
<1>3. CASE ~Single(w)
  BY <1>1, <1>2, <1>3, TornStep
<1>4. CASE Single(w)
  <2>1. /\ q \in Requests /\ q.data \in Data /\ Sessions[q.b] = q.data
    BY <1>4, ReqTypes, SingleHas DEF AtomInv, Single
  <2>2. /\ d \in Data /\ d.beta /\ d.user = q.data.user
        /\ d = [q.data EXCEPT !.beta = TRUE, !.sponsor = @ \/ token, !.pending = None]
    BY <2>1 DEF Opened, Data
  <2>3. ASSUME Waiting(q.data) = {}, Save(q, d), code' = None
        PROVE  Atomic!Redeem(q.b, token)
    <3>1. q.data.pending = None
      BY <2>3 DEF Waiting
    <3>2. Atomic!Becomes(q.b, d)
      BY <1>1, <1>4, <2>2, <2>3, SavedBecomes
    <3> QED BY <1>2, <2>1, <2>2, <2>3, <3>1, <3>2 DEF Atomic!Redeem
  <2>4. ASSUME NEW u \in Waiting(q.data), LogIn(q, d, u), MintIfAcked(u, q.b)
        PROVE  Atomic!Redeem(q.b, token)
    <3>1. u = q.data.pending /\ u # None /\ u \in Users
      BY <2>1 DEF Waiting, Data
    <3>2. Atomic!Enters(q.b, d, u)
      BY <1>1, <1>4, <2>2, <2>4, <3>1, EntersBecomes
    <3>3. code' = None \/ (u \in acked /\ Atomic!Mint(q.b, u, "redeem"))
      BY <2>4 DEF MintIfAcked, MayMint, Mint, Atomic!Mint
    <3> QED BY <1>2, <2>1, <2>2, <3>1, <3>2, <3>3 DEF Atomic!Redeem
  <2>5. Atomic!Redeem(q.b, token)
    BY <2>3, <2>4 DEF FinishRedeem
  <2> QED BY <1>1, <1>4, <2>5, WholeStep DEF Atomic!Whole
<1> QED BY <1>3, <1>4

LEMMA AcknowledgeAtomic ==
    ASSUME AtomInv, NEW w \in Workers, FinishAcknowledge(w)
    PROVE  Atomic!SessionNext
<1> DEFINE q == req[w]
           u == q.data.user
<1>1. PICK e \in Data : Turn(w, e)
  BY AcknowledgeTurns DEF AtomInv
<1>2. /\ Serve(w, "acknowledge") /\ UNCHANGED <<redeemed, handed>>
      /\ acked' = acked \cup {u} /\ Overwrite(q, q.data) /\ code' = None
  BY DEF FinishAcknowledge
<1>3. /\ q \in Requests /\ q.data \in Data /\ q.key # None
      /\ u \in Users /\ u # None /\ <<q.b, u>> \in Vouched
  BY <1>2, ReqTypes, Carried, AirlockAssumption DEF AtomInv, Serve, Personal, OwnInv, Own
<1>4. CASE ~Single(w)
  BY <1>1, <1>2, <1>3, <1>4, TornStep
<1>5. CASE Single(w)
  <2>1. Sessions[q.b] = q.data
    BY <1>5, SingleHas DEF AtomInv
  <2>2. Atomic!Becomes(q.b, q.data)
    BY <1>1, <1>2, <1>3, <1>5, SavedBecomes
  <2>3. Atomic!Acknowledge(q.b)
    BY <1>2, <1>3, <2>1, <2>2 DEF Atomic!Acknowledge
  <2> QED BY <1>1, <1>5, <2>3, WholeStep DEF Atomic!Whole
<1> QED BY <1>4, <1>5

LEMMA SponsorAtomic ==
    ASSUME AtomInv, NEW w \in Workers, FinishSponsor(w)
    PROVE  Atomic!SessionNext
<1> DEFINE q == req[w]
           d == Forgotten(q.data)
<1>1. PICK e \in Data : Turn(w, e)
  BY SponsorTurns DEF AtomInv
<1>2. /\ Serve(w, "sponsor") /\ UNCHANGED <<acked, redeemed>>
      /\ Overwrite(q, d) /\ code' = None
      /\ handed' = IF Saves(q) /\ overlaps[q.b] = 0
                   THEN [handed EXCEPT ![q.b] = @ + 1] ELSE handed
  BY DEF FinishSponsor
<1>3. /\ q \in Requests /\ q.data \in Data /\ q.data.sponsor /\ q.key # None
      /\ q.data.user # None \/ q.data.beta
  BY <1>2, ReqTypes, Carried DEF AtomInv, Serve, FitInv
<1>4. CASE ~Single(w)
  <2>1. handed' = handed
    BY <1>2, <1>4 DEF Single, Serve
  <2> QED BY <1>1, <1>2, <1>4, <2>1, TornStep
<1>5. CASE Single(w)
  <2>1. Sessions[q.b] = q.data /\ Saves(q) /\ overlaps[q.b] = 0
    BY <1>5, SingleHas DEF AtomInv, Single
  <2>2. d \in Data /\ (q.data.beta => d.beta) /\ d = [q.data EXCEPT !.sponsor = FALSE]
    BY <1>3 DEF Forgotten, Data
  <2>3. Atomic!Becomes(q.b, d)
    BY <1>1, <1>2, <1>3, <1>5, <2>2, SavedBecomes
  <2>4. Atomic!TellSponsor(q.b)
    BY <1>2, <1>3, <2>1, <2>2, <2>3 DEF Atomic!TellSponsor
  <2> QED BY <1>1, <1>5, <2>4, WholeStep DEF Atomic!Whole
<1> QED BY <1>4, <1>5

LEMMA OAuthAtomic ==
    ASSUME AtomInv, NEW w \in Workers, FinishOAuthStart(w)
    PROVE  Atomic!SessionNext
<1> DEFINE q == req[w]
           d == [q.data EXCEPT !.short = TRUE]
<1>1. PICK e \in Data : Turn(w, e)
  BY OAuthTurns DEF AtomInv
<1>2. /\ Serve(w, "oauth") /\ UNCHANGED <<acked, redeemed, handed>>
      /\ Save(q, d) /\ code' = None
  BY DEF FinishOAuthStart
<1>3. CASE ~Single(w)
  BY <1>1, <1>2, <1>3, TornStep
<1>4. CASE Single(w)
  <2>1. q.data \in Data /\ Sessions[q.b] = q.data
    BY <1>4, ReqTypes, SingleHas DEF AtomInv, Single
  <2>2. d \in Data /\ (q.data.beta => d.beta)
    BY <2>1 DEF Data
  <2>3. Atomic!Becomes(q.b, d)
    BY <1>1, <1>2, <1>4, <2>2, SavedBecomes
  <2>4. Atomic!Shorten(q.b)
    BY <1>2, <2>1, <2>3 DEF Atomic!Shorten
  <2> QED BY <1>1, <1>4, <2>4, WholeStep DEF Atomic!Whole
<1> QED BY <1>3, <1>4

LEMMA QuietAtomic ==
    ASSUME AtomInv, NEW w \in Workers,
           Leave(w) \/ FinishOAuthRefusal(w) \/ FinishLogout(w)
    PROVE  Atomic!SessionNext
<1> DEFINE q == req[w]
<1>1. PICK e \in Data : Turn(w, e)
  BY LeaveTurns, OAuthRefusalTurns, LogoutTurns DEF AtomInv, Turn
<1>2. q # None /\ code' = None /\ UNCHANGED <<acked, redeemed, handed>>
  BY DEF Leave, FinishOAuthRefusal, FinishLogout, Serve
<1>3. CASE ~Single(w)
  BY <1>1, <1>2, <1>3, TornStep
<1>4. CASE Single(w)
  <2>1. q.data \in Data /\ Sessions[q.b] = q.data
    BY <1>4, ReqTypes, SingleHas DEF AtomInv, Single
  <2>2. CASE Leave(w)
    <3>1. Atomic!Becomes(q.b, q.data)
      BY <1>1, <1>4, <2>1, <2>2, Settles DEF AtomInv, Leave, Untouched
    <3>2. Atomic!KeepOrLose(q.b)
      BY <1>2, <2>1, <3>1 DEF Atomic!KeepOrLose
    <3> QED BY <1>1, <1>4, <3>2, WholeStep DEF Atomic!Whole
  <2>3. CASE FinishOAuthRefusal(w)
    <3>1. Atomic!Becomes(q.b, q.data)
      BY <1>1, <1>4, <2>1, <2>3, SavedBecomes DEF FinishOAuthRefusal
    <3>2. Atomic!KeepOrLose(q.b)
      BY <1>2, <2>1, <3>1 DEF Atomic!KeepOrLose
    <3> QED BY <1>1, <1>4, <3>2, WholeStep DEF Atomic!Whole
  <2>4. CASE FinishLogout(w)
    <3>1. Put(q, q.data)
      BY <2>4 DEF FinishLogout, Put
    <3>2. Atomic!Becomes(q.b, q.data)
      BY <1>1, <1>4, <2>1, <3>1, Settles DEF AtomInv
    <3>3. Atomic!KeepOrLose(q.b)
      BY <1>2, <2>1, <3>2 DEF Atomic!KeepOrLose
    <3> QED BY <1>1, <1>4, <3>3, WholeStep DEF Atomic!Whole
  <2> QED BY <2>2, <2>3, <2>4
<1> QED BY <1>3, <1>4

(* A request that starts is no news of its session, unless it overlaps.      *)
LEMMA ComeAtomic ==
    ASSUME AtomInv, NEW w \in Workers, NEW b \in Browsers,
           NEW op \in Ops, NEW who \in Users \cup {None}, Begin(w, b, op, who)
    PROVE  Atomic!SessionNext
<1> DEFINE r == [op |-> op, b |-> b, key |-> cookie[b], data |-> Loaded(b),
                 who |-> who, acked |-> op = "authorize" /\ Loaded(b).user \in acked]
<1>1. /\ TypeInv /\ KeyInv /\ SerialInv /\ SerialInv'
      /\ overlaps \in [Browsers -> Nat]
  BY BeginSerial DEF AtomInv, TypeInv, TypeOK
<1>2. /\ req[w] = None /\ req' = [req EXCEPT ![w] = r]
      /\ UNCHANGED <<rows, cookie, acked, redeemed, handed>> /\ code' = None
      /\ \/ who = None /\ UNCHANGED <<proven, named>>
         \/ who \in Users /\ proven' = proven \cup {<<b, who>>} /\ named' = named
         \/ who \in Staff /\ named' = named \cup {<<b, who>>} /\ proven' = proven
      /\ IF \E v \in Workers : Serves(req, v, b)
         THEN overlaps' = [overlaps EXCEPT ![b] = @ + 1]
         ELSE overlaps' = overlaps
  BY BeginSays DEF Begin, Serves
<1>3. \A v \in Workers : req'[v] = IF v = w THEN r ELSE req[v]
  BY <1>1, <1>2 DEF TypeInv, TypeOK
<1>4. \A a \in Browsers : Loaded(a)' = Loaded(a)
  BY <1>2 DEF Loaded
<1>5. ASSUME NEW a \in Browsers, a # b
      PROVE  Held(a)' = Held(a)
  <2>1. overlaps'[a] = overlaps[a]
    BY <1>1, <1>2, <1>5
  <2>2. \A v \in Workers : /\ Serves(req', v, a) <=> Serves(req, v, a)
                           /\ Serves(req, v, a) => req'[v] = req[v]
    BY <1>2, <1>3, <1>5 DEF Serves
  <2> QED BY <1>1, <1>4, <2>1, <2>2, HeldSame
<1>6. CASE \E v \in Workers : Serves(req, v, b)
  <2>1. overlaps'[b] > 0 /\ \A a \in Browsers : a # b => overlaps'[a] = overlaps[a]
    BY <1>1, <1>2, <1>6
  <2>2. Held(b)' = Blank
    BY <2>1 DEF Held, Blank
  <2>3. Sessions' = [Sessions EXCEPT ![b] = Blank]
    BY <1>5, <2>2 DEF Sessions
  <2>4. Overlapped' = Overlapped \cup {b}
    BY <2>1 DEF Overlapped
  <2>5. Atomic!Come(b, who)
    BY <1>2, <2>3, <2>4 DEF Atomic!Come, Atomic!Blank, Blank
  <2> QED BY <2>5 DEF Atomic!SessionNext
<1>7. CASE ~ \E v \in Workers : Serves(req, v, b)
  <2>1. overlaps' = overlaps
    BY <1>2, <1>7
  <2>2. Held(b)' = Held(b)
    <3>1. CASE overlaps[b] > 0
      BY <2>1, <3>1 DEF Held
    <3>2. CASE overlaps[b] = 0
      <4>1. Serves(req', w, b) /\ req'[w].data = Loaded(b)
        <5>1. r \in Requests /\ req'[w] = r
          BY <1>1, <1>3, LoadedType DEF Requests, TypeInv, TypeOK
        <5> QED BY <5>1, AirlockAssumption DEF Serves
      <4>2. Held(b)' = Loaded(b)
        BY <1>1, <2>1, <3>2, <4>1, HeldBusyNext
      <4>3. ~(overlaps[b] > 0)
        BY <3>2
      <4>4. Held(b) = Loaded(b)
        BY <1>7, <4>3, Zenon DEF Held, Serves
      <4> QED BY <4>2, <4>4
    <3> QED BY <1>1, <3>1, <3>2
  <2>3. Sessions' = Sessions
    BY <1>5, <2>2 DEF Sessions
  <2>4. Overlapped' = Overlapped
    BY <2>1 DEF Overlapped
  <2>5. Atomic!Come(b, who)
    BY <1>2, <2>3, <2>4 DEF Atomic!Come
  <2> QED BY <2>5 DEF Atomic!SessionNext
<1> QED BY <1>6, <1>7

(* An expired session is lost, unless a request that has loaded it is on.    *)
LEMMA LapseAtomic ==
    ASSUME AtomInv, NEW b \in Browsers, Lapse(b)
    PROVE  Atomic!SessionNext
<1>1. TypeInv /\ KeyInv /\ SerialInv /\ SerialInv'
  BY LapseSerial DEF AtomInv
<1>2. /\ cookie' = [cookie EXCEPT ![b] = None] /\ code' = None
      /\ UNCHANGED <<req, acked, proven, named, redeemed, overlaps, handed>>
      /\ cookie \in [Browsers -> Keys \cup {None}]
  BY <1>1 DEF Lapse, TypeInv, TypeOK
<1>3. \A a \in Browsers : a # b => Loaded(a)' = Loaded(a)
  <2>1. \A a \in Browsers : a # b => cookie'[a] = cookie[a]
    BY <1>2
  <2> QED BY <1>1, <2>1, LapseTypes DEF Loaded
<1>4. Loaded(b)' = Blank
  BY <1>2 DEF Loaded
<1>5. \A a \in Browsers : a # b => Held(a)' = Held(a)
  BY <1>1, <1>2, <1>3, HeldSame DEF Serves
<1>6. Held(b)' \in {Held(b), Blank}
  <2>1. CASE \E v \in Workers : Serves(req, v, b)
    BY <1>1, <1>2, <2>1, HeldSame DEF Serves
  <2>2. CASE ~ \E v \in Workers : Serves(req, v, b)
    <3>1. Held(b)' = Blank
      BY <1>2, <1>4, <2>2, Zenon DEF Held, Serves
    <3> QED BY <3>1
  <2> QED BY <2>1, <2>2
<1>7. \/ Sessions' = [Sessions EXCEPT ![b] = Sessions[b]]
      \/ Sessions' = [Sessions EXCEPT ![b] = Blank]
  BY <1>5, <1>6 DEF Sessions
<1>8. Atomic!KeepOrLose(b)
  BY <1>2, <1>7 DEF Atomic!KeepOrLose, Atomic!Becomes, Atomic!Blank, Blank
<1>9. UNCHANGED <<Overlapped, proven, named>>
  BY <1>2 DEF Overlapped
<1>10. CASE b \notin Overlapped
  BY <1>8, <1>9, <1>10 DEF Atomic!SessionNext, Atomic!Whole
<1>11. CASE b \in Overlapped
  <2>1. UNCHANGED Sessions
    <3>1. Held(b)' = Held(b)
      BY <1>2, <1>11 DEF Held, Overlapped
    <3> QED BY <1>5, <3>1 DEF Sessions
  <2>2. Atomic!Torn(b)
    BY <1>2, <2>1 DEF Atomic!Torn
  <2> QED BY <1>9, <1>11, <2>2 DEF Atomic!SessionNext
<1> QED BY <1>10, <1>11

LEMMA IdleAtomic ==
    ASSUME AtomInv, UNCHANGED vars
    PROVE  UNCHANGED Atomic!sessionVars
<1>1. UNCHANGED <<req, overlaps, proven, named, redeemed, acked, code, handed>>
  BY DEF vars
<1>2. SerialInv' /\ \A a \in Browsers : Loaded(a)' = Loaded(a)
  BY DEF vars, AtomInv, SerialInv, Alone, Loaded
<1>3. \A a \in Browsers : Held(a)' = Held(a)
  BY <1>1, <1>2, HeldSame DEF AtomInv, Serves
<1> QED BY <1>1, <1>3 DEF Sessions, Overlapped, Atomic!sessionVars

LEMMA AtomicStep ==
    ASSUME AtomInv, [Next]_vars
    PROVE  [Atomic!SessionNext]_(Atomic!sessionVars)
BY SignInAtomic, AuthorizeAtomic, ConsentAtomic, RedeemAtomic, AcknowledgeAtomic, SponsorAtomic,
   OAuthAtomic, QuietAtomic, ComeAtomic, LapseAtomic, IdleAtomic DEF Next

LEMMA AtomicInit == Init => Atomic!SessionInit
<1> SUFFICES ASSUME Init PROVE Atomic!SessionInit
  OBVIOUS
<1>1. \A b \in Browsers : Held(b) = Blank
  BY DEF Init, Held, Loaded
<1>2. Sessions = [b \in Browsers |-> Blank] /\ Overlapped = {}
  BY <1>1 DEF Init, Sessions, Overlapped
<1> QED BY <1>2 DEF Init, Atomic!SessionInit, Atomic!Blank, Blank

(* Sessions that Django loads whole, saves whole and moves between keys are   *)
(* one cell per browser, each request one step on it, as long as that         *)
(* browser's requests do not overlap (SessionStore, cycle_key, flush).        *)
THEOREM SessionsAreAtomic == Spec => AtomicSessionSpec
<1>1. AtomInv /\ [Next]_vars => [Atomic!SessionNext]_(Atomic!sessionVars)
  BY AtomicStep
<1>2. Spec => []AtomInv
  BY TypeCorrect, Serial, Owns, FitHolds, PTL DEF AtomInv
<1>3. Spec => Atomic!SessionInit /\ [][Atomic!SessionNext]_(Atomic!sessionVars)
  BY <1>1, <1>2, AtomicInit, PTL DEF Spec
<1> QED BY <1>3 DEF AtomicSessionSpec, Atomic!SessionSpec
=============================================================================

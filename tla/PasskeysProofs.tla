--------------------------- MODULE PasskeysProofs ---------------------------
(***************************************************************************)
(* What holds of Passkeys for every number of workers, ceremonies,         *)
(* credentials and authenticators.  The arguments: a cached ceremony is    *)
(* the one its key was begun with; a row stays, and a request about to     *)
(* save a count has seen it exceed the row's.                              *)
(***************************************************************************)
EXTENDS Passkeys, ResilientCacheProofs

CreateOps == [op : {"create"}, user : Users, cred : Creds, count : Counts, key : Keys]
SaveOps == [op : {"save"}, seen : Counts, sent : Assertions]
DestroyOps == [op : {"destroy"}, key : Keys]

\* What a request carries, by its kind.
LEMMA ReqFields ==
    ASSUME TypeOK, NEW w \in Workers, req[w] # Absent
    PROVE  /\ req[w].op = "create" => req[w] \in CreateOps
           /\ req[w].op = "save" =>
                /\ req[w] \in SaveOps /\ req[w].seen \in Counts
                /\ req[w].sent \in Assertions /\ req[w].sent.cred \in Creds
                /\ req[w].sent.key \in Keys /\ req[w].sent.count \in Counts
           /\ req[w].op = "destroy" => req[w].key \in Keys
BY DEF TypeOK, Requests, CreateOps, SaveOps, Assertions

LEMMA EntriesKnown ==
    /\ Authentication \in Entries /\ \A u \in Users : Registration(u) \in Entries
    /\ Absent \notin Entries
BY PasskeyAssumption DEF Entries

\* The cache, but for what a begin handler puts there: entries only go away.
Fades ==
    /\ store' \in [Backends -> [Keys -> Entries \cup {Absent}]]
    /\ \A b \in Backends, k \in Keys : store'[b][k] \in {store[b][k], Absent}

LEMMA LossFades ==
    ASSUME TypeOK,
           \/ \E b \in Backends, k \in Keys : Lapse(b, k)
           \/ RedisRestart
           \/ \E w \in Workers : WorkerRestart(w)
    PROVE  Fades
<1>1. ASSUME NEW b \in Backends, NEW k \in Keys, Lapse(b, k) PROVE Fades
  <2>1. store' \in [Backends -> [Keys -> Entries \cup {Absent}]]
    BY <1>1, DropTyped DEF TypeOK, Lapse
  <2>2. \A a \in Backends, j \in Keys : store'[a][j] \in {store[a][j], Absent}
    BY <1>1 DEF TypeOK, Lapse, Drop
  <2> QED BY <2>1, <2>2 DEF Fades
<1>2. ASSUME NEW b \in Backends, store' = Forget(b) PROVE Fades
  <2>1. store' \in [Backends -> [Keys -> Entries \cup {Absent}]]
    BY <1>2, ForgetTyped DEF TypeOK
  <2>2. \A a \in Backends, j \in Keys : store'[a][j] \in {store[a][j], Absent}
    BY <1>2 DEF TypeOK, Forget, Empty
  <2> QED BY <2>1, <2>2 DEF Fades
<1> QED BY <1>1, <1>2 DEF RedisRestart, WorkerRestart, Backends

LEMMA DestroyFades == ASSUME TypeOK, NEW w \in Workers, Destroy(w) PROVE Fades
<1>1. PICK r \in RedisOutcomes : store' = AfterDelete(r, w, req[w].key)
  BY DEF Destroy
<1>2. req[w].key \in Keys
  BY ReqFields DEF Destroy, Serving
<1>3. store' \in [Backends -> [Keys -> Entries \cup {Absent}]]
  BY <1>1, <1>2, DeleteTyped DEF TypeOK
<1>4. \A b \in Backends, k \in Keys : store'[b][k] \in {store[b][k], Absent}
  BY <1>1, <1>2, DeleteValues
<1> QED BY <1>3, <1>4 DEF Fades

\* Every step, by what it does.
Begins(w, k) == AuthenticateBegin(w, k) \/ \E u \in Users : RegisterBegin(w, k, u)
Loss ==
    \/ \E b \in Backends, k \in Keys : Lapse(b, k)
    \/ RedisRestart
    \/ \E w \in Workers : WorkerRestart(w)

LEMMA StepCases ==
    ASSUME Next
    PROVE  \/ \E x \in Devices, k \in Keys, n \in Counts : Create(x, k, n)
           \/ \E x \in Devices, k \in Keys : Sign(x, k)
           \/ \E w \in Workers, k \in Keys : Begins(w, k)
           \/ \E w \in Workers, u \in Users, c \in Creds : RegisterRead(w, u, c)
           \/ \E w \in Workers : RegisterCreate(w)
           \/ \E w \in Workers, a \in signed : AuthenticateRead(w, a)
           \/ \E w \in Workers : AuthenticateSave(w)
           \/ \E w \in Workers : Destroy(w)
           \/ Loss
BY DEF Next, Begins, Loss

\* What a worker may be serving after a step.
LEMMA RequestSteps ==
    ASSUME TypeOK, Next, NEW w \in Workers, req'[w] # Absent
    PROVE  \/ req'[w] = req[w]
           \/ req'[w].op = "destroy"
           \/ \E u \in Users, c \in Creds :
                /\ RegisterRead(w, u, c)
                /\ req'[w].op = "create" /\ req'[w].cred = c /\ req'[w].user = u
           \/ \E a \in signed :
                /\ AuthenticateRead(w, a)
                /\ req'[w] = [op |-> "save", seen |-> rows[a.cred].count, sent |-> a]
<1>1. CASE \/ \E x \in Devices, k \in Keys, n \in Counts : Create(x, k, n)
           \/ \E x \in Devices, k \in Keys : Sign(x, k)
           \/ \E v \in Workers, k \in Keys : Begins(v, k)
  BY <1>1 DEF Create, Sign, Begins, AuthenticateBegin, RegisterBegin, Begin
<1>2. ASSUME NEW v \in Workers, NEW u \in Users, NEW c \in Creds, RegisterRead(v, u, c),
             req'[w] # req[w]
      PROVE  /\ RegisterRead(w, u, c)
             /\ req'[w].op = "create" /\ req'[w].cred = c /\ req'[w].user = u
  <2>1. v = w
    BY <1>2 DEF RegisterRead, Serve, TypeOK
  <2> QED BY <1>2, <2>1 DEF RegisterRead, Serve, TypeOK
<1>3. ASSUME NEW v \in Workers, NEW a \in signed, AuthenticateRead(v, a), req'[w] # req[w]
      PROVE  /\ AuthenticateRead(w, a)
             /\ req'[w] = [op |-> "save", seen |-> rows[a.cred].count, sent |-> a]
  <2>1. v = w
    BY <1>3 DEF AuthenticateRead, Serve, TypeOK
  <2> QED BY <1>3, <2>1 DEF AuthenticateRead, Serve, TypeOK
<1>4. ASSUME NEW v \in Workers, RegisterCreate(v) \/ AuthenticateSave(v) \/ Destroy(v)
      PROVE  req'[w] = req[w] \/ req'[w].op = "destroy"
  <2>1. PICK k : Done(v) \/ Serve(v, [op |-> "destroy", key |-> k])
    BY <1>4 DEF RegisterCreate, AuthenticateSave, Destroy
  <2> QED BY <2>1 DEF Done, Serve, TypeOK
<1>5. CASE Loss
  BY <1>5 DEF Loss, Lapse, RedisRestart, WorkerRestart, Done, Serve, TypeOK
<1> QED BY <1>1, <1>2, <1>3, <1>4, <1>5, StepCases

-----------------------------------------------------------------------------
(* Types.                                                                  *)

LEMMA BeginStep ==
    ASSUME NEW w \in Workers, NEW k \in Keys, Begins(w, k)
    PROVE  \E entry \in Entries : Begin(w, k, entry)
BY EntriesKnown DEF Begins, AuthenticateBegin, RegisterBegin

LEMMA RowSaved ==
    ASSUME TypeOK, NEW w \in Workers, AuthenticateSave(w),
           rows[req[w].sent.cred] # Absent
    PROVE  /\ req[w].sent.cred \in Creds
           /\ rows[req[w].sent.cred] \in Rows
           /\ rows' = [rows EXCEPT ![req[w].sent.cred] =
                        [user |-> @.user, count |-> req[w].sent.count]]
           /\ rows' \in [Creds -> Rows \cup {Absent}]
           /\ \A c \in Creds : rows[c] # Absent => rows'[c] # Absent
<1>1. req[w].sent.cred \in Creds /\ req[w].sent.count \in Counts
  BY ReqFields DEF AuthenticateSave, Serving
<1>2. rows[req[w].sent.cred] \in Rows
  BY <1>1 DEF TypeOK
<1>3. Counted(rows[req[w].sent.cred], req[w].sent.count)
        = [user |-> rows[req[w].sent.cred].user, count |-> req[w].sent.count]
  BY <1>2 DEF Counted, Rows
<1>4. [user |-> rows[req[w].sent.cred].user, count |-> req[w].sent.count] \in Rows
  BY <1>1, <1>2 DEF Rows
<1>5. Absent \notin Rows
  BY PasskeyAssumption
<1>6. rows' = [rows EXCEPT ![req[w].sent.cred] =
                  [user |-> @.user, count |-> req[w].sent.count]]
  BY <1>1, <1>3 DEF AuthenticateSave, TypeOK
<1> QED BY <1>1, <1>2, <1>4, <1>5, <1>6 DEF TypeOK

\* A row stays, so a request that has found one writes one.
SavesRows == \A w \in Workers : Serving(w, "save") => rows[req[w].sent.cred] # Absent

Typed == TypeOK /\ SavesRows

LEMMA TypedStep == ASSUME Typed, Next PROVE Typed'
<1> USE DEF Typed
<1>1. ASSUME NEW x \in Devices, NEW k \in Keys, NEW n \in Counts, Create(x, k, n)
      PROVE  Typed'
  <2>1. Holds[x] \in Creds
    BY PasskeyAssumption
  <2>2. made' \in [Creds -> Attestations \cup {Absent}]
    BY <1>1, <2>1 DEF Create, TypeOK, Attestations
  <2>3. counter' \in [Devices -> Counts]
    BY <1>1 DEF Create, TypeOK
  <2> QED BY <1>1, <2>2, <2>3 DEF Create, TypeOK, SavesRows, Serving, history
<1>2. ASSUME NEW x \in Devices, NEW k \in Keys, Sign(x, k) PROVE Typed'
  <2>1. Holds[x] \in Creds
    BY PasskeyAssumption
  <2>2. counter' \in [Devices -> Counts] /\ signed' \subseteq Assertions
    BY <1>2, <2>1 DEF Sign, TypeOK, Assertions
  <2> QED BY <1>2, <2>2 DEF Sign, TypeOK, SavesRows, Serving, history
<1>3. ASSUME NEW w \in Workers, NEW k \in Keys, Begins(w, k) PROVE Typed'
  <2>1. PICK entry \in Entries : Begin(w, k, entry)
    BY <1>3, BeginStep
  <2>2. PICK r \in RedisOutcomes : store' = AfterSet(r, w, k, entry)
    BY <2>1 DEF Begin
  <2>3. store' \in [Backends -> [Keys -> Entries \cup {Absent}]]
    BY <2>2, SetTyped DEF TypeOK
  <2> QED BY <2>1, <2>3 DEF Begin, TypeOK, SavesRows, Serving, authenticators, history
<1>4. ASSUME NEW w \in Workers, NEW u \in Users, NEW c \in Creds, RegisterRead(w, u, c)
      PROVE  Typed'
  <2>1. made[c] \in Attestations
    BY <1>4 DEF RegisterRead, TypeOK
  <2>2. [op |-> "create", user |-> u, cred |-> c, key |-> made[c].key,
         count |-> made[c].count] \in Requests
    BY <2>1 DEF Requests, Attestations
  <2>3. req'[w].op = "create" /\ \A v \in Workers \ {w} : req'[v] = req[v]
    BY <1>4 DEF RegisterRead, Serve, TypeOK
  <2>4. TypeOK'
    BY <1>4, <2>2 DEF RegisterRead, Serve, TypeOK, authenticators, history
  <2> QED BY <1>4, <2>3, <2>4 DEF RegisterRead, SavesRows, Serving
<1>5. ASSUME NEW w \in Workers, RegisterCreate(w) PROVE Typed'
  <2>1. req[w] \in CreateOps
    BY <1>5, ReqFields DEF RegisterCreate, Serving
  <2>2. rows' \in [Creds -> Rows \cup {Absent}]
        /\ \A c \in Creds : rows[c] # Absent => rows'[c] = rows[c]
    BY <1>5, <2>1 DEF RegisterCreate, TypeOK, Rows, CreateOps
  <2>3. req' \in [Workers -> Requests \cup {Absent}]
    BY <1>5, <2>1 DEF RegisterCreate, Done, Serve, TypeOK, Requests, CreateOps
  <2>4. TypeOK'
    BY <1>5, <2>2, <2>3 DEF RegisterCreate, TypeOK, authenticators, history
  <2>5. \A v \in Workers : Serving(v, "save")' => Serving(v, "save") /\ req'[v] = req[v]
    BY <1>5 DEF RegisterCreate, Done, Serve, Serving, TypeOK
  <2>6. SavesRows'
    BY <2>2, <2>5, ReqFields DEF SavesRows, Serving
  <2> QED BY <2>4, <2>6
<1>6. ASSUME NEW w \in Workers, NEW a \in signed, AuthenticateRead(w, a) PROVE Typed'
  <2>1. a \in Assertions /\ a.cred \in Creds /\ rows[a.cred] \in Rows
    BY <1>6 DEF AuthenticateRead, TypeOK, Assertions
  <2>2. [op |-> "save", seen |-> rows[a.cred].count, sent |-> a] \in Requests
    BY <2>1 DEF Requests, Rows
  <2>3. req'[w].sent = a /\ \A v \in Workers \ {w} : req'[v] = req[v]
    BY <1>6 DEF AuthenticateRead, Serve, TypeOK
  <2>4. TypeOK'
    BY <1>6, <2>2 DEF AuthenticateRead, Serve, TypeOK, authenticators, history
  <2> QED BY <1>6, <2>3, <2>4 DEF AuthenticateRead, SavesRows, Serving
<1>7. ASSUME NEW w \in Workers, AuthenticateSave(w) PROVE Typed'
  <2>1. /\ req[w].sent.cred \in Creds /\ req[w].sent.count \in Counts
        /\ req[w].sent.key \in Keys
    BY <1>7, ReqFields DEF AuthenticateSave, Serving
  <2>2. rows[req[w].sent.cred] # Absent
    BY <1>7 DEF AuthenticateSave, SavesRows
  <2>3. rows' \in [Creds -> Rows \cup {Absent}]
        /\ \A c \in Creds : rows[c] # Absent => rows'[c] # Absent
    BY <1>7, <2>2, RowSaved
  <2>4. [op |-> "destroy", key |-> req[w].sent.key] \in Requests
    BY <2>1 DEF Requests
  <2>5. /\ accepted' \subseteq Creds \X Counts
        /\ twice' \subseteq Creds /\ excused' \subseteq Creds
    BY <1>7, <2>1 DEF AuthenticateSave, TypeOK
  <2>6. TypeOK'
    BY <1>7, <2>3, <2>4, <2>5 DEF AuthenticateSave, Serve, TypeOK, authenticators
  <2>7. \A v \in Workers : Serving(v, "save")' => Serving(v, "save") /\ req'[v] = req[v]
    BY <1>7 DEF AuthenticateSave, Serve, Serving, TypeOK
  <2>8. SavesRows'
    BY <2>3, <2>7, ReqFields DEF SavesRows, Serving
  <2> QED BY <2>6, <2>8
<1>8. ASSUME NEW w \in Workers, Destroy(w) PROVE Typed'
  BY <1>8, DestroyFades
     DEF Fades, Destroy, Done, Serve, Serving, TypeOK, SavesRows, authenticators, history
<1>9. CASE Loss
  <2>1. Fades
    BY <1>9, LossFades DEF Loss
  <2>2. \A v \in Workers : req'[v] \in {req[v], Absent}
    BY <1>9 DEF Loss, Lapse, RedisRestart, WorkerRestart, Done, Serve, TypeOK
  <2>3. req' \in [Workers -> Requests \cup {Absent}]
    BY <1>9 DEF Loss, Lapse, RedisRestart, WorkerRestart, Done, Serve, TypeOK
  <2>4. UNCHANGED <<begun, authenticators, rows, history>>
    BY <1>9 DEF Loss, Lapse, RedisRestart, WorkerRestart
  <2> QED BY <2>1, <2>2, <2>3, <2>4
          DEF Fades, TypeOK, SavesRows, Serving, authenticators, history
<1> QED BY <1>1, <1>2, <1>3, <1>4, <1>5, <1>6, <1>7, <1>8, <1>9, StepCases

LEMMA TypedHolds == Spec => []Typed
<1>1. Init => Typed
  BY PasskeyAssumption DEF Init, Typed, TypeOK, SavesRows, Serving, Empty, Counts
<1>2. Typed /\ [Next]_vars => Typed'
  <2>1. Typed /\ UNCHANGED vars => Typed'
    BY DEF Typed, TypeOK, SavesRows, Serving, vars
  <2> QED BY <2>1, TypedStep
<1> QED BY <1>1, <1>2, PTL DEF Spec

\* Every ceremony, row and request stays well-formed; in particular no handler
\* saves a count into a row that is not there.
THEOREM TypeCorrect == Spec => []TypeOK
<1>1. Typed => TypeOK
  BY DEF Typed
<1> QED BY <1>1, TypedHolds, PTL

-----------------------------------------------------------------------------
(* Whose a passkey is.                                                     *)

\* What a key holds is what its ceremony began with.
Cached == \A b \in Backends, k \in Keys : store[b][k] # Absent => store[b][k] = begun[k]

\* Credential c was created in a registration of user u's own.
OwnedBy(c, u) == made[c] # Absent /\ begun[made[c].key] = Registration(u)

OwnInv ==
    /\ Cached
    /\ \A w \in Workers : Serving(w, "create") => OwnedBy(req[w].cred, req[w].user)
    /\ OwnPasskeys

\* What has begun or was made is not begun or made again.
LEMMA MadeStays ==
    ASSUME Typed, Next, NEW c \in Creds, made[c] # Absent, begun[made[c].key] # Absent
    PROVE  begun'[made[c].key] = begun[made[c].key] /\ made'[c] = made[c]
<1>1. made[c] \in Attestations /\ made[c].key \in Keys
  BY DEF Typed, TypeOK, Attestations
<1>2. ASSUME NEW x \in Devices, NEW k \in Keys, NEW n \in Counts, Create(x, k, n)
      PROVE  begun' = begun /\ made'[c] = made[c]
  BY <1>1, <1>2 DEF Create, Typed, TypeOK
<1>3. ASSUME NEW w \in Workers, NEW k \in Keys, Begins(w, k)
      PROVE  begun'[made[c].key] = begun[made[c].key] /\ made' = made
  BY <1>1, <1>3, BeginStep DEF Begin, authenticators, Typed, TypeOK
<1>4. ASSUME \/ \E x \in Devices, k \in Keys : Sign(x, k)
             \/ \E w \in Workers, v \in Users, d \in Creds : RegisterRead(w, v, d)
             \/ \E w \in Workers : RegisterCreate(w)
             \/ \E w \in Workers, a \in signed : AuthenticateRead(w, a)
             \/ \E w \in Workers : AuthenticateSave(w)
             \/ \E w \in Workers : Destroy(w)
             \/ Loss
      PROVE  begun' = begun /\ made' = made
  BY <1>4 DEF Sign, RegisterRead, RegisterCreate, AuthenticateRead, AuthenticateSave,
     Destroy, Loss, Lapse, RedisRestart, WorkerRestart, authenticators
<1> QED BY <1>2, <1>3, <1>4, StepCases

LEMMA OwnedStays ==
    ASSUME Typed, Next, NEW c \in Creds, NEW u \in Users, OwnedBy(c, u)
    PROVE  OwnedBy(c, u)'
<1>1. made[c] # Absent /\ made[c] \in Attestations /\ begun[made[c].key] # Absent
  BY EntriesKnown DEF OwnedBy, Typed, TypeOK
<1> QED BY <1>1, MadeStays DEF OwnedBy

LEMMA CachedStep == ASSUME Typed, Cached, Next PROVE Cached'
<1>1. ASSUME NEW w \in Workers, NEW k \in Keys, Begins(w, k) PROVE Cached'
  <2>1. PICK entry \in Entries : Begin(w, k, entry)
    BY <1>1, BeginStep
  <2>2. PICK r \in RedisOutcomes : store' = AfterSet(r, w, k, entry)
    BY <2>1 DEF Begin
  <2>3. begun'[k] = entry /\ \A j \in Keys : j # k => begun'[j] = begun[j]
    BY <2>1 DEF Begin, Typed, TypeOK
  <2>4. \A b \in Backends : store[b][k] = Absent
    BY <2>1 DEF Begin, Cached
  <2>5. ASSUME NEW b \in Backends, NEW j \in Keys, store'[b][j] # Absent
        PROVE  store'[b][j] = begun'[j]
    <3>1. store'[b][j] = store[b][j] \/ (j = k /\ store'[b][j] = entry)
      BY <2>2, SetValues
    <3> QED BY <2>3, <2>4, <2>5, <3>1 DEF Cached
  <2> QED BY <2>5 DEF Cached
<1>2. ASSUME Fades, begun' = begun PROVE Cached'
  BY <1>2 DEF Fades, Cached
<1>3. ASSUME UNCHANGED <<store, begun>> PROVE Cached'
  BY <1>3 DEF Cached
<1>4. ASSUME NEW w \in Workers, Destroy(w) PROVE Cached'
  BY <1>2, <1>4, DestroyFades DEF Typed, Destroy
<1>5. CASE Loss
  <2>1. Fades
    BY <1>5, LossFades DEF Loss, Typed
  <2> QED BY <1>2, <1>5, <2>1 DEF Loss, Lapse, RedisRestart, WorkerRestart
<1>6. CASE \/ \E x \in Devices, k \in Keys, n \in Counts : Create(x, k, n)
           \/ \E x \in Devices, k \in Keys : Sign(x, k)
           \/ \E w \in Workers, u \in Users, c \in Creds : RegisterRead(w, u, c)
           \/ \E w \in Workers : RegisterCreate(w)
           \/ \E w \in Workers, a \in signed : AuthenticateRead(w, a)
           \/ \E w \in Workers : AuthenticateSave(w)
  BY <1>3, <1>6 DEF Create, Sign, RegisterRead, RegisterCreate, AuthenticateRead,
     AuthenticateSave
<1> QED BY <1>1, <1>4, <1>5, <1>6, StepCases

\* Who completes a registration owns what it made.
LEMMA ReadOwned ==
    ASSUME Typed, Cached, NEW w \in Workers, NEW u \in Users, NEW c \in Creds,
           RegisterRead(w, u, c)
    PROVE  OwnedBy(c, u)
<1>1. made[c] # Absent /\ made[c].key \in Keys
  BY DEF RegisterRead, Typed, TypeOK, Attestations
<1>2. PICK r \in RedisOutcomes : CacheGet(r, w, made[c].key) = Registration(u)
  BY DEF RegisterRead, OwnRegistration
<1>3. PICK b \in Backends : store[b][made[c].key] = Registration(u)
  BY <1>2, GetEffect DEF Backends
<1>4. Registration(u) # Absent
  BY EntriesKnown
<1> QED BY <1>1, <1>3, <1>4 DEF Cached, OwnedBy

LEMMA OwnStep == ASSUME Typed, OwnInv, Next PROVE OwnInv'
<1>1. Cached'
  BY CachedStep DEF OwnInv
<1>2. ASSUME NEW w \in Workers, Serving(w, "create")'
      PROVE  OwnedBy(req[w].cred, req[w].user)'
  <2>1. \/ Serving(w, "create") /\ req'[w] = req[w]
        \/ \E u \in Users, c \in Creds :
              RegisterRead(w, u, c) /\ req'[w].cred = c /\ req'[w].user = u
    <3>1. req'[w] # Absent /\ req'[w].op = "create"
      BY <1>2 DEF Serving
    <3>2. CASE req'[w] = req[w]
      BY <3>1, <3>2 DEF Serving
    <3>3. CASE \E u \in Users, c \in Creds :
                /\ RegisterRead(w, u, c)
                /\ req'[w].op = "create" /\ req'[w].cred = c /\ req'[w].user = u
      BY <3>3
    <3>4. TypeOK
      BY DEF Typed
    <3>5. \A a : req'[w] # [op |-> "save", seen |-> rows[a.cred].count, sent |-> a]
      BY <3>1
    <3> QED BY <3>1, <3>2, <3>3, <3>4, <3>5, RequestSteps
  <2>2. CASE Serving(w, "create") /\ req'[w] = req[w]
    <3>1. PICK c \in Creds, u \in Users : c = req[w].cred /\ u = req[w].user
      BY <2>2, ReqFields DEF Typed, Serving, CreateOps
    <3>2. OwnedBy(c, u)'
      BY <2>2, <3>1, OwnedStays DEF OwnInv
    <3> QED BY <2>2, <3>1, <3>2 DEF OwnedBy
  <2>3. CASE \E u \in Users, c \in Creds :
                RegisterRead(w, u, c) /\ req'[w].cred = c /\ req'[w].user = u
    <3>1. PICK u \in Users, c \in Creds :
                RegisterRead(w, u, c) /\ req'[w].cred = c /\ req'[w].user = u
      BY <2>3
    <3>2. OwnedBy(c, u)'
      BY <3>1, ReadOwned, OwnedStays DEF OwnInv
    <3> QED BY <3>1, <3>2 DEF OwnedBy
  <2> QED BY <2>1, <2>2, <2>3
<1>3. ASSUME NEW c \in Creds, rows'[c] # Absent
      PROVE  OwnedBy(c, rows[c].user)'
  <2>1. \/ rows[c] # Absent /\ rows'[c].user = rows[c].user
        \/ \E w \in Workers : /\ Serving(w, "create") /\ req[w].cred = c
                              /\ rows'[c].user = req[w].user
    <3>1. ASSUME NEW w \in Workers, RegisterCreate(w), rows' # rows
          PROVE  \/ rows'[c] = rows[c]
                 \/ /\ Serving(w, "create") /\ req[w].cred = c
                    /\ rows'[c].user = req[w].user
      BY <3>1 DEF RegisterCreate, Typed, TypeOK
    <3>2. ASSUME NEW w \in Workers, AuthenticateSave(w)
          PROVE  rows[c] # Absent /\ rows'[c].user = rows[c].user
      <4>1. rows[req[w].sent.cred] # Absent
        BY <3>2 DEF AuthenticateSave, Typed, SavesRows
      <4>2. /\ req[w].sent.cred \in Creds
            /\ rows' = [rows EXCEPT ![req[w].sent.cred] =
                          [user |-> @.user, count |-> req[w].sent.count]]
        BY <3>2, <4>1, RowSaved DEF Typed
      <4> QED BY <1>3, <4>1, <4>2 DEF Typed, TypeOK
    <3>3. ASSUME ~\E w \in Workers : RegisterCreate(w) \/ AuthenticateSave(w)
          PROVE  rows' = rows
      BY <3>3, StepCases, BeginStep
         DEF Create, Sign, Begin, RegisterRead, AuthenticateRead, Destroy, Loss, Lapse,
             RedisRestart, WorkerRestart
    <3> QED BY <1>3, <3>1, <3>2, <3>3
  <2>2. PICK u \in Users : u = rows'[c].user /\ OwnedBy(c, u)
    <3>1. CASE rows[c] # Absent /\ rows'[c].user = rows[c].user
      BY <3>1 DEF OwnInv, OwnPasskeys, OwnedBy, Typed, TypeOK, Rows
    <3>2. CASE \E w \in Workers : /\ Serving(w, "create") /\ req[w].cred = c
                                  /\ rows'[c].user = req[w].user
      BY <3>2, ReqFields DEF OwnInv, Typed, Serving, CreateOps
    <3> QED BY <2>1, <3>1, <3>2
  <2>3. OwnedBy(c, u)'
    BY <2>2, OwnedStays
  <2> QED BY <2>2, <2>3 DEF OwnedBy
<1> QED BY <1>1, <1>2, <1>3 DEF OwnInv, OwnPasskeys, OwnedBy

LEMMA OwnHolds == Spec => []OwnInv
<1>1. Init => OwnInv
  BY DEF Init, OwnInv, Cached, Serving, OwnPasskeys, Empty
<1>2. OwnInv /\ Typed /\ [Next]_vars => OwnInv'
  <2>1. OwnInv /\ UNCHANGED vars => OwnInv'
    BY DEF OwnInv, Cached, Serving, OwnedBy, OwnPasskeys, vars
  <2> QED BY <2>1, OwnStep
<1> QED BY <1>1, <1>2, TypedHolds, PTL DEF Spec

\* A passkey belongs to the user whose own ceremony it was created in.
THEOREM PasskeysAreOwn == Spec => []OwnPasskeys
<1>1. OwnInv => OwnPasskeys
  BY DEF OwnInv
<1> QED BY <1>1, OwnHolds, PTL

-----------------------------------------------------------------------------
(* What the counter is for.                                                *)

\* Whoever is about to save a count has seen it exceed the one it read.
Compared ==
    \A w \in Workers :
        Serving(w, "save") => ~Regresses(req[w].sent.count, req[w].seen)

CountInv == Compared /\ CounterAhead /\ CountOnce

LEMMA SaveCounts ==
    ASSUME Typed, CountInv, NEW w \in Workers, AuthenticateSave(w)
    PROVE  CounterAhead' /\ CountOnce'
<1> DEFINE c == req[w].sent.cred
           n == req[w].sent.count
<1>1. /\ c \in Creds /\ n \in Counts /\ req[w].seen \in Counts
      /\ ~Regresses(n, req[w].seen)
  BY ReqFields DEF AuthenticateSave, Serving, CountInv, Compared, Typed
<1>2. rows[c] # Absent
  BY DEF AuthenticateSave, Typed, SavesRows
<1>3. /\ rows[c] \in Rows
      /\ rows' = [rows EXCEPT ![c] = [user |-> @.user, count |-> n]]
  BY <1>2, RowSaved DEF Typed
<1>4. rows'[c].count = n /\ \A d \in Creds : d # c => rows'[d] = rows[d]
  BY <1>1, <1>3 DEF Typed, TypeOK
<1>5. c \in excused' \/ (rows[c].count = req[w].seen /\ n # 0)
  BY DEF AuthenticateSave
<1>6. excused \subseteq excused'
  BY DEF AuthenticateSave
<1>7. accepted' = accepted \cup {<<c, n>>}
      /\ twice' = IF <<c, n>> \in accepted THEN twice \cup {c} ELSE twice
  BY DEF AuthenticateSave
<1>8. rows[c].count \in Int /\ n \in Int /\ \A m \in Counts : m \in Int
  BY <1>1, <1>3, PasskeyAssumption DEF Rows, Counts
\* On these terms the new count is above every one accepted before.
<1>9. ASSUME c \notin excused'
      PROVE  \A m \in Counts : <<c, m>> \in accepted => m < n
  <2>1. n # 0 /\ rows[c].count < n
    BY <1>1, <1>5, <1>8, <1>9, PasskeyAssumption DEF Regresses, Counts
  <2>2. \A m \in Counts : <<c, m>> \in accepted => m <= rows[c].count
    BY <1>1, <1>6, <1>9 DEF CountInv, CounterAhead
  <2>3. ASSUME NEW m \in Counts, <<c, m>> \in accepted PROVE m < n
    <3>1. m <= rows[c].count
      BY <2>2, <2>3
    <3>2. m \in Int
      BY <1>8
    <3> QED BY <1>8, <2>1, <3>1, <3>2
  <2> QED BY <2>3
<1>10. ASSUME NEW d \in Creds, d \notin excused', NEW m \in Counts, <<d, m>> \in accepted'
       PROVE  rows'[d] # Absent /\ m <= rows'[d].count
  <2>1. CASE d # c
    BY <1>4, <1>6, <1>7, <1>10, <2>1 DEF CountInv, CounterAhead
  <2>2. CASE d = c
    <3>1. m = n \/ m < n
      BY <1>7, <1>9, <1>10, <2>2
    <3>2. rows'[c] # Absent
      BY <1>2, RowSaved DEF Typed
    <3>3. m <= n
      BY <1>1, <1>8, <1>10, <3>1
    <3> QED BY <1>4, <2>2, <3>2, <3>3
  <2> QED BY <2>1, <2>2
<1>11. CountOnce'
  <2>1. ASSUME c \notin excused', <<c, n>> \in accepted PROVE FALSE
    <3>1. n < n
      BY <1>1, <1>9, <2>1
    <3> QED BY <1>8, <3>1
  <2> QED BY <1>6, <1>7, <2>1 DEF CountInv, CountOnce
<1> QED BY <1>10, <1>11 DEF CounterAhead

LEMMA CountStep == ASSUME Typed, CountInv, Next PROVE CountInv'
<1>1. Compared'
  <2> SUFFICES ASSUME NEW w \in Workers, Serving(w, "save")'
               PROVE  ~Regresses(req'[w].sent.count, req'[w].seen)
    BY DEF Compared, Regresses
  <2>1. CASE req'[w] = req[w]
    BY <2>1 DEF CountInv, Compared, Serving
  <2>2. CASE \E a \in signed :
                /\ AuthenticateRead(w, a)
                /\ req'[w] = [op |-> "save", seen |-> rows[a.cred].count, sent |-> a]
    BY <2>2 DEF AuthenticateRead
  <2> QED BY <2>1, <2>2, RequestSteps DEF Typed, Serving
<1>2. ASSUME NEW w \in Workers, RegisterCreate(w) PROVE CounterAhead' /\ CountOnce'
  <2>1. \A c \in Creds : rows[c] # Absent => rows'[c] = rows[c]
    BY <1>2 DEF RegisterCreate, Typed, TypeOK
  <2> QED BY <1>2, <2>1 DEF RegisterCreate, history, CountInv, CounterAhead, CountOnce
<1>3. ASSUME ~\E w \in Workers : RegisterCreate(w) \/ AuthenticateSave(w)
      PROVE  CounterAhead' /\ CountOnce'
  <2>1. UNCHANGED <<rows, history>>
    BY <1>3, StepCases, BeginStep
       DEF Create, Sign, Begin, RegisterRead, AuthenticateRead, Destroy, Loss, Lapse,
           RedisRestart, WorkerRestart
  <2> QED BY <2>1 DEF history, CountInv, CounterAhead, CountOnce
<1> QED BY <1>1, <1>2, <1>3, SaveCounts DEF CountInv

LEMMA CountHolds == Spec => []CountInv
<1>1. Init => CountInv
  BY DEF Init, CountInv, Compared, Serving, CounterAhead, CountOnce
<1>2. CountInv /\ Typed /\ [Next]_vars => CountInv'
  <2>1. CountInv /\ UNCHANGED vars => CountInv'
    BY DEF CountInv, Compared, Serving, CounterAhead, CountOnce, vars
  <2> QED BY <2>1, CountStep
<1> QED BY <1>1, <1>2, TypedHolds, PTL DEF Spec

\* No count lets two assertions of a credential in, unless two requests
\* overlapped on its row or an authenticator reported 0.
THEOREM CountsLetInOnce == Spec => []CountOnce
<1>1. CountInv => CountOnce
  BY DEF CountInv
<1> QED BY <1>1, CountHolds, PTL

\* On the same terms the stored counter never falls behind an accepted one.
THEOREM CounterStaysAhead == Spec => []CounterAhead
<1>1. CountInv => CounterAhead
  BY DEF CountInv
<1> QED BY <1>1, CountHolds, PTL

-----------------------------------------------------------------------------
(* Passkeys keeps the promise of PasskeyService: creating, signing, the    *)
(* creation of a row and the saving of a count are its steps.              *)

\* Every credential was made in a registration.
Registered == \A c \in Creds : made[c] # Absent => \E u \in Users : OwnedBy(c, u)

\* What the requests in flight know of what they are about to write.
WriteInv ==
    \A w \in Workers :
        /\ Serving(w, "create") => req[w].count = made[req[w].cred].count
        /\ Serving(w, "save") => /\ req[w].sent \in signed
                                 /\ rows[req[w].sent.cred].user \in Active

ServiceInv == Registered /\ WriteInv

\* A row keeps its owner.
LEMMA OwnerStays ==
    ASSUME Typed, Next, NEW c \in Creds, rows[c] # Absent
    PROVE  rows'[c].user = rows[c].user
<1>1. ASSUME NEW w \in Workers, RegisterCreate(w) PROVE rows'[c] = rows[c]
  BY <1>1 DEF RegisterCreate, Typed, TypeOK
<1>2. ASSUME NEW w \in Workers, AuthenticateSave(w) PROVE rows'[c].user = rows[c].user
  <2>1. rows[req[w].sent.cred] # Absent
    BY <1>2 DEF AuthenticateSave, Typed, SavesRows
  <2>2. rows' = [rows EXCEPT ![req[w].sent.cred] =
                    [user |-> @.user, count |-> req[w].sent.count]]
    BY <1>2, <2>1, RowSaved DEF Typed
  <2>3. CASE c = req[w].sent.cred
    BY <2>2, <2>3 DEF Typed, TypeOK
  <2>4. CASE c # req[w].sent.cred
    BY <2>2, <2>4 DEF Typed, TypeOK
  <2> QED BY <2>3, <2>4
<1>3. ASSUME ~\E w \in Workers : RegisterCreate(w) \/ AuthenticateSave(w)
      PROVE  rows' = rows
  BY <1>3, StepCases, BeginStep
     DEF Create, Sign, Begin, RegisterRead, AuthenticateRead, Destroy, Loss, Lapse,
         RedisRestart, WorkerRestart
<1> QED BY <1>1, <1>2, <1>3

\* A credential is made for the registration it is made in.
LEMMA CreateMakes ==
    ASSUME Typed, NEW x \in Devices, NEW k \in Keys, NEW n \in Counts, Create(x, k, n)
    PROVE  /\ Holds[x] \in Creds /\ made[Holds[x]] = Absent
           /\ made' = [made EXCEPT ![Holds[x]] = [key |-> k, count |-> n]]
           /\ begun' = begun
           /\ \E u \in Users : begun[k] = Registration(u)
<1>1. Holds[x] \in Creds
  BY PasskeyAssumption
<1>2. \E u \in Users : begun[k] = Registration(u)
  BY DEF Create, Typed, TypeOK, Entries, Authentication
<1> QED BY <1>1, <1>2 DEF Create

LEMMA ServiceInvStep == ASSUME Typed, OwnInv, ServiceInv, Next PROVE ServiceInv'
<1>1. ASSUME NEW c \in Creds, made'[c] # Absent PROVE \E u \in Users : OwnedBy(c, u)'
  <2>1. CASE made[c] # Absent
    BY <2>1, OwnedStays DEF ServiceInv, Registered
  <2>2. CASE made[c] = Absent
    <3>1. PICK x \in Devices, k \in Keys, n \in Counts : Create(x, k, n)
      BY <1>1, <2>2, StepCases, BeginStep
         DEF Sign, Begin, RegisterRead, RegisterCreate, AuthenticateRead, AuthenticateSave,
             Destroy, Loss, Lapse, RedisRestart, WorkerRestart, authenticators
    <3>2. PICK u \in Users : begun[k] = Registration(u)
      BY <3>1, CreateMakes
    <3>3. made'[c] = [key |-> k, count |-> n] /\ begun' = begun
      BY <1>1, <2>2, <3>1, CreateMakes DEF Typed, TypeOK
    <3>4. made'[c].key = k
      BY <3>3
    <3> QED BY <1>1, <3>2, <3>3, <3>4 DEF OwnedBy
  <2> QED BY <2>1, <2>2
<1>2. ASSUME NEW w \in Workers, Serving(w, "create")'
      PROVE  req'[w].count = made'[req'[w].cred].count
  <2>1. CASE req'[w] = req[w]
    <3>1. Serving(w, "create") /\ req[w].cred \in Creds
      BY <1>2, <2>1, ReqFields DEF Serving, Typed, CreateOps
    <3>2. PICK u \in Users : OwnedBy(req[w].cred, u)
      BY <3>1, ReqFields DEF OwnInv, Serving, Typed, CreateOps
    <3>3. begun[made[req[w].cred].key] # Absent
      BY <3>2, EntriesKnown DEF OwnedBy
    <3> QED BY <2>1, <3>1, <3>2, <3>3, MadeStays DEF ServiceInv, WriteInv, OwnedBy
  <2>2. ASSUME NEW u \in Users, NEW c \in Creds, RegisterRead(w, u, c), req'[w].cred = c
        PROVE  req'[w].count = made'[req'[w].cred].count
    BY <2>2 DEF RegisterRead, Serve, authenticators, Typed, TypeOK
  <2>3. req'[w] # Absent /\ req'[w].op = "create" /\ TypeOK
    BY <1>2 DEF Serving, Typed
  <2>4. \A a : req'[w] # [op |-> "save", seen |-> rows[a.cred].count, sent |-> a]
    BY <2>3
  <2> QED BY <2>1, <2>2, <2>3, <2>4, RequestSteps
<1>3. ASSUME NEW w \in Workers, Serving(w, "save")'
      PROVE  req'[w].sent \in signed' /\ rows'[req'[w].sent.cred].user \in Active
  <2>1. signed \subseteq signed'
    BY StepCases, BeginStep
       DEF Create, Sign, Begin, RegisterRead, RegisterCreate, AuthenticateRead,
           AuthenticateSave, Destroy, Loss, Lapse, RedisRestart, WorkerRestart,
           authenticators
  <2>2. CASE req'[w] = req[w]
    <3>1. Serving(w, "save") /\ req[w].sent.cred \in Creds
      BY <1>3, <2>2, ReqFields DEF Serving, Typed
    <3>2. rows[req[w].sent.cred] # Absent
      BY <3>1 DEF Typed, SavesRows
    <3> QED BY <2>1, <2>2, <3>1, <3>2, OwnerStays DEF ServiceInv, WriteInv
  <2>3. ASSUME NEW a \in signed, AuthenticateRead(w, a),
               req'[w] = [op |-> "save", seen |-> rows[a.cred].count, sent |-> a]
        PROVE  req'[w].sent \in signed' /\ rows'[req'[w].sent.cred].user \in Active
    BY <2>3 DEF AuthenticateRead, authenticators
  <2> QED BY <1>3, <2>2, <2>3, RequestSteps DEF Typed, Serving
<1> QED BY <1>1, <1>2, <1>3 DEF ServiceInv, Registered, WriteInv, Serving, OwnedBy

LEMMA ServiceHolds == Spec => []ServiceInv
<1>1. Init => ServiceInv
  BY DEF Init, ServiceInv, Registered, WriteInv, Serving
<1>2. ServiceInv /\ OwnInv /\ Typed /\ [Next]_vars => ServiceInv'
  <2>1. ServiceInv /\ UNCHANGED vars => ServiceInv'
    BY DEF ServiceInv, Registered, WriteInv, Serving, OwnedBy, vars
  <2> QED BY <2>1, ServiceInvStep
<1> QED BY <1>1, <1>2, TypedHolds, OwnHolds, PTL DEF Spec

\* A credential that is not created now keeps its birth.
LEMMA BirthsStay ==
    ASSUME Typed, Registered, Next, NEW c \in Creds, made[c] # Absent \/ made'[c] = Absent
    PROVE  Births'[c] = Births[c]
<1>1. CASE made[c] # Absent
  BY <1>1, MadeStays, EntriesKnown DEF Registered, OwnedBy, Births
<1>2. CASE made[c] = Absent
  BY <1>2 DEF Births
<1> QED BY <1>1, <1>2

LEMMA BornStep ==
    ASSUME Typed, Registered, Next,
           NEW x \in Devices, NEW k \in Keys, NEW n \in Counts, Create(x, k, n)
    PROVE  Service!PasskeyNext
<1> DEFINE c == Holds[x]
<1>1. PICK u \in Users : begun[k] = Registration(u)
  BY CreateMakes
<1>2. /\ c \in Creds /\ made[c] = Absent /\ begun' = begun
      /\ made' = [made EXCEPT ![c] = [key |-> k, count |-> n]]
  BY CreateMakes
<1>3. made'[c] = [key |-> k, count |-> n] /\ \A d \in Creds : d # c => made'[d] = made[d]
  BY <1>2 DEF Typed, TypeOK
<1>4. made'[c] # Absent
  BY <1>3, PasskeyAssumption DEF Attestations
<1>5. Births'[c] = [user |-> u, count |-> n] /\ Births[c] = Absent
  BY <1>1, <1>2, <1>3, <1>4 DEF Births, Registration
<1>6. \A d \in Creds : d # c => Births'[d] = Births[d]
  BY <1>3, BirthsStay
<1>7. Births' = [Births EXCEPT ![c] = [user |-> u, count |-> n]]
  BY <1>2, <1>5, <1>6 DEF Births
<1>8. UNCHANGED <<Shown, rows, accepted, excused>>
  BY DEF Create, Shown, history
<1> QED BY <1>2, <1>5, <1>7, <1>8 DEF Service!PasskeyNext, Service!Bear

LEMMA BirthKnown ==
    ASSUME Typed, Registered, NEW c \in Creds, made[c] # Absent
    PROVE  Births[c] \in Rows /\ Births[c] # Absent
<1>1. PICK u \in Users : begun[made[c].key] = Registration(u)
  BY DEF Registered, OwnedBy
<1>2. made[c].count \in Counts
  BY DEF Typed, TypeOK, Attestations
<1>3. Births[c] = [user |-> u, count |-> made[c].count]
  BY <1>1 DEF Births, Registration
<1> QED BY <1>2, <1>3, PasskeyAssumption DEF Rows

LEMMA ShowStep ==
    ASSUME Typed, Registered, NEW x \in Devices, NEW k \in Keys, Sign(x, k)
    PROVE  Service!PasskeyNext
<1> DEFINE c == Holds[x]
<1>1. c \in Creds
  BY PasskeyAssumption
<1>2. PICK n \in Counts : signed' = signed \cup {[cred |-> c, key |-> k, count |-> n]}
  BY DEF Sign
<1>3. Shown' = Shown \cup {<<c, n>>}
  <2> DEFINE a == [cred |-> c, key |-> k, count |-> n]
  <2>1. signed' = signed \cup {a} /\ a.cred = c /\ a.count = n
    BY <1>2
  <2> HIDE DEF a
  <2> QED BY <2>1 DEF Shown
<1>4. UNCHANGED <<Births, rows, accepted, excused>>
  BY DEF Sign, Births, history
<1>5. Births[c] # Absent
  BY <1>1, BirthKnown DEF Sign
<1> QED BY <1>1, <1>3, <1>4, <1>5 DEF Service!PasskeyNext, Service!Show

LEMMA RegisterStep ==
    ASSUME Typed, OwnInv, ServiceInv, NEW w \in Workers, RegisterCreate(w)
    PROVE  Service!PasskeyNext \/ UNCHANGED <<Births, Shown, rows, accepted, excused>>
<1> DEFINE c == req[w].cred
<1>1. req[w] \in CreateOps /\ c \in Creds /\ req[w].user \in Users
  BY ReqFields DEF RegisterCreate, Serving, Typed, CreateOps
<1>2. OwnedBy(c, req[w].user) /\ req[w].count = made[c].count
  BY DEF RegisterCreate, OwnInv, ServiceInv, WriteInv
<1>3. UNCHANGED <<Births, Shown, accepted, excused>>
  BY DEF RegisterCreate, authenticators, history, Births, Shown
<1>4. CASE UNCHANGED rows
  BY <1>3, <1>4
<1>5. CASE /\ rows[c] = Absent
           /\ rows' = [rows EXCEPT ![c] = [user |-> req[w].user, count |-> req[w].count]]
  <2>1. Births[c] = [user |-> req[w].user, count |-> req[w].count]
    BY <1>1, <1>2 DEF Births, OwnedBy, Registration
  <2>2. Births[c] # Absent
    BY <1>1, <2>1, PasskeyAssumption DEF Rows, CreateOps
  <2> QED BY <1>1, <1>3, <1>5, <2>1, <2>2 DEF Service!PasskeyNext, Service!Register
<1> QED BY <1>4, <1>5 DEF RegisterCreate

LEMMA AcceptStep ==
    ASSUME Typed, CountInv, ServiceInv, NEW w \in Workers, AuthenticateSave(w)
    PROVE  Service!PasskeyNext
<1> DEFINE c == req[w].sent.cred
           n == req[w].sent.count
<1>1. /\ c \in Creds /\ n \in Counts /\ req[w].seen \in Counts
      /\ ~Regresses(n, req[w].seen)
  BY ReqFields DEF AuthenticateSave, Serving, CountInv, Compared, Typed
<1>2. rows[c] # Absent /\ rows[c].user \in Active /\ req[w].sent \in signed
  BY DEF AuthenticateSave, Typed, SavesRows, ServiceInv, WriteInv
<1>3. rows[c] \in Rows /\ rows' = [rows EXCEPT ![c] = [user |-> @.user, count |-> n]]
  BY <1>2, RowSaved DEF Typed
<1>4. rows' = [rows EXCEPT ![c].count = n]
  BY <1>1, <1>3 DEF Typed, TypeOK, Rows
<1>5. <<c, n>> \in Shown
  BY <1>2 DEF Shown
<1>6. UNCHANGED <<Births, Shown>>
  BY DEF AuthenticateSave, authenticators, Births, Shown
<1>7. (n > rows[c].count /\ UNCHANGED excused) \/ excused' = excused \cup {c}
  <2>1. rows[c].count \in Int /\ n \in Int
    BY <1>1, <1>3, PasskeyAssumption DEF Rows, Counts
  <2>2. CASE rows[c].count = req[w].seen /\ n # 0
    BY <1>1, <1>3, <2>1, <2>2, PasskeyAssumption
       DEF AuthenticateSave, Regresses, Rows, Counts
  <2> QED BY <2>2 DEF AuthenticateSave
<1>8. accepted' = accepted \cup {<<c, n>>}
  BY DEF AuthenticateSave
<1> QED BY <1>1, <1>2, <1>4, <1>5, <1>6, <1>7, <1>8 DEF Service!PasskeyNext, Service!Accept

LEMMA ServiceStep ==
    ASSUME Typed, OwnInv, CountInv, ServiceInv, [Next]_vars
    PROVE  [Service!PasskeyNext]_<<Births, Shown, rows, accepted, excused>>
<1>1. ASSUME UNCHANGED <<made, signed, rows, history>>, Next
      PROVE  UNCHANGED <<Births, Shown, rows, accepted, excused>>
  <2>1. \A c \in Creds : Births'[c] = Births[c]
    BY <1>1, BirthsStay DEF ServiceInv
  <2>2. Births' = Births
    BY <2>1 DEF Births
  <2> QED BY <1>1, <2>2 DEF Shown, history
<1>2. CASE \/ \E w \in Workers, k \in Keys : Begins(w, k)
           \/ \E w \in Workers, u \in Users, c \in Creds : RegisterRead(w, u, c)
           \/ \E w \in Workers, a \in signed : AuthenticateRead(w, a)
           \/ \E w \in Workers : Destroy(w)
           \/ Loss
  <2>1. UNCHANGED <<made, signed, rows, history>>
    BY <1>2, BeginStep
       DEF Begin, RegisterRead, AuthenticateRead, Destroy, Loss, Lapse, RedisRestart,
           WorkerRestart, authenticators, history
  <2>2. Next \/ UNCHANGED vars
    OBVIOUS
  <2> QED BY <1>1, <2>1, <2>2 DEF vars, Births, Shown, history
<1>3. CASE UNCHANGED vars
  BY <1>3 DEF vars, Births, Shown
<1> QED BY <1>2, <1>3, BornStep, ShowStep, RegisterStep, AcceptStep, StepCases
        DEF ServiceInv

\* Registering and signing in with a passkey, with every overlap, loss and
\* crash, does what PasskeyService promises.
THEOREM PasskeysAreServed == Spec => PasskeyServiceSpec
<1>1. Init => Service!PasskeyInit
  BY DEF Init, Service!PasskeyInit, Births, Shown
<1>2. Typed /\ OwnInv /\ CountInv /\ ServiceInv /\ [Next]_vars
        => [Service!PasskeyNext]_(Service!passkeyVars)
  BY ServiceStep DEF Service!passkeyVars
<1>3. Spec => Service!PasskeyInit /\ [][Service!PasskeyNext]_(Service!passkeyVars)
  BY <1>1, <1>2, TypedHolds, OwnHolds, CountHolds, ServiceHolds, PTL DEF Spec
<1> QED BY <1>3 DEF PasskeyServiceSpec, Service!PasskeySpec
=============================================================================

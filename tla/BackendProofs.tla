---------------------------- MODULE BackendProofs ----------------------------
(* Theorems about Backend, for any sessions, threads, payloads and         *)
(* requests, any width of size_t and any words that stoull can parse.      *)
EXTENDS Backend, FiniteSetTheorems, TLAPS

RestProofs == INSTANCE RouterProofs WITH
  Paths <- DOMAIN Routes, Methods <- {"Get", "Post", "Delete"},
  Handlers <- {"GetTasks", "CreateTask", "GetTask", "DeleteTask"},
  MaxAdds <- 4, m_routes <- Routes, added <- <<>>

-----------------------------------------------------------------------------
(* The two routes.                                                         *)

LEMMA TaskPaths ==
  /\ DOMAIN Tasks = 1..1 /\ Tasks[1] = [kind |-> "literal", text |-> "tasks"]
  /\ DOMAIN TaskById = 1..2 /\ TaskById[1] = Tasks[1]
  /\ TaskById[2] = [kind |-> "param", name |-> "id"]
  /\ Tasks # TaskById
BY DEF Tasks, TaskById

LEMMA TaskRoutes ==
  /\ DOMAIN Routes = {Tasks, TaskById}
  /\ Routes[Tasks] = Filled([Get |-> "GetTasks", Post |-> "CreateTask"])
  /\ Routes[TaskById] = Filled([Get |-> "GetTask", Delete |-> "DeleteTask"])
BY TaskPaths DEF Routes

LEMMA PathsAreSequences == \A path \in DOMAIN Routes : path \in Seq(RestProofs!Range(path))
<1>1. ASSUME NEW path \in {Tasks, TaskById}
      PROVE  path \in Seq({path[i] : i \in DOMAIN path})
  BY TaskPaths DEF Tasks, TaskById
<1> QED BY <1>1, TaskRoutes DEF RestProofs!Range

LEMMA SameRouter ==
  ASSUME NEW req, NEW p
  PROVE  /\ RestProofs!Route(req) = Rest!Route(req)
         /\ RestProofs!Dispatch(p, req) = Rest!Dispatch(p, req)
         /\ RestProofs!Matches(p, req.words) = Rest!Matches(p, req.words)
BY DEF RestProofs!Route, Rest!Route, RestProofs!Dispatch, Rest!Dispatch,
       RestProofs!Matches, Rest!Matches, RestProofs!Hits, Rest!Hits,
       RestProofs!NamesFit, Rest!NamesFit, RestProofs!HasGroup, Rest!HasGroup,
       RestProofs!Status, Rest!Status, RestProofs!PutAll, Rest!PutAll,
       RestProofs!Assigned, Rest!Assigned, RestProofs!Assignments, Rest!Assignments,
       RestProofs!AssignmentsTo, Rest!AssignmentsTo, RestProofs!PathParams, Rest!PathParams,
       RestProofs!Max, Rest!Max, RestProofs!Min, Rest!Min, RestProofs!Empty, Rest!Empty

LEMMA RouterTypes ==
  ASSUME order \in SetToSeqs(DOMAIN Routes)
  PROVE  RestProofs!TypeOK /\ RestProofs!IsFiniteSet(DOMAIN Routes)
<1>1. IsFiniteSet(DOMAIN Routes)
  <2>1. DOMAIN Routes = {Tasks} \cup {TaskById}
    BY TaskRoutes
  <2>2. IsFiniteSet({Tasks})
    BY FS_Singleton
  <2>3. IsFiniteSet({Tasks} \cup {TaskById})
    BY <2>2, FS_AddElement
  <2> QED BY <2>1, <2>3
<1>2. RestProofs!IsFiniteSet(DOMAIN Routes)
  BY <1>1 DEF IsFiniteSet, RestProofs!IsFiniteSet
<1>3. order \in RestProofs!SetToSeqs(DOMAIN Routes)
  BY DEF SetToSeqs, RestProofs!SetToSeqs, Cardinality, RestProofs!Cardinality,
         IsFiniteSet, RestProofs!IsFiniteSet
<1>4. ASSUME NEW p \in DOMAIN Routes
      PROVE  /\ Routes[p].named \in BOOLEAN
             /\ DOMAIN Routes[p].handlers \subseteq {"Get", "Post", "Delete"}
             /\ RestProofs!Range(Routes[p].handlers)
                  \subseteq {"GetTasks", "CreateTask", "GetTask", "DeleteTask"}
  <2>1. CASE p = Tasks
    <3> DEFINE handlers == [Get |-> "GetTasks", Post |-> "CreateTask"]
    <3>1. Routes[p].named = TRUE /\ Routes[p].handlers = handlers
      BY <2>1, TaskRoutes DEF Filled
    <3>2. DOMAIN handlers = {"Get", "Post"}
      OBVIOUS
    <3>3. handlers["Get"] = "GetTasks" /\ handlers["Post"] = "CreateTask"
      OBVIOUS
    <3> QED BY <3>1, <3>2, <3>3 DEF RestProofs!Range
  <2>2. CASE p = TaskById
    <3> DEFINE handlers == [Get |-> "GetTask", Delete |-> "DeleteTask"]
    <3>1. Routes[p].named = TRUE /\ Routes[p].handlers = handlers
      BY <2>2, TaskRoutes DEF Filled
    <3>2. DOMAIN handlers = {"Get", "Delete"}
      OBVIOUS
    <3>3. handlers["Get"] = "GetTask" /\ handlers["Delete"] = "DeleteTask"
      OBVIOUS
    <3> QED BY <3>1, <3>2, <3>3 DEF RestProofs!Range
  <2> QED BY <2>1, <2>2, TaskRoutes
<1> QED BY <1>2, <1>3, <1>4 DEF RestProofs!TypeOK

(* What the router says of a request to the four routes. *)
LEMMA RouterAnswers ==
  ASSUME order \in SetToSeqs(DOMAIN Routes), NEW r
  PROVE  \/ Answer(r) = Rest!Status("NotFound")
         \/ Answer(r) = Rest!Status("MethodNotAllowed")
         \/ \E p \in DOMAIN Routes :
              /\ r.method \in DOMAIN Routes[p].handlers
              /\ Answer(r) = [handler |-> Routes[p].handlers[r.method],
                              params  |-> Rest!PutAll(Rest!Assigned(r.query),
                                            Rest!Assigned(Rest!PathParams(p, r.words)))]
<1>1. \/ Rest!Route(r) = Rest!Status("NotFound")
      \/ \E p \in DOMAIN Routes : Rest!Route(r) = Rest!Dispatch(p, r)
  <2>1. \/ RestProofs!Route(r) = RestProofs!Status("NotFound")
        \/ \E p \in DOMAIN Routes : RestProofs!Route(r) = RestProofs!Dispatch(p, r)
    BY RouterTypes, PathsAreSequences, RequestsAssumption, RestProofs!RouteDispatches
  <2> QED BY <2>1, SameRouter DEF Rest!Status, RestProofs!Status
<1>2. ASSUME NEW p \in DOMAIN Routes PROVE Rest!NamesFit(p)
  <2>1. Routes[p].named = TRUE
    BY TaskRoutes DEF Filled
  <2>2. ~Rest!HasGroup(p)
    BY TaskRoutes, TaskPaths DEF Rest!HasGroup
  <2> QED BY <2>1, <2>2 DEF Rest!NamesFit
<1>3. ASSUME NEW p \in DOMAIN Routes
      PROVE  \/ Rest!Dispatch(p, r) = Rest!Status("MethodNotAllowed")
             \/ /\ r.method \in DOMAIN Routes[p].handlers
                /\ Rest!Dispatch(p, r) =
                     [handler |-> Routes[p].handlers[r.method],
                      params  |-> Rest!PutAll(Rest!Assigned(r.query),
                                    Rest!Assigned(Rest!PathParams(p, r.words)))]
  BY <1>2 DEF Rest!Dispatch
<1> QED BY <1>1, <1>3 DEF Answer

(* Which handler a request gets tells its method, and a handler that needs *)
(* an id is given the second word of the url for it.                       *)
LEMMA HandlerOfMethod ==
  ASSUME order \in SetToSeqs(DOMAIN Routes), NEW r, Rest!Handles(Answer(r))
  PROVE  \/ Handler(r) = "GetTasks" /\ r.method = "Get"
         \/ Handler(r) = "CreateTask" /\ r.method = "Post"
         \/ Handler(r) = "GetTask" /\ r.method = "Get"
         \/ Handler(r) = "DeleteTask" /\ r.method = "Delete" /\ IdOf(r) = r.words[2]
<1>1. PICK p \in DOMAIN Routes :
        /\ r.method \in DOMAIN Routes[p].handlers
        /\ Answer(r) = [handler |-> Routes[p].handlers[r.method],
                        params  |-> Rest!PutAll(Rest!Assigned(r.query),
                                      Rest!Assigned(Rest!PathParams(p, r.words)))]
  <2>1. \A s : ~Rest!Handles(Rest!Status(s))
    BY DEF Rest!Handles, Rest!Status
  <2> QED BY <2>1, RouterAnswers
<1> DEFINE inPath == Rest!Assigned(Rest!PathParams(p, r.words))
<1>3. /\ r.method \in DOMAIN Routes[p].handlers
      /\ Handler(r) = Routes[p].handlers[r.method]
      /\ Answer(r).params = Rest!PutAll(Rest!Assigned(r.query), inPath)
  BY <1>1 DEF Handler
<1>4. CASE p = Tasks
  BY <1>3, <1>4, TaskRoutes DEF Filled
<1>5. CASE p = TaskById
  <2>1. /\ DOMAIN Rest!PathParams(p, r.words) = {1, 2}
        /\ Rest!PathParams(p, r.words)[1] = <<>>
        /\ Rest!PathParams(p, r.words)[2] = <<"id", r.words[2]>>
    BY <1>5, TaskPaths DEF Rest!PathParams
  <2>2. Rest!AssignmentsTo(Rest!PathParams(p, r.words), "id") = {2}
    <3>1. <<"id", r.words[2]>> # <<>> /\ <<"id", r.words[2]>>[1] = "id"
      OBVIOUS
    <3> QED BY <2>1, <3>1 DEF Rest!AssignmentsTo, Rest!Assignments
  <2>3. Rest!Max({2}) = 2
    BY DEF Rest!Max
  <2>4. "id" \in DOMAIN inPath /\ inPath["id"] = r.words[2]
    <3> DEFINE pairs == Rest!PathParams(p, r.words)
    <3>1. 2 \in Rest!Assignments(pairs) /\ pairs[2][1] = "id"
      BY <2>1, <2>2 DEF Rest!AssignmentsTo
    <3>2. pairs[2][2] = r.words[2]
      BY <2>1
    <3> HIDE DEF pairs
    <3>3. "id" \in DOMAIN Rest!Assigned(pairs)
      BY <3>1 DEF Rest!Assigned
    <3>4. Rest!Assigned(pairs)["id"] = pairs[Rest!Max(Rest!AssignmentsTo(pairs, "id"))][2]
      BY <3>1 DEF Rest!Assigned
    <3> QED BY <2>2, <2>3, <3>2, <3>3, <3>4 DEF pairs
  <2>5. IdOf(r) = r.words[2]
    BY <1>3, <2>4 DEF IdOf, Rest!PutAll
  <2> QED BY <1>3, <1>5, <2>5, TaskRoutes DEF Filled
<1> QED BY <1>4, <1>5, TaskRoutes

(* A request is refused with an error, and called for only once it has a   *)
(* handler and, if it is a POST, a payload, or an id if it needs one.      *)
LEMMA RefusalsAreErrors ==
  ASSUME order \in SetToSeqs(DOMAIN Routes), NEW r
  PROVE  \/ Refusal(r).status \in {"BadRequest", "NotFound", "MethodNotAllowed",
                                   "InternalServerError"}
         \/ /\ Refusal(r).status = "called"
            /\ Rest!Handles(Answer(r)) /\ Deserializes(r)
            /\ NeedsId(r) => ~StoullThrows(IdOf(r))
<1> USE DEF Response
<1>1. ~Rest!Handles(Answer(r)) => Answer(r).status \in {"NotFound", "MethodNotAllowed"}
  <2>1. \A h, params : Rest!Handles([handler |-> h, params |-> params])
    BY DEF Rest!Handles
  <2>2. \A s : Rest!Status(s).status = s
    BY DEF Rest!Status
  <2> QED BY <2>1, <2>2, RouterAnswers
<1>2. CASE ~HasMethod(r)
  BY <1>2 DEF Refusal, IsRouted
<1>3. CASE HasMethod(r) /\ ~IsRouted(r)
  BY <1>3 DEF Refusal, IsRouted
<1>4. CASE IsRouted(r)
  <2>1. Refusal(r) = IF ~Rest!Handles(Answer(r)) THEN Response(Answer(r).status, FALSE)
                     ELSE IF ~Deserializes(r) THEN Response("BadRequest", TRUE)
                     ELSE IF NeedsId(r) /\ StoullThrows(IdOf(r))
                     THEN Response("InternalServerError", TRUE)
                     ELSE Response("called", FALSE)
    BY <1>4 DEF Refusal, IsRouted
  <2> QED BY <1>1, <2>1
<1> QED BY <1>2, <1>3, <1>4

(* A storage is called for what the request asks. *)
LEMMA CallsFit ==
  ASSUME order \in SetToSeqs(DOMAIN Routes), NEW r, Refusal(r).status = "called"
  PROVE  CallOf(r, StorageCall(r))
<1>1. /\ Rest!Handles(Answer(r)) /\ Deserializes(r)
      /\ NeedsId(r) => ~StoullThrows(IdOf(r))
  BY RefusalsAreErrors
<1>2. CASE Handler(r) = "GetTasks" /\ r.method = "Get"
  BY <1>2 DEF CallOf, StorageCall
<1>3. CASE Handler(r) = "CreateTask" /\ r.method = "Post"
  BY <1>1, <1>3 DEF CallOf, StorageCall, Deserializes
<1>4. CASE Handler(r) = "GetTask" /\ r.method = "Get"
  BY <1>4 DEF CallOf, StorageCall
<1>5. CASE Handler(r) = "DeleteTask" /\ r.method = "Delete" /\ IdOf(r) = r.words[2]
  <2>1. StorageCall(r) = [op |-> "DeleteTask", index |-> Stoull(r.words[2])]
    BY <1>5 DEF StorageCall
  <2>2. ~StoullThrows(r.words[2])
    BY <1>1, <1>5 DEF NeedsId
  <2> QED BY <1>5, <2>1, <2>2 DEF CallOf
<1> QED BY <1>1, <1>2, <1>3, <1>4, <1>5, HandlerOfMethod

(* What stoull makes of a word is the id that the word names. *)
LEMMA StoullNames ==
  ASSUME NEW word, ~StoullThrows(word)
  PROVE  Names(word, Stoull(word))
<1> DEFINE number == Numerals[word]
<1>1. number.negative \in BOOLEAN /\ number.value \in Nat /\ number.value < IdRange
  BY NumeralsAssumption DEF StoullThrows
<1>2. Stoull(word) = IF number.negative /\ number.value # 0
                     THEN IdRange - number.value ELSE number.value
  BY DEF Stoull
<1>3. Names(word, Stoull(word)) <=>
        /\ number.value < IdRange
        /\ IF number.negative THEN Stoull(word) + number.value \in {0, IdRange}
                              ELSE Stoull(word) = number.value
  BY DEF Names
<1> HIDE DEF number
<1> QED BY <1>1, <1>2, <1>3, NumeralsAssumption

-----------------------------------------------------------------------------
(* The inductive invariant, seen session by session.                       *)

Stages == {"none", "reading", "routing", "handling", "writing", "failed"}

Arrays ==
  /\ stage \in [Sessions -> Stages]
  /\ request \in [Sessions -> Requests \cup {NoRequest}]
  /\ DOMAIN phase = Sessions /\ DOMAIN call = Sessions /\ DOMAIN out = Sessions
  /\ DOMAIN response = Sessions /\ DOMAIN effect = Sessions

Shared ==
  /\ \A t \in tasks : t.id \in 0..(nextId - 1) /\ t.payload \in Payloads
  /\ \A t, u \in tasks : t.id = u.id => t = u
  /\ nextId \in Nat
  /\ order \in SetToSeqs(DOMAIN Routes)
  /\ expired \subseteq Sessions /\ short \subseteq Sessions

SessionInv(s) ==
  /\ stage[s] # "handling" => phase[s] = "idle"
  /\ response[s].status \in Statuses \cup {"none"}
  /\ stage[s] = "writing" =>
       TellsTheEffect(request[s], response[s], effect[s], s \in short)
  /\ \A t \in effect[s] : t.id \in 0..(nextId - 1)
  /\ stage[s] \in {"none", "failed", "reading", "routing"} => effect[s] = {}
  /\ stage[s] = "handling" => InCall(s)

LEMMA IInvBySession == IInv <=> Arrays /\ Shared /\ \A s \in Sessions : SessionInv(s)
<1>1. {DOMAIN phase, DOMAIN call, DOMAIN out, DOMAIN response, DOMAIN effect} = {Sessions}
       <=> /\ DOMAIN phase = Sessions /\ DOMAIN call = Sessions /\ DOMAIN out = Sessions
           /\ DOMAIN response = Sessions /\ DOMAIN effect = Sessions
  OBVIOUS
<1> QED BY <1>1 DEF IInv, TypeOK, StatusTellsTheEffect, EffectInv, Arrays, Shared,
                    SessionInv, Stages

LEMMA IInvBySessionNext ==
  Arrays' /\ Shared' /\ (\A s \in Sessions : SessionInv(s)') => IInv'
<1>1. DOMAIN phase' = Sessions /\ DOMAIN call' = Sessions /\ DOMAIN out' = Sessions
        /\ DOMAIN response' = Sessions /\ DOMAIN effect' = Sessions
      => {DOMAIN phase, DOMAIN call, DOMAIN out, DOMAIN response, DOMAIN effect}' = {Sessions}
  OBVIOUS
<1> QED BY <1>1 DEF IInv, TypeOK, StatusTellsTheEffect, EffectInv, Arrays, Shared,
                    SessionInv, Stages

(* Nothing of session d changes. *)
Same(d) ==
  /\ stage'[d] = stage[d] /\ request'[d] = request[d] /\ response'[d] = response[d]
  /\ effect'[d] = effect[d] /\ (d \in short' <=> d \in short)
  /\ phase'[d] = phase[d] /\ call'[d] = call[d] /\ out'[d] = out[d]

(* Only new ids come into the storage. *)
IdsGoOn == nextId <= nextId' /\ \A t \in tasks' \ tasks : t.id \notin 0..(nextId - 1)

LEMMA OthersKeepIInv ==
  ASSUME IInv, NEW s \in Sessions,
         Arrays', Shared', SessionInv(s)', IdsGoOn,
         \A d \in Sessions \ {s} : Same(d)
  PROVE  IInv'
<1>1. Shared /\ \A d \in Sessions : SessionInv(d)
  BY IInvBySession
<1>2. ASSUME NEW d \in Sessions \ {s} PROVE SessionInv(d)'
  <2>1. SessionInv(d) /\ Same(d)
    BY <1>1, <1>2
  <2>2. ASSUME NEW t \in effect[d] PROVE t.id \in 0..(nextId' - 1) /\ (t \notin tasks => t \notin tasks')
    BY <1>1, <2>1, <2>2 DEF SessionInv, IdsGoOn, Shared
  <2>3. stage[d] = "writing" =>
          TellsTheEffect(request[d], response[d], effect[d], d \in short)'
    BY <2>1, <2>2 DEF SessionInv, Same, TellsTheEffect
  <2>4. stage[d] = "handling" => InCall(d)'
    BY <2>1, <2>2 DEF SessionInv, Same, InCall
  <2> QED BY <2>1, <2>2, <2>3, <2>4 DEF SessionInv, Same
<1> QED BY <1>2, IInvBySessionNext

LEMMA InitIInv == Init => IInv
<1> SUFFICES ASSUME Init PROVE IInv
  OBVIOUS
<1>1. Arrays /\ Shared
  BY DEF Init, Store!Init, Arrays, Shared, Stages
<1>2. ASSUME NEW s \in Sessions PROVE SessionInv(s)
  BY DEF Init, Store!Init, SessionInv, NoResponse
<1> QED BY <1>1, <1>2, IInvBySession

-----------------------------------------------------------------------------
(* Every action keeps the invariant.                                       *)

(* Nothing of the storage, nor of what other sessions ran into, changes,   *)
(* but for the call of session s.                                          *)
OthersStay(s) ==
  /\ DOMAIN phase' = Sessions /\ DOMAIN call' = Sessions /\ DOMAIN out' = Sessions
  /\ \A d \in Sessions \ {s} :
       phase'[d] = phase[d] /\ call'[d] = call[d] /\ out'[d] = out[d]
  /\ short' \in {short, short \cup {s}, short \ {s}}

LEMMA SameStorage ==
  ASSUME Arrays, NEW s \in Sessions, UNCHANGED storage,
         short' \in {short, short \cup {s}, short \ {s}}
  PROVE  OthersStay(s) /\ UNCHANGED <<tasks, nextId>> /\ phase'[s] = phase[s]
BY DEF Arrays, storage, OthersStay

(* To the top of the loop, or out of it. *)
LEMMA LoopKeepsIInv ==
  ASSUME IInv, NEW s \in Sessions, NEW to \in {"none", "failed", "reading"},
         Goto(s, to), Forgets(s), phase'[s] = "idle", OthersStay(s),
         UNCHANGED <<tasks, nextId, order>>
  PROVE  IInv'
<1>1. Arrays /\ Shared /\ SessionInv(s)
  BY IInvBySession
<1>2. Arrays' /\ Shared' /\ IdsGoOn
  BY <1>1 DEF OthersStay, Arrays, Shared, Goto, Forgets, Stages, IdsGoOn
<1>3. SessionInv(s)'
  BY <1>1 DEF OthersStay, Arrays, SessionInv, Goto, Forgets, NoResponse
<1>4. \A d \in Sessions \ {s} : Same(d)
  BY <1>1 DEF OthersStay, Arrays, Same, Goto, Forgets
<1> QED BY <1>2, <1>3, <1>4, OthersKeepIInv

(* A response that tells the effect of its request is written or dropped. *)
LEMMA RespondKeepsIInv ==
  ASSUME IInv, NEW s \in Sessions, NEW res, Respond(s, res),
         res.status \in Statuses,
         TellsTheEffect(request[s], res, effect[s], s \in short'),
         phase'[s] = "idle", OthersStay(s),
         UNCHANGED <<tasks, nextId, order>>
  PROVE  IInv'
<1>1. Arrays /\ Shared /\ SessionInv(s)
  BY IInvBySession
<1>2. CASE Throws(s)
  BY <1>2, LoopKeepsIInv DEF Throws
<1>3. CASE /\ Goto(s, "writing")
           /\ response' = [response EXCEPT ![s] = res]
           /\ UNCHANGED <<request, expired, effect>>
  <2>1. Arrays' /\ Shared' /\ IdsGoOn
    BY <1>1, <1>3 DEF OthersStay, Arrays, Shared, Goto, Stages, IdsGoOn
  <2>2. SessionInv(s)'
    <3>1. /\ stage'[s] = "writing" /\ phase'[s] = "idle" /\ response'[s] = res
          /\ request'[s] = request[s] /\ effect'[s] = effect[s]
      BY <1>1, <1>3 DEF OthersStay, Arrays, Goto
    <3>2. TellsTheEffect(request[s], response[s], effect[s], s \in short)'
      BY <3>1 DEF TellsTheEffect
    <3> QED BY <1>1, <3>1, <3>2 DEF SessionInv
  <2>3. \A d \in Sessions \ {s} : Same(d)
    BY <1>1, <1>3 DEF OthersStay, Arrays, Same, Goto
  <2> QED BY <2>1, <2>2, <2>3, OthersKeepIInv
<1> QED BY <1>2, <1>3 DEF Respond

LEMMA ReadKeepsIInv ==
  ASSUME IInv, NEW s \in Sessions, NEW r \in Requests, Read(s, r)
  PROVE  IInv'
<1>1. Arrays /\ Shared /\ SessionInv(s)
  BY IInvBySession
<1>2. Arrays' /\ Shared' /\ IdsGoOn
  BY <1>1 DEF Arrays, Shared, Read, Goto, storage, Stages, IdsGoOn
<1>3. SessionInv(s)'
  BY <1>1 DEF Arrays, SessionInv, Read, Goto, storage
<1>4. \A d \in Sessions \ {s} : Same(d)
  BY <1>1 DEF Arrays, Same, Read, Goto, storage
<1> QED BY <1>2, <1>3, <1>4, OthersKeepIInv

LEMMA CallHandlerKeepsIInv ==
  ASSUME IInv, NEW s \in Sessions, CallHandler(s)
  PROVE  IInv'
<1>1. Arrays /\ Shared /\ SessionInv(s)
  BY IInvBySession
<1>2. Arrays' /\ Shared' /\ IdsGoOn
  BY <1>1 DEF Arrays, Shared, CallHandler, Goto, Store!Invoke, Stages, IdsGoOn
<1>3. SessionInv(s)'
  <2>1. /\ stage'[s] = "handling" /\ phase'[s] = "called"
        /\ call'[s] = StorageCall(request[s])
        /\ request' = request /\ effect' = effect /\ response' = response
    BY <1>1 DEF Arrays, CallHandler, Goto, Store!Invoke
  <2>2. CallOf(request[s], StorageCall(request[s]))
    BY <1>1, CallsFit DEF Shared, CallHandler
  <2>3. effect[s] = {}
    BY <1>1 DEF SessionInv, CallHandler
  <2>4. InCall(s)'
    BY <2>1, <2>2, <2>3 DEF InCall
  <2> QED BY <1>1, <2>1, <2>3, <2>4 DEF SessionInv
<1>4. \A d \in Sessions \ {s} : Same(d)
  BY <1>1 DEF Arrays, Same, CallHandler, Goto, Store!Invoke
<1> QED BY <1>2, <1>3, <1>4, OthersKeepIInv

LEMMA RefuseKeepsIInv ==
  ASSUME IInv, NEW s \in Sessions, Refuse(s)
  PROVE  IInv'
<1>1. Arrays /\ Shared /\ SessionInv(s)
  BY IInvBySession
<1> DEFINE res == Refusal(request[s])
<1>2. res.status \in {"BadRequest", "NotFound", "MethodNotAllowed", "InternalServerError"}
  BY <1>1, RefusalsAreErrors DEF Shared, Refuse
<1>3. stage[s] = "routing" /\ effect[s] = {} /\ phase[s] = "idle"
  BY <1>1 DEF SessionInv, Refuse
<1>4. Respond(s, res) /\ UNCHANGED <<storage, order, short>>
  BY DEF Refuse
<1> HIDE DEF res
<1>5. TellsTheEffect(request[s], res, effect[s], s \in short')
  BY <1>2, <1>3 DEF TellsTheEffect
<1>6. phase'[s] = "idle" /\ OthersStay(s) /\ UNCHANGED <<tasks, nextId, order>>
  BY <1>1, <1>3, <1>4, SameStorage
<1> QED BY <1>2, <1>4, <1>5, <1>6, RespondKeepsIInv DEF Statuses

(* What a call has done so far is what its request may do. *)
LEMMA CallsDoWhatTheyShould ==
  ASSUME NEW s \in Sessions, InCall(s)
  PROVE  /\ \A t, u \in effect[s] : t = u
         /\ request[s].method = "Get" => effect[s] = {}
         /\ request[s].method = "Delete" =>
              \A t \in effect[s] : Names(request[s].words[2], t.id) /\ t \notin tasks
<1>1. CallOf(request[s], call[s])
  BY DEF InCall
<1>2. CASE request[s].method = "Get"
  BY <1>1, <1>2 DEF InCall, CallOf
<1>3. ASSUME request[s].method = "Delete", NEW t \in effect[s]
      PROVE  Names(request[s].words[2], t.id) /\ t \notin tasks
  <2>1. /\ call[s].op = "DeleteTask" /\ ~StoullThrows(request[s].words[2])
        /\ call[s].index = Stoull(request[s].words[2])
    BY <1>1, <1>3 DEF CallOf
  <2> QED BY <1>3, <2>1, StoullNames DEF InCall
<1> QED BY <1>2, <1>3 DEF InCall

LEMMA HandlerReturnsKeepsIInv ==
  ASSUME IInv, NEW s \in Sessions, HandlerReturns(s)
  PROVE  IInv'
<1>1. Arrays /\ Shared /\ SessionInv(s)
  BY IInvBySession
<1> DEFINE r == request[s]
           res == Reply(s)
<1>2. InCall(s) /\ phase[s] \in {"done", "failed"} /\ short' = short
  BY <1>1 DEF SessionInv, HandlerReturns, Store!Return
<1>3. res.status \in Statuses /\ TellsTheEffect(r, res, effect[s], s \in short')
  <2>1. CASE phase[s] = "failed"
    <3>1. res.status = "InternalServerError" /\ s \in short
      BY <1>2, <2>1 DEF Reply, Response, InCall
    <3> QED BY <1>2, <3>1, CallsDoWhatTheyShould DEF TellsTheEffect, Statuses
  <2>2. CASE phase[s] = "done" /\ r.accept = "plain"
    <3>1. res.status = "BadRequest"
      BY <2>2 DEF Reply, Response
    <3> QED BY <1>2, <2>2, <3>1, CallsDoWhatTheyShould DEF TellsTheEffect, Statuses
  <2>3. CASE phase[s] = "done" /\ r.accept # "plain"
    <3>1. res = [status |-> IF call[s].op = "GetTask" /\ out[s] = <<>> THEN "NoContent" ELSE "Ok",
                 text |-> TRUE, body |-> out[s]]
      BY <2>3 DEF Reply
    <3>2. /\ res.status \in {"NoContent", "Ok"} /\ res.body = out[s]
          /\ res.status = "NoContent" => call[s].op = "GetTask"
      BY <3>1
    <3> HIDE DEF res
    <3>3. res.status # "Ok" => effect[s] = {}
      BY <1>2, <3>2 DEF InCall
    <3>4. r.method = "Post" => \E t \in effect[s] : res.body = <<t>> /\ t.payload = r.body
      BY <1>2, <2>3, <3>2 DEF InCall, CallOf
    <3> QED BY <1>2, <3>2, <3>3, <3>4, CallsDoWhatTheyShould DEF TellsTheEffect, Statuses
  <2> QED BY <1>2, <2>1, <2>2, <2>3
<1>4. Respond(s, res) /\ UNCHANGED <<tasks, nextId, order>>
  BY DEF HandlerReturns, Store!Return
<1>5. phase'[s] = "idle" /\ OthersStay(s)
  BY <1>1 DEF HandlerReturns, Store!Return, Arrays, OthersStay
<1> QED BY <1>3, <1>4, <1>5, RespondKeepsIInv

LEMMA RunsShortKeepsIInv ==
  ASSUME IInv, NEW s \in Sessions, RunsShort(s)
  PROVE  IInv'
<1>1. Arrays /\ Shared /\ SessionInv(s)
  BY IInvBySession
<1>2. short' = short \cup {s} /\ UNCHANGED order
  BY DEF RunsShort
<1>3. /\ phase'[s] = "idle" /\ OthersStay(s) /\ UNCHANGED <<tasks, nextId>>
      /\ \A t, u \in effect[s] : t = u
      /\ request[s].method = "Get" => effect[s] = {}
      /\ request[s].method = "Delete" =>
           \A t \in effect[s] : Names(request[s].words[2], t.id) /\ t \notin tasks
  <2>1. CASE stage[s] = "routing" /\ UNCHANGED storage
    <3>1. phase[s] = "idle" /\ effect[s] = {}
      BY <1>1, <2>1 DEF SessionInv
    <3> QED BY <1>1, <1>2, <2>1, <3>1, SameStorage
  <2>2. CASE stage[s] = "handling" /\ Store!Return(s)
    <3>1. InCall(s)
      BY <1>1, <2>2 DEF SessionInv
    <3>2. phase'[s] = "idle" /\ OthersStay(s) /\ UNCHANGED <<tasks, nextId>>
      BY <1>1, <1>2, <2>2 DEF Store!Return, Arrays, OthersStay
    <3> QED BY <3>1, <3>2, CallsDoWhatTheyShould
  <2> QED BY <2>1, <2>2 DEF RunsShort
<1>4. CASE Throws(s)
  BY <1>2, <1>3, <1>4, LoopKeepsIInv DEF Throws
<1>5. ASSUME NEW status \in CaughtAs(s), Respond(s, Response(status, TRUE)) PROVE IInv'
  <2> DEFINE res == Response(status, TRUE)
  <2>1. res.status \in {"BadRequest", "InternalServerError"}
    BY <1>5 DEF CaughtAs, Response
  <2>2. Respond(s, res)
    BY <1>5
  <2> HIDE DEF res
  <2>3. TellsTheEffect(request[s], res, effect[s], s \in short')
    BY <1>2, <1>3, <2>1 DEF TellsTheEffect
  <2> QED BY <1>2, <1>3, <2>1, <2>2, <2>3, RespondKeepsIInv DEF Statuses
<1> QED BY <1>4, <1>5 DEF RunsShort

(* The call of s ends, and has changed only what it should. *)
LEMMA FinishedCallKeepsIInv ==
  ASSUME IInv, NEW s \in Sessions,
         stage[s] = "handling", UNCHANGED <<order, stage, request, response, expired>>,
         OthersStay(s), call' = call, Shared', IdsGoOn,
         DOMAIN effect' = Sessions, \A d \in Sessions \ {s} : effect'[d] = effect[d],
         \A t \in effect'[s] : t.id \in 0..(nextId' - 1),
         InCall(s)'
  PROVE  IInv'
<1>1. Arrays /\ SessionInv(s)
  BY IInvBySession
<1>2. Arrays'
  BY <1>1 DEF Arrays, OthersStay
<1>3. SessionInv(s)'
  BY <1>1 DEF SessionInv
<1>4. \A d \in Sessions \ {s} : Same(d)
  BY <1>1 DEF Same, OthersStay
<1> QED BY <1>2, <1>3, <1>4, OthersKeepIInv

LEMMA StorageActsKeepsIInv ==
  ASSUME IInv, NEW s \in Sessions, StorageActs(s)
  PROVE  IInv'
<1>1. Arrays /\ Shared /\ SessionInv(s)
  BY IInvBySession
<1>2. /\ stage[s] = "handling" /\ InCall(s)
      /\ effect' = [effect EXCEPT ![s] = @ \cup (tasks \ tasks') \cup (tasks' \ tasks)]
      /\ short' = IF phase'[s] = "failed" THEN short \cup {s} ELSE short
      /\ UNCHANGED <<order, stage, request, response, expired>>
  BY <1>1 DEF StorageActs, SessionInv
<1>3. /\ DOMAIN effect' = Sessions /\ \A d \in Sessions \ {s} : effect'[d] = effect[d]
      /\ effect'[s] = effect[s] \cup (tasks \ tasks') \cup (tasks' \ tasks)
  BY <1>1, <1>2 DEF Arrays
<1>4. CASE Store!CreateTask(s)
  <2> DEFINE task == [id |-> nextId, payload |-> call[s].payload]
  <2>1. /\ call[s].op = "CreateTask" /\ phase[s] = "called"
        /\ phase' = [phase EXCEPT ![s] = "done"] /\ out' = [out EXCEPT ![s] = <<task>>]
        /\ call' = call /\ tasks' = tasks \cup {task} /\ nextId' = nextId + 1
    BY <1>4 DEF Store!CreateTask, Store!Finish
  <2>2. task.payload = request[s].body /\ task.payload \in Payloads /\ task.id = nextId
    BY <1>2, <2>1 DEF InCall, CallOf
  <2>3. /\ phase'[s] = "done" /\ out'[s] = <<task>> /\ short' = short
        /\ request'[s] = request[s] /\ call'[s] = call[s]
    BY <1>1, <1>2, <2>1 DEF Arrays
  <2>4. OthersStay(s)
    BY <1>1, <2>1, <2>3 DEF Arrays, OthersStay
  <2> HIDE DEF task
  <2>5. task \notin tasks /\ IdsGoOn
    BY <1>1, <2>1, <2>2 DEF Shared, IdsGoOn
  <2>6. effect'[s] = {task}
    BY <1>2, <1>3, <2>1, <2>5 DEF InCall
  <2>7. Shared'
    BY <1>1, <1>2, <2>1, <2>2, <2>3 DEF Shared
  <2>8. \A t \in effect'[s] : t.id \in 0..(nextId' - 1)
    BY <1>1, <2>1, <2>2, <2>6 DEF Shared
  <2>9. InCall(s)'
    <3>1. CallOf(request'[s], call'[s])
      BY <1>2, <2>3 DEF InCall
    <3> QED BY <2>1, <2>2, <2>3, <2>6, <3>1 DEF InCall
  <2> QED BY <1>2, <1>3, <2>1, <2>4, <2>5, <2>7, <2>8, <2>9, FinishedCallKeepsIInv
<1>5. CASE Store!DeleteTask(s)
  <2>1. /\ call[s].op = "DeleteTask" /\ phase[s] = "called"
        /\ phase' = [phase EXCEPT ![s] = "done"] /\ out' = [out EXCEPT ![s] = <<>>]
        /\ call' = call /\ tasks' = {t \in tasks : t.id # call[s].index} /\ nextId' = nextId
    BY <1>5 DEF Store!DeleteTask, Store!Finish
  <2>2. phase'[s] = "done" /\ request'[s] = request[s] /\ call'[s] = call[s] /\ short' = short
    BY <1>1, <1>2, <2>1 DEF Arrays
  <2>3. OthersStay(s) /\ Shared' /\ IdsGoOn
    BY <1>1, <1>2, <2>1, <2>2 DEF Arrays, OthersStay, Shared, IdsGoOn
  <2>4. effect'[s] = {t \in tasks : t.id = call[s].index}
    BY <1>2, <1>3, <2>1 DEF InCall
  <2>5. \A t \in effect'[s] : t.id \in 0..(nextId' - 1)
    BY <1>1, <2>1, <2>4 DEF Shared
  <2>6. InCall(s)'
    <3>1. CallOf(request'[s], call'[s])
      BY <1>2, <2>2 DEF InCall
    <3>2. /\ \A t, u \in effect'[s] : t = u
          /\ \A t \in effect'[s] : t.id = call'[s].index /\ t \notin tasks'
      BY <1>1, <2>1, <2>2, <2>4 DEF Shared
    <3> QED BY <2>1, <2>2, <3>1, <3>2 DEF InCall
  <2> QED BY <1>2, <1>3, <2>1, <2>3, <2>5, <2>6, FinishedCallKeepsIInv
<1>6. CASE Store!GetTask(s) \/ Store!GetTasks(s)
  <2>1. /\ call[s].op \in {"GetTask", "GetTasks"} /\ phase[s] = "called"
        /\ phase' = [phase EXCEPT ![s] = "done"]
        /\ \E result : out' = [out EXCEPT ![s] = result]
        /\ call' = call /\ tasks' = tasks /\ nextId' = nextId
    BY <1>6 DEF Store!GetTask, Store!GetTasks, Store!Finish
  <2>2. phase'[s] = "done" /\ request'[s] = request[s] /\ call'[s] = call[s] /\ short' = short
    BY <1>1, <1>2, <2>1 DEF Arrays
  <2>3. OthersStay(s) /\ Shared' /\ IdsGoOn
    BY <1>1, <1>2, <2>1, <2>2 DEF Arrays, OthersStay, Shared, IdsGoOn
  <2>4. effect'[s] = {}
    BY <1>2, <1>3, <2>1 DEF InCall
  <2>5. InCall(s)'
    <3>1. CallOf(request'[s], call'[s])
      BY <1>2, <2>2 DEF InCall
    <3> QED BY <2>1, <2>2, <2>4, <3>1 DEF InCall
  <2> QED BY <1>2, <1>3, <2>1, <2>3, <2>4, <2>5, FinishedCallKeepsIInv
<1>7. CASE Store!Fail(s)
  <2>1. /\ call[s].op # "DeleteTask" /\ phase[s] = "called"
        /\ phase' = [phase EXCEPT ![s] = "failed"] /\ out' = out
        /\ call' = call /\ tasks' = tasks /\ nextId' \in {nextId, nextId + 1}
    BY <1>7 DEF Store!Fail
  <2>2. /\ phase'[s] = "failed" /\ request'[s] = request[s] /\ call'[s] = call[s]
        /\ short' = short \cup {s}
    BY <1>1, <1>2, <2>1 DEF Arrays
  <2>3. OthersStay(s)
    BY <1>1, <2>1, <2>2 DEF Arrays, OthersStay
  <2>4. Shared' /\ IdsGoOn
    BY <1>1, <1>2, <2>1, <2>2 DEF Shared, IdsGoOn
  <2>5. effect'[s] = {}
    BY <1>2, <1>3, <2>1 DEF InCall
  <2>6. InCall(s)'
    <3>1. CallOf(request'[s], call'[s])
      BY <1>2, <2>2 DEF InCall
    <3> QED BY <2>1, <2>2, <2>5, <3>1 DEF InCall
  <2> QED BY <1>2, <1>3, <2>1, <2>3, <2>4, <2>5, <2>6, FinishedCallKeepsIInv
<1>8. CASE Store!Lose(s)
  <2>1. /\ call[s].op = "CreateTask" /\ phase[s] = "done"
        /\ phase' = [phase EXCEPT ![s] = "failed"] /\ out' = [out EXCEPT ![s] = <<>>]
        /\ call' = call /\ tasks' = tasks /\ nextId' = nextId
    BY <1>8 DEF Store!Lose
  <2>2. /\ phase'[s] = "failed" /\ request'[s] = request[s] /\ call'[s] = call[s]
        /\ short' = short \cup {s}
    BY <1>1, <1>2, <2>1 DEF Arrays
  <2>3. OthersStay(s) /\ Shared' /\ IdsGoOn
    BY <1>1, <1>2, <2>1, <2>2 DEF Arrays, OthersStay, Shared, IdsGoOn
  <2>4. effect'[s] = effect[s]
    BY <1>3, <2>1
  <2>5. \A t \in effect'[s] : t.id \in 0..(nextId' - 1)
    BY <1>1, <2>1, <2>4 DEF SessionInv
  <2>6. InCall(s)'
    <3>1. CallOf(request'[s], call'[s])
      BY <1>2, <2>2 DEF InCall
    <3> QED BY <1>2, <2>1, <2>2, <2>4, <3>1 DEF InCall
  <2> QED BY <1>2, <1>3, <2>1, <2>3, <2>5, <2>6, FinishedCallKeepsIInv
<1> QED BY <1>4, <1>5, <1>6, <1>7, <1>8 DEF StorageActs

LEMMA NextIInv == IInv /\ [Next]_vars => IInv'
<1> SUFFICES ASSUME IInv, [Next]_vars PROVE IInv'
  OBVIOUS
<1>0. Arrays /\ Shared /\ \A d \in Sessions : SessionInv(d)
  BY IInvBySession
<1>1. CASE UNCHANGED vars
  <2>1. Arrays' /\ Shared'
    BY <1>0, <1>1 DEF Arrays, Shared, vars, storage
  <2>2. ASSUME NEW d \in Sessions PROVE SessionInv(d)'
    BY <1>0, <1>1 DEF SessionInv, vars, storage, InCall, TellsTheEffect
  <2> QED BY <2>1, <2>2, IInvBySessionNext
<1>2. ASSUME NEW s \in Sessions, Connect(s) \/ Write(s) \/ Fails(s) PROVE IInv'
  <2>1. PICK to \in {"none", "failed", "reading"} : Goto(s, to)
    BY <1>2 DEF Connect, Write, Fails, StartsReading, Ends, Throws
  <2>2. Forgets(s) /\ UNCHANGED <<storage, order>> /\ short' \in {short, short \cup {s}, short \ {s}}
    BY <1>2 DEF Connect, Write, Fails, StartsReading, Ends, Throws
  <2>3. phase[s] = "idle"
    BY <1>0, <1>2 DEF SessionInv, Connect, Over, Write, Fails
  <2> QED BY <1>0, <2>1, <2>2, <2>3, SameStorage, LoopKeepsIInv
<1>3. ASSUME NEW s \in Sessions, Expire(s) PROVE IInv'
  <2>1. Arrays' /\ Shared'
    BY <1>0, <1>3 DEF Arrays, Shared, Expire, storage
  <2>2. ASSUME NEW d \in Sessions PROVE SessionInv(d)'
    BY <1>0, <1>3 DEF SessionInv, Expire, storage, InCall, TellsTheEffect
  <2> QED BY <2>1, <2>2, IInvBySessionNext
<1>4. ASSUME NEW s \in Sessions, Prepare(s) PROVE IInv'
  BY <1>4, RefuseKeepsIInv, CallHandlerKeepsIInv, StorageActsKeepsIInv,
     HandlerReturnsKeepsIInv, RunsShortKeepsIInv DEF Prepare
<1>5. ASSUME NEW s \in Sessions, NEW r \in Requests, Read(s, r) PROVE IInv'
  BY <1>5, ReadKeepsIInv
<1> QED BY <1>1, <1>2, <1>3, <1>4, <1>5 DEF Next, TimesOut

(* The inductive invariant: for as long as a session is at a request, the  *)
(* effect of the request is what the one call it made has done.            *)
THEOREM Invariance == Spec => []IInv
<1> QED BY InitIInv, NextIInv, PTL DEF Spec

(* Every variable stays in its type, and only a session whose handler runs *)
(* has a call in the storage.                                              *)
THEOREM TypeCorrectness == Spec => []TypeOK
<1>1. IInv => TypeOK
  BY DEF IInv
<1> QED BY <1>1, Invariance, PTL

(* What a client may conclude from the answer to its request is true,      *)
(* whatever the other sessions do meanwhile and wherever memory runs out.  *)
THEOREM StatusesAreTrue == Spec => []StatusTellsTheEffect
<1>1. IInv => StatusTellsTheEffect
  BY DEF IInv
<1> QED BY <1>1, Invariance, PTL

(* No POST, no GET and no DELETE of another path removes a task.           *)
THEOREM NoStrayDelete == Spec => DeletesNameTheirPath
<1>1. IInv /\ [Next]_vars =>
        [\A t \in tasks \ tasks' : \E s \in Sessions :
           /\ stage[s] = "handling" /\ request[s].method = "Delete"
           /\ Names(request[s].words[2], t.id)]_vars
  <2> SUFFICES ASSUME IInv, Next, NEW t \in tasks \ tasks'
               PROVE  \E s \in Sessions :
                        /\ stage[s] = "handling" /\ request[s].method = "Delete"
                        /\ Names(request[s].words[2], t.id)
    OBVIOUS
  <2>1. PICK s \in Sessions : StorageActs(s)
    BY DEF Next, Connect, Write, Fails, Expire, TimesOut, Prepare, Read, Refuse,
           CallHandler, HandlerReturns, RunsShort, Store!Invoke, Store!Return, storage
  <2>2. Store!DeleteTask(s)
    BY <2>1 DEF StorageActs, Store!CreateTask, Store!GetTask, Store!GetTasks,
                Store!Fail, Store!Lose
  <2>3. stage[s] = "handling" /\ call[s].op = "DeleteTask" /\ t.id = call[s].index
    BY <2>1, <2>2 DEF StorageActs, Store!DeleteTask
  <2>4. CallOf(request[s], call[s])
    BY <2>3, IInvBySession DEF SessionInv, InCall
  <2>5. /\ request[s].method = "Delete" /\ ~StoullThrows(request[s].words[2])
        /\ t.id = Stoull(request[s].words[2])
    BY <2>3, <2>4 DEF CallOf
  <2> QED BY <2>3, <2>5, StoullNames
<1> QED BY <1>1, Invariance, PTL DEF Spec, DeletesNameTheirPath

(* Of the requests that were read only the GET of a missing task goes      *)
(* without an answer, as long as memory lasts and the answer can be        *)
(* written: whatever else is refused, fails or cannot be serialized has    *)
(* one.                                                                    *)
THEOREM TheRestIsAnswered == Spec => OnlyMissingTasksGoUnanswered
<1>1. IInv /\ [Next]_vars =>
        [\A s \in Sessions : Unanswered(s) /\ ~Excused(s) =>
           call[s].op = "GetTask" /\ phase[s] = "done" /\ out[s] = <<>>]_vars
  <2> SUFFICES ASSUME IInv, Next, NEW s \in Sessions, Unanswered(s), ~Excused(s)
               PROVE  call[s].op = "GetTask" /\ phase[s] = "done" /\ out[s] = <<>>
    OBVIOUS
  <2>1. Arrays /\ Shared /\ SessionInv(s)
    BY IInvBySession
  <2>2. PICK d \in Sessions : \/ Connect(d) \/ Write(d) \/ Prepare(d) \/ Fails(d)
                              \/ Expire(d) \/ \E r \in Requests : Read(d, r)
    BY DEF Next, TimesOut
  <2>3. /\ stage'[s] = "failed" /\ stage[s] \in {"routing", "handling"}
        /\ s \notin short'
    BY DEF Unanswered, Excused
  <2>4. d = s
    BY <2>1, <2>2, <2>3 DEF Arrays, Connect, Write, Fails, Expire, Read, Prepare, Refuse,
         CallHandler, StorageActs, HandlerReturns, RunsShort, Respond, StartsReading, Ends,
         Throws, Goto
  <2>5. Refuse(s) \/ HandlerReturns(s)
    BY <2>1, <2>2, <2>3, <2>4 DEF Arrays, Connect, Over, Write, Fails, Expire, Read, Prepare,
         CallHandler, StorageActs, RunsShort, Goto
  <2>6. ASSUME NEW res, Respond(s, res) PROVE res.status = "NoContent"
    BY <2>1, <2>3, <2>6 DEF Respond, Goto, Arrays
  <2>7. ~Refuse(s)
    BY <2>1, <2>6, RefusalsAreErrors DEF Refuse, Shared
  <2>8. Reply(s).status = "NoContent"
    BY <2>5, <2>6, <2>7 DEF HandlerReturns
  <2>9. phase[s] \in {"done", "failed"}
    BY <2>5, <2>7 DEF HandlerReturns, Store!Return
  <2> QED BY <2>8, <2>9 DEF Reply, Response
<1> QED BY <1>1, Invariance, PTL DEF Spec, OnlyMissingTasksGoUnanswered
=============================================================================

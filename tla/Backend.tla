------------------------------ MODULE Backend ------------------------------
(***************************************************************************)
(* The running server: keep-alive sessions (DoSession), each one reading a *)
(* request, preparing its response on one of the server's threads and      *)
(* writing it back under one deadline; the router and the four routes of   *)
(* backend::StartServer; and the storage behind TasksManager, by its       *)
(* contract, DataStorage.                                                  *)
(***************************************************************************)
EXTENDS Integers, SequencesExt

CONSTANTS
  Sessions,    \* connections open at a time (a bound)
  NumThreads,  \* threads that run the io_context
  Payloads,    \* values of TaskPayload
  IdRange,     \* the number of values of size_t
  Numerals,    \* a function from the words stoull can parse to the records
               \* [negative, value] of what it reads there
  Requests,    \* what clients send
  MaxCreates   \* bound: no POST is read after this many ids

ASSUME NumThreadsAssumption == NumThreads \in Nat \ {0}
ASSUME NumeralsAssumption ==
  /\ IdRange \in Nat \ {0}
  /\ \A w \in DOMAIN Numerals : Numerals[w].negative \in BOOLEAN /\ Numerals[w].value \in Nat
ASSUME RequestsAssumption ==
  \A r \in Requests : r.words \in Seq(STRING) /\ r.query \in Seq(STRING \X STRING)

VARIABLES
  tasks, nextId, phase, call, out,  \* the storage, see DataStorage
  order,       \* the order the router's table is iterated in
  stage,       \* of each session: none, reading, routing, handling, writing,
               \* or failed once an exception has left it
  request,     \* the request each session read last
  response,    \* the response each session prepared last
  expired,     \* sessions whose deadline has passed
  effect,      \* the tasks the request each session read last has put into
               \* the storage or taken from it (history)
  short        \* sessions that have run out of memory at that request
               \* (history)

storage == <<tasks, nextId, phase, call, out>>
vars == <<storage, order, stage, request, response, expired, effect, short>>

Store == INSTANCE DataStorage WITH Callers <- Sessions, Indexes <- 0..(IdRange - 1)

(* router.AddRoute, four times *)
Tasks == <<[kind |-> "literal", text |-> "tasks"]>>
TaskById == Append(Tasks, [kind |-> "param", name |-> "id"])
Filled(handlers) == [named |-> TRUE, handlers |-> handlers]
Routes == [path \in {Tasks, TaskById} |->
  IF path = Tasks THEN Filled([Get |-> "GetTasks", Post |-> "CreateTask"])
                  ELSE Filled([Get |-> "GetTask", Delete |-> "DeleteTask"])]

Rest == INSTANCE Router WITH
  Paths <- DOMAIN Routes, Methods <- {"Get", "Post", "Delete"},
  Handlers <- {"GetTasks", "CreateTask", "GetTask", "DeleteTask"},
  MaxAdds <- 4, m_routes <- Routes, added <- <<>>

NoRequest == [method |-> "none"]
NoResponse == [status |-> "none"]

Init ==
  /\ Store!Init
  /\ order \in SetToSeqs(DOMAIN Routes)
  /\ stage = [s \in Sessions |-> "none"]
  /\ request = [s \in Sessions |-> NoRequest]
  /\ response = [s \in Sessions |-> NoResponse]
  /\ expired = {}
  /\ effect = [s \in Sessions |-> {}]
  /\ short = {}

Goto(s, to) == stage' = [stage EXCEPT ![s] = to]
Over(s) == stage[s] \in {"none", "failed"}

(* A thread is free to resume a session. *)
ThreadFree == Cardinality({s \in Sessions : stage[s] \in {"routing", "handling"}}) < NumThreads

-----------------------------------------------------------------------------
(* DoSession around the preparation of the response.                       *)

(* The request and the response are locals of the loop's body. *)
Forgets(s) ==
  /\ request' = [request EXCEPT ![s] = NoRequest]
  /\ response' = [response EXCEPT ![s] = NoResponse]
  /\ effect' = [effect EXCEPT ![s] = {}]
  /\ expired' = expired \ {s}

(* The top of the loop: stream.expires_after, then async_read. *)
StartsReading(s) == Goto(s, "reading") /\ Forgets(s) /\ short' = short \ {s}

(* The coroutine returns, or an exception leaves it. *)
Ends(s) == Goto(s, "none") /\ Forgets(s) /\ short' = short \ {s}
Throws(s) == Goto(s, "failed") /\ Forgets(s)

Connect(s) ==
  /\ Over(s)
  /\ StartsReading(s)
  /\ UNCHANGED <<storage, order>>

(* co_await http::async_read; the deadline is not moved. *)
Read(s, r) ==
  /\ stage[s] = "reading" /\ ThreadFree
  /\ r.method = "Post" => nextId < MaxCreates
  /\ Goto(s, "routing")
  /\ request' = [request EXCEPT ![s] = r]
  /\ UNCHANGED <<storage, order, response, expired, effect, short>>

(* co_await beast::async_write; then keep_alive decides. *)
Write(s) ==
  /\ stage[s] = "writing" /\ ThreadFree
  /\ IF request[s].keep_alive THEN StartsReading(s) ELSE Ends(s)
  /\ UNCHANGED <<storage, order>>

(* The read or the write fails, and the exception ends the session. *)
Fails(s) ==
  /\ stage[s] \in {"reading", "writing"} /\ ThreadFree
  /\ Throws(s)
  /\ UNCHANGED <<storage, order, short>>

(* Mistake: no deadline for the write. *)
Expire_ReadsOnly(s) ==
  /\ stage[s] = "reading"
  /\ s \notin expired
  /\ expired' = expired \cup {s}
  /\ UNCHANGED <<storage, order, stage, request, response, effect, short>>

(* 30 seconds after the top of the loop ... *)
Expire(s) ==
  /\ stage[s] \in {"reading", "writing"}
  /\ s \notin expired
  /\ expired' = expired \cup {s}
  /\ UNCHANGED <<storage, order, stage, request, response, effect, short>>

(* ... the operation under way fails, if it does not complete first. *)
TimesOut(s) == s \in expired /\ Fails(s)

(* Mistake: a response without a body is not sent either. *)
Respond_BodyRequired(s, res) ==
  IF res.status = "NoContent" \/ ~res.text
  THEN Throws(s)
  ELSE /\ Goto(s, "writing")
       /\ response' = [response EXCEPT ![s] = res]
       /\ UNCHANGED <<request, expired, effect>>

(* CreateResponse: prepare_payload throws when a NoContent response has a  *)
(* body, and the exception ends the session without an answer.             *)
Respond(s, res) ==
  /\ IF res.status = "NoContent" /\ res.text
     THEN Throws(s)
     ELSE /\ Goto(s, "writing")
          /\ response' = [response EXCEPT ![s] = res]
          /\ UNCHANGED <<request, expired, effect>>

-----------------------------------------------------------------------------
(* PrepareResponse.  A response has a body of tasks, and text TRUE if its  *)
(* body is not the empty string.                                           *)

Response(status, text) == [status |-> status, text |-> text, body |-> <<>>]

Known(content_type) == content_type \in {"json", "plain"}
HasMethod(r) == r.method \in {"Get", "Post", "Put", "Delete", "Patch", "Head", "Options"}

Answer(r) == Rest!Route(r)
Handler(r) == Answer(r).handler

(* DeSerialize of the argument, which only the POST handler has. *)
Deserializes(r) ==
  Handler(r) = "CreateTask" => r.content_type = "json" /\ r.body \in Payloads

(* std::stoull: reads as many digits as there are, takes a minus sign      *)
(* modulo 2^64, throws if there is no number or it is too large.           *)
Stoull(word) ==
  LET number == Numerals[word] IN
  IF number.negative /\ number.value # 0 THEN IdRange - number.value ELSE number.value
StoullThrows(word) == word \notin DOMAIN Numerals \/ Numerals[word].value >= IdRange

NeedsId(r) == Handler(r) \in {"GetTask", "DeleteTask"}
IdOf(r) == Answer(r).params["id"]

(* The request gets as far as Router::Route. *)
IsRouted(r) == HasMethod(r) /\ Known(r.content_type) /\ Known(r.accept)

(* What is answered without calling the storage; "called" if it is called. *)
Refusal(r) ==
  CASE ~HasMethod(r) -> Response("MethodNotAllowed", TRUE)
    [] HasMethod(r) /\ ~IsRouted(r) -> Response("BadRequest", TRUE)
    [] IsRouted(r) ->
         IF ~Rest!Handles(Answer(r)) THEN Response(Answer(r).status, FALSE)
         ELSE IF ~Deserializes(r) THEN Response("BadRequest", TRUE)
         ELSE IF NeedsId(r) /\ StoullThrows(IdOf(r))
         THEN Response("InternalServerError", TRUE)
         ELSE Response("called", FALSE)

Refuse(s) ==
  /\ stage[s] = "routing"
  /\ Refusal(request[s]).status # "called"
  /\ Respond(s, Refusal(request[s]))
  /\ UNCHANGED <<storage, order, short>>

(* The handler calls TasksManager, which forwards to its storage. *)
StorageCall(r) ==
  CASE Handler(r) = "GetTasks"   -> [op |-> "GetTasks"]
    [] Handler(r) = "CreateTask" -> [op |-> "CreateTask", payload |-> r.body]
    [] OTHER                     -> [op |-> Handler(r), index |-> Stoull(IdOf(r))]

CallHandler(s) ==
  /\ stage[s] = "routing"
  /\ Refusal(request[s]).status = "called"
  /\ Store!Invoke(s, StorageCall(request[s]))
  /\ Goto(s, "handling")
  /\ UNCHANGED <<order, request, response, expired, effect, short>>

(* The call takes effect, throws, or loses its result; what the storage    *)
(* throws is bad_alloc.                                                    *)
StorageActs(s) ==
  /\ stage[s] = "handling"
  /\ \/ Store!CreateTask(s) \/ Store!DeleteTask(s)
     \/ Store!GetTask(s) \/ Store!GetTasks(s)
     \/ Store!Fail(s) \/ Store!Lose(s)
  /\ effect' = [effect EXCEPT ![s] = @ \cup (tasks \ tasks') \cup (tasks' \ tasks)]
  /\ short' = IF phase'[s] = "failed" THEN short \cup {s} ELSE short
  /\ UNCHANGED <<order, stage, request, response, expired>>

(* Mistake: an exception of the handler is swallowed. *)
Reply_Swallows(s) ==
  IF request[s].accept = "plain" THEN Response("BadRequest", TRUE)
  ELSE [status |-> IF call[s].op = "GetTask" /\ out[s] = <<>> THEN "NoContent" ELSE "Ok",
        text |-> TRUE, body |-> out[s]]

(* What is made of the result: an exception is an InternalServerError, a   *)
(* result that cannot be serialized a BadRequest, and no task NoContent,   *)
(* whose body is the text of an empty optional.                            *)
Reply(s) ==
  IF phase[s] = "failed" THEN Response("InternalServerError", TRUE)
  ELSE IF request[s].accept = "plain" THEN Response("BadRequest", TRUE)
  ELSE [status |-> IF call[s].op = "GetTask" /\ out[s] = <<>> THEN "NoContent" ELSE "Ok",
        text |-> TRUE, body |-> out[s]]

HandlerReturns(s) ==
  /\ stage[s] = "handling"
  /\ Store!Return(s)
  /\ Respond(s, Reply(s))
  /\ UNCHANGED <<order, short>>

ReachesCreateTask(r) ==
  IsRouted(r) /\ Rest!Handles(Answer(r)) /\ Handler(r) = "CreateTask"

(* Where bad_alloc finds a catch that still makes an answer of it: around  *)
(* DeSerialize and around Serialize, which answer BadRequest, and if the   *)
(* text of that cannot be allocated either, around the handler in Route.   *)
CaughtAs(s) ==
  IF \/ stage[s] = "routing" /\ ReachesCreateTask(request[s])
     \/ stage[s] = "handling" /\ phase[s] = "done"
  THEN {"BadRequest", "InternalServerError"} ELSE {}

(* Memory runs out outside the storage: in the copies that PrepareResponse *)
(* makes for Route, in Route, around the handler, or in CreateResponse.    *)
(* The answer is then an error, or the exception leaves the session, also  *)
(* from a catch whose own text cannot be allocated.                        *)
RunsShort(s) ==
  /\ \/ stage[s] = "routing" /\ UNCHANGED storage
     \/ stage[s] = "handling" /\ Store!Return(s)
  /\ \/ Throws(s)
     \/ \E status \in CaughtAs(s) : Respond(s, Response(status, TRUE))
  /\ short' = short \cup {s}
  /\ UNCHANGED order

Prepare(s) ==
  Refuse(s) \/ CallHandler(s) \/ StorageActs(s) \/ HandlerReturns(s) \/ RunsShort(s)

Next ==
  \E s \in Sessions :
    \/ Connect(s) \/ Write(s) \/ Prepare(s)
    \/ Fails(s) \/ Expire(s) \/ TimesOut(s)
    \/ \E r \in Requests : Read(s, r)

Spec == Init /\ [][Next]_vars

-----------------------------------------------------------------------------
Statuses == {"Ok", "NoContent", "BadRequest", "NotFound", "MethodNotAllowed",
             "InternalServerError"}

TypeOK ==
  /\ \A t \in tasks : t.id \in 0..(nextId - 1) /\ t.payload \in Payloads
  /\ \A s \in Sessions : stage[s] # "handling" => phase[s] = "idle"
  /\ stage \in [Sessions -> {"none", "reading", "routing", "handling", "writing", "failed"}]
  /\ request \in [Sessions -> Requests \cup {NoRequest}]
  /\ \A s \in Sessions : response[s].status \in Statuses \cup {"none"}
  /\ expired \subseteq Sessions /\ short \subseteq Sessions

(* The word of a path names an id: they are the same number, or add up to  *)
(* a multiple of 2^64 if the word has a minus sign.                        *)
Names(word, id) ==
  LET number == Numerals[word] IN
  /\ number.value < IdRange
  /\ IF number.negative THEN id + number.value \in {0, IdRange} ELSE id = number.value

(* What a client may conclude from the answer to its request, whatever the *)
(* other sessions do: its request changed one task at most; a POST that is *)
(* answered Ok has stored exactly the task in the answer, with its own     *)
(* payload; a GET changed nothing; what a DELETE took out is the task its  *)
(* path names, and is gone for good; and any other answer than Ok means    *)
(* that nothing was stored or deleted, save in two cases: a result that    *)
(* cannot be had in the type the client accepts (BadRequest, after the     *)
(* fact), and one that was lost because memory ran out.                    *)
TellsTheEffect(r, answer, changes, ranShort) ==
  /\ \A t, u \in changes : t = u
  /\ r.method = "Get" => changes = {}
  /\ r.method = "Post" /\ answer.status = "Ok" =>
       \E t \in changes : answer.body = <<t>> /\ t.payload = r.body
  /\ r.method = "Delete" => \A t \in changes : Names(r.words[2], t.id) /\ t \notin tasks
  /\ answer.status # "Ok" /\ changes # {} =>
       \/ answer.status = "BadRequest" /\ (r.accept = "plain" \/ ranShort)
       \/ answer.status = "InternalServerError" /\ ranShort
StatusTellsTheEffect ==
  \A s \in Sessions : stage[s] = "writing" =>
    TellsTheEffect(request[s], response[s], effect[s], s \in short)

(* A task leaves the storage only under a DELETE whose path, not whose     *)
(* query, names its id.                                                    *)
DeletesNameTheirPath ==
  [][\A t \in tasks \ tasks' : \E s \in Sessions :
       /\ stage[s] = "handling" /\ request[s].method = "Delete"
       /\ Names(request[s].words[2], t.id)]_vars

(* A request that was read is answered, unless its answer cannot be        *)
(* written (the peer is gone or has had its 30 seconds), memory has run    *)
(* out, or the client asks for a task that is not there.                   *)
Unanswered(s) == stage[s] \in {"routing", "handling", "writing"} /\ stage'[s] = "failed"
Excused(s) == stage[s] = "writing" \/ s \in short'
OnlyMissingTasksGoUnanswered ==
  [][\A s \in Sessions : Unanswered(s) /\ ~Excused(s) =>
       call[s].op = "GetTask" /\ phase[s] = "done" /\ out[s] = <<>>]_vars

(* The inductive invariant behind all of these: the storage works for a    *)
(* session on the call that its request asks for, and the effect of that   *)
(* request is all in the call it made, once, for as long as it is at it.   *)
(* Ids are not shared, and none comes back, or a task that was deleted     *)
(* could be in the storage again by the time its answer is written.        *)
CallOf(r, c) ==
  \/ r.method = "Get" /\ c.op \in {"GetTasks", "GetTask"}
  \/ r.method = "Post" /\ c.op = "CreateTask" /\ c.payload = r.body /\ r.body \in Payloads
  \/ /\ r.method = "Delete" /\ c.op = "DeleteTask"
     /\ ~StoullThrows(r.words[2]) /\ c.index = Stoull(r.words[2])
InCall(s) ==
  /\ CallOf(request[s], call[s])
  /\ phase[s] \in {"called", "done", "failed"}
  /\ \A t, u \in effect[s] : t = u
  /\ phase[s] = "called" \/ call[s].op \in {"GetTasks", "GetTask"} => effect[s] = {}
  /\ phase[s] = "failed" => s \in short /\ call[s].op # "DeleteTask"
  /\ call[s].op = "DeleteTask" =>
       \A t \in effect[s] : t.id = call[s].index /\ t \notin tasks
  /\ phase[s] = "done" /\ call[s].op = "CreateTask" =>
       \E t \in effect[s] : out[s] = <<t>> /\ t.payload = request[s].body
EffectInv ==
  /\ nextId \in Nat
  /\ \A t, u \in tasks : t.id = u.id => t = u
  /\ order \in SetToSeqs(DOMAIN Routes)
  /\ {DOMAIN phase, DOMAIN call, DOMAIN out, DOMAIN response, DOMAIN effect} = {Sessions}
  /\ \A s \in Sessions :
       /\ \A t \in effect[s] : t.id \in 0..(nextId - 1)
       /\ stage[s] \in {"none", "failed", "reading", "routing"} => effect[s] = {}
       /\ stage[s] = "handling" => InCall(s)

IInv == TypeOK /\ StatusTellsTheEffect /\ EffectInv

(* Route is documented to return the response of the matching handler, and *)
(* the tests receive one for every request they write.  A GET of a missing *)
(* task has none, although nothing has failed and its peer still waits:    *)
(* CreateResponse throws on the body of its NoContent.                     *)
EveryRequestIsAnswered == [][\A s \in Sessions : Unanswered(s) => Excused(s)]_vars
=============================================================================

---------------------------- MODULE ServerProofs ----------------------------
(* Theorems about Server, and about the Programs that run it, for any      *)
(* number of threads, of sessions open at a time and any requests.  They   *)
(* rest on those of its parts: a step of the server is a step, or none, of *)
(* ServerLifetime and of Backend.  LifetimeProofs and BackendProofs repeat *)
(* the definitions of the two modules, so first come lemmas that say so.   *)
EXTENDS Programs, FiniteSetTheorems, TLAPS

LifetimeProofs == INSTANCE ServerLifetimeProofs
BackendProofs == INSTANCE BackendProofs

LEMMA SameLifetime ==
  /\ LifetimeProofs!Init <=> Lifetime!Init
  /\ LifetimeProofs!IInv <=> Lifetime!IInv
BY DEF LifetimeProofs!Init, Lifetime!Init, LifetimeProofs!IInv, Lifetime!IInv,
       LifetimeProofs!TypeOK, Lifetime!TypeOK, LifetimeProofs!Coroutines, Lifetime!Coroutines,
       LifetimeProofs!Threads, Lifetime!Threads,
       LifetimeProofs!OneWorkerPerCoroutine, Lifetime!OneWorkerPerCoroutine,
       LifetimeProofs!OwnerInv, Lifetime!OwnerInv, LifetimeProofs!ThreadInv, Lifetime!ThreadInv,
       LifetimeProofs!RanDryInv, Lifetime!RanDryInv, LifetimeProofs!stopped, Lifetime!stopped,
       LifetimeProofs!SpawnInv, Lifetime!SpawnInv,
       LifetimeProofs!Outstanding, Lifetime!Outstanding

LEMMA SameBackend ==
  /\ BackendProofs!Init <=> Backend!Init
  /\ BackendProofs!IInv <=> Backend!IInv
BY DEF BackendProofs!Init, Backend!Init,
       BackendProofs!IInv, Backend!IInv,
       BackendProofs!TypeOK, Backend!TypeOK,
       BackendProofs!StatusTellsTheEffect, Backend!StatusTellsTheEffect,
       BackendProofs!TellsTheEffect, Backend!TellsTheEffect,
       BackendProofs!EffectInv, Backend!EffectInv,
       BackendProofs!InCall, Backend!InCall,
       BackendProofs!CallOf, Backend!CallOf,
       BackendProofs!Stoull, Backend!Stoull,
       BackendProofs!StoullThrows, Backend!StoullThrows,
       BackendProofs!Names, Backend!Names,
       BackendProofs!Statuses, Backend!Statuses,
       BackendProofs!Routes, Backend!Routes,
       BackendProofs!Filled, Backend!Filled,
       BackendProofs!Tasks, Backend!Tasks,
       BackendProofs!TaskById, Backend!TaskById,
       BackendProofs!NoRequest, Backend!NoRequest,
       BackendProofs!NoResponse, Backend!NoResponse,
       BackendProofs!SetToSeqs, Backend!SetToSeqs,
       BackendProofs!Cardinality, Backend!Cardinality, BackendProofs!IsFiniteSet, Backend!IsFiniteSet,
       BackendProofs!Store!Init, Backend!Store!Init,
       BackendProofs!Store!NoCall, Backend!Store!NoCall

LEMMA SameRouter == ASSUME NEW r PROVE BackendProofs!Answer(r) = Backend!Answer(r)
BY DEF BackendProofs!Answer, Backend!Answer,
       BackendProofs!Rest!Route, Backend!Rest!Route,
       BackendProofs!Rest!Dispatch, Backend!Rest!Dispatch,
       BackendProofs!Rest!Handles, Backend!Rest!Handles,
       BackendProofs!Rest!Status, Backend!Rest!Status,
       BackendProofs!Rest!PutAll, Backend!Rest!PutAll,
       BackendProofs!Rest!Assigned, Backend!Rest!Assigned,
       BackendProofs!Rest!Assignments, Backend!Rest!Assignments,
       BackendProofs!Rest!AssignmentsTo, Backend!Rest!AssignmentsTo,
       BackendProofs!Rest!PathParams, Backend!Rest!PathParams,
       BackendProofs!Rest!Hits, Backend!Rest!Hits,
       BackendProofs!Rest!Matches, Backend!Rest!Matches,
       BackendProofs!Rest!NamesFit, Backend!Rest!NamesFit,
       BackendProofs!Rest!HasGroup, Backend!Rest!HasGroup,
       BackendProofs!Rest!Empty, Backend!Rest!Empty,
       BackendProofs!Rest!Max, Backend!Rest!Max,
       BackendProofs!Rest!Min, Backend!Rest!Min,
       BackendProofs!Routes, Backend!Routes,
       BackendProofs!Filled, Backend!Filled,
       BackendProofs!Tasks, Backend!Tasks,
       BackendProofs!TaskById, Backend!TaskById

LEMMA SameRequests ==
  ASSUME NEW r
  PROVE  /\ BackendProofs!Refusal(r) = Backend!Refusal(r)
         /\ BackendProofs!StorageCall(r) = Backend!StorageCall(r)
         /\ BackendProofs!ReachesCreateTask(r) <=> Backend!ReachesCreateTask(r)
<1>1. /\ BackendProofs!Handler(r) = Backend!Handler(r)
      /\ BackendProofs!IdOf(r) = Backend!IdOf(r)
      /\ BackendProofs!Rest!Handles(BackendProofs!Answer(r)) = Backend!Rest!Handles(Backend!Answer(r))
  BY SameRouter DEF BackendProofs!Handler, Backend!Handler,
         BackendProofs!IdOf, Backend!IdOf,
         BackendProofs!Rest!Handles, Backend!Rest!Handles
<1>2. ASSUME NEW word
      PROVE  /\ BackendProofs!Stoull(word) = Backend!Stoull(word)
             /\ BackendProofs!StoullThrows(word) = Backend!StoullThrows(word)
  BY DEF BackendProofs!Stoull, Backend!Stoull,
         BackendProofs!StoullThrows, Backend!StoullThrows
<1>3. /\ BackendProofs!Deserializes(r) = Backend!Deserializes(r)
      /\ BackendProofs!NeedsId(r) = Backend!NeedsId(r)
      /\ BackendProofs!HasMethod(r) = Backend!HasMethod(r)
      /\ BackendProofs!IsRouted(r) = Backend!IsRouted(r)
  BY <1>1 DEF BackendProofs!Deserializes, Backend!Deserializes,
         BackendProofs!NeedsId, Backend!NeedsId,
         BackendProofs!HasMethod, Backend!HasMethod,
         BackendProofs!IsRouted, Backend!IsRouted,
         BackendProofs!Known, Backend!Known
<1>4. \A status, text : BackendProofs!Response(status, text) = Backend!Response(status, text)
  BY DEF BackendProofs!Response, Backend!Response
<1>5. BackendProofs!Refusal(r) = Backend!Refusal(r)
  BY <1>1, <1>2, <1>3, <1>4, SameRouter DEF BackendProofs!Refusal, Backend!Refusal
<1>6. BackendProofs!StorageCall(r) = Backend!StorageCall(r)
  BY <1>1, <1>2 DEF BackendProofs!StorageCall, Backend!StorageCall
<1>7. BackendProofs!ReachesCreateTask(r) <=> Backend!ReachesCreateTask(r)
  BY <1>1, <1>3 DEF BackendProofs!ReachesCreateTask, Backend!ReachesCreateTask
<1> QED BY <1>5, <1>6, <1>7

LEMMA SameStorage ==
  ASSUME NEW s
  PROVE  /\ BackendProofs!StorageActs(s) <=> Backend!StorageActs(s)
         /\ BackendProofs!Store!Return(s) <=> Backend!Store!Return(s)
BY DEF BackendProofs!StorageActs, Backend!StorageActs,
       BackendProofs!Store!CreateTask, Backend!Store!CreateTask,
       BackendProofs!Store!DeleteTask, Backend!Store!DeleteTask,
       BackendProofs!Store!GetTask, Backend!Store!GetTask,
       BackendProofs!Store!GetTasks, Backend!Store!GetTasks,
       BackendProofs!Store!Fail, Backend!Store!Fail,
       BackendProofs!Store!Lose, Backend!Store!Lose,
       BackendProofs!Store!Return, Backend!Store!Return,
       BackendProofs!Store!Finish, Backend!Store!Finish,
       BackendProofs!Store!Listings, Backend!Store!Listings,
       BackendProofs!Store!NoCall, Backend!Store!NoCall,
       BackendProofs!Store!Cardinality, Backend!Store!Cardinality,
       BackendProofs!Store!IsFiniteSet, Backend!Store!IsFiniteSet

LEMMA SameActions ==
  ASSUME NEW s, NEW r
  PROVE  /\ BackendProofs!Connect(s) <=> Backend!Connect(s)
         /\ BackendProofs!Write(s) <=> Backend!Write(s)
         /\ BackendProofs!Fails(s) <=> Backend!Fails(s)
         /\ BackendProofs!Expire(s) <=> Backend!Expire(s)
         /\ BackendProofs!Read(s, r) <=> Backend!Read(s, r)
         /\ BackendProofs!Refuse(s) <=> Backend!Refuse(s)
         /\ BackendProofs!CallHandler(s) <=> Backend!CallHandler(s)
         /\ BackendProofs!HandlerReturns(s) <=> Backend!HandlerReturns(s)
         /\ BackendProofs!RunsShort(s) <=> Backend!RunsShort(s)
<1>1. /\ BackendProofs!ThreadFree <=> Backend!ThreadFree
      /\ BackendProofs!storage = Backend!storage
  BY DEF BackendProofs!ThreadFree, Backend!ThreadFree,
         BackendProofs!Cardinality, Backend!Cardinality,
         BackendProofs!IsFiniteSet, Backend!IsFiniteSet,
         BackendProofs!storage, Backend!storage
<1>2. /\ BackendProofs!Connect(s) <=> Backend!Connect(s)
      /\ BackendProofs!Write(s) <=> Backend!Write(s)
      /\ BackendProofs!Fails(s) <=> Backend!Fails(s)
      /\ BackendProofs!Expire(s) <=> Backend!Expire(s)
      /\ BackendProofs!Read(s, r) <=> Backend!Read(s, r)
  BY <1>1 DEF BackendProofs!Connect, Backend!Connect,
         BackendProofs!Write, Backend!Write,
         BackendProofs!Fails, Backend!Fails,
         BackendProofs!Expire, Backend!Expire,
         BackendProofs!Read, Backend!Read,
         BackendProofs!StartsReading, Backend!StartsReading,
         BackendProofs!Ends, Backend!Ends,
         BackendProofs!Over, Backend!Over,
         BackendProofs!Throws, Backend!Throws,
         BackendProofs!Forgets, Backend!Forgets,
         BackendProofs!Goto, Backend!Goto,
         BackendProofs!NoRequest, Backend!NoRequest,
         BackendProofs!NoResponse, Backend!NoResponse,
         BackendProofs!storage, Backend!storage
<1>3. /\ \A res : BackendProofs!Respond(s, res) <=> Backend!Respond(s, res)
      /\ BackendProofs!Throws(s) <=> Backend!Throws(s)
  BY DEF BackendProofs!Respond, Backend!Respond,
         BackendProofs!Throws, Backend!Throws,
         BackendProofs!Forgets, Backend!Forgets,
         BackendProofs!Goto, Backend!Goto,
         BackendProofs!NoRequest, Backend!NoRequest,
         BackendProofs!NoResponse, Backend!NoResponse
<1>4. BackendProofs!Refuse(s) <=> Backend!Refuse(s)
  BY <1>3, SameRequests DEF BackendProofs!Refuse, Backend!Refuse,
         BackendProofs!storage, Backend!storage
<1>5. BackendProofs!CallHandler(s) <=> Backend!CallHandler(s)
  BY SameRequests DEF BackendProofs!CallHandler, Backend!CallHandler,
         BackendProofs!Goto, Backend!Goto,
         BackendProofs!Store!Invoke, Backend!Store!Invoke
<1>6. BackendProofs!HandlerReturns(s) <=> Backend!HandlerReturns(s)
  <2>1. BackendProofs!Reply(s) = Backend!Reply(s)
    BY DEF BackendProofs!Reply, Backend!Reply,
         BackendProofs!Response, Backend!Response
  <2> QED BY <1>3, <2>1, SameStorage DEF BackendProofs!HandlerReturns, Backend!HandlerReturns
<1>7. BackendProofs!RunsShort(s) <=> Backend!RunsShort(s)
  <2>1. BackendProofs!CaughtAs(s) = Backend!CaughtAs(s)
    BY SameRequests DEF BackendProofs!CaughtAs, Backend!CaughtAs
  <2>2. \A status, text : BackendProofs!Response(status, text) = Backend!Response(status, text)
    BY DEF BackendProofs!Response, Backend!Response
  <2> QED BY <1>3, <2>1, <2>2, SameStorage DEF BackendProofs!RunsShort, Backend!RunsShort,
             BackendProofs!storage, Backend!storage
<1> QED BY <1>2, <1>4, <1>5, <1>6, <1>7

-----------------------------------------------------------------------------
(* The steps of the server are steps of its parts.                         *)

LEMMA SameLifetimeSteps ==
  LifetimeProofs!vars = Lifetime!vars /\ (LifetimeProofs!Next <=> Lifetime!Next)
<1>1. /\ LifetimeProofs!InStartServer <=> Lifetime!InStartServer
      /\ LifetimeProofs!UseHandler <=> Lifetime!UseHandler
      /\ LifetimeProofs!InHandler <=> Lifetime!InHandler
  BY DEF LifetimeProofs!InStartServer, Lifetime!InStartServer,
         LifetimeProofs!SpawnThread, Lifetime!SpawnThread,
         LifetimeProofs!SpawnThreadThrows, Lifetime!SpawnThreadThrows,
         LifetimeProofs!WaitStarted, Lifetime!WaitStarted,
         LifetimeProofs!StartReturns, Lifetime!StartReturns,
         LifetimeProofs!UseHandler, Lifetime!UseHandler,
         LifetimeProofs!CallWait, Lifetime!CallWait,
         LifetimeProofs!CallStop, Lifetime!CallStop,
         LifetimeProofs!Destroy, Lifetime!Destroy,
         LifetimeProofs!InHandler, Lifetime!InHandler,
         LifetimeProofs!StopsContext, Lifetime!StopsContext,
         LifetimeProofs!Join, Lifetime!Join,
         LifetimeProofs!JoinDone, Lifetime!JoinDone,
         LifetimeProofs!Joining, Lifetime!Joining,
         LifetimeProofs!stopped, Lifetime!stopped,
         LifetimeProofs!Threads, Lifetime!Threads
<1>2. ASSUME NEW w PROVE LifetimeProofs!Work(w) <=> Lifetime!Work(w)
  BY DEF LifetimeProofs!Work, Lifetime!Work,
         LifetimeProofs!Exit, Lifetime!Exit,
         LifetimeProofs!RunListener, Lifetime!RunListener,
         LifetimeProofs!Listen, Lifetime!Listen,
         LifetimeProofs!Announce, Lifetime!Announce,
         LifetimeProofs!ListenThrows, Lifetime!ListenThrows,
         LifetimeProofs!Accept, Lifetime!Accept,
         LifetimeProofs!AcceptThrows, Lifetime!AcceptThrows,
         LifetimeProofs!SessionRuns, Lifetime!SessionRuns,
         LifetimeProofs!Take, Lifetime!Take,
         LifetimeProofs!Leave, Lifetime!Leave,
         LifetimeProofs!Suspends, Lifetime!Suspends,
         LifetimeProofs!Ends, Lifetime!Ends,
         LifetimeProofs!Outstanding, Lifetime!Outstanding,
         LifetimeProofs!Coroutines, Lifetime!Coroutines,
         LifetimeProofs!stopped, Lifetime!stopped
<1>3. ASSUME NEW k PROVE LifetimeProofs!Complete(k) <=> Lifetime!Complete(k)
  BY DEF LifetimeProofs!Complete, Lifetime!Complete,
         LifetimeProofs!stopped, Lifetime!stopped
<1>4. /\ LifetimeProofs!vars = Lifetime!vars
      /\ LifetimeProofs!Threads = Lifetime!Threads
      /\ LifetimeProofs!Coroutines = Lifetime!Coroutines
  BY DEF LifetimeProofs!vars, Lifetime!vars,
         LifetimeProofs!Threads, Lifetime!Threads,
         LifetimeProofs!Coroutines, Lifetime!Coroutines
<1> QED BY <1>1, <1>2, <1>3, <1>4 DEF LifetimeProofs!Next, Lifetime!Next

LEMMA SameBackendSteps ==
  BackendProofs!vars = Backend!vars /\ (BackendProofs!Next <=> Backend!Next)
<1>1. BackendProofs!vars = Backend!vars
  BY DEF BackendProofs!vars, Backend!vars, BackendProofs!storage, Backend!storage
<1> QED BY <1>1, SameActions, SameStorage DEF BackendProofs!Next, Backend!Next,
           BackendProofs!Prepare, Backend!Prepare, BackendProofs!TimesOut, Backend!TimesOut

LEMMA LifetimeSteps == [Next]_vars => [Lifetime!Next]_(Lifetime!vars)
<1> SUFFICES ASSUME Next PROVE Lifetime!Next \/ UNCHANGED Lifetime!vars
  BY DEF vars, lifetime, Lifetime!vars
<1>1. UNCHANGED lifetime => UNCHANGED Lifetime!vars
  BY DEF lifetime, Lifetime!vars
<1>2. CASE Owner
  BY <1>2 DEF Owner, Lifetime!Next
<1>3. ASSUME NEW w \in Lifetime!Threads, Schedule(w) PROVE Lifetime!Next
  BY <1>3 DEF Schedule, Lifetime!Next, Lifetime!Work
<1>4. ASSUME NEW w \in Lifetime!Threads, NEW s \in Sessions, Suspends(w, s) \/ Ends(w, s)
      PROVE  Lifetime!Next
  <2>1. Lifetime!SessionRuns(w)
    BY <1>4 DEF Suspends, Ends, Lifetime!SessionRuns
  <2> QED BY <2>1 DEF Lifetime!Next, Lifetime!Work
<1>5. ASSUME NEW k \in Lifetime!Coroutines, Complete(k) PROVE Lifetime!Next
  BY <1>5 DEF Complete, Lifetime!Next
<1>6. ASSUME NEW w, NEW s, GoesOn(w, s) \/ Expire(s) PROVE UNCHANGED Lifetime!vars
  BY <1>1, <1>6 DEF GoesOn, Expire
<1> QED BY <1>2, <1>3, <1>4, <1>5, <1>6 DEF Next, Environment, Work, RunSession

LEMMA BackendSteps == [Next]_vars => [Backend!Next]_(Backend!vars)
<1> SUFFICES ASSUME Next PROVE Backend!Next \/ UNCHANGED Backend!vars
  BY DEF vars, backend, Backend!vars, Backend!storage
<1>1. UNCHANGED backend => UNCHANGED Backend!vars
  BY DEF backend, Backend!vars, Backend!storage
<1>2. CASE \/ Owner \/ \E w \in Lifetime!Threads : Schedule(w)
           \/ \E k \in Lifetime!Coroutines : Complete(k)
  BY <1>1, <1>2 DEF Owner, Schedule, Complete
<1>3. ASSUME NEW s \in Sessions, Expire(s) PROVE Backend!Next
  BY <1>3 DEF Expire, Backend!Next
<1>4. ASSUME NEW w, NEW s \in Sessions, GoesOn(w, s) \/ Suspends(w, s) \/ Ends(w, s)
      PROVE  Backend!Next
  BY <1>4 DEF GoesOn, Suspends, Ends, Backend!Next, Backend!Prepare
<1> QED BY <1>2, <1>3, <1>4 DEF Next, Environment, Work, RunSession

LEMMA PartsInit ==
  /\ Lifetime!Init => Lifetime!IInv
  /\ Backend!Init => Backend!IInv
<1>1. LifetimeProofs!Init => LifetimeProofs!IInv
  BY LifetimeProofs!InitIInv, NumThreadsAssumption, SessionsAssumption
<1>2. BackendProofs!Init => BackendProofs!IInv
  BY BackendProofs!InitIInv, NumThreadsAssumption, NumeralsAssumption, RequestsAssumption
<1> QED BY <1>1, <1>2, SameLifetime, SameBackend

LEMMA PartsNext ==
  Lifetime!IInv /\ Backend!IInv /\ [Next]_vars => Lifetime!IInv' /\ Backend!IInv'
<1>1. LifetimeProofs!IInv /\ [LifetimeProofs!Next]_(LifetimeProofs!vars) => LifetimeProofs!IInv'
  BY LifetimeProofs!NextIInv, NumThreadsAssumption, SessionsAssumption
<1>2. BackendProofs!IInv /\ [BackendProofs!Next]_(BackendProofs!vars) => BackendProofs!IInv'
  BY BackendProofs!NextIInv, NumThreadsAssumption, NumeralsAssumption, RequestsAssumption
<1>3. [Next]_vars => [LifetimeProofs!Next]_(LifetimeProofs!vars)
  BY LifetimeSteps, SameLifetimeSteps DEF LifetimeProofs!vars, Lifetime!vars
<1>4. [Next]_vars => [BackendProofs!Next]_(BackendProofs!vars)
  BY BackendSteps, SameBackendSteps
  DEF BackendProofs!vars, Backend!vars, BackendProofs!storage, Backend!storage
<1> QED BY <1>1, <1>2, <1>3, <1>4, SameLifetime, SameBackend, PTL

(* The server is an implementation of its parts: composed, they do nothing *)
(* that module ServerLifetime or module Backend does not allow by itself.  *)
THEOREM ImplementsItsParts == Spec => Lifetime!Spec /\ Backend!Spec
BY LifetimeSteps, BackendSteps, PTL DEF Spec, Init, Lifetime!Spec, Backend!Spec

-----------------------------------------------------------------------------
(* The two views of a session.                                             *)

(* What a session is doing fits what the thread or the queue makes of it. *)
JobFits(s) ==
  /\ InRequest(s) => job[s] = "running"
  /\ job[s] = "waiting" => stage[s] \in {"reading", "writing"}
  /\ job[s] \in {"none", "done"} => Backend!Over(s)

(* Sessions that run have a thread each, so one that runs outside of a     *)
(* request is a thread that no request has.                                *)
LEMMA ThreadsSuffice ==
  ASSUME Lifetime!IInv, \A s \in Sessions : InRequest(s) => job[s] = "running",
         NEW s0 \in Sessions, job[s0] = "running", ~InRequest(s0)
  PROVE  Backend!ThreadFree
<1> DEFINE Running == {s \in Sessions : job[s] = "running"}
           Served == {s \in Sessions : InRequest(s)}
           Thread == [s \in Running |-> CHOOSE w \in 1..NumThreads : worker[w] = s]
<1>1. IsFiniteSet(1..NumThreads) /\ Cardinality(1..NumThreads) = NumThreads
  BY NumThreadsAssumption, FS_Interval
<1>2. Thread \in Injection(Running, 1..NumThreads)
  <2>1. ASSUME NEW s \in Running PROVE \E w \in 1..NumThreads : worker[w] = s
    BY DEF Lifetime!IInv, Lifetime!OneWorkerPerCoroutine, Lifetime!Coroutines, Lifetime!Threads
  <2>2. ASSUME NEW s \in Running
        PROVE  Thread[s] \in 1..NumThreads /\ worker[Thread[s]] = s
    BY <2>1
  <2>3. Thread \in [Running -> 1..NumThreads]
    BY <2>2
  <2> HIDE DEF Thread
  <2>4. IsInjective(Thread)
    <3>1. ASSUME NEW a \in Running, NEW b \in Running, Thread[a] = Thread[b] PROVE a = b
      BY <2>2, <3>1
    <3> QED BY <2>3, <3>1 DEF IsInjective
  <2> QED BY <2>3, <2>4 DEF Injection
<1> HIDE DEF Thread
<1>3. IsFiniteSet(Running) /\ Cardinality(Running) <= NumThreads
  BY <1>1, <1>2, FS_Injection
<1>4. Served \subseteq Running /\ s0 \in Running \ Served
  OBVIOUS
<1>5. IsFiniteSet(Served) /\ Cardinality(Served) < Cardinality(Running)
  <2>1. /\ IsFiniteSet(Served) /\ Cardinality(Served) <= Cardinality(Running)
        /\ Cardinality(Running) = Cardinality(Served) => Running = Served
    BY <1>3, <1>4, FS_Subset
  <2>2. Cardinality(Served) \in Nat /\ Cardinality(Running) \in Nat
    BY <1>3, <2>1, FS_CardinalityType
  <2> QED BY <1>4, <2>1, <2>2
<1>6. Cardinality(Served) < NumThreads
  <2>1. Cardinality(Served) \in Nat /\ Cardinality(Running) \in Nat
    BY <1>3, <1>5, FS_CardinalityType
  <2> QED BY <1>3, <1>5, <2>1, NumThreadsAssumption
<1>7. Served = {s \in Sessions : stage[s] \in {"routing", "handling"}}
  BY DEF InRequest
<1>8. Cardinality(Served) = Backend!Cardinality(Served)
  BY DEF Cardinality, Backend!Cardinality
<1> QED BY <1>6, <1>7, <1>8 DEF Backend!ThreadFree

JobsFit == \A s \in Sessions : JobFits(s)

LEMMA ViewsAgreeIff == Lifetime!IInv => (ViewsAgree <=> JobsFit)
BY ThreadsSuffice DEF ViewsAgree, JobFits, JobsFit

LEMMA InitIInv == Init => IInv
<1> SUFFICES ASSUME Init PROVE IInv
  OBVIOUS
<1>1. Lifetime!IInv
  BY PartsInit DEF Init
<1>2. Backend!IInv
  BY PartsInit DEF Init
<1>3. ASSUME NEW s \in Sessions PROVE JobFits(s)
  <2>1. stage[s] = "none" /\ job[s] = "none"
    BY SessionsAssumption DEF Init, Backend!Init, Lifetime!Init, Lifetime!Coroutines
  <2> QED BY <2>1 DEF JobFits, InRequest, Backend!Over
<1> QED BY <1>1, <1>2, <1>3, ViewsAgreeIff DEF IInv, JobsFit

LEMMA NextIInv == IInv /\ [Next]_vars => IInv'
<1> SUFFICES ASSUME IInv, [Next]_vars PROVE IInv'
  OBVIOUS
<1> USE DEF InRequest, Backend!Over
<1>0. Lifetime!IInv /\ Backend!IInv /\ \A s \in Sessions : JobFits(s)
  BY ViewsAgreeIff DEF IInv, JobsFit
<1>1. Lifetime!IInv' /\ Backend!IInv'
  BY <1>0, PartsNext
<1>2. /\ job \in [Sessions \cup {"listen"} -> {"none", "ready", "running", "waiting", "done"}]
      /\ \A w \in Lifetime!Threads, s \in Sessions : worker[w] = s => job[s] = "running"
      /\ "listen" \notin Sessions
      /\ stage \in [Sessions -> {"none", "reading", "routing", "handling", "writing", "failed"}]
  BY <1>0, SessionsAssumption DEF Lifetime!IInv, Lifetime!TypeOK, Lifetime!OneWorkerPerCoroutine,
     Lifetime!Coroutines, Backend!IInv, Backend!TypeOK
<1>3. ASSUME NEW s \in Sessions, stage'[s] = stage[s], job'[s] = job[s] PROVE JobFits(s)'
  BY <1>0, <1>3 DEF JobFits
<1>4. ASSUME Owner, NEW s \in Sessions PROVE JobFits(s)'
  BY <1>3, <1>4 DEF Owner, backend, Lifetime!InStartServer, Lifetime!SpawnThread,
     Lifetime!SpawnThreadThrows, Lifetime!WaitStarted, Lifetime!StartReturns,
     Lifetime!UseHandler, Lifetime!CallWait, Lifetime!CallStop, Lifetime!Destroy,
     Lifetime!InHandler, Lifetime!StopsContext, Lifetime!Join, Lifetime!JoinDone
<1>5. ASSUME NEW w \in Lifetime!Threads, Schedule(w), NEW s \in Sessions PROVE JobFits(s)'
  <2>1. stage' = stage
    BY <1>5 DEF Schedule, backend
  <2>2. CASE Lifetime!Exit(w) \/ Lifetime!Listen(w)
    BY <1>3, <2>1, <2>2 DEF Lifetime!Exit, Lifetime!Listen
  <2>3. CASE Lifetime!Announce(w) \/ Lifetime!ListenThrows(w) \/ Lifetime!AcceptThrows(w)
    BY <1>2, <1>3, <2>1, <2>3 DEF Lifetime!Announce, Lifetime!ListenThrows, Lifetime!AcceptThrows,
       Lifetime!Leave, Lifetime!Suspends, Lifetime!Ends
  <2>4. CASE Lifetime!Accept(w)
    <3>1. PICK a \in Sessions : /\ job[a] \in {"none", "done"}
                                /\ job' = [Lifetime!Suspends("listen") EXCEPT ![a] = "ready"]
      BY <2>4 DEF Lifetime!Accept, Lifetime!Leave
    <3>2. CASE s = a
      BY <1>0, <1>2, <2>1, <3>1, <3>2 DEF Lifetime!Suspends, JobFits
    <3>3. CASE s # a
      BY <1>2, <1>3, <2>1, <3>1, <3>3 DEF Lifetime!Suspends
    <3> QED BY <3>2, <3>3
  <2>5. ASSUME NEW k \in Lifetime!Coroutines, Lifetime!Take(w, k) PROVE JobFits(s)'
    BY <1>0, <1>2, <2>1, <2>5 DEF Lifetime!Take, JobFits
  <2> QED BY <1>5, <2>2, <2>3, <2>4, <2>5 DEF Schedule, Lifetime!RunListener
<1>6. ASSUME NEW w \in Lifetime!Threads, NEW t \in Sessions, GoesOn(w, t),
             NEW s \in Sessions
      PROVE  JobFits(s)'
  <2>1. job' = job /\ job[t] = "running"
    BY <1>2, <1>6 DEF GoesOn, lifetime
  <2>2. stage' = [stage EXCEPT ![t] = stage'[t]]
    BY <1>2, <1>6 DEF GoesOn, Backend!Read, Backend!CallHandler, Backend!StorageActs, Backend!Goto
  <2> QED BY <1>0, <1>2, <2>1, <2>2 DEF JobFits
<1>7. ASSUME NEW w \in Lifetime!Threads, NEW t \in Sessions, Suspends(w, t) \/ Ends(w, t),
             NEW s \in Sessions
      PROVE  JobFits(s)'
  <2>1. \/ stage'[t] \notin {"none", "failed"} /\ job' = Lifetime!Suspends(t)
        \/ stage'[t] \in {"none", "failed"} /\ job' = Lifetime!Ends(t)
    BY <1>7 DEF Suspends, Ends, Lifetime!Leave
  <2>2. \E to \in {"none", "failed", "reading", "writing"} : stage' = [stage EXCEPT ![t] = to]
    BY <1>7 DEF Suspends, Ends, Backend!Connect, Backend!Write, Backend!Refuse,
       Backend!HandlerReturns, Backend!RunsShort, Backend!Fails, Backend!Respond,
       Backend!StartsReading, Backend!Ends, Backend!Throws, Backend!Goto
  <2> QED BY <1>0, <1>2, <2>1, <2>2 DEF JobFits, Lifetime!Suspends, Lifetime!Ends
<1>8. ASSUME NEW k \in Lifetime!Coroutines, Complete(k), NEW s \in Sessions PROVE JobFits(s)'
  BY <1>0, <1>2, <1>8 DEF Complete, Lifetime!Complete, JobFits, backend
<1>9. ASSUME NEW t \in Sessions, Expire(t), NEW s \in Sessions PROVE JobFits(s)'
  BY <1>3, <1>9 DEF Expire, lifetime, Backend!Expire
<1>10. ASSUME UNCHANGED vars, NEW s \in Sessions PROVE JobFits(s)'
  BY <1>3, <1>10 DEF vars, lifetime, backend
<1>11. JobsFit'
  <2>1. ASSUME NEW s \in Sessions PROVE JobFits(s)'
    BY <1>4, <1>5, <1>6, <1>7, <1>8, <1>9, <1>10
    DEF Next, Environment, Work, RunSession
  <2> QED BY <2>1 DEF JobsFit
<1>12. Lifetime!IInv' => (ViewsAgree' <=> JobsFit')
  BY ViewsAgreeIff, PTL
<1> QED BY <1>1, <1>11, <1>12 DEF IInv

(* The inductive invariant of the whole: those of its parts, and that what *)
(* a session is at fits the thread, the queue or the peer it is with.      *)
THEOREM Invariance == Spec => []IInv
BY InitIInv, NextIInv, PTL DEF Spec

(* A session prepares a response only on a thread, waits only for a read   *)
(* or a write, and no thread that resumes one is held up by the others.    *)
THEOREM ViewsAlwaysAgree == Spec => []ViewsAgree
BY Invariance, PTL DEF IInv

LEMMA AfterStop ==
  ASSUME IInv, HasStopped
  PROVE  /\ \A w \in Lifetime!Threads : worker[w] = "exited"
         /\ \A s \in Sessions : job[s] # "running"
<1>1. /\ Lifetime!TypeOK /\ Lifetime!OneWorkerPerCoroutine
      /\ Lifetime!OwnerInv /\ Lifetime!ThreadInv
  BY DEF IInv, Lifetime!IInv
<1>2. \A w \in Lifetime!Threads : worker[w] = "exited"
  BY <1>1 DEF HasStopped, Lifetime!OwnerInv, Lifetime!ThreadInv
<1>3. ASSUME NEW s \in Sessions PROVE job[s] # "running"
  BY <1>1, <1>2, SessionsAssumption DEF Lifetime!OneWorkerPerCoroutine, Lifetime!Coroutines
<1> QED BY <1>2, <1>3

(* After Stop no call is under way in the storage, so its mutex is free    *)
(* and it can be destroyed.                                                *)
THEOREM NoCallIsLeftBehind == Spec => []StopLeavesNoCallBehind
<1>1. IInv => StopLeavesNoCallBehind
  BY AfterStop DEF StopLeavesNoCallBehind, IInv, ViewsAgree, InRequest, Backend!IInv, Backend!TypeOK
<1> QED BY <1>1, Invariance, PTL

(* After Stop nothing that a client could see or the storage keeps moves.  *)
THEOREM QuietAfterStop == Spec => NothingHappensAfterStop
<1>1. IInv /\ [Next]_vars => [HasStopped => UNCHANGED backend]_vars
  <2> SUFFICES ASSUME IInv, Next, HasStopped PROVE UNCHANGED backend
    OBVIOUS
  <2>1. CASE Owner \/ (\E k \in Lifetime!Coroutines : Complete(k))
    BY <2>1 DEF Owner, Complete
  <2>2. ASSUME NEW s \in Sessions PROVE ~Expire(s)
    BY DEF Expire, HasStopped, Lifetime!stopped
  <2>3. ASSUME NEW w \in Lifetime!Threads, RunSession(w) PROVE FALSE
    BY <2>3, AfterStop, SessionsAssumption DEF RunSession, GoesOn, Suspends, Ends
  <2>4. CASE \E w \in Lifetime!Threads : Schedule(w)
    BY <2>4 DEF Schedule
  <2> QED BY <2>1, <2>2, <2>3, <2>4 DEF Next, Environment, Work
<1> QED BY <1>1, Invariance, PTL DEF Spec, NothingHappensAfterStop

LEMMA RanDry == IInv => OnlyStopCutsOff
<1> SUFFICES ASSUME IInv, stopper = "ran_dry", NEW s \in Sessions PROVE Backend!Over(s)
  BY DEF OnlyStopCutsOff
<1>1. Lifetime!Outstanding(job) = {} /\ Lifetime!TypeOK
  BY DEF IInv, Lifetime!IInv, Lifetime!RanDryInv
<1>2. job[s] \in {"none", "done"}
  BY <1>1 DEF Lifetime!Outstanding, Lifetime!TypeOK, Lifetime!Coroutines
<1> QED BY <1>2 DEF IInv, ViewsAgree

(* A server that ran out of work has ended every session first.            *)
THEOREM OnlyStopLeavesSessionsOpen == Spec => []OnlyStopCutsOff
BY RanDry, Invariance, PTL

-----------------------------------------------------------------------------
(* The programs that run the server.                                       *)

LEMMA ProgramSteps == [ProgramNext]_programvars => [Next]_vars
<1> SUFFICES ASSUME ProgramNext PROVE [Next]_vars
  BY DEF programvars
<1>1. CASE Main
  BY <1>1 DEF Main, Starts, Waits, StopsServer, Returns, Next, Owner, Lifetime!UseHandler
<1>2. CASE Tests
  BY <1>2 DEF Tests, Stops, Next, Owner, Lifetime!UseHandler, vars
<1>3. CASE ServerOnly(Environment \/ \E w \in Lifetime!Threads : Work(w))
  BY <1>3 DEF ServerOnly, Next
<1> QED BY <1>1, <1>2, <1>3 DEF ProgramNext

(* Whatever main does with its handler, the server behaves as module       *)
(* Server says, and all that is proved of it holds of both programs.       *)
THEOREM ProgramsRunTheServer == ProgramSpec => Spec
BY ProgramSteps, PTL DEF ProgramSpec, ProgramInit, Spec

(* What the threads, the sessions and the clock do behind main's back.     *)
LEMMA BehindMain ==
  ASSUME Environment \/ \E w \in Lifetime!Threads : Work(w)
  PROVE  /\ owner' = owner \/ (owner = "asleep" /\ owner' = "await_started")
         /\ UNCHANGED joinable
         /\ stopper' = stopper \/ (stopper = "nobody" /\ stopper' = "ran_dry")
<1>1. CASE Environment
  BY <1>1 DEF Environment, Complete, Expire, Lifetime!Complete, lifetime
<1>2. ASSUME NEW w \in Lifetime!Threads, Schedule(w)
      PROVE  /\ owner' = owner \/ (owner = "asleep" /\ owner' = "await_started")
             /\ UNCHANGED joinable
             /\ stopper' = stopper \/ (stopper = "nobody" /\ stopper' = "ran_dry")
  BY <1>2 DEF Schedule, Lifetime!Exit, Lifetime!Take, Lifetime!RunListener, Lifetime!Listen,
     Lifetime!Announce, Lifetime!ListenThrows, Lifetime!Accept, Lifetime!AcceptThrows,
     Lifetime!Leave, Lifetime!stopped
<1>3. ASSUME NEW w \in Lifetime!Threads, RunSession(w)
      PROVE  /\ UNCHANGED <<owner, joinable>>
             /\ stopper' = stopper \/ (stopper = "nobody" /\ stopper' = "ran_dry")
  BY <1>3 DEF RunSession, GoesOn, Suspends, Ends, Lifetime!Leave, Lifetime!stopped, lifetime
<1> QED BY <1>1, <1>2, <1>3 DEF Work

LEMMA ProgramInvInit == ProgramInit => ProgramInv
BY InitIInv DEF ProgramInit, ProgramInv, MainInv, Init, Lifetime!Init

LEMMA ProgramInvNext == ProgramInv /\ [ProgramNext]_programvars => ProgramInv'
<1> SUFFICES ASSUME ProgramInv, [ProgramNext]_programvars PROVE ProgramInv'
  OBVIOUS
<1>0. IInv /\ MainInv /\ IInv'
  BY ProgramSteps, NextIInv DEF ProgramInv
<1>1. /\ Lifetime!TypeOK /\ Lifetime!OwnerInv /\ Lifetime!ThreadInv
      /\ Lifetime!TypeOK' /\ Lifetime!OwnerInv' /\ Lifetime!ThreadInv'
  BY <1>0 DEF IInv, Lifetime!IInv
<1> USE DEF MainInv
<1>2. CASE Starts /\ UNCHANGED program
  <2>1. /\ stopper # "owner" /\ stopper' = stopper
        /\ owner' \in {"spawn", "await_started", "asleep", "threw", "owns"}
    BY <1>0, <1>1, <1>2 DEF Starts, Lifetime!OwnerInv, Lifetime!InStartServer,
       Lifetime!SpawnThread, Lifetime!SpawnThreadThrows, Lifetime!WaitStarted,
       Lifetime!StartReturns
  <2> QED BY <1>0, <1>2, <2>1 DEF Starts, ProgramInv
<1>3. CASE Waits /\ UNCHANGED program
  <2>1. CASE Lifetime!CallWait
    BY <1>0, <1>3, <2>1 DEF Waits, Lifetime!CallWait, ProgramInv
  <2>2. CASE \E w \in Lifetime!Threads : Lifetime!Join(w)
    BY <1>0, <1>3, <2>2 DEF Waits, Lifetime!Join, Lifetime!Joining, ProgramInv
  <2>3. CASE Lifetime!JoinDone
    <3>1. joinable = {} /\ owner = "in_Wait" /\ stopper # "owner"
      BY <1>0, <1>3, <2>3 DEF Waits, Lifetime!JoinDone, Lifetime!Joining
    <3>2. 1 \in Lifetime!Threads
      BY NumThreadsAssumption DEF Lifetime!Threads
    <3>3. worker[1] = "exited"
      BY <1>1, <3>1, <3>2 DEF Lifetime!OwnerInv, Lifetime!ThreadInv
    <3>4. stopper = "ran_dry"
      BY <1>1, <3>1, <3>2, <3>3 DEF Lifetime!ThreadInv, Lifetime!TypeOK, Lifetime!stopped
    <3> QED BY <1>0, <1>3, <2>3, <3>1, <3>4 DEF Waits, Lifetime!JoinDone, ProgramInv
  <2>4. ~Lifetime!StopsContext
    BY <1>0, <1>3 DEF Waits, Lifetime!StopsContext
  <2> QED BY <1>3, <2>1, <2>2, <2>3, <2>4 DEF Waits, Lifetime!InHandler
<1>4. CASE Stops /\ UNCHANGED program
  BY <1>0, <1>4 DEF Stops, Lifetime!CallStop, lifetime, ProgramInv
<1>5. CASE StopsServer /\ UNCHANGED program
  BY <1>0, <1>5 DEF StopsServer, Lifetime!InHandler, Lifetime!StopsContext, Lifetime!Join, Lifetime!JoinDone, ProgramInv
<1>6. CASE Returns /\ UNCHANGED program
  <2>1. \/ Lifetime!Destroy \/ Lifetime!StopsContext \/ Lifetime!JoinDone
        \/ \E w \in Lifetime!Threads : Lifetime!Join(w)
    BY <1>6 DEF Returns, Lifetime!InHandler
  <2>2. owner' \in {"owns", "in_destructor", "destructor_waits", "gone"}
    BY <1>0, <1>6, <2>1 DEF Returns, Lifetime!Destroy, Lifetime!StopsContext, Lifetime!JoinDone,
       Lifetime!Join
  <2>3. program = "application" => stopper' = "ran_dry" /\ joinable' = {}
    BY <1>0, <1>6, <2>1 DEF Returns, Lifetime!Destroy, Lifetime!StopsContext,
       Lifetime!JoinDone, Lifetime!Join, Lifetime!stopped
  <2>4. Lifetime!Terminates' => stopper' = "ran_dry" /\ joinable' # {}
    <3> SUFFICES ASSUME Lifetime!Terminates' PROVE stopper' = "ran_dry" /\ joinable' # {}
      OBVIOUS
    <3>1. PICK w \in Lifetime!Threads : w \in joinable'
      BY <1>1 DEF Lifetime!Terminates, Lifetime!TypeOK
    <3>2. worker'[w] = "exited" /\ stopper' # "nobody"
      BY <1>1, <3>1 DEF Lifetime!Terminates, Lifetime!Destroyed, Lifetime!Alive,
         Lifetime!ThreadInv, Lifetime!stopped
    <3> QED BY <1>1, <3>1, <3>2 DEF Lifetime!Terminates, Lifetime!Destroyed,
               Lifetime!OwnerInv, Lifetime!TypeOK
  <2>5. /\ main = "return" /\ program' = program
        /\ \/ owner' # "gone" /\ main' = main
           \/ Lifetime!Terminates' /\ main' = "terminated"
           \/ main' = "returned"
    BY <1>6 DEF Returns
  <2> QED BY <1>0, <2>2, <2>3, <2>4, <2>5 DEF ProgramInv
<1>7. CASE ServerOnly(Environment \/ \E w \in Lifetime!Threads : Work(w))
  BY <1>0, <1>7, BehindMain DEF ServerOnly, ProgramInv
<1>8. CASE UNCHANGED programvars
  BY <1>0, <1>8 DEF programvars, vars, lifetime, ProgramInv
<1> QED BY <1>2, <1>3, <1>4, <1>5, <1>6, <1>7, <1>8 DEF ProgramNext, Main, Tests

(* Which part of the life of its handler each statement of main may see.   *)
THEOREM ProgramInvariance == ProgramSpec => []ProgramInv
BY ProgramInvInit, ProgramInvNext, PTL DEF ProgramSpec

(* The application returns only when nothing is left to be cut off.  It    *)
(* ends by std::terminate only when StartServer throws, which on one       *)
(* thread is before any session has started, and never because it destroys *)
(* the handler; the test only if its server had run dry.                   *)
THEOREM MainOutlivesTheServer == ProgramSpec => []MainEndsWithTheServer
<1>1. ProgramInv => MainEndsWithTheServer
  <2> SUFFICES ASSUME ProgramInv PROVE MainEndsWithTheServer
    OBVIOUS
  <2>1. /\ OnlyStopCutsOff
        /\ \A s \in Sessions : stage[s] # "handling" => phase[s] = "idle"
    BY RanDry DEF ProgramInv, IInv, Backend!IInv, Backend!TypeOK
  <2>2. ASSUME owner = "threw", NumThreads = 1 PROVE \A s \in Sessions : job[s] = "none"
    <3>1. worker[1] = "unborn" /\ Lifetime!SpawnInv
      BY <2>2 DEF ProgramInv, IInv, Lifetime!IInv, Lifetime!SpawnInv
    <3>2. \A w \in Lifetime!Threads : w = 1
      BY <2>2 DEF Lifetime!Threads
    <3> QED BY <3>1, <3>2 DEF Lifetime!SpawnInv
  <2> QED BY <2>1, <2>2 DEF ProgramInv, MainInv, MainEndsWithTheServer, OnlyStopCutsOff,
             Backend!Over
<1> QED BY <1>1, ProgramInvariance, PTL
=============================================================================

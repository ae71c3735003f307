------------------------ MODULE ServerLifetimeProofs ------------------------
(* Theorems about ServerLifetime, for any number of threads and of         *)
(* sessions open at a time.                                                *)
EXTENDS ServerLifetime, TLAPS

(* What a thread is doing when it runs no coroutine. *)
LEMMA NotCoroutines == Coroutines \cap {"unborn", "loop", "exited"} = {} /\ "listen" \notin Sessions
BY SessionsAssumption DEF Coroutines

LEMMA InitIInv == Init => IInv
<1> SUFFICES ASSUME Init PROVE IInv
  OBVIOUS
<1>1. TypeOK
  BY DEF Init, TypeOK, Coroutines
<1>2. OneWorkerPerCoroutine
  BY NotCoroutines DEF Init, OneWorkerPerCoroutine, Coroutines
<1>3. OwnerInv /\ ThreadInv /\ RanDryInv
  BY DEF Init, OwnerInv, ThreadInv, RanDryInv, stopped
<1>4. SpawnInv
  BY NumThreadsAssumption, NotCoroutines DEF Init, SpawnInv, Threads, Coroutines
<1> QED BY <1>1, <1>2, <1>3, <1>4 DEF IInv

(* A coroutine that leaves thread w frees it, whatever becomes of the      *)
(* others, as long as none of them starts or stops running; it may wake    *)
(* the owner.                                                              *)
LEMMA LeaveKeepsIInv ==
  ASSUME IInv, NEW w \in Threads, NEW k \in Coroutines, worker[w] = k,
         NEW jobs \in [Coroutines -> {"none", "ready", "running", "waiting", "done"}],
         jobs[k] # "running",
         \A l \in Coroutines \ {k} : jobs[l] = "running" <=> job[l] = "running",
         Leave(w, jobs), started' \in {"no", "set", "notified"},
         owner' = owner \/ (owner = "asleep" /\ owner' = "await_started")
  PROVE  IInv'
<1> USE DEF IInv, Leave
<1>1. TypeOK'
  BY DEF TypeOK
<1>2. OneWorkerPerCoroutine'
  <2>1. \A v \in Threads \ {w} : worker[v] # k
    BY DEF OneWorkerPerCoroutine
  <2>2. \A v \in Threads : worker'[v] = IF v = w THEN "loop" ELSE worker[v]
    BY DEF TypeOK
  <2>3. \A l \in Coroutines \ {k}, v \in Threads : worker'[v] = l <=> worker[v] = l
    BY <2>2, NotCoroutines
  <2>4. \A v \in Threads : worker'[v] # k
    BY <2>1, <2>2, NotCoroutines
  <2> QED BY <2>3, <2>4 DEF OneWorkerPerCoroutine
<1>3. worker[w] \notin {"unborn", "exited"}
  BY NotCoroutines
<1>4. OwnerInv' /\ ThreadInv'
  BY <1>3 DEF OwnerInv, ThreadInv, TypeOK, stopped
<1>5. RanDryInv'
  <2>1. k \in Outstanding(job)
    BY DEF OneWorkerPerCoroutine, Outstanding
  <2> QED BY <2>1 DEF RanDryInv, stopped, TypeOK
<1>6. SpawnInv'
  BY <1>3, NumThreadsAssumption DEF SpawnInv, TypeOK, Threads
<1> QED BY <1>1, <1>2, <1>4, <1>5, <1>6

(* A step of the owner runs no coroutine and leaves them all as they are. *)
LEMMA CoroutinesUnchanged ==
  ASSUME OneWorkerPerCoroutine, UNCHANGED job,
         \A k \in Coroutines, w \in Threads : worker'[w] = k <=> worker[w] = k
  PROVE  OneWorkerPerCoroutine'
BY DEF OneWorkerPerCoroutine

LEMMA NextIInv == IInv /\ [Next]_vars => IInv'
<1> SUFFICES ASSUME IInv, [Next]_vars PROVE IInv'
  OBVIOUS
<1>0. TypeOK /\ OneWorkerPerCoroutine /\ OwnerInv /\ ThreadInv /\ RanDryInv /\ SpawnInv
  BY DEF IInv
<1> USE NumThreadsAssumption DEF Threads
<1>1. ASSUME NEW w \in Threads, SpawnThread(w) PROVE IInv'
  <2>1. TypeOK'
    BY <1>0, <1>1 DEF SpawnThread, TypeOK
  <2>2. OneWorkerPerCoroutine'
    BY <1>0, <1>1, NotCoroutines, CoroutinesUnchanged DEF SpawnThread, TypeOK
  <2>3. OwnerInv'
    <3>1. \A v \in Threads : v # w /\ w = NumThreads => worker[v] # "unborn"
      BY <1>1, NumThreadsAssumption DEF SpawnThread, Threads
    <3> QED BY <1>0, <1>1, <3>1 DEF SpawnThread, OwnerInv, TypeOK, stopped
  <2>4. ThreadInv' /\ RanDryInv'
    BY <1>0, <1>1 DEF SpawnThread, ThreadInv, RanDryInv, TypeOK, stopped
  <2>5. SpawnInv'
    BY <1>0, <1>1 DEF SpawnThread, SpawnInv, TypeOK
  <2> QED BY <2>1, <2>2, <2>3, <2>4, <2>5 DEF IInv
<1>2. ASSUME \/ SpawnThreadThrows \/ WaitStarted \/ StartReturns
             \/ CallWait \/ CallStop \/ Destroy \/ StopsContext \/ JoinDone
      PROVE  IInv'
  <2> USE <1>0, <1>2 DEF SpawnThreadThrows, WaitStarted, StartReturns, CallWait, CallStop,
                         Destroy, StopsContext, JoinDone, Joining
  <2>1. TypeOK'
    BY DEF TypeOK
  <2>2. OneWorkerPerCoroutine'
    BY CoroutinesUnchanged
  <2>3. OwnerInv'
    BY DEF OwnerInv, stopped
  <2>4. ThreadInv' /\ RanDryInv' /\ SpawnInv'
    BY DEF ThreadInv, RanDryInv, SpawnInv, stopped
  <2> QED BY <2>1, <2>2, <2>3, <2>4 DEF IInv
<1>3. ASSUME NEW w \in Threads, Join(w) PROVE IInv'
  <2> USE <1>0, <1>3 DEF Join
  <2>1. TypeOK'
    BY DEF TypeOK
  <2>2. OneWorkerPerCoroutine'
    BY CoroutinesUnchanged
  <2>3. OwnerInv' /\ ThreadInv' /\ RanDryInv' /\ SpawnInv'
    BY DEF OwnerInv, ThreadInv, RanDryInv, SpawnInv, stopped
  <2> QED BY <2>1, <2>2, <2>3 DEF IInv
<1>4. ASSUME NEW w \in Threads, NEW k \in Coroutines, Take(w, k) PROVE IInv'
  <2> USE <1>0, <1>4 DEF Take
  <2>1. TypeOK'
    BY DEF TypeOK
  <2>2. OneWorkerPerCoroutine'
    BY NotCoroutines DEF OneWorkerPerCoroutine, TypeOK
  <2>3. OwnerInv' /\ ThreadInv'
    BY NotCoroutines DEF OwnerInv, ThreadInv, TypeOK, stopped
  <2>4. RanDryInv' /\ SpawnInv'
    BY NotCoroutines DEF RanDryInv, SpawnInv, TypeOK, stopped
  <2> QED BY <2>1, <2>2, <2>3, <2>4 DEF IInv
<1>5. ASSUME NEW w \in Threads, Exit(w) PROVE IInv'
  <2> USE <1>0, <1>5 DEF Exit
  <2>1. TypeOK'
    BY DEF TypeOK
  <2>2. OneWorkerPerCoroutine'
    BY NotCoroutines, CoroutinesUnchanged DEF TypeOK
  <2>3. OwnerInv' /\ ThreadInv' /\ RanDryInv' /\ SpawnInv'
    BY DEF OwnerInv, ThreadInv, RanDryInv, SpawnInv, TypeOK, stopped
  <2> QED BY <2>1, <2>2, <2>3 DEF IInv
<1>6. ASSUME NEW w \in Threads, Announce(w) \/ ListenThrows(w) \/ AcceptThrows(w) PROVE IInv'
  <2>1. PICK jobs \in {Suspends("listen"), Ends("listen")} : Leave(w, jobs)
    BY <1>6 DEF Announce, ListenThrows, AcceptThrows
  <2>2. /\ worker[w] = "listen" /\ "listen" \in Coroutines
        /\ started' \in {"no", "set", "notified"}
        /\ owner' = owner \/ (owner = "asleep" /\ owner' = "await_started")
    BY <1>0, <1>6 DEF Announce, ListenThrows, AcceptThrows, Coroutines, TypeOK
  <2>3. /\ jobs \in [Coroutines -> {"none", "ready", "running", "waiting", "done"}]
        /\ jobs["listen"] # "running"
        /\ \A l \in Coroutines \ {"listen"} : jobs[l] = job[l]
    BY <1>0, <2>2 DEF TypeOK, Suspends, Ends
  <2> QED BY <2>1, <2>2, <2>3, LeaveKeepsIInv
<1>7. ASSUME NEW w \in Threads, Accept(w) PROVE IInv'
  <2>1. PICK s \in Sessions : /\ job[s] \in {"none", "done"}
                              /\ Leave(w, [Suspends("listen") EXCEPT ![s] = "ready"])
    BY <1>7 DEF Accept
  <2> DEFINE jobs == [Suspends("listen") EXCEPT ![s] = "ready"]
  <2>2. /\ worker[w] = "listen" /\ "listen" \in Coroutines
        /\ started' \in {"no", "set", "notified"} /\ UNCHANGED owner
    BY <1>0, <1>7 DEF Accept, Coroutines, TypeOK
  <2>3. s # "listen" /\ s \in Coroutines
    BY NotCoroutines DEF Coroutines
  <2>4. /\ jobs \in [Coroutines -> {"none", "ready", "running", "waiting", "done"}]
        /\ jobs["listen"] # "running"
        /\ \A l \in Coroutines \ {"listen"} : jobs[l] = "running" <=> job[l] = "running"
    BY <1>0, <2>1, <2>2, <2>3 DEF TypeOK, Suspends
  <2> QED BY <2>1, <2>2, <2>4, LeaveKeepsIInv
<1>8. ASSUME NEW w \in Threads, SessionRuns(w) PROVE IInv'
  <2> DEFINE s == worker[w]
  <2>1. PICK jobs \in {Suspends(s), Ends(s)} : Leave(w, jobs)
    BY <1>8 DEF SessionRuns
  <2>2. s \in Coroutines /\ started' \in {"no", "set", "notified"} /\ UNCHANGED owner
    BY <1>0, <1>8 DEF SessionRuns, Coroutines, TypeOK
  <2>3. /\ jobs \in [Coroutines -> {"none", "ready", "running", "waiting", "done"}]
        /\ jobs[s] # "running"
        /\ \A l \in Coroutines \ {s} : jobs[l] = job[l]
    BY <1>0, <2>2 DEF TypeOK, Suspends, Ends
  <2> QED BY <2>1, <2>2, <2>3, LeaveKeepsIInv
<1>9. ASSUME NEW k \in Coroutines, Complete(k) PROVE IInv'
  <2> USE <1>0, <1>9 DEF Complete
  <2>1. TypeOK'
    BY DEF TypeOK
  <2>2. OneWorkerPerCoroutine'
    BY DEF OneWorkerPerCoroutine, TypeOK
  <2>3. OwnerInv' /\ ThreadInv' /\ RanDryInv' /\ SpawnInv'
    BY DEF OwnerInv, ThreadInv, RanDryInv, SpawnInv, stopped
  <2> QED BY <2>1, <2>2, <2>3 DEF IInv
<1>10. ASSUME NEW w \in Threads, Listen(w) PROVE IInv'
  <2> USE <1>0, <1>10 DEF Listen
  <2>1. TypeOK' /\ OneWorkerPerCoroutine'
    BY CoroutinesUnchanged DEF TypeOK
  <2>2. OwnerInv' /\ ThreadInv' /\ RanDryInv' /\ SpawnInv'
    BY DEF OwnerInv, ThreadInv, RanDryInv, SpawnInv, stopped
  <2> QED BY <2>1, <2>2 DEF IInv
<1>11. CASE UNCHANGED vars
  BY <1>11 DEF vars, IInv, TypeOK, OneWorkerPerCoroutine, OwnerInv, ThreadInv, RanDryInv,
               SpawnInv, stopped
<1> QED
  BY <1>1, <1>2, <1>3, <1>4, <1>5, <1>6, <1>7, <1>8, <1>9, <1>10, <1>11
  DEF Next, InStartServer, UseHandler, InHandler, Work, RunListener

(* What is known of the threads whatever the owner, the listener and the   *)
(* sessions do, in any order: who can be stopped, joined and gone when.    *)
THEOREM Invariance == Spec => []IInv
BY InitIInv, NextIInv, PTL DEF Spec

-----------------------------------------------------------------------------
(* Whatever the owner, the threads and the coroutines do in which order,   *)
(* each stays in one of its known states.                                  *)
THEOREM TypeCorrectness == Spec => []TypeOK
BY Invariance, PTL DEF IInv

(* When a Stop that stopped the io_context is over, or a destructor that   *)
(* did, all threads have been joined.                                      *)
THEOREM StopHasJoined == Spec => []StopJoins
<1>1. IInv => StopJoins
  BY DEF IInv, OwnerInv, ThreadInv, StopJoins
<1> QED BY <1>1, Invariance, PTL

(* The only way to std::terminate is an io_context that ran out of work:   *)
(* neither a Stop nor a thread that could not be started leads there.      *)
THEOREM TerminationNeedsADryContext == Spec => []TerminatesOnlyAfterRunningDry
<1>1. IInv => TerminatesOnlyAfterRunningDry
  <2> SUFFICES ASSUME IInv, Terminates PROVE stopper = "ran_dry"
    BY DEF TerminatesOnlyAfterRunningDry
  <2>1. TypeOK /\ OwnerInv /\ ThreadInv
    BY DEF IInv
  <2>2. PICK w \in Threads : w \in joinable
    BY <2>1 DEF Terminates, TypeOK
  <2>3. stopped
    BY <2>1, <2>2 DEF Terminates, Destroyed, Alive, ThreadInv
  <2>4. stopper # "owner"
    BY <2>1, <2>2 DEF Terminates, Destroyed, OwnerInv
  <2> QED BY <2>1, <2>3, <2>4 DEF TypeOK, stopped
<1> QED BY <1>1, Invariance, PTL

(* Wait comes back only when listening and all sessions have ended, unless *)
(* the server was stopped: the application cannot leave main earlier.      *)
THEOREM WaitWaitsForSessions == Spec => WaitOutlastsTheSessions
<1>1. IInv /\ [Next]_vars =>
        [owner = "in_Wait" /\ owner' = "owns" /\ stopper # "owner" => Outstanding(job) = {}]_vars
  <2> SUFFICES ASSUME IInv, Next, owner = "in_Wait", owner' = "owns", stopper # "owner"
               PROVE  Outstanding(job) = {}
    OBVIOUS
  <2>1. TypeOK /\ OwnerInv /\ ThreadInv /\ RanDryInv
    BY DEF IInv
  <2>2. joinable = {}
    BY DEF Next, InStartServer, UseHandler, InHandler, Work, RunListener, SpawnThread,
           SpawnThreadThrows, WaitStarted, StartReturns, CallWait, CallStop, Destroy,
           StopsContext, Join, JoinDone, Take, Exit, Listen, Announce, ListenThrows, Accept,
           AcceptThrows, SessionRuns, Leave, Complete
  <2>3. 1 \in Threads
    BY NumThreadsAssumption DEF Threads
  <2>4. worker[1] = "exited"
    BY <2>1, <2>2, <2>3 DEF OwnerInv, ThreadInv
  <2> QED BY <2>1, <2>3, <2>4 DEF ThreadInv, RanDryInv, TypeOK, stopped
<1> QED BY <1>1, Invariance, PTL DEF Spec, WaitOutlastsTheSessions
=============================================================================

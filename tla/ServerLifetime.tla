--------------------------- MODULE ServerLifetime ---------------------------
(***************************************************************************)
(* The life of a rest server: StartServer posts the listening coroutine to *)
(* an io_context, starts threads that run it and waits for the started     *)
(* flag; the StopHandler it returns can Wait, Stop and be destroyed by the *)
(* one thread that owns it.  Sessions are coroutines that run on any       *)
(* worker, suspend on I/O and end; what they say to their clients is in    *)
(* module Backend.  The io_context is Boost.Asio's, as this code uses it:  *)
(* run() returns once the context is stopped, and the context stops itself *)
(* when the last coroutine has ended.                                      *)
(***************************************************************************)
EXTENDS Integers

CONSTANTS
  NumThreads,  \* max_threads, at least 1
  Sessions     \* sessions that can be open at a time (a bound)

ASSUME NumThreadsAssumption == NumThreads \in Nat \ {0}
ASSUME SessionsAssumption ==
  Sessions \cap {"listen", "unborn", "loop", "exited"} = {}

VARIABLES
  owner,       \* where the thread that calls StartServer is
  joinable,    \* threads of ServerLifetime that are joinable()
  worker,      \* of each thread: unborn, loop (in run()), exited, or the
               \* coroutine it is running
  job,         \* of each coroutine: none, ready, running, waiting, done
  stopper,     \* who stopped the io_context: nobody, owner, ran_dry
  started      \* ServerContext::started: no, set, or notified once its waiter
               \* has been told

vars == <<owner, joinable, worker, job, stopper, started>>

Threads == 1..NumThreads
Coroutines == Sessions \cup {"listen"}

stopped == stopper # "nobody"

(* Mistake: the server ends with its listener. *)
Outstanding_Listener(jobs) == {k \in {"listen"} : jobs[k] \in {"ready", "running", "waiting"}}

(* Coroutines that keep run() from returning. *)
Outstanding(jobs) == {k \in Coroutines : jobs[k] \in {"ready", "running", "waiting"}}
Alive == {w \in Threads : worker[w] \notin {"unborn", "exited"}}

(* co_spawn of DoListen comes before the first thread. *)
Init ==
  /\ owner = "spawn"
  /\ joinable = {}
  /\ worker = [w \in Threads |-> "unborn"]
  /\ job = [k \in Coroutines |-> IF k = "listen" THEN "ready" ELSE "none"]
  /\ stopper = "nobody"
  /\ started = "no"

-----------------------------------------------------------------------------
(* The owner's thread.                                                     *)

(* Mistake: the loop runs to threads <= max_threads. *)
SpawnThread_OneMore(w) ==
  /\ owner = "spawn"
  /\ worker[w] = "unborn" /\ \A v \in Threads : v < w => worker[v] # "unborn"
  /\ worker' = [worker EXCEPT ![w] = "loop"]
  /\ joinable' = joinable \cup (IF w = NumThreads THEN {w, w + 1} ELSE {w})
  /\ owner' = IF w = NumThreads THEN "await_started" ELSE "spawn"
  /\ UNCHANGED <<job, stopper, started>>

(* threads.emplace_back([server_lifetime] { ioc.run(); }) *)
SpawnThread(w) ==
  /\ owner = "spawn"
  /\ worker[w] = "unborn" /\ \A v \in Threads : v < w => worker[v] # "unborn"
  /\ worker' = [worker EXCEPT ![w] = "loop"]
  /\ joinable' = joinable \cup {w}
  /\ owner' = IF w = NumThreads THEN "await_started" ELSE "spawn"
  /\ UNCHANGED <<job, stopper, started>>

(* std::thread's constructor throws: StartServer lets go of ServerLifetime, *)
(* which the threads already started keep alive.                            *)
SpawnThreadThrows ==
  /\ owner = "spawn"
  /\ owner' = "threw"
  /\ UNCHANGED <<joinable, worker, job, stopper, started>>

(* server_ctx->started.wait(false): the owner looks at the flag and, in the *)
(* same step, goes to sleep until the next notify, or goes on ...           *)
WaitStarted ==
  /\ owner = "await_started" /\ started = "no"
  /\ owner' = "asleep"
  /\ UNCHANGED <<joinable, worker, job, stopper, started>>

(* ... to return StopHandler{...} *)
StartReturns ==
  /\ owner = "await_started" /\ started # "no"
  /\ owner' = "owns"
  /\ UNCHANGED <<joinable, worker, job, stopper, started>>

CallWait ==
  /\ owner = "owns"
  /\ owner' = "in_Wait"
  /\ UNCHANGED <<joinable, worker, job, stopper, started>>

(* Stop(): if (!ioc.stopped()), and nothing otherwise *)
CallStop ==
  /\ owner = "owns" /\ ~stopped
  /\ owner' = "in_Stop"
  /\ UNCHANGED <<joinable, worker, job, stopper, started>>

(* Mistake: the destructor stops the io_context and does not wait. *)
Destroy_WithoutWait ==
  /\ owner = "owns"
  /\ owner' = "gone"
  /\ stopper' = IF stopped THEN stopper ELSE "owner"
  /\ UNCHANGED <<joinable, worker, job, started>>

(* ~StopHandler: Stop, then the reference to ServerLifetime goes. *)
Destroy ==
  /\ owner = "owns"
  /\ owner' = IF stopped THEN "gone" ELSE "in_destructor"
  /\ UNCHANGED <<joinable, worker, job, stopper, started>>

(* Mistake: Stop only waits. *)
StopsContext_Skipped ==
  /\ owner \in {"in_Stop", "in_destructor"}
  /\ owner' = IF owner = "in_Stop" THEN "Stop_waits" ELSE "destructor_waits"
  /\ UNCHANGED <<stopper, joinable, worker, job, started>>

(* ioc.stop(), which finds that the io_context has stopped itself if that  *)
(* came after the test, and then Wait() all the same.                      *)
StopsContext ==
  /\ owner \in {"in_Stop", "in_destructor"}
  /\ owner' = IF owner = "in_Stop" THEN "Stop_waits" ELSE "destructor_waits"
  /\ stopper' = IF stopped THEN stopper ELSE "owner"
  /\ UNCHANGED <<joinable, worker, job, started>>

Joining == owner \in {"in_Wait", "Stop_waits", "destructor_waits"}

(* Mistake: detach() in place of join(). *)
Join_Detaches(w) ==
  /\ Joining
  /\ w \in joinable /\ \A v \in joinable : w <= v
  /\ joinable' = joinable \ {w}
  /\ UNCHANGED <<owner, worker, job, stopper, started>>

(* for (auto& t : threads) if (t.joinable()) t.join(); *)
Join(w) ==
  /\ Joining
  /\ w \in joinable /\ \A v \in joinable : w <= v
  /\ worker[w] = "exited"
  /\ joinable' = joinable \ {w}
  /\ UNCHANGED <<owner, worker, job, stopper, started>>

JoinDone ==
  /\ Joining /\ joinable = {}
  /\ owner' = IF owner = "destructor_waits" THEN "gone" ELSE "owns"
  /\ UNCHANGED <<joinable, worker, job, stopper, started>>

-----------------------------------------------------------------------------
(* The workers, each in io_context::run().                                 *)

(* Mistake: a coroutine stays in the queue while it runs. *)
Take_KeepsQueued(w, k) ==
  /\ worker[w] = "loop" /\ ~stopped
  /\ job[k] = "ready"
  /\ worker' = [worker EXCEPT ![w] = k]
  /\ UNCHANGED <<owner, joinable, job, stopper, started>>

Take(w, k) ==
  /\ worker[w] = "loop" /\ ~stopped
  /\ job[k] = "ready"
  /\ worker' = [worker EXCEPT ![w] = k]
  /\ job' = [job EXCEPT ![k] = "running"]
  /\ UNCHANGED <<owner, joinable, stopper, started>>

(* Mistake: the threads are killed, whatever they are running. *)
Exit_Abandons(w) ==
  /\ worker[w] \notin {"unborn", "exited"} /\ stopped
  /\ worker' = [worker EXCEPT ![w] = "exited"]
  /\ UNCHANGED <<owner, joinable, job, stopper, started>>

(* run() returns; the lambda and its reference to ServerLifetime end. *)
Exit(w) ==
  /\ worker[w] = "loop" /\ stopped
  /\ worker' = [worker EXCEPT ![w] = "exited"]
  /\ UNCHANGED <<owner, joinable, job, stopper, started>>

(* The coroutine on w suspends or ends, and jobs is what becomes of all of *)
(* them; with none outstanding the io_context stops itself.                *)
Leave(w, jobs) ==
  /\ worker' = [worker EXCEPT ![w] = "loop"]
  /\ job' = jobs
  /\ stopper' = IF ~stopped /\ Outstanding(jobs) = {} THEN "ran_dry" ELSE stopper
  /\ UNCHANGED joinable

Ends(k) == [job EXCEPT ![k] = "done"]
Suspends(k) == [job EXCEPT ![k] = "waiting"]

(* DoListen: open, bind, listen, then started.store(true) ... *)
Listen(w) ==
  /\ worker[w] = "listen" /\ started = "no"
  /\ started' = "set"
  /\ UNCHANGED <<owner, joinable, worker, job, stopper>>

(* Mistake: no notify_all. *)
Announce_None(w) ==
  /\ worker[w] = "listen" /\ started = "set"
  /\ started' = "notified"
  /\ Leave(w, Suspends("listen"))
  /\ UNCHANGED owner

(* ... started.notify_all(), and on to the first async_accept. *)
Announce(w) ==
  /\ worker[w] = "listen" /\ started = "set"
  /\ started' = "notified"
  /\ owner' = IF owner = "asleep" THEN "await_started" ELSE owner
  /\ Leave(w, Suspends("listen"))

(* open, bind or listen throws; LogError prints it and the coroutine ends. *)
ListenThrows(w) ==
  /\ worker[w] = "listen" /\ started = "no"
  /\ Leave(w, Ends("listen"))
  /\ UNCHANGED <<owner, started>>

(* async_accept has a connection: co_spawn a session and accept again. *)
Accept(w) ==
  /\ worker[w] = "listen" /\ started = "notified"
  /\ \E s \in Sessions :
       /\ job[s] \in {"none", "done"}
       /\ Leave(w, [Suspends("listen") EXCEPT ![s] = "ready"])
  /\ UNCHANGED <<owner, started>>

(* async_accept has an error: the exception ends DoListen for good. *)
AcceptThrows(w) ==
  /\ worker[w] = "listen" /\ started = "notified"
  /\ Leave(w, Ends("listen"))
  /\ UNCHANGED <<owner, started>>

(* A session runs up to its next co_await or to its end. *)
SessionRuns(w) ==
  /\ worker[w] \in Sessions
  /\ \/ Leave(w, Suspends(worker[w]))
     \/ Leave(w, Ends(worker[w]))
  /\ UNCHANGED <<owner, started>>

(* The operation a coroutine waits for completes, fails or times out. *)
Complete(k) ==
  /\ job[k] = "waiting" /\ ~stopped
  /\ job' = [job EXCEPT ![k] = "ready"]
  /\ UNCHANGED <<owner, joinable, worker, stopper, started>>

-----------------------------------------------------------------------------
InStartServer ==
  SpawnThreadThrows \/ WaitStarted \/ StartReturns \/ \E w \in Threads : SpawnThread(w)
UseHandler == CallWait \/ CallStop \/ Destroy
InHandler == StopsContext \/ JoinDone \/ \E w \in Threads : Join(w)
RunListener(w) ==
  Listen(w) \/ Announce(w) \/ ListenThrows(w) \/ Accept(w) \/ AcceptThrows(w)
Work(w) ==
  Exit(w) \/ RunListener(w) \/ SessionRuns(w) \/ \E k \in Coroutines : Take(w, k)

Next ==
  \/ InStartServer \/ UseHandler \/ InHandler
  \/ \E w \in Threads : Work(w)
  \/ \E k \in Coroutines : Complete(k)

Spec == Init /\ [][Next]_vars

(* Threads that can run do.  Nothing makes the owner use its handler, a    *)
(* client connect or an operation complete.                                *)
Fairness ==
  /\ WF_vars(InStartServer) /\ WF_vars(InHandler)
  /\ \A w \in Threads : WF_vars(Work(w))
FairSpec == Spec /\ Fairness

-----------------------------------------------------------------------------
TypeOK ==
  /\ owner \in {"spawn", "await_started", "asleep", "threw", "owns", "in_Wait", "in_Stop",
                "Stop_waits", "in_destructor", "destructor_waits", "gone"}
  /\ joinable \subseteq Threads
  /\ worker \in [Threads -> {"unborn", "loop", "exited"} \cup Coroutines]
  /\ job \in [Coroutines -> {"none", "ready", "running", "waiting", "done"}]
  /\ stopper \in {"nobody", "owner", "ran_dry"}
  /\ started \in {"no", "set", "notified"}

(* What the io_context promises of coroutines, and the rest needs: one is  *)
(* on at most one worker, and on one exactly while it runs.                *)
OneWorkerPerCoroutine ==
  \A k \in Coroutines :
    /\ job[k] = "running" <=> \E w \in Threads : worker[w] = k
    /\ \A v, w \in Threads : worker[v] = k /\ worker[w] = k => v = w

(* Once Stop or the destructor that stopped the io_context has returned,   *)
(* no thread of the server is left to run a handler.                       *)
StopJoins ==
  owner \in {"owns", "gone"} /\ stopper = "owner" =>
    joinable = {} /\ \A w \in Threads : worker[w] = "exited"

(* The last reference to ServerLifetime is the handler's or a worker's; a  *)
(* std::thread that is joinable when it is destroyed calls std::terminate. *)
Destroyed == owner \in {"gone", "threw"} /\ Alive = {}
Terminates == Destroyed /\ joinable # {}

(* Destroying the server takes the process down only if the io_context ran *)
(* out of work first: never after a Stop, and never while it is served.    *)
TerminatesOnlyAfterRunningDry == Terminates => stopper = "ran_dry"

(* Wait, unless it follows a Stop, does not return before listening has    *)
(* ended and every session with it: main cannot exit under an open session. *)
WaitOutlastsTheSessions ==
  [][owner = "in_Wait" /\ owner' = "owns" /\ stopper # "owner"
       => Outstanding(job) = {}]_vars

(* The inductive invariant behind the three above.  The owner stops the    *)
(* io_context only from inside a function that goes on to join, so what it *)
(* finds when it is back in none of them depends on who stopped it; a      *)
(* thread that is not joinable has been joined, and it has left run() only *)
(* because of the stop; a context that stopped itself had run dry; and     *)
(* while StartServer spawns, or if it threw, the last thread is unborn, and *)
(* no session starts before the first is born.                             *)
OwnerInv ==
  /\ owner \notin {"spawn", "threw"} => \A w \in Threads : worker[w] # "unborn"
  /\ stopper = "owner" =>
       owner \in {"owns", "in_Wait", "Stop_waits", "destructor_waits", "gone"}
  /\ owner \in {"Stop_waits", "destructor_waits"} => stopped
  /\ owner = "gone" => stopped
  /\ stopper = "owner" /\ owner \in {"owns", "in_Wait", "gone"} => joinable = {}

ThreadInv ==
  \A w \in Threads :
    /\ w \in joinable => worker[w] # "unborn"
    /\ worker[w] \notin {"unborn", "exited"} => w \in joinable
    /\ worker[w] = "exited" => stopped

RanDryInv == stopper = "ran_dry" => Outstanding(job) = {}

SpawnInv ==
  /\ owner \in {"spawn", "threw"} => worker[NumThreads] = "unborn"
  /\ (\A w \in Threads : worker[w] = "unborn") => \A s \in Sessions : job[s] = "none"

IInv ==
  /\ TypeOK /\ OneWorkerPerCoroutine
  /\ OwnerInv /\ ThreadInv /\ RanDryInv /\ SpawnInv

(* Stop, and the destructor, always come back, whatever the sessions wait  *)
(* for: a running coroutine reaches its next co_await and then run() ends. *)
StopReturns ==
  owner \in {"in_Stop", "Stop_waits", "in_destructor", "destructor_waits"}
    ~> owner \in {"owns", "gone"}

(* StartServer returns if DoListen gets past open, bind and listen, also   *)
(* when the owner fell asleep before the flag was set, or is about to look *)
(* at it between the store and the notify.                                 *)
Starting == owner \in {"await_started", "asleep"}
StartReturnsIfListening ==
  Starting ~> owner = "owns" \/ (job["listen"] = "done" /\ started = "no")

(* What the tests take for granted: StartServer returns.  It does not when *)
(* open, bind or listen fails, as started is then never set.               *)
StartServerReturns == Starting ~> owner = "owns"

(* What ~StopHandler() noexcept and its Stop are there for: the handler    *)
(* can be destroyed.  It cannot after a failed accept has let the server   *)
(* run dry: Stop then skips Wait and leaves the threads joinable.          *)
DestroyingTheHandlerIsSafe == owner = "gone" => ~Terminates
=============================================================================

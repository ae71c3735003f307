------------------------------- MODULE Server -------------------------------
(***************************************************************************)
(* The server as a whole: the sessions of module Backend are the           *)
(* coroutines that the threads of module ServerLifetime run, while the     *)
(* owner of the StopHandler may wait, stop and destroy it at any moment.   *)
(* A session is on a thread from the moment the thread takes it off the    *)
(* queue of the io_context until it waits for its next read or write.      *)
(***************************************************************************)
EXTENDS Integers, Sequences

CONSTANTS Sessions, NumThreads, Payloads, IdRange, Numerals, Requests, MaxCreates

ASSUME NumThreadsAssumption == NumThreads \in Nat \ {0}
ASSUME SessionsAssumption ==
  Sessions \cap {"listen", "unborn", "loop", "exited"} = {}
ASSUME NumeralsAssumption ==
  /\ IdRange \in Nat \ {0}
  /\ \A w \in DOMAIN Numerals : Numerals[w].negative \in BOOLEAN /\ Numerals[w].value \in Nat
ASSUME RequestsAssumption ==
  \A r \in Requests : r.words \in Seq(STRING) /\ r.query \in Seq(STRING \X STRING)

VARIABLES
  owner, joinable, worker, job, stopper, started,  \* see ServerLifetime
  tasks, nextId, phase, call, out,                 \* see DataStorage
  order, stage, request, response, expired,        \* see Backend
  effect, short

lifetime == <<owner, joinable, worker, job, stopper, started>>
backend == <<tasks, nextId, phase, call, out,
             order, stage, request, response, expired, effect, short>>
vars == <<lifetime, backend>>

Lifetime == INSTANCE ServerLifetime
Backend == INSTANCE Backend

Init == Lifetime!Init /\ Backend!Init

-----------------------------------------------------------------------------
(* What the threads do outside the sessions.                               *)

Owner ==
  /\ Lifetime!InStartServer \/ Lifetime!UseHandler \/ Lifetime!InHandler
  /\ UNCHANGED backend

Schedule(w) ==
  /\ \/ Lifetime!Exit(w) \/ Lifetime!RunListener(w)
     \/ \E k \in Lifetime!Coroutines : Lifetime!Take(w, k)
  /\ UNCHANGED backend

Complete(k) == Lifetime!Complete(k) /\ UNCHANGED backend

-----------------------------------------------------------------------------
(* What the session on thread w does, up to its next co_await or its end.  *)

(* async_read is done: the request, its handler and the storage. *)
GoesOn(w, s) ==
  /\ worker[w] = s
  /\ \/ \E r \in Requests : Backend!Read(s, r)
     \/ Backend!CallHandler(s) \/ Backend!StorageActs(s)
  /\ UNCHANGED lifetime

(* It starts the next async_read or async_write ... *)
Suspends(w, s) ==
  /\ worker[w] = s
  /\ \/ Backend!Connect(s) \/ Backend!Write(s)
     \/ Backend!Refuse(s) \/ Backend!HandlerReturns(s) \/ Backend!RunsShort(s)
  /\ ~Backend!Over(s)'
  /\ Lifetime!Leave(w, Lifetime!Suspends(s))
  /\ UNCHANGED <<owner, started>>

(* ... or returns, or an exception leaves it. *)
Ends(w, s) ==
  /\ worker[w] = s
  /\ \/ Backend!Write(s) \/ Backend!Fails(s)
     \/ Backend!Refuse(s) \/ Backend!HandlerReturns(s) \/ Backend!RunsShort(s)
  /\ Backend!Over(s)'
  /\ Lifetime!Leave(w, Lifetime!Ends(s))
  /\ UNCHANGED <<owner, started>>

RunSession(w) == \E s \in Sessions : GoesOn(w, s) \/ Suspends(w, s) \/ Ends(w, s)

(* The timer of a stream expires while it waits, and completes its read or *)
(* write unless that is complete already.                                  *)
Expire(s) ==
  /\ job[s] = "waiting" /\ ~Lifetime!stopped
  /\ Backend!Expire(s)
  /\ UNCHANGED lifetime
TimesOut(s) == s \in expired /\ Complete(s)

Work(w) == Schedule(w) \/ RunSession(w)
Environment ==
  \/ \E k \in Lifetime!Coroutines : Complete(k)
  \/ \E s \in Sessions : Expire(s)

Next == Owner \/ Environment \/ \E w \in Lifetime!Threads : Work(w)

Spec == Init /\ [][Next]_vars

(* What fairness is stated of: the queue of the io_context gets to k. *)
Takes(k) == (\E w \in Lifetime!Threads : Lifetime!Take(w, k)) /\ UNCHANGED backend

-----------------------------------------------------------------------------
InRequest(s) == stage[s] \in {"routing", "handling"}

(* The two views of a session agree: it prepares a response only on a      *)
(* thread, waits only for a read or a write, and a thread that resumes it  *)
(* finds room for its request (ThreadFree never holds a thread up), so     *)
(* Backend's count of threads is as good as ServerLifetime's threads.      *)
ViewsAgree ==
  \A s \in Sessions :
    /\ InRequest(s) => job[s] = "running"
    /\ job[s] = "waiting" => stage[s] \in {"reading", "writing"}
    /\ job[s] \in {"none", "done"} => Backend!Over(s)
    /\ job[s] = "running" /\ ~InRequest(s) => Backend!ThreadFree

(* The inductive invariant: those of the parts, and what relates them. *)
IInv == Lifetime!IInv /\ Backend!IInv /\ ViewsAgree

(* Stop, and the destructor, may come in the middle of a request.  Once it *)
(* has returned, no call is left in the storage, where it would hold the   *)
(* mutex for ever, and from then on nothing that a client could see or     *)
(* that the storage keeps changes.                                         *)
HasStopped == owner \in {"owns", "gone"} /\ stopper = "owner"
StopLeavesNoCallBehind ==
  HasStopped => \A s \in Sessions : ~InRequest(s) /\ phase[s] = "idle"
NothingHappensAfterStop == [][HasStopped => UNCHANGED backend]_vars

(* Only Stop cuts connections off: if the io_context has run out of work   *)
(* by itself, every session is over, none is left in a read, in a handler  *)
(* or with its answer half written.                                        *)
OnlyStopCutsOff == stopper = "ran_dry" => \A s \in Sessions : Backend!Over(s)

(* A request that was read is answered or its session ended, even if Stop  *)
(* comes meanwhile; Stop waits for it and comes back.                      *)
RequestsSettle == \A s \in Sessions : InRequest(s) ~> ~InRequest(s)
StopReturns == Lifetime!StopReturns

(* While the server runs, no peer can hold a session in a read or a write. *)
PeersAreDropped ==
  \A s \in Sessions, at \in {"reading", "writing"} :
    stage[s] = at ~> stage[s] # at \/ Lifetime!stopped
=============================================================================

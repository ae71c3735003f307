--------------------------- MODULE SessionDeadline ---------------------------
(***************************************************************************)
(* One connection under the deadline that DoSession gives each request:    *)
(* expires_after at the top of the loop, for the read and the write.  The  *)
(* stream's timer is a job of the io_context beside the session, on no     *)
(* strand with it.  Reading and writing take any number of transfers; each *)
(* waits for the timer anew, under the same deadline, and the handler of a *)
(* wait closes the socket unless its transfer has completed meanwhile.     *)
(***************************************************************************)
EXTENDS Integers, FiniteSets

CONSTANTS
  Timeout,     \* the 30 seconds, in units of the clock
  NumThreads,  \* threads that run the io_context
  MaxTime      \* bound on the clock

ASSUME TimeoutAssumption == Timeout \in Nat \ {0}
ASSUME NumThreadsAssumption == NumThreads \in Nat \ {0}
ASSUME MaxTimeAssumption == MaxTime \in Nat

VARIABLES
  now,       \* the clock
  began,     \* when DoSession was last at the top of its loop
  deadline,  \* the expiry of the stream's timer
  stage,     \* reading, handling (on a thread), writing, gone
  transfer,  \* none, pending, ready or failed
  armed,     \* the transfer's wait is with the timer
  handlers,  \* handlers of waits the timer has let go: of this transfer,
             \* stale, or past that check and closing (on a thread)
  closed,    \* the timer has closed the socket
  busy       \* threads taken by other sessions

vars == <<now, began, deadline, stage, transfer, armed, handlers, closed, busy>>

Init ==
  /\ now = 0 /\ began = 0 /\ deadline = Timeout
  /\ stage = "reading" /\ transfer = "pending" /\ armed = TRUE
  /\ handlers = {} /\ closed = FALSE /\ busy = 0

OnThread == ({stage} \cup handlers) \cap {"handling", "closing"}
ThreadFree == busy + Cardinality(OnThread) < NumThreads

-----------------------------------------------------------------------------
(* The session.                                                            *)

StartsTransfer ==
  /\ transfer' = IF closed THEN "failed" ELSE "pending"
  /\ armed' = TRUE
StartsNoTransfer == transfer' = "none" /\ armed' = FALSE

(* Mistake: expires_after stands before the loop. *)
TopOfLoop_KeepsDeadline ==
  /\ began' = now
  /\ stage' = "reading"
  /\ StartsTransfer
  /\ UNCHANGED deadline

(* stream.expires_after(30s), then async_read *)
TopOfLoop ==
  /\ began' = now
  /\ deadline' = now + Timeout
  /\ stage' = "reading"
  /\ StartsTransfer

(* The end of a transfer: its wait is cancelled, or its handler is stale. *)
EndsTransfer ==
  /\ transfer \in {"ready", "failed"} /\ ThreadFree
  /\ handlers' = {IF h = "current" THEN "stale" ELSE h : h \in handlers}
  /\ UNCHANGED <<now, closed, busy>>
Succeeded == transfer = "ready" /\ ~closed

(* The request is not complete yet, nor is the response. *)
GoesOn ==
  /\ EndsTransfer /\ Succeeded
  /\ StartsTransfer
  /\ UNCHANGED <<began, deadline, stage>>

RequestRead ==
  /\ EndsTransfer /\ Succeeded
  /\ stage = "reading"
  /\ stage' = "handling"
  /\ StartsNoTransfer
  /\ UNCHANGED <<began, deadline>>

(* Mistake: the write gets a deadline of its own. *)
Responds_Renews ==
  /\ stage = "handling"
  /\ stage' = "writing"
  /\ deadline' = now + Timeout
  /\ StartsTransfer
  /\ UNCHANGED <<now, began, handlers, closed, busy>>

(* Mistake: expires_never before the write, which then waits for no timer. *)
Responds_NeverExpires ==
  /\ stage = "handling"
  /\ stage' = "writing"
  /\ transfer' = IF closed THEN "failed" ELSE "pending"
  /\ armed' = FALSE
  /\ UNCHANGED <<now, began, deadline, handlers, closed, busy>>

(* async_write; the deadline is still that of the read. *)
Responds ==
  /\ stage = "handling"
  /\ stage' = "writing"
  /\ StartsTransfer
  /\ UNCHANGED <<now, began, deadline, handlers, closed, busy>>

(* if (keep_alive) continue; *)
Continues ==
  /\ EndsTransfer /\ Succeeded
  /\ stage = "writing"
  /\ TopOfLoop

(* shutdown and break, or the exception of a read or write that failed *)
Ends ==
  /\ EndsTransfer
  /\ Succeeded => stage = "writing"
  /\ stage' = "gone"
  /\ StartsNoTransfer
  /\ UNCHANGED <<began, deadline>>

-----------------------------------------------------------------------------
(* The peer, the timer, the other sessions and the clock.                  *)

PeerActs ==
  /\ transfer = "pending"
  /\ transfer' \in {"ready", "failed"}
  /\ UNCHANGED <<now, began, deadline, stage, armed, handlers, closed, busy>>

Expires ==
  /\ armed /\ now >= deadline
  /\ armed' = FALSE
  /\ handlers' = handlers \cup {"current"}
  /\ UNCHANGED <<now, began, deadline, stage, transfer, closed, busy>>

ChecksTransfer ==
  /\ stage # "gone" /\ ThreadFree
  /\ \/ "stale" \in handlers /\ handlers' = handlers \ {"stale"}
     \/ "current" \in handlers /\ handlers' = (handlers \ {"current"}) \cup {"closing"}
  /\ UNCHANGED <<now, began, deadline, stage, transfer, armed, closed, busy>>

Closes ==
  /\ stage # "gone" /\ "closing" \in handlers
  /\ handlers' = handlers \ {"closing"}
  /\ closed' = TRUE
  /\ transfer' = IF transfer = "pending" THEN "failed" ELSE transfer
  /\ UNCHANGED <<now, began, deadline, stage, armed, busy>>

OthersRun ==
  /\ \/ ThreadFree /\ busy' = busy + 1
     \/ busy > 0 /\ busy' = busy - 1
  /\ UNCHANGED <<now, began, deadline, stage, transfer, armed, handlers, closed>>

(* Nothing that could be done at once is put off. *)
AtRest ==
  /\ ~(armed /\ now >= deadline) /\ "closing" \notin handlers
  /\ ThreadFree => handlers = {} /\ transfer \notin {"ready", "failed"}

Tick ==
  /\ now < MaxTime
  /\ stage # "gone" /\ AtRest
  /\ now' = now + 1
  /\ UNCHANGED <<began, deadline, stage, transfer, armed, handlers, closed, busy>>

Next ==
  \/ GoesOn \/ RequestRead \/ Responds \/ Continues \/ Ends
  \/ PeerActs \/ Expires \/ ChecksTransfer \/ Closes \/ OthersRun \/ Tick

Spec == Init /\ [][Next]_vars

-----------------------------------------------------------------------------
TypeOK ==
  /\ now \in 0..MaxTime /\ began \in 0..now /\ deadline \in Nat
  /\ stage \in {"reading", "handling", "writing", "gone"}
  /\ transfer \in {"none", "pending", "ready", "failed"}
  /\ armed \in BOOLEAN /\ closed \in BOOLEAN
  /\ handlers \subseteq {"current", "stale", "closing"}
  /\ busy \in 0..NumThreads /\ busy + Cardinality(OnThread) <= NumThreads

(* With one thread, the application's, a connection is cut only when the   *)
(* request it is at has had its whole time: a timer that went off for an   *)
(* earlier request, while its answer was on its way, does no harm.  With   *)
(* more threads it may, for want of a strand between session and timer.    *)
CutOnlyByItsOwnDeadline ==
  [][closed' # closed => now >= began + Timeout]_vars

(* From the top of the loop on, reading and writing together get no more   *)
(* than the timeout, in however many pieces a peer sends or takes its      *)
(* data: past that, no time goes by while a thread is free to end it.      *)
RequestsEndInTime ==
  [][now' > now /\ stage \in {"reading", "writing"} /\ ThreadFree
       => now < began + Timeout]_vars

(* The inductive invariant behind the two above.  As long as a transfer is *)
(* pending something is left that will end it at the deadline: its wait,   *)
(* the handler of that, or one past its check.  What the timer lets go for *)
(* the transfer under way has waited for the deadline of its request; and  *)
(* with one thread that is still so when it closes, as no transfer ends    *)
(* meanwhile.                                                              *)
WaitInv ==
  /\ deadline = began + Timeout
  /\ stage \in {"reading", "writing"} <=> transfer # "none"
  /\ transfer = "pending" /\ ~armed => {"current", "closing"} \cap handlers # {}
  /\ "current" \in handlers => now >= deadline
  /\ NumThreads = 1 /\ "closing" \in handlers => now >= deadline

IInv == TypeOK /\ WaitInv
=============================================================================

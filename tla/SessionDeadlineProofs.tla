------------------------ MODULE SessionDeadlineProofs ------------------------
(* Theorems about SessionDeadline, for every timeout, any bound on the     *)
(* clock and, but for the first of the two deadlines, any number of        *)
(* threads.                                                                *)
EXTENDS SessionDeadline, FiniteSetTheorems, TLAPS

Stages == {"reading", "handling", "writing", "gone"}
Waits == {"current", "stale", "closing"}

(* How many threads a session at a stage s and its timer's handlers H hold. *)
Held(s, H) ==
  (IF s = "handling" THEN 1 ELSE 0) + (IF "closing" \in H THEN 1 ELSE 0)

LEMMA HeldIsWhatIsOnThread ==
  ASSUME NEW s \in Stages, NEW H \in SUBSET Waits
  PROVE  Cardinality(({s} \cup H) \cap {"handling", "closing"}) = Held(s, H)
<1> USE DEF Stages, Waits, Held
<1>1. CASE s = "handling" /\ "closing" \in H
  <2>1. ({s} \cup H) \cap {"handling", "closing"} = {"handling"} \cup {"closing"}
    BY <1>1
  <2>2. Cardinality({"handling"}) = 1 /\ IsFiniteSet({"handling"})
    BY FS_Singleton
  <2>3. Cardinality({"handling"} \cup {"closing"}) = 2
    BY <2>2, FS_AddElement
  <2> QED BY <1>1, <2>1, <2>3
<1>2. CASE s = "handling" /\ "closing" \notin H
  <2>1. ({s} \cup H) \cap {"handling", "closing"} = {"handling"}
    BY <1>2
  <2> QED BY <1>2, <2>1, FS_Singleton
<1>3. CASE s # "handling" /\ "closing" \in H
  <2>1. ({s} \cup H) \cap {"handling", "closing"} = {"closing"}
    BY <1>3
  <2> QED BY <1>3, <2>1, FS_Singleton
<1>4. CASE s # "handling" /\ "closing" \notin H
  <2>1. ({s} \cup H) \cap {"handling", "closing"} = {}
    BY <1>4
  <2> QED BY <1>4, <2>1, FS_EmptySet
<1> QED BY <1>1, <1>2, <1>3, <1>4

LEMMA ThreadsHeld == 
  ASSUME stage \in Stages, handlers \in SUBSET Waits
  PROVE  Cardinality(OnThread) = Held(stage, handlers)
BY HeldIsWhatIsOnThread DEF OnThread

LEMMA ThreadsHeldNext == 
  ASSUME stage' \in Stages, handlers' \in SUBSET Waits
  PROVE  Cardinality(OnThread') = Held(stage', handlers')
BY HeldIsWhatIsOnThread DEF OnThread

(* TypeOK, with the threads counted. *)
LEMMA Counted == TypeOK => busy + Held(stage, handlers) <= NumThreads
BY ThreadsHeld DEF TypeOK, Stages, Waits

LEMMA InitIInv == Init => IInv
<1> SUFFICES ASSUME Init PROVE IInv
  OBVIOUS
<1>1. Cardinality(OnThread) = 0
  BY ThreadsHeld DEF Init, Stages, Waits, Held
<1>2. TypeOK
  <2>1. busy + Cardinality(OnThread) <= NumThreads
    BY <1>1, NumThreadsAssumption DEF Init
  <2>2. now \in 0..MaxTime /\ began \in 0..now /\ deadline \in Nat /\ busy \in 0..NumThreads
    BY TimeoutAssumption, NumThreadsAssumption, MaxTimeAssumption DEF Init
  <2>3. armed \in BOOLEAN /\ closed \in BOOLEAN
    BY DEF Init
  <2> QED BY <2>1, <2>2, <2>3 DEF Init, TypeOK
<1>3. WaitInv
  BY TimeoutAssumption DEF Init, WaitInv
<1> QED BY <1>2, <1>3 DEF IInv

LEMMA NextIInv == IInv /\ [Next]_vars => IInv'
<1> SUFFICES ASSUME IInv, [Next]_vars PROVE IInv'
  OBVIOUS
<1>0. /\ TypeOK /\ WaitInv /\ busy + Held(stage, handlers) <= NumThreads
      /\ ThreadFree <=> busy + Held(stage, handlers) < NumThreads
  BY Counted, ThreadsHeld DEF IInv, TypeOK, ThreadFree, Stages, Waits
<1> SUFFICES /\ now' \in 0..MaxTime /\ began' \in 0..now' /\ deadline' \in Nat
             /\ stage' \in Stages
             /\ transfer' \in {"none", "pending", "ready", "failed"}
             /\ armed' \in BOOLEAN /\ closed' \in BOOLEAN
             /\ handlers' \in SUBSET Waits
             /\ busy' \in 0..NumThreads
             /\ busy' + Held(stage', handlers') <= NumThreads
             /\ WaitInv'
  BY ThreadsHeldNext DEF IInv, TypeOK, Stages, Waits
<1> USE TimeoutAssumption, NumThreadsAssumption, MaxTimeAssumption
    DEF TypeOK, WaitInv, Stages, Waits, Held
(* A transfer ends on a free thread: with one thread, no handler closes. *)
<1>1. ASSUME EndsTransfer
      PROVE  /\ "closing" \in handlers' <=> "closing" \in handlers
             /\ "current" \notin handlers'
             /\ handlers' \in SUBSET Waits
             /\ busy + Held(stage, handlers) < NumThreads
             /\ NumThreads = 1 => "closing" \notin handlers
  BY <1>0, <1>1 DEF EndsTransfer
<1>2. CASE GoesOn
  BY <1>0, <1>1, <1>2 DEF GoesOn, StartsTransfer, Succeeded, EndsTransfer
<1>3. CASE RequestRead
  <2>1. busy' + Held(stage', handlers') <= NumThreads
    BY <1>0, <1>1, <1>3 DEF RequestRead, EndsTransfer
  <2> QED BY <1>0, <1>1, <1>3, <2>1 DEF RequestRead, StartsNoTransfer, Succeeded, EndsTransfer
<1>4. CASE Responds
  BY <1>0, <1>4 DEF Responds, StartsTransfer
<1>5. CASE Continues
  BY <1>0, <1>1, <1>5 DEF Continues, TopOfLoop, StartsTransfer, Succeeded, EndsTransfer
<1>6. CASE Ends
  BY <1>0, <1>1, <1>6 DEF Ends, StartsNoTransfer, EndsTransfer
<1>7. CASE PeerActs
  BY <1>0, <1>7 DEF PeerActs
<1>8. CASE Expires
  BY <1>0, <1>8 DEF Expires
<1>9. CASE ChecksTransfer
  <2>1. busy' + Held(stage', handlers') <= NumThreads
    BY <1>0, <1>9 DEF ChecksTransfer
  <2>2. handlers' \in SUBSET Waits
    BY <1>0, <1>9 DEF ChecksTransfer
  <2>3. WaitInv'
    BY <1>0, <1>9, <2>2 DEF ChecksTransfer
  <2> QED BY <1>0, <1>9, <2>1, <2>2, <2>3 DEF ChecksTransfer
<1>10. CASE Closes
  BY <1>0, <1>10 DEF Closes
<1>11. CASE OthersRun
  BY <1>0, <1>11 DEF OthersRun
<1>12. CASE Tick
  BY <1>0, <1>12 DEF Tick, AtRest
<1>13. CASE UNCHANGED vars
  BY <1>0, <1>13 DEF vars
<1> QED BY <1>2, <1>3, <1>4, <1>5, <1>6, <1>7, <1>8, <1>9, <1>10, <1>11, <1>12, <1>13 DEF Next

(* The deadline is that of the request under way; a pending transfer has   *)
(* something left that ends it, and nothing ends it before the deadline.   *)
THEOREM Invariance == Spec => []IInv
BY InitIInv, NextIInv, PTL DEF Spec

(* No more threads are at work than the io_context was given. *)
THEOREM TypeCorrectness == Spec => []TypeOK
BY Invariance, PTL DEF IInv

(* The server the application builds, with its one thread, cuts nobody off *)
(* who still has time for the request at hand.                             *)
THEOREM OneThreadCutsByItsOwnDeadline ==
  ASSUME NumThreads = 1
  PROVE  Spec => CutOnlyByItsOwnDeadline
<1>1. IInv /\ [Next]_vars => [closed' # closed => now >= began + Timeout]_vars
  <2> SUFFICES ASSUME IInv, Next, closed' # closed PROVE now >= began + Timeout
    BY DEF vars
  <2>1. Closes
    BY DEF Next, GoesOn, RequestRead, Responds, Continues, Ends, EndsTransfer, PeerActs,
           Expires, ChecksTransfer, OthersRun, Tick
  <2> QED BY <2>1, NumThreads = 1 DEF Closes, IInv, WaitInv
<1> QED BY <1>1, Invariance, PTL DEF Spec, CutOnlyByItsOwnDeadline

(* A peer that sends or takes its data slowly gains nothing by it. *)
THEOREM RequestsHaveADeadline == Spec => RequestsEndInTime
<1>1. IInv /\ [Next]_vars
        => [now' > now /\ stage \in {"reading", "writing"} /\ ThreadFree
              => now < began + Timeout]_vars
  <2> SUFFICES ASSUME IInv, Next, now' > now, stage \in {"reading", "writing"}, ThreadFree
               PROVE  now < began + Timeout
    BY DEF vars
  <2>0. now \in Int
    BY DEF IInv, TypeOK
  <2>1. Tick
    BY <2>0 DEF Next, GoesOn, RequestRead, Responds, Continues, Ends, EndsTransfer, PeerActs,
           Expires, ChecksTransfer, Closes, OthersRun
  <2>2. transfer = "pending" /\ handlers = {}
    BY <2>1 DEF Tick, AtRest, IInv, TypeOK, WaitInv
  <2>3. armed
    BY <2>2 DEF IInv, WaitInv, TypeOK
  <2> QED BY <2>1, <2>3, TimeoutAssumption DEF Tick, AtRest, IInv, TypeOK, WaitInv
<1> QED BY <1>1, Invariance, PTL DEF Spec, RequestsEndInTime
=============================================================================

--------------------------- MODULE InMemoryStorage ---------------------------
(***************************************************************************)
(* backend::data_storage::InMemoryStorage: a vector of tasks kept sorted   *)
(* by id, an id counter, and a std::shared_mutex that CreateTask,          *)
(* DeleteTask and GetTask hold exclusively and GetTasks shares.  A call is *)
(* cut into the steps another thread could get between if the mutex did    *)
(* not keep it out: taking the lock, the first access to the vector, the   *)
(* access that depends on the first, and the return, which unlocks.        *)
(***************************************************************************)
EXTENDS Integers, SequencesExt

CONSTANTS
  Callers,     \* threads that call the storage
  Payloads,    \* values of TaskPayload
  IdRange,     \* the number of values of size_t, 2^64 in the build
  MaxCreates   \* bound: no CreateTask is invoked after this many ids

ASSUME IdRangeAssumption == IdRange \in Nat \ {0}

VARIABLES
  m_tasks,     \* std::vector<Task>
  m_id,        \* size_t, the next id
  exclusive,   \* callers holding m_mutex in a lock_guard
  shared,      \* callers holding m_mutex in a shared_lock
  pc,          \* where each caller is in its call
  call,        \* the call each caller is in
  itr,         \* position lower_bound returned to each caller
  out,         \* tasks each caller has copied to its result
  taken        \* how often m_id was incremented (history)

vars == <<m_tasks, m_id, exclusive, shared, pc, call, itr, out, taken>>

Ids == 0..(IdRange - 1)
Task == [id : Ids, payload : Payloads]

Calls == [op : {"CreateTask"}, payload : Payloads]
           \cup [op : {"GetTask", "DeleteTask"}, index : Ids]
           \cup [op : {"GetTasks"}]

NoCall == [op |-> "none"]

Init ==
  /\ m_tasks = <<>>
  /\ m_id = 0
  /\ exclusive = {} /\ shared = {}
  /\ pc = [c \in Callers |-> "idle"]
  /\ call = [c \in Callers |-> NoCall]
  /\ itr = [c \in Callers |-> 0]
  /\ out = [c \in Callers |-> <<>>]
  /\ taken = 0

At(c, from, ops) == pc[c] = from /\ call[c].op \in ops
Goto(c, to) == pc' = [pc EXCEPT ![c] = to]

Invoke(c, k) ==
  /\ pc[c] = "idle"
  /\ k.op = "CreateTask" => taken < MaxCreates
  /\ Goto(c, "lock")
  /\ call' = [call EXCEPT ![c] = k]
  /\ UNCHANGED <<m_tasks, m_id, exclusive, shared, itr, out, taken>>

(* Mistake: the writers do not wait for the readers. *)
LockExclusive_OverReaders(c) ==
  /\ At(c, "lock", {"CreateTask", "DeleteTask", "GetTask"})
  /\ exclusive = {}
  /\ exclusive' = exclusive \cup {c}
  /\ Goto(c, "body")
  /\ UNCHANGED <<m_tasks, m_id, shared, call, itr, out, taken>>

(* std::lock_guard _{m_mutex} *)
LockExclusive(c) ==
  /\ At(c, "lock", {"CreateTask", "DeleteTask", "GetTask"})
  /\ exclusive = {} /\ shared = {}
  /\ exclusive' = exclusive \cup {c}
  /\ Goto(c, "body")
  /\ UNCHANGED <<m_tasks, m_id, shared, call, itr, out, taken>>

(* Mistake: GetTasks copies the vector without the lock. *)
LockShared_None(c) ==
  /\ At(c, "lock", {"GetTasks"})
  /\ Goto(c, "body")
  /\ UNCHANGED <<m_tasks, m_id, exclusive, shared, call, itr, out, taken>>

(* std::shared_lock _{m_mutex} *)
LockShared(c) ==
  /\ At(c, "lock", {"GetTasks"})
  /\ exclusive = {}
  /\ shared' = shared \cup {c}
  /\ Goto(c, "body")
  /\ UNCHANGED <<m_tasks, m_id, exclusive, call, itr, out, taken>>

(* Mistake: the id is the size of the vector. *)
EmplaceBack_SizeAsId(c) ==
  /\ At(c, "body", {"CreateTask"})
  /\ m_id' = (m_id + 1) % IdRange
  /\ taken' = taken + 1
  /\ m_tasks' = Append(m_tasks, [id |-> Len(m_tasks) % IdRange, payload |-> call[c].payload])
  /\ Goto(c, "tail")
  /\ UNCHANGED <<exclusive, shared, call, itr, out>>

(* Mistake: the lock covers emplace_back only. *)
EmplaceBack_Unlocks(c) ==
  /\ At(c, "body", {"CreateTask"})
  /\ m_id' = (m_id + 1) % IdRange
  /\ taken' = taken + 1
  /\ m_tasks' = Append(m_tasks, [id |-> m_id, payload |-> call[c].payload])
  /\ exclusive' = exclusive \ {c}
  /\ Goto(c, "tail")
  /\ UNCHANGED <<shared, call, itr, out>>

(* m_tasks.emplace_back(Task{.id = m_id++, .payload = payload}): copying   *)
(* the payload or growing the vector may throw, after m_id++.              *)
EmplaceBack(c) ==
  /\ At(c, "body", {"CreateTask"})
  /\ m_id' = (m_id + 1) % IdRange
  /\ taken' = taken + 1
  /\ \/ /\ m_tasks' = Append(m_tasks, [id |-> m_id, payload |-> call[c].payload])
        /\ Goto(c, "tail")
     \/ /\ UNCHANGED m_tasks
        /\ Goto(c, "unwind")
  /\ UNCHANGED <<exclusive, shared, call, itr, out>>

(* return m_tasks.back() *)
CopyBack(c) ==
  /\ At(c, "tail", {"CreateTask"})
  /\ out' = [out EXCEPT ![c] = <<m_tasks[Len(m_tasks)]>>]
  /\ Goto(c, "unlock")
  /\ UNCHANGED <<m_tasks, m_id, exclusive, shared, call, itr, taken>>

(* std::ranges::lower_bound(m_tasks, index, less, &Task::id): the first    *)
(* position not below index if the vector is partitioned by it, else some  *)
(* position.  Len(s) + 1 stands for end().                                 *)
LowerBound(s, index) ==
  LET Positions == 1..(Len(s) + 1)
      IsBound(i) == \A j \in 1..Len(s) : s[j].id < index <=> j < i
  IN  IF \E i \in Positions : IsBound(i)
      THEN {i \in Positions : IsBound(i)} ELSE Positions

(* Mistake: the id found is not compared with the one asked for. *)
Find_AnyId(c) ==
  /\ At(c, "body", {"DeleteTask", "GetTask"})
  /\ \E i \in LowerBound(m_tasks, call[c].index) :
       IF i > Len(m_tasks)
       THEN Goto(c, "unlock") /\ UNCHANGED itr
       ELSE Goto(c, "tail") /\ itr' = [itr EXCEPT ![c] = i]
  /\ UNCHANGED <<m_tasks, m_id, exclusive, shared, call, out, taken>>

(* The search and the test of its result, if (itr == end() || ...) return. *)
Find(c) ==
  /\ At(c, "body", {"DeleteTask", "GetTask"})
  /\ \E i \in LowerBound(m_tasks, call[c].index) :
       IF i > Len(m_tasks)
       THEN Goto(c, "unlock") /\ UNCHANGED itr
       ELSE IF m_tasks[i].id # call[c].index
       THEN Goto(c, "unlock") /\ UNCHANGED itr
       ELSE Goto(c, "tail") /\ itr' = [itr EXCEPT ![c] = i]
  /\ UNCHANGED <<m_tasks, m_id, exclusive, shared, call, out, taken>>

(* Mistake: the last task moves to the place of the erased one. *)
Erase_MovesLast(c) ==
  /\ At(c, "tail", {"DeleteTask"})
  /\ m_tasks' = Front([m_tasks EXCEPT ![itr[c]] = m_tasks[Len(m_tasks)]])
  /\ Goto(c, "unlock")
  /\ UNCHANGED <<m_id, exclusive, shared, call, itr, out, taken>>

(* m_tasks.erase(itr) *)
Erase(c) ==
  /\ At(c, "tail", {"DeleteTask"})
  /\ m_tasks' = RemoveAt(m_tasks, itr[c])
  /\ Goto(c, "unlock")
  /\ UNCHANGED <<m_id, exclusive, shared, call, itr, out, taken>>

(* return *itr *)
CopyItr(c) ==
  /\ At(c, "tail", {"GetTask"})
  /\ out' = [out EXCEPT ![c] = <<m_tasks[itr[c]]>>]
  /\ Goto(c, "unlock")
  /\ UNCHANGED <<m_tasks, m_id, exclusive, shared, call, itr, taken>>

(* return m_tasks: the copy constructor, one task at a time *)
CopyNext(c) ==
  /\ At(c, "body", {"GetTasks"})
  /\ IF Len(out[c]) < Len(m_tasks)
     THEN /\ out' = [out EXCEPT ![c] = Append(@, m_tasks[Len(@) + 1])]
          /\ UNCHANGED pc
     ELSE Goto(c, "unlock") /\ UNCHANGED out
  /\ UNCHANGED <<m_tasks, m_id, exclusive, shared, call, itr, taken>>

(* Copying a task to the result throws: the result is lost, the lock is    *)
(* released on the way out, what was done to the vector stays.             *)
CopyThrows(c) ==
  /\ \/ At(c, "tail", {"CreateTask", "GetTask"})
     \/ At(c, "body", {"GetTasks"}) /\ Len(out[c]) < Len(m_tasks)
  /\ out' = [out EXCEPT ![c] = <<>>]
  /\ Goto(c, "unwind")
  /\ UNCHANGED <<m_tasks, m_id, exclusive, shared, call, itr, taken>>

(* Mistake: unlocked by hand on return, not on an exception. *)
Return_KeepsShared(c) ==
  /\ pc[c] \in {"unlock", "unwind"}
  /\ exclusive' = exclusive \ {c}
  /\ shared' = IF pc[c] = "unwind" THEN shared ELSE shared \ {c}
  /\ itr' = [itr EXCEPT ![c] = 0]
  /\ call' = [call EXCEPT ![c] = NoCall]
  /\ out' = [out EXCEPT ![c] = <<>>]
  /\ Goto(c, "idle")
  /\ UNCHANGED <<m_tasks, m_id, taken>>

(* The guard's destructor, on return and on an exception alike. *)
Return(c) ==
  /\ pc[c] \in {"unlock", "unwind"}
  /\ exclusive' = exclusive \ {c}
  /\ shared' = shared \ {c}
  /\ itr' = [itr EXCEPT ![c] = 0]
  /\ call' = [call EXCEPT ![c] = NoCall]
  /\ out' = [out EXCEPT ![c] = <<>>]
  /\ Goto(c, "idle")
  /\ UNCHANGED <<m_tasks, m_id, taken>>

Step(c) ==
  \/ LockExclusive(c) \/ LockShared(c)
  \/ EmplaceBack(c) \/ CopyBack(c)
  \/ Find(c) \/ Erase(c) \/ CopyItr(c)
  \/ CopyNext(c) \/ CopyThrows(c)
  \/ Return(c)

Next == \E c \in Callers : Step(c) \/ \E k \in Calls : Invoke(c, k)

Spec == Init /\ [][Next]_vars

(* The operating system runs every thread that can run.  Nothing says in   *)
(* which order std::shared_mutex serves those that wait.                   *)
Fairness == \A c \in Callers : WF_vars(Step(c))
FairSpec == Spec /\ Fairness

-----------------------------------------------------------------------------
TypeOK ==
  /\ m_tasks \in Seq(Task)
  /\ m_id \in Ids
  /\ exclusive \subseteq Callers /\ shared \subseteq Callers
  /\ pc \in [Callers -> {"idle", "lock", "body", "tail", "unlock", "unwind"}]
  /\ call \in [Callers -> Calls \cup {NoCall}]
  /\ itr \in [Callers -> Nat]
  /\ out \in [Callers -> Seq(Task)]
  /\ taken \in Nat

(* m_id has not wrapped around to an id it gave out before. *)
NoWrap == taken <= IdRange

(* The precondition of every lower_bound: as long as the id counter has    *)
(* not wrapped, whatever calls ran and whichever of them threw, the vector *)
(* is strictly sorted by id, so ids are unique too.                        *)
SortedById ==
  NoWrap => \A i, j \in 1..Len(m_tasks) : i < j => m_tasks[i].id < m_tasks[j].id

(* A caller gets an answer to its own question: CreateTask the task with   *)
(* the payload it passed (back() is not another thread's task), GetTask a  *)
(* task with the id it asked for or none.  Holds after a wrap too, where   *)
(* lower_bound may return any position: the id is compared.                *)
RepliesAnswerTheCall ==
  \A c \in Callers : pc[c] = "unlock" =>
    /\ call[c].op = "CreateTask" =>
         Len(out[c]) = 1 /\ out[c][1].payload = call[c].payload
    /\ call[c].op = "GetTask" =>
         \A i \in 1..Len(out[c]) : i = 1 /\ out[c][1].id = call[c].index

(* No step loses a task other than the one a running DeleteTask names,     *)
(* after a wrap too.                                                       *)
OnlyTheNamedTaskIsDeleted ==
  [][\A t \in Range(m_tasks) \ Range(m_tasks') :
       \E c \in exclusive : call[c] = [op |-> "DeleteTask", index |-> t.id]]_vars

(* The inductive invariant behind the three above.  Who is past the lock   *)
(* holds it, in the mode of its call, and alone if it may write; so what a *)
(* caller found at its first access to the vector is still so at the next. *)
LockInv ==
  /\ \A c \in Callers :
       LET Inside == pc[c] \in {"body", "tail", "unlock", "unwind"}
       IN  /\ c \in exclusive <=> Inside /\ call[c].op # "GetTasks"
           /\ c \in shared <=> Inside /\ call[c].op = "GetTasks"
  /\ exclusive # {} => shared = {}
  /\ \A c, d \in exclusive : c = d

CallInv ==
  \A c \in Callers :
    /\ pc[c] = "idle" <=> call[c] = NoCall
    /\ pc[c] \in {"idle", "lock", "unwind"} => out[c] = <<>>
    /\ pc[c] \in {"body", "tail"} /\ call[c].op # "GetTasks" => out[c] = <<>>

VectorInv ==
  /\ taken < IdRange => m_id = taken
  /\ NoWrap => \A i \in 1..Len(m_tasks) : m_tasks[i].id < taken

TailInv ==
  \A c \in Callers : pc[c] = "tail" =>
    \/ /\ call[c].op = "CreateTask"
       /\ Len(m_tasks) > 0 /\ m_tasks[Len(m_tasks)].payload = call[c].payload
    \/ /\ call[c].op \in {"DeleteTask", "GetTask"}
       /\ itr[c] \in 1..Len(m_tasks) /\ m_tasks[itr[c]].id = call[c].index

(* What GetTasks has copied so far is what the vector begins with.         *)
CopyInv ==
  \A c \in Callers : At(c, "body", {"GetTasks"}) =>
    /\ Len(out[c]) <= Len(m_tasks)
    /\ \A i \in 1..Len(out[c]) : out[c][i] = m_tasks[i]

StorageInv ==
  /\ TypeOK
  /\ LockInv /\ CallInv /\ VectorInv /\ TailInv /\ CopyInv
  /\ SortedById /\ RepliesAnswerTheCall

(* No call blocks another for ever: once no new calls are made, every call *)
(* returns, by a result or by an exception.                                *)
CallsReturn ==
  <>[][\A c \in Callers : ~(pc[c] = "idle" /\ pc'[c] = "lock")]_vars
    => \A c \in Callers : []<>(pc[c] = "idle")

(* The contract: every step is a step of DataStorage or invisible there.   *)
(* CreateTask takes effect at emplace_back, DeleteTask at erase, a read at *)
(* its last copy.                                                          *)
Created(c) == At(c, "tail", {"CreateTask"})

Phases ==
  [c \in Callers |->
     IF Created(c) \/ pc[c] = "unlock" THEN "done"
     ELSE IF pc[c] = "unwind" THEN "failed"
     ELSE IF pc[c] = "idle" THEN "idle" ELSE "called"]

Results ==
  [c \in Callers |->
     IF Created(c) THEN <<m_tasks[Len(m_tasks)]>>
     ELSE IF pc[c] = "unlock" THEN out[c] ELSE <<>>]

Storage == INSTANCE DataStorage WITH
  Indexes <- Ids,
  tasks   <- Range(m_tasks),
  nextId  <- taken,
  phase   <- Phases,
  out     <- Results

(* The storage is linearizable and keeps its contract under exceptions.    *)
Linearizable == Storage!Spec
=============================================================================

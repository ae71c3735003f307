----------------------------- MODULE DataStorage -----------------------------
(***************************************************************************)
(* The contract of backend::DataStorage as its concurrent callers may rely *)
(* on it: every call takes effect at one instant between its invocation    *)
(* and its return, ids are handed out in order and never again, a listing  *)
(* is the whole set of live tasks in the order of their ids, and a call    *)
(* that throws has either done nothing (but may have used up an id) or     *)
(* has taken effect and lost only its result.                              *)
(***************************************************************************)
EXTENDS Integers, FiniteSets

CONSTANTS
  Callers,   \* threads that call the storage
  Payloads,  \* values of TaskPayload
  Indexes    \* size_t values passed to GetTask and DeleteTask

VARIABLES
  tasks,     \* the set of live tasks
  nextId,    \* the id the next CreateTask gives out
  phase,     \* of each caller: idle, called, done, failed
  call,      \* the call each caller is in
  out        \* the result of each caller's finished call, a list of tasks

vars == <<tasks, nextId, phase, call, out>>

Calls == [op : {"CreateTask"}, payload : Payloads]
           \cup [op : {"GetTask", "DeleteTask"}, index : Indexes]
           \cup [op : {"GetTasks"}]

NoCall == [op |-> "none"]

Init ==
  /\ tasks = {}
  /\ nextId = 0
  /\ phase = [c \in Callers |-> "idle"]
  /\ call = [c \in Callers |-> NoCall]
  /\ out = [c \in Callers |-> <<>>]

Invoke(c, k) ==
  /\ phase[c] = "idle"
  /\ phase' = [phase EXCEPT ![c] = "called"]
  /\ call' = [call EXCEPT ![c] = k]
  /\ UNCHANGED <<tasks, nextId, out>>

(* The call of c takes effect here, with this result. *)
Finish(c, result) ==
  /\ phase[c] = "called"
  /\ phase' = [phase EXCEPT ![c] = "done"]
  /\ out' = [out EXCEPT ![c] = result]
  /\ UNCHANGED call

(* Mistake: ids are given out twice. *)
CreateTask_SameId(c) ==
  LET task == [id |-> nextId, payload |-> call[c].payload] IN
  /\ call[c].op = "CreateTask"
  /\ Finish(c, <<task>>)
  /\ tasks' = tasks \cup {task}
  /\ UNCHANGED nextId

CreateTask(c) ==
  LET task == [id |-> nextId, payload |-> call[c].payload] IN
  /\ call[c].op = "CreateTask"
  /\ Finish(c, <<task>>)
  /\ tasks' = tasks \cup {task}
  /\ nextId' = nextId + 1

DeleteTask(c) ==
  /\ call[c].op = "DeleteTask"
  /\ Finish(c, <<>>)
  /\ tasks' = {t \in tasks : t.id # call[c].index}
  /\ UNCHANGED nextId

(* The sequences that list a set of tasks in the order of their ids. *)
Listings(S) ==
  {s \in [1..Cardinality(S) -> S] :
     \A i, j \in DOMAIN s : i < j => s[i].id < s[j].id}

GetTask(c) ==
  /\ call[c].op = "GetTask"
  /\ \E s \in Listings({t \in tasks : t.id = call[c].index}) : Finish(c, s)
  /\ UNCHANGED <<tasks, nextId>>

GetTasks(c) ==
  /\ call[c].op = "GetTasks"
  /\ \E s \in Listings(tasks) : Finish(c, s)
  /\ UNCHANGED <<tasks, nextId>>

(* An exception before the effect; DeleteTask throws none. *)
Fail(c) ==
  /\ phase[c] = "called"
  /\ call[c].op # "DeleteTask"
  /\ phase' = [phase EXCEPT ![c] = "failed"]
  /\ \/ UNCHANGED nextId
     \/ call[c].op = "CreateTask" /\ nextId' = nextId + 1
  /\ UNCHANGED <<tasks, call, out>>

(* CreateTask throws after its effect: the result is lost. *)
Lose(c) ==
  /\ phase[c] = "done"
  /\ call[c].op = "CreateTask"
  /\ phase' = [phase EXCEPT ![c] = "failed"]
  /\ out' = [out EXCEPT ![c] = <<>>]
  /\ UNCHANGED <<tasks, nextId, call>>

Return(c) ==
  /\ phase[c] \in {"done", "failed"}
  /\ phase' = [phase EXCEPT ![c] = "idle"]
  /\ call' = [call EXCEPT ![c] = NoCall]
  /\ out' = [out EXCEPT ![c] = <<>>]
  /\ UNCHANGED <<tasks, nextId>>

Next ==
  \E c \in Callers :
    \/ \E k \in Calls : Invoke(c, k)
    \/ CreateTask(c) \/ DeleteTask(c) \/ GetTask(c) \/ GetTasks(c)
    \/ Fail(c) \/ Lose(c) \/ Return(c)

Spec == Init /\ [][Next]_vars
=============================================================================

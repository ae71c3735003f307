---------------------------- MODULE StorageTest ----------------------------
(***************************************************************************)
(* The storages' unit test (storages_ut.cpp) on module InMemoryStorage.    *)
(* One caller runs it; the others, which the test does not have, read      *)
(* meanwhile.  "payload" and "new" are the test's two payloads.            *)
(***************************************************************************)
EXTENDS InMemoryStorage

CONSTANT Tester  \* the caller that runs the test

ASSUME TestAssumption ==
  /\ Tester \in Callers
  /\ {"payload", "new"} \subseteq Payloads
  /\ IdRange > 3

VARIABLE test    \* the lines of the test that are left

Create(payload) == [op |-> "CreateTask", payload |-> payload]
Get(index) == [op |-> "GetTask", index |-> index]
Delete(index) == [op |-> "DeleteTask", index |-> index]
List == [op |-> "GetTasks"]

Task0 == [id |-> 0, payload |-> "payload"]
Task1 == [id |-> 1, payload |-> "new"]
Task2 == [id |-> 2, payload |-> "payload"]

(* An id that is given to no task; the test uses 1000 and 10000. *)
NoId == IdRange - 1

(* A line of the test: a call and the result it requires; and, told by the *)
(* lines before it, the tasks that are there and the number of ids given.  *)
Line(tasks, ids, k, result) == [tasks |-> tasks, ids |-> ids, call |-> k, result |-> result]
Lists(tasks, ids) == Line(tasks, ids, List, tasks)

Start == <<Line(<<>>, 0, Create("payload"), <<Task0>>),
           Line(<<Task0>>, 1, Create("new"), <<Task1>>), Lists(<<Task0, Task1>>, 2)>>
Then(k, result) == Line(<<Task0, Task1>>, 2, k, result)
Deleted1 == <<Then(Delete(1), <<>>), Lists(<<Task0>>, 2)>>
Added3 == <<Line(<<Task0>>, 2, Create("payload"), <<Task2>>), Lists(<<Task0, Task2>>, 3)>>

(* doctest runs every path through the SUBCASEs on a storage of its own. *)
Paths ==
  {Start \o path : path \in
     {<<Then(Get(0), <<Task0>>)>>,
      <<Then(Get(NoId), <<>>)>>,
      <<Then(Delete(0), <<>>), Lists(<<Task1>>, 2)>>,
      <<Then(Delete(NoId), <<>>), Lists(<<Task0, Task1>>, 2)>>,
      Deleted1 \o <<Line(<<Task0>>, 2, Delete(0), <<>>), Lists(<<>>, 2)>>,
      Deleted1 \o Added3,
      Deleted1 \o Added3 \o <<Line(<<Task0, Task2>>, 3, Delete(0), <<>>), Lists(<<Task2>>, 3)>>}}

(* Without a test, or after it, callers call what they like. *)
TestInit == Init /\ test \in Paths \cup {<<>>}
Free == test = <<>> /\ Next /\ UNCHANGED test

(* The next REQUIRE, or the end of the test by an exception. *)
TesterCalls == test # <<>> /\ Invoke(Tester, Head(test).call) /\ UNCHANGED test
TesterReturns ==
  /\ test # <<>>
  /\ Return(Tester)
  /\ test' = IF pc[Tester] = "unlock" THEN Tail(test) ELSE <<>>

(* Meanwhile the storage works and others read. *)
Meanwhile ==
  /\ test # <<>>
  /\ \/ pc[Tester] \notin {"unlock", "unwind"} /\ Step(Tester)
     \/ \E c \in Callers \ {Tester} :
          Step(c) \/ \E k \in {List} \cup {Get(i) : i \in Ids} : Invoke(c, k)
  /\ UNCHANGED test

TestNext == Free \/ TesterCalls \/ TesterReturns \/ Meanwhile

TestSpec == TestInit /\ [][TestNext]_<<vars, test>>

-----------------------------------------------------------------------------
(* Every REQUIRE of the test holds, though other threads read meanwhile.   *)
TestHoldsBesideReaders ==
  test # <<>> /\ pc[Tester] = "unlock" => out[Tester] = Head(test).result

(* The positions of the tasks with the id a call asks for. *)
Asked(line) == {i \in DOMAIN line.tasks : line.tasks[i].id = line.call.index}

(* What the call of a line returns, and what it leaves, where nobody else  *)
(* is: told from the call and the tasks alone.                             *)
Answers(line) ==
  \/ /\ line.call.op = "CreateTask" /\ line.ids < IdRange
     /\ line.result = <<[id |-> line.ids, payload |-> line.call.payload]>>
  \/ /\ line.call.op = "GetTask"
     /\ IF Asked(line) = {} THEN line.result = <<>>
        ELSE \E i \in Asked(line) : line.result = <<line.tasks[i]>>
  \/ line.call.op = "DeleteTask" /\ line.result = <<>>
  \/ line.call.op = "GetTasks" /\ line.result = line.tasks

Leaves(line, tasks, ids) ==
  \/ /\ line.call.op = "CreateTask"
     /\ tasks = Append(line.tasks, line.result[1]) /\ ids = line.ids + 1
  \/ /\ line.call.op = "DeleteTask" /\ ids = line.ids
     /\ IF Asked(line) = {} THEN tasks = line.tasks
        ELSE \E i \in Asked(line) : tasks = RemoveAt(line.tasks, i)
  \/ /\ line.call.op \in {"GetTask", "GetTasks"}
     /\ tasks = line.tasks /\ ids = line.ids

(* A test that is right of a storage nobody else uses.                     *)
Lines == [tasks : Seq(Task), ids : 0..IdRange, call : Calls, result : Seq(Task)]
Sound(lines) ==
  /\ lines \in Seq(Lines)
  /\ \A n \in DOMAIN lines :
       LET line == lines[n]
       IN  /\ \A i, j \in DOMAIN line.tasks : line.tasks[i].id = line.tasks[j].id => i = j
           /\ Answers(line)
           /\ n < Len(lines) => Leaves(line, lines[n + 1].tasks, lines[n + 1].ids)

(* The inductive invariant behind TestHoldsBesideReaders: what is left of  *)
(* the test is sound, the others read, and the storage holds what the next *)
(* line says until the call takes effect, and what it leaves from then on. *)
TestInv ==
  test # <<>> =>
    LET line == Head(test)
        Before == m_tasks = line.tasks /\ taken = line.ids
        After == Leaves(line, m_tasks, taken)
    IN  /\ Sound(test)
        /\ \A c \in Callers \ {Tester} : call[c].op \in {"none", "GetTask", "GetTasks"}
        /\ pc[Tester] # "idle" => call[Tester] = line.call
        /\ pc[Tester] \in {"idle", "lock", "body"} => Before
        /\ pc[Tester] = "tail" => IF line.call.op = "CreateTask" THEN After ELSE Before
        /\ pc[Tester] = "unlock" => After /\ out[Tester] = line.result

TestIInv == StorageInv /\ TestInv
=============================================================================

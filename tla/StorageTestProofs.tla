------------------------- MODULE StorageTestProofs -------------------------
(* The unit test of the storages holds beside any number of readers, as    *)
(* does any test that is right of a storage nobody else uses.              *)
EXTENDS StorageTest, InMemoryStorageProofs

(* What is left of a sound test is sound, and goes on where it was left.   *)
LEMMA SoundHead ==
  ASSUME NEW lines, Sound(lines), lines # <<>>
  PROVE  LET line == Head(lines) IN
           /\ line \in Lines
           /\ \A i, j \in DOMAIN line.tasks : line.tasks[i].id = line.tasks[j].id => i = j
           /\ Answers(line)
<1>1. lines \in Seq(Lines) /\ Len(lines) \in Nat \ {0} /\ 1 \in DOMAIN lines /\ Head(lines) = lines[1]
  BY DEF Sound
<1>2. lines[1] \in Lines
  BY <1>1, ElementOfSeq
<1> QED BY <1>1, <1>2 DEF Sound

LEMMA SoundTail ==
  ASSUME NEW lines, Sound(lines), lines # <<>>
  PROVE  /\ Sound(Tail(lines))
         /\ Tail(lines) # <<>> =>
              Leaves(Head(lines), Head(Tail(lines)).tasks, Head(Tail(lines)).ids)
<1> DEFINE rest == Tail(lines)
<1>1. /\ lines \in Seq(Lines) /\ Len(lines) \in Nat \ {0}
      /\ DOMAIN lines = 1..Len(lines) /\ Head(lines) = lines[1]
  BY DEF Sound
<1>2. /\ rest \in Seq(Lines) /\ Len(rest) = Len(lines) - 1 /\ DOMAIN rest = 1..(Len(lines) - 1)
      /\ \A n \in DOMAIN rest : rest[n] = lines[n + 1]
  BY <1>1, HeadTailProperties
<1> HIDE DEF rest
<1>3. ASSUME NEW n \in DOMAIN rest
      PROVE  LET line == rest[n]
             IN  /\ \A i, j \in DOMAIN line.tasks : line.tasks[i].id = line.tasks[j].id => i = j
                 /\ Answers(line)
                 /\ n < Len(rest) => Leaves(line, rest[n + 1].tasks, rest[n + 1].ids)
  <2>1. n + 1 \in DOMAIN lines /\ rest[n] = lines[n + 1] /\ n \in Nat
    BY <1>1, <1>2
  <2>2. n < Len(rest) => n + 1 < Len(lines) /\ rest[n + 1] = lines[(n + 1) + 1]
    BY <1>1, <1>2
  <2> QED BY <2>1, <2>2 DEF Sound
<1>4. Sound(rest)
  BY <1>2, <1>3 DEF Sound
<1>5. rest # <<>> => Leaves(Head(lines), Head(rest).tasks, Head(rest).ids)
  <2> HAVE rest # <<>>
  <2>1. 1 < Len(lines) /\ Head(rest) = lines[1 + 1] /\ 1 \in DOMAIN lines
    BY <1>1, <1>2
  <2> QED BY <2>1, <1>1 DEF Sound
<1> QED BY <1>4, <1>5 DEF rest

(* A call leaves one thing, if no two tasks have the same id.              *)
LEMMA LeavesOne ==
  ASSUME NEW line, NEW a, NEW n, NEW b, NEW m, Leaves(line, a, n), Leaves(line, b, m),
         \A i, j \in DOMAIN line.tasks : line.tasks[i].id = line.tasks[j].id => i = j
  PROVE  a = b /\ n = m
<1>1. \A i, j \in Asked(line) : i = j
  BY DEF Asked
<1> QED BY <1>1 DEF Leaves

-----------------------------------------------------------------------------
(* While the test runs, its line and what TestInv says about it.           *)
LineFacts ==
  LET line == Head(test) IN
    /\ line \in Lines /\ line.call \in Calls /\ line.tasks \in Seq(Task)
    /\ \A i, j \in DOMAIN line.tasks : line.tasks[i].id = line.tasks[j].id => i = j
    /\ Answers(line)

LEMMA WhileTesting ==
  ASSUME TestInv, test # <<>>
  PROVE  LineFacts /\ Sound(test)
<1>1. Sound(test)
  BY DEF TestInv
<1>2. \A line \in Lines : line.call \in Calls /\ line.tasks \in Seq(Task)
  BY DEF Lines
<1> QED BY <1>1, <1>2, SoundHead DEF LineFacts

LEMMA TestSteps == TestIInv /\ [TestNext]_<<vars, test>> => [Next]_vars
<1> SUFFICES ASSUME TestIInv, TestNext PROVE Next
  BY DEF vars
<1>1. CASE Free
  BY <1>1 DEF Free
<1>2. CASE TesterCalls
  <2>1. Head(test).call \in Calls
    BY <1>2, WhileTesting DEF TestIInv, TesterCalls, LineFacts
  <2> QED BY <1>2, <2>1, TestAssumption DEF TesterCalls, Next
<1>3. CASE TesterReturns
  BY <1>3, TestAssumption DEF TesterReturns, Next, Step
<1>4. CASE Meanwhile
  <2>1. List \in Calls /\ \A i \in Ids : Get(i) \in Calls
    BY DEF List, Get, Calls
  <2> QED BY <1>4, <2>1, TestAssumption DEF Meanwhile, Next
<1> QED BY <1>1, <1>2, <1>3, <1>4 DEF TestNext

(* The other callers, who only read, change neither the storage nor what   *)
(* the tester is doing.                                                    *)
LEMMA ReadersChangeNothing ==
  ASSUME TypeOK, NEW c \in Callers \ {Tester}, call[c].op \in {"none", "GetTask", "GetTasks"},
         Step(c) \/ \E k \in {List} \cup {Get(i) : i \in Ids} : Invoke(c, k)
  PROVE  /\ UNCHANGED <<m_tasks, taken>>
         /\ \A d \in Callers \ {c} : pc'[d] = pc[d] /\ call'[d] = call[d] /\ out'[d] = out[d]
         /\ call'[c].op \in {"none", "GetTask", "GetTasks"}
<1>1. CASE \E k \in {List} \cup {Get(i) : i \in Ids} : Invoke(c, k)
  BY <1>1 DEF TypeOK, Invoke, Goto, List, Get
<1>2. CASE LockExclusive(c) \/ LockShared(c)
  BY <1>2 DEF TypeOK, LockExclusive, LockShared, Goto
<1>3. CASE EmplaceBack(c) \/ CopyBack(c) \/ Erase(c)
  BY <1>3 DEF EmplaceBack, CopyBack, Erase, At
<1>4. CASE Find(c)
  BY <1>4 DEF TypeOK, Find, Goto
<1>5. CASE CopyItr(c) \/ CopyNext(c) \/ CopyThrows(c)
  BY <1>5 DEF TypeOK, CopyItr, CopyNext, CopyThrows, Goto
<1>6. CASE Return(c)
  BY <1>6 DEF TypeOK, Return, Goto, NoCall
<1> QED BY <1>1, <1>2, <1>3, <1>4, <1>5, <1>6 DEF Step

(* What the tester's own step does, while the lines left stay the same.    *)
LEMMA TesterSteps ==
  ASSUME StorageInv, TestInv, test # <<>>, UNCHANGED test,
         pc[Tester] \notin {"unlock", "unwind"}, Step(Tester)
  PROVE  TestInv'
<1> DEFINE line == Head(test)
           Before == m_tasks = line.tasks /\ taken = line.ids
           After == Leaves(line, m_tasks, taken)
           Others == \A c \in Callers \ {Tester} : call[c].op \in {"none", "GetTask", "GetTasks"}
<1>1. /\ TypeOK /\ CallInv /\ VectorInv /\ TailInv /\ CopyInv /\ SortedById
      /\ Tester \in Callers
  BY TestAssumption DEF StorageInv
<1>2. /\ Sound(test) /\ line \in Lines /\ line.tasks \in Seq(Task) /\ line.ids \in 0..IdRange
      /\ \A i, j \in DOMAIN line.tasks : line.tasks[i].id = line.tasks[j].id => i = j
      /\ Answers(line)
  BY WhileTesting DEF LineFacts, Lines
<1>3. /\ Others
      /\ pc[Tester] # "idle" => call[Tester] = line.call
      /\ pc[Tester] \in {"idle", "lock", "body"} => Before
      /\ pc[Tester] = "tail" => IF line.call.op = "CreateTask" THEN After ELSE Before
  BY DEF TestInv
<1>4. pc[Tester] # "idle"
  BY DEF Step, LockExclusive, LockShared, EmplaceBack, CopyBack, Find, Erase, CopyItr, CopyNext,
     CopyThrows, Return, At
<1>5. call[Tester] = line.call /\ UNCHANGED call /\ UNCHANGED line
  BY <1>1, <1>3, <1>4 DEF Step, LockExclusive, LockShared, EmplaceBack, CopyBack, Find, Erase,
     CopyItr, CopyNext, CopyThrows, Return
<1> DEFINE Kept == /\ pc'[Tester] \in {"body", "tail", "unlock", "unwind"}
                   /\ pc'[Tester] = "body" => Before'
                   /\ pc'[Tester] = "tail" =>
                        IF line.call.op = "CreateTask" THEN After' ELSE Before'
                   /\ pc'[Tester] = "unlock" => After' /\ out'[Tester] = line.result
<1>6. Kept => TestInv'
  BY <1>2, <1>3, <1>5 DEF TestInv
<1>7. CASE LockExclusive(Tester) \/ LockShared(Tester)
  <2>1. pc[Tester] = "lock" /\ pc'[Tester] = "body" /\ UNCHANGED <<m_tasks, taken>>
    BY <1>1, <1>7 DEF TypeOK, LockExclusive, LockShared, At, Goto
  <2> QED BY <2>1, <1>3, <1>5, <1>6
<1>8. CASE EmplaceBack(Tester)
  <2>1. /\ pc[Tester] = "body" /\ line.call.op = "CreateTask" /\ taken' = taken + 1
        /\ \/ /\ m_tasks' = Append(m_tasks, [id |-> m_id, payload |-> line.call.payload])
              /\ pc'[Tester] = "tail"
           \/ pc'[Tester] = "unwind"
    BY <1>1, <1>5, <1>8 DEF TypeOK, EmplaceBack, At, Goto
  <2>2. line.ids < IdRange /\ line.result = <<[id |-> line.ids, payload |-> line.call.payload]>>
    BY <1>2, <2>1 DEF Answers
  <2>3. Before /\ m_id = line.ids
    BY <1>1, <1>3, <2>1, <2>2 DEF VectorInv
  <2>4. pc'[Tester] = "tail" => Leaves(line, m_tasks', taken')
    BY <2>1, <2>2, <2>3 DEF Leaves
  <2> QED BY <2>1, <2>4, <1>5, <1>6
<1>9. CASE CopyBack(Tester)
  <2>1. /\ pc[Tester] = "tail" /\ line.call.op = "CreateTask" /\ pc'[Tester] = "unlock"
        /\ out'[Tester] = <<m_tasks[Len(m_tasks)]>> /\ UNCHANGED <<m_tasks, taken>>
    BY <1>1, <1>5, <1>9 DEF TypeOK, CopyBack, At, Goto
  <2>2. /\ line.result = <<[id |-> line.ids, payload |-> line.call.payload]>>
        /\ m_tasks = Append(line.tasks, line.result[1])
    BY <1>2, <1>3, <2>1 DEF Answers, Leaves
  <2>3. m_tasks[Len(m_tasks)] = line.result[1] /\ line.result = <<line.result[1]>>
    BY <1>2, <2>2
  <2> QED BY <2>1, <2>3, <1>3, <1>5, <1>6
<1>10. CASE Find(Tester)
  <2>1. /\ pc[Tester] = "body" /\ line.call.op \in {"DeleteTask", "GetTask"}
        /\ UNCHANGED <<m_tasks, taken, out>>
        /\ \/ pc'[Tester] = "tail"
           \/ /\ pc'[Tester] = "unlock"
              /\ \E i \in LowerBound(m_tasks, line.call.index) :
                   i > Len(m_tasks) \/ m_tasks[i].id # line.call.index
    BY <1>1, <1>5, <1>10 DEF TypeOK, Find, At, Goto
  <2>2. CASE pc'[Tester] = "tail"
    BY <2>1, <2>2, <1>3, <1>5, <1>6
  <2>3. CASE pc'[Tester] = "unlock"
    <3>1. PICK i \in LowerBound(m_tasks, line.call.index) :
            i > Len(m_tasks) \/ m_tasks[i].id # line.call.index
      BY <2>1, <2>3
    <3>2. Sorted
      BY <1>1, <1>2, <1>3, <2>1, IdRangeAssumption DEF SortedById, NoWrap, Sorted
    <3>3. line.call.index \in Nat
      <4>1. call[Tester].op \in {"DeleteTask", "GetTask"} /\ call[Tester] = line.call
        BY <1>5, <2>1
      <4>2. line.call.index \in 0..(IdRange - 1)
        BY <1>1, <4>1, Arguments DEF Ids
      <4> QED BY <4>2, IdRangeAssumption
    <3>4. \A j \in 1..Len(m_tasks) : m_tasks[j].id \in Nat /\ m_tasks[j].id # line.call.index
      <4>1. /\ i \in 1..(Len(m_tasks) + 1)
            /\ \A j \in 1..Len(m_tasks) : m_tasks[j].id < line.call.index <=> j < i
        BY <1>1, <3>1, <3>2, <3>3, LowerBoundOfSorted
      <4>2. /\ Len(m_tasks) \in Nat
            /\ \A j \in 1..Len(m_tasks) : m_tasks[j].id \in Nat
        BY <1>1, Elements
      <4> QED BY <3>1, <3>2, <3>3, <4>1, <4>2 DEF Sorted
    <3>5. Asked(line) = {}
      BY <1>2, <1>3, <2>1, <3>4 DEF Asked
    <3>6. out[Tester] = <<>>
      BY <1>1, <1>5, <2>1 DEF CallInv
    <3>7. Leaves(line, m_tasks, taken) /\ line.result = <<>>
      BY <1>2, <1>3, <2>1, <3>5 DEF Leaves, Answers
    <3> QED BY <2>1, <2>3, <3>6, <3>7, <1>5, <1>6
  <2> QED BY <2>1, <2>2, <2>3
<1>11. CASE Erase(Tester)
  <2>1. /\ pc[Tester] = "tail" /\ line.call.op = "DeleteTask" /\ pc'[Tester] = "unlock"
        /\ m_tasks' = RemoveAt(m_tasks, itr[Tester]) /\ UNCHANGED <<taken, out>>
    BY <1>1, <1>5, <1>11 DEF TypeOK, Erase, At, Goto
  <2>2. Before /\ itr[Tester] \in 1..Len(m_tasks) /\ m_tasks[itr[Tester]].id = line.call.index
    BY <1>1, <1>3, <1>5, <2>1 DEF TailInv
  <2>3. itr[Tester] \in Asked(line)
    BY <1>2, <2>2 DEF Asked
  <2>4. Leaves(line, m_tasks', taken')
    BY <2>1, <2>2, <2>3 DEF Leaves
  <2>5. out[Tester] = <<>> /\ line.result = <<>>
    BY <1>1, <1>2, <1>5, <2>1 DEF CallInv, Answers
  <2> QED BY <2>1, <2>4, <2>5, <1>5, <1>6
<1>12. CASE CopyItr(Tester)
  <2>1. /\ pc[Tester] = "tail" /\ line.call.op = "GetTask" /\ pc'[Tester] = "unlock"
        /\ out'[Tester] = <<m_tasks[itr[Tester]]>> /\ UNCHANGED <<m_tasks, taken>>
    BY <1>1, <1>5, <1>12 DEF TypeOK, CopyItr, At, Goto
  <2>2. Before /\ itr[Tester] \in 1..Len(m_tasks) /\ m_tasks[itr[Tester]].id = line.call.index
    BY <1>1, <1>3, <1>5, <2>1 DEF TailInv
  <2>3. itr[Tester] \in Asked(line)
    BY <1>2, <2>2 DEF Asked
  <2>4. \E i \in Asked(line) : line.result = <<line.tasks[i]>>
    BY <1>2, <2>1, <2>3 DEF Answers
  <2>5. line.result = <<m_tasks[itr[Tester]]>>
    BY <1>2, <2>2, <2>3, <2>4 DEF Asked
  <2>6. Leaves(line, m_tasks, taken)
    BY <2>1, <2>2 DEF Leaves
  <2> QED BY <2>1, <2>5, <2>6, <1>5, <1>6
<1>13. CASE CopyNext(Tester)
  <2>1. /\ pc[Tester] = "body" /\ line.call.op = "GetTasks" /\ UNCHANGED <<m_tasks, taken>>
        /\ \/ pc'[Tester] = "body"
           \/ /\ ~(Len(out[Tester]) < Len(m_tasks))
              /\ pc'[Tester] = "unlock" /\ UNCHANGED out
    BY <1>1, <1>5, <1>13 DEF TypeOK, CopyNext, At, Goto
  <2>2. Before /\ Leaves(line, m_tasks, taken) /\ line.result = m_tasks
    BY <1>2, <1>3, <2>1 DEF Leaves, Answers
  <2>3. ~(Len(out[Tester]) < Len(m_tasks)) => out[Tester] = m_tasks
    <3>1. out[Tester] \in Seq(Task) /\ m_tasks \in Seq(Task)
      BY <1>1 DEF TypeOK
    <3>2. /\ Len(out[Tester]) <= Len(m_tasks)
          /\ \A i \in 1..Len(out[Tester]) : out[Tester][i] = m_tasks[i]
      BY <1>1, <1>5, <2>1 DEF CopyInv, At
    <3> QED BY <3>1, <3>2
  <2> QED BY <2>1, <2>2, <2>3, <1>5, <1>6
<1>14. CASE CopyThrows(Tester)
  <2>1. pc'[Tester] = "unwind"
    BY <1>1, <1>14 DEF TypeOK, CopyThrows, Goto
  <2> QED BY <2>1, <1>6
<1>15. CASE Return(Tester)
  BY <1>15 DEF Return
<1> QED
  BY <1>7, <1>8, <1>9, <1>10, <1>11, <1>12, <1>13, <1>14, <1>15 DEF Step

LEMMA NextTestInv == TestIInv /\ [TestNext]_<<vars, test>> => TestInv'
<1> SUFFICES ASSUME StorageInv, TestInv, test # <<>>, [TestNext]_<<vars, test>>
             PROVE  TestInv'
  <2>1. CASE test = <<>>
    BY <2>1 DEF TestInv, TestNext, Free, TesterCalls, TesterReturns, Meanwhile
  <2> QED BY <2>1 DEF TestIInv
<1> DEFINE line == Head(test)
<1>1. TypeOK /\ CallInv /\ Tester \in Callers
  BY TestAssumption DEF StorageInv
<1>2. TesterCalls \/ TesterReturns \/ Meanwhile \/ UNCHANGED <<vars, test>>
  BY DEF TestNext, Free
<1>3. CASE TesterCalls
  <2>1. /\ pc[Tester] = "idle" /\ pc'[Tester] = "lock" /\ call'[Tester] = line.call
        /\ \A c \in Callers \ {Tester} : call'[c] = call[c]
        /\ UNCHANGED <<m_tasks, taken, test>>
    BY <1>1, <1>3 DEF TypeOK, TesterCalls, Invoke, Goto
  <2> QED BY <2>1 DEF TestInv
<1>4. CASE TesterReturns
  <2>1. /\ pc'[Tester] = "idle"
        /\ \A c \in Callers \ {Tester} : call'[c] = call[c]
        /\ UNCHANGED <<m_tasks, taken>>
    BY <1>1, <1>4 DEF TypeOK, TesterReturns, Return, Goto
  <2>2. CASE pc[Tester] = "unlock" /\ Tail(test) # <<>>
    <3> DEFINE next == Head(Tail(test))
    <3>1. test' = Tail(test)
      BY <1>4, <2>2 DEF TesterReturns
    <3>2. Leaves(line, m_tasks, taken) /\ Sound(test)
      BY <2>2 DEF TestInv
    <3>3. Sound(Tail(test)) /\ Leaves(line, next.tasks, next.ids)
      BY <2>2, <3>2, SoundTail
    <3>4. m_tasks = next.tasks /\ taken = next.ids
      BY <3>2, <3>3, LeavesOne, SoundHead
    <3> QED BY <2>1, <3>1, <3>3, <3>4 DEF TestInv
  <2>3. CASE ~(pc[Tester] = "unlock" /\ Tail(test) # <<>>)
    BY <1>4, <2>3 DEF TesterReturns, TestInv
  <2> QED BY <2>2, <2>3
<1>5. CASE Meanwhile
  <2>1. CASE pc[Tester] \notin {"unlock", "unwind"} /\ Step(Tester)
    BY <1>5, <2>1, TesterSteps DEF Meanwhile
  <2>2. ASSUME NEW c \in Callers \ {Tester},
               Step(c) \/ \E k \in {List} \cup {Get(i) : i \in Ids} : Invoke(c, k)
        PROVE  TestInv'
    <3>1. call[c].op \in {"none", "GetTask", "GetTasks"}
      BY DEF TestInv
    <3>2. /\ UNCHANGED <<m_tasks, taken, test>>
          /\ \A d \in Callers \ {c} : pc'[d] = pc[d] /\ call'[d] = call[d] /\ out'[d] = out[d]
          /\ call'[c].op \in {"none", "GetTask", "GetTasks"}
      BY <1>1, <1>5, <2>2, <3>1, ReadersChangeNothing DEF Meanwhile
    <3>3. pc'[Tester] = pc[Tester] /\ call'[Tester] = call[Tester] /\ out'[Tester] = out[Tester]
      BY <1>1, <3>2
    <3> QED BY <3>2, <3>3 DEF TestInv
  <2> QED BY <1>5, <2>1, <2>2 DEF Meanwhile
<1>6. CASE UNCHANGED <<vars, test>>
  BY <1>6 DEF vars, TestInv
<1> QED BY <1>2, <1>3, <1>4, <1>5, <1>6

-----------------------------------------------------------------------------
(* A test that begins with a storage just made.                            *)
Fresh(lines) == lines # <<>> => Head(lines).tasks = <<>> /\ Head(lines).ids = 0

RunsOneOf(tests) == Init /\ test \in tests /\ [][TestNext]_<<vars, test>>

LEMMA InvarianceOfTests ==
  ASSUME NEW tests, \A lines \in tests : Sound(lines) /\ Fresh(lines)
  PROVE  RunsOneOf(tests) => []TestIInv
<1>1. Init /\ test \in tests => TestIInv
  <2> SUFFICES ASSUME Init, test \in tests, test # <<>> PROVE TestInv
    BY InitStorageInv DEF TestIInv, TestInv
  <2>1. \A c \in Callers : pc[c] = "idle" /\ call[c].op = "none"
    BY DEF Init, NoCall
  <2>2. Sound(test) /\ Head(test).tasks = m_tasks /\ Head(test).ids = taken
    BY DEF Fresh, Init
  <2> QED BY <2>1, <2>2, TestAssumption DEF TestInv
<1>2. TestIInv /\ [TestNext]_<<vars, test>> => TestIInv'
  BY TestSteps, NextStorageInv, NextTestInv DEF TestIInv
<1> QED BY <1>1, <1>2, PTL DEF RunsOneOf

(* Any sound test, of any length, that one thread runs on a fresh storage  *)
(* while any number of others read: every REQUIRE of it holds, whatever    *)
(* the interleaving, until the test ends or an exception ends it.          *)
THEOREM SoundTestsHold ==
  ASSUME NEW tests, \A lines \in tests : Sound(lines) /\ Fresh(lines)
  PROVE  RunsOneOf(tests) => []TestHoldsBesideReaders
<1>1. TestIInv => TestHoldsBesideReaders
  BY DEF TestIInv, TestInv, TestHoldsBesideReaders
<1> QED BY <1>1, InvarianceOfTests, PTL

-----------------------------------------------------------------------------
(* The unit test is sound: line by line, then chunk by chunk.              *)
SoundLine(line) ==
  /\ line \in Lines /\ Answers(line)
  /\ \A i, j \in DOMAIN line.tasks : line.tasks[i].id = line.tasks[j].id => i = j
GoesOn(line, next) == Leaves(line, next.tasks, next.ids)

LEMMA SoundOne ==
  ASSUME NEW a, SoundLine(a)
  PROVE  Sound(<<a>>)
BY DEF SoundLine, Sound

LEMMA SoundTwo ==
  ASSUME NEW a, NEW b, SoundLine(a), SoundLine(b), GoesOn(a, b)
  PROVE  Sound(<<a, b>>)
BY DEF SoundLine, GoesOn, Sound

LEMMA SoundThree ==
  ASSUME NEW a, NEW b, NEW c, SoundLine(a), SoundLine(b), SoundLine(c), GoesOn(a, b), GoesOn(b, c)
  PROVE  Sound(<<a, b, c>>)
BY DEF SoundLine, GoesOn, Sound

LEMMA SoundJoin ==
  ASSUME NEW s, NEW t, Sound(s), Sound(t), s # <<>>, t # <<>>, GoesOn(s[Len(s)], t[1])
  PROVE  /\ Sound(s \o t) /\ s \o t # <<>>
         /\ (s \o t)[1] = s[1] /\ (s \o t)[Len(s \o t)] = t[Len(t)]
<1> DEFINE st == s \o t
<1>1. /\ s \in Seq(Lines) /\ t \in Seq(Lines) /\ Len(s) \in Nat \ {0} /\ Len(t) \in Nat \ {0}
      /\ DOMAIN s = 1..Len(s) /\ DOMAIN t = 1..Len(t)
  BY DEF Sound
<1>2. /\ st \in Seq(Lines) /\ Len(st) = Len(s) + Len(t) /\ DOMAIN st = 1..(Len(s) + Len(t))
      /\ \A n \in 1..Len(s) : st[n] = s[n]
      /\ \A n \in 1..Len(t) : st[Len(s) + n] = t[n]
  <2>1. st \in Seq(Lines) /\ Len(st) = Len(s) + Len(t)
    BY <1>1, ConcatProperties
  <2>2. \A n \in 1..(Len(s) + Len(t)) : st[n] = IF n <= Len(s) THEN s[n] ELSE t[n - Len(s)]
    BY <1>1, ConcatProperties
  <2>3. ASSUME NEW n \in 1..Len(t) PROVE st[Len(s) + n] = t[n]
    <3>1. Len(s) + n \in 1..(Len(s) + Len(t)) /\ ~(Len(s) + n <= Len(s)) /\ (Len(s) + n) - Len(s) = n
      BY <1>1
    <3> QED BY <3>1, <2>2
  <2> QED BY <2>1, <2>2, <2>3, <1>1
<1> HIDE DEF st
<1>3. ASSUME NEW n \in DOMAIN st
      PROVE  LET line == st[n]
             IN  /\ \A i, j \in DOMAIN line.tasks : line.tasks[i].id = line.tasks[j].id => i = j
                 /\ Answers(line)
                 /\ n < Len(st) => GoesOn(st[n], st[n + 1])
  <2>1. CASE n < Len(s)
    <3>1. n \in DOMAIN s /\ st[n] = s[n] /\ st[n + 1] = s[n + 1]
      BY <1>1, <1>2, <2>1
    <3> QED BY <2>1, <3>1 DEF Sound, GoesOn
  <2>2. CASE n = Len(s)
    <3>1. n \in DOMAIN s /\ st[n] = s[n] /\ st[n + 1] = t[1]
      BY <1>1, <1>2, <2>2
    <3> QED BY <2>2, <3>1 DEF Sound
  <2>3. CASE n > Len(s)
    <3>1. PICK m \in 1..Len(t) : n = Len(s) + m
      <4>1. n - Len(s) \in 1..Len(t) /\ n = Len(s) + (n - Len(s))
        BY <1>1, <1>2, <2>3
      <4> QED BY <4>1
    <3>2. m \in DOMAIN t /\ st[n] = t[m]
      BY <1>1, <1>2, <3>1
    <3>3. n < Len(st) => m < Len(t) /\ st[n + 1] = t[m + 1]
      <4> HAVE n < Len(st)
      <4>1. m + 1 \in 1..Len(t) /\ n + 1 = Len(s) + (m + 1)
        BY <1>1, <1>2, <3>1
      <4> QED BY <4>1, <1>1, <1>2
    <3> QED BY <3>2, <3>3 DEF Sound, GoesOn
  <2> QED BY <2>1, <2>2, <2>3, <1>1, <1>2
<1>4. Sound(st)
  BY <1>2, <1>3 DEF Sound, GoesOn
<1> QED BY <1>1, <1>2, <1>4 DEF st

LEMMA TheTasks ==
  /\ Task0 \in Task /\ Task1 \in Task /\ Task2 \in Task
  /\ Task0.id = 0 /\ Task1.id = 1 /\ Task2.id = 2
  /\ NoId \in Ids /\ NoId # 0 /\ NoId # 1 /\ {0, 1, 2} \subseteq Ids
  /\ {2, 3} \subseteq 0..IdRange
<1>1. IdRange \in Nat /\ IdRange > 3 /\ {0, 1, 2} \subseteq Ids
  BY TestAssumption, IdRangeAssumption DEF Ids
<1>2. Task0 \in Task /\ Task1 \in Task /\ Task2 \in Task
  BY <1>1, TestAssumption DEF Task, Task0, Task1, Task2
<1> QED BY <1>1, <1>2 DEF Task0, Task1, Task2, NoId, Ids

(* Erasing one of two tasks leaves the other.                              *)
LEMMA ErasedOfTwo ==
  ASSUME NEW s \in Seq(Task)
  PROVE  /\ Len(s) = 2 => RemoveAt(s, 1) = <<s[2]>> /\ RemoveAt(s, 2) = <<s[1]>>
         /\ Len(s) = 1 => RemoveAt(s, 1) = <<>>
<1>1. ASSUME NEW i \in 1..Len(s)
      PROVE  /\ RemoveAt(s, i) \in Seq(Task) /\ Len(RemoveAt(s, i)) = Len(s) - 1
             /\ \A j \in 1..(Len(s) - 1) : RemoveAt(s, i)[j] = IF j < i THEN s[j] ELSE s[j + 1]
  BY Erased
<1>2. CASE Len(s) = 2
  <2>1. /\ RemoveAt(s, 1) \in Seq(Task) /\ Len(RemoveAt(s, 1)) = 1 /\ RemoveAt(s, 1)[1] = s[2]
        /\ RemoveAt(s, 2) \in Seq(Task) /\ Len(RemoveAt(s, 2)) = 1 /\ RemoveAt(s, 2)[1] = s[1]
    BY <1>1, <1>2
  <2> QED BY <2>1, <1>2
<1>3. CASE Len(s) = 1
  <2>1. RemoveAt(s, 1) \in Seq(Task) /\ Len(RemoveAt(s, 1)) = 0
    BY <1>1, <1>3
  <2> QED BY <2>1, <1>3
<1> QED BY <1>2, <1>3

(* The REQUIREs on GetTasks, whatever the tasks. *)
LEMMA ListLines ==
  ASSUME NEW tasks \in Seq(Task), NEW ids \in 0..IdRange,
         \A i, j \in DOMAIN tasks : tasks[i].id = tasks[j].id => i = j
  PROVE  SoundLine(Lists(tasks, ids))
BY DEF SoundLine, Lists, Line, Lines, Answers, List, Calls

LEMMA OneOrTwoTasks ==
  \A tasks \in {<<>>, <<Task0>>, <<Task1>>, <<Task2>>, <<Task0, Task1>>, <<Task0, Task2>>} :
    /\ tasks \in Seq(Task)
    /\ \A i, j \in DOMAIN tasks : tasks[i].id = tasks[j].id => i = j
<1> DEFINE Distinct(s) == \A i, j \in DOMAIN s : s[i].id = s[j].id => i = j
<1>1. <<>> \in Seq(Task) /\ Distinct(<<>>)
  OBVIOUS
<1>2. ASSUME NEW t \in Task PROVE <<t>> \in Seq(Task) /\ Distinct(<<t>>)
  OBVIOUS
<1>3. ASSUME NEW t \in Task, NEW u \in Task, t.id # u.id
      PROVE  <<t, u>> \in Seq(Task) /\ Distinct(<<t, u>>)
  BY <1>3
<1>4. Task0.id # Task1.id /\ Task0.id # Task2.id
  BY TheTasks
<1> DEFINE Good(s) == s \in Seq(Task) /\ Distinct(s)
<1>5. /\ Good(<<>>) /\ Good(<<Task0>>) /\ Good(<<Task1>>) /\ Good(<<Task2>>)
      /\ Good(<<Task0, Task1>>) /\ Good(<<Task0, Task2>>)
  BY <1>1, <1>2, <1>3, <1>4, TheTasks
<1> HIDE DEF Good
<1>6. \A tasks \in {<<>>, <<Task0>>, <<Task1>>, <<Task2>>, <<Task0, Task1>>, <<Task0, Task2>>} :
        Good(tasks)
  BY <1>5
<1> QED BY <1>6 DEF Good

LEMMA CreateLines ==
  /\ SoundLine(Line(<<>>, 0, Create("payload"), <<Task0>>))
  /\ SoundLine(Line(<<Task0>>, 1, Create("new"), <<Task1>>))
  /\ SoundLine(Line(<<Task0>>, 2, Create("payload"), <<Task2>>))
<1>1. Create("payload") \in Calls /\ Create("new") \in Calls
  BY TestAssumption DEF Create, Calls
<1>2. ASSUME NEW tasks \in {<<>>, <<Task0>>}, NEW ids \in 0..2, NEW k \in Calls, NEW t \in Task,
             k.op = "CreateTask", t = [id |-> ids, payload |-> k.payload]
      PROVE  SoundLine(Line(tasks, ids, k, <<t>>))
  <2>1. ids \in 0..IdRange /\ ids < IdRange
    BY TestAssumption, IdRangeAssumption
  <2>2. tasks \in Seq(Task) /\ <<t>> \in Seq(Task)
    <3>1. tasks \in Seq(Task)
      BY OneOrTwoTasks
    <3>2. <<t>> \in Seq(Task)
      OBVIOUS
    <3> QED BY <3>1, <3>2
  <2>3. Line(tasks, ids, k, <<t>>) \in Lines
    BY <2>1, <2>2 DEF Line, Lines
  <2>4. Answers(Line(tasks, ids, k, <<t>>))
    BY <1>2, <2>1 DEF Line, Answers
  <2> QED BY <2>3, <2>4, OneOrTwoTasks DEF SoundLine, Line
<1> QED BY <1>1, <1>2, TheTasks DEF Create, Task0, Task1, Task2

LEMMA OtherLines ==
  /\ SoundLine(Then(Get(0), <<Task0>>)) /\ SoundLine(Then(Get(NoId), <<>>))
  /\ \A index \in {0, 1, NoId} : SoundLine(Then(Delete(index), <<>>))
  /\ SoundLine(Line(<<Task0>>, 2, Delete(0), <<>>))
  /\ SoundLine(Line(<<Task0, Task2>>, 3, Delete(0), <<>>))
<1>1. \A index \in {0, 1, NoId} : Get(index) \in Calls /\ Delete(index) \in Calls
  BY TheTasks DEF Get, Delete, Calls
<1>2. ASSUME NEW tasks \in {<<Task0>>, <<Task0, Task1>>, <<Task0, Task2>>}, NEW ids \in {2, 3},
             NEW k \in Calls, NEW result \in {<<>>, <<Task0>>}, Answers(Line(tasks, ids, k, result))
      PROVE  SoundLine(Line(tasks, ids, k, result))
  <2>1. Line(tasks, ids, k, result) \in Lines
    BY OneOrTwoTasks, TheTasks DEF Line, Lines
  <2> QED BY <1>2, <2>1, OneOrTwoTasks DEF SoundLine, Line
<1>3. \A tasks, ids, index : Answers(Line(tasks, ids, Delete(index), <<>>))
  BY DEF Answers, Line, Delete
<1>4. Answers(Then(Get(0), <<Task0>>))
  <2>1. 1 \in Asked(Then(Get(0), <<Task0>>))
    BY TheTasks DEF Asked, Then, Line, Get
  <2> QED BY <2>1 DEF Answers, Then, Line, Get
<1>5. Answers(Then(Get(NoId), <<>>))
  <2>1. Asked(Then(Get(NoId), <<>>)) = {}
    BY TheTasks DEF Asked, Then, Line, Get
  <2> QED BY <2>1 DEF Answers, Then, Line, Get
<1> QED BY <1>1, <1>2, <1>3, <1>4, <1>5 DEF Then

LEMMA CreatesGoOn ==
  /\ GoesOn(Line(<<>>, 0, Create("payload"), <<Task0>>), Line(<<Task0>>, 1, Create("new"), <<Task1>>))
  /\ GoesOn(Line(<<Task0>>, 1, Create("new"), <<Task1>>), Lists(<<Task0, Task1>>, 2))
  /\ GoesOn(Line(<<Task0>>, 2, Create("payload"), <<Task2>>), Lists(<<Task0, Task2>>, 3))
BY DEF GoesOn, Leaves, Line, Lists, Create

LEMMA ListsGoOn ==
  ASSUME NEW tasks, NEW ids, NEW k, NEW result
  PROVE  GoesOn(Lists(tasks, ids), Line(tasks, ids, k, result))
BY DEF GoesOn, Leaves, Line, Lists, List

LEMMA DeletesGoOn ==
  /\ GoesOn(Then(Delete(0), <<>>), Lists(<<Task1>>, 2))
  /\ GoesOn(Then(Delete(1), <<>>), Lists(<<Task0>>, 2))
  /\ GoesOn(Then(Delete(NoId), <<>>), Lists(<<Task0, Task1>>, 2))
  /\ GoesOn(Line(<<Task0>>, 2, Delete(0), <<>>), Lists(<<>>, 2))
  /\ GoesOn(Line(<<Task0, Task2>>, 3, Delete(0), <<>>), Lists(<<Task2>>, 3))
<1>1. ASSUME NEW tasks, NEW ids, NEW index, NEW after,
             LET Of == {i \in DOMAIN tasks : tasks[i].id = index}
             IN  IF Of = {} THEN after = tasks ELSE \E i \in Of : after = RemoveAt(tasks, i)
      PROVE  GoesOn(Line(tasks, ids, Delete(index), <<>>), Lists(after, ids))
  BY <1>1 DEF GoesOn, Leaves, Asked, Line, Lists, Delete
<1> DEFINE Of(tasks, index) == {i \in DOMAIN tasks : tasks[i].id = index}
<1>2. /\ 1 \in Of(<<Task0, Task1>>, 0) /\ 2 \in Of(<<Task0, Task1>>, 1)
      /\ Of(<<Task0, Task1>>, NoId) = {}
      /\ 1 \in Of(<<Task0>>, 0) /\ 1 \in Of(<<Task0, Task2>>, 0)
  BY TheTasks
<1>3. /\ RemoveAt(<<Task0, Task1>>, 1) = <<Task1>> /\ RemoveAt(<<Task0, Task1>>, 2) = <<Task0>>
      /\ RemoveAt(<<Task0>>, 1) = <<>> /\ RemoveAt(<<Task0, Task2>>, 1) = <<Task2>>
  BY TheTasks, OneOrTwoTasks, ErasedOfTwo
<1> QED BY <1>1, <1>2, <1>3 DEF Then

LEMMA PathsAreSound == \A lines \in Paths \cup {<<>>} : Sound(lines) /\ Fresh(lines)
<1> DEFINE Both == Lists(<<Task0, Task1>>, 2)
           Good(lines) == Sound(lines) /\ lines # <<>>
           First(lines) == lines[1]
           Final(lines) == lines[Len(lines)]
<1>1. \A tasks \in {<<>>, <<Task0>>, <<Task1>>, <<Task2>>, <<Task0, Task1>>, <<Task0, Task2>>} :
        SoundLine(Lists(tasks, 2)) /\ SoundLine(Lists(tasks, 3))
  BY TheTasks, OneOrTwoTasks, ListLines
<1>2. Good(Start) /\ Final(Start) = Both
  BY <1>1, CreateLines, CreatesGoOn, SoundThree DEF Start
<1>3. Good(Deleted1) /\ GoesOn(Both, First(Deleted1)) /\ Final(Deleted1) = Lists(<<Task0>>, 2)
  BY <1>1, OtherLines, ListsGoOn, DeletesGoOn, SoundTwo DEF Deleted1, Then
<1>4. /\ Good(Added3) /\ GoesOn(Lists(<<Task0>>, 2), First(Added3))
      /\ Final(Added3) = Lists(<<Task0, Task2>>, 3)
  BY <1>1, CreateLines, ListsGoOn, CreatesGoOn, SoundTwo DEF Added3
<1>5. ASSUME NEW path \in {<<Then(Get(0), <<Task0>>)>>, <<Then(Get(NoId), <<>>)>>}
      PROVE  Good(path) /\ GoesOn(Both, First(path))
  BY OtherLines, ListsGoOn, SoundOne DEF Then
<1>6. ASSUME NEW path \in {<<Then(Delete(0), <<>>), Lists(<<Task1>>, 2)>>,
                          <<Then(Delete(NoId), <<>>), Lists(<<Task0, Task1>>, 2)>>}
      PROVE  Good(path) /\ GoesOn(Both, First(path))
  BY <1>1, OtherLines, ListsGoOn, DeletesGoOn, SoundTwo DEF Then
<1> DEFINE Again == <<Line(<<Task0>>, 2, Delete(0), <<>>), Lists(<<>>, 2)>>
           After3 == <<Line(<<Task0, Task2>>, 3, Delete(0), <<>>), Lists(<<Task2>>, 3)>>
<1>7. Good(Again) /\ GoesOn(Lists(<<Task0>>, 2), First(Again))
  BY <1>1, OtherLines, ListsGoOn, DeletesGoOn, SoundTwo
<1>8. Good(After3) /\ GoesOn(Lists(<<Task0, Task2>>, 3), First(After3))
  BY <1>1, OtherLines, ListsGoOn, DeletesGoOn, SoundTwo
<1> DEFINE Short == {<<Then(Get(0), <<Task0>>)>>, <<Then(Get(NoId), <<>>)>>,
                     <<Then(Delete(0), <<>>), Lists(<<Task1>>, 2)>>,
                     <<Then(Delete(NoId), <<>>), Lists(<<Task0, Task1>>, 2)>>}
           Long == {Deleted1 \o Again, Deleted1 \o Added3, Deleted1 \o Added3 \o After3}
<1>9. ASSUME NEW path \in Short PROVE Good(path) /\ GoesOn(Both, First(path))
  BY <1>5, <1>6
<1> HIDE DEF Both, Again, After3, Short
<1>10. ASSUME NEW path \in Long PROVE Good(path) /\ GoesOn(Both, First(path))
  <2>1. /\ Good(Deleted1 \o Added3) /\ First(Deleted1 \o Added3) = First(Deleted1)
        /\ Final(Deleted1 \o Added3) = Final(Added3)
    BY <1>3, <1>4, SoundJoin
  <2>2. Good(Deleted1 \o Again) /\ First(Deleted1 \o Again) = First(Deleted1)
    BY <1>3, <1>7, SoundJoin
  <2>3. /\ Good(Deleted1 \o Added3 \o After3)
        /\ First(Deleted1 \o Added3 \o After3) = First(Deleted1 \o Added3)
    BY <2>1, <1>4, <1>8, SoundJoin
  <2> QED BY <2>1, <2>2, <2>3, <1>3
<1>11. ASSUME NEW path \in Short \cup Long PROVE Good(Start \o path) /\ Fresh(Start \o path)
  <2>1. Good(Start \o path) /\ First(Start \o path) = First(Start)
    BY <1>2, <1>9, <1>10, SoundJoin
  <2>2. First(Start) = Line(<<>>, 0, Create("payload"), <<Task0>>)
    BY DEF Start
  <2>3. Head(Start \o path) = First(Start \o path)
    BY <2>1 DEF Sound
  <2> QED BY <2>1, <2>2, <2>3 DEF Fresh, Line
<1>12. Paths = {Start \o path : path \in Short \cup Long}
  BY DEF Paths, Short, Long, Again, After3
<1>13. Sound(<<>>) /\ Fresh(<<>>)
  BY DEF Sound, Fresh
<1> QED BY <1>11, <1>12, <1>13

-----------------------------------------------------------------------------
(* The invariant behind the test.                                          *)
THEOREM TestInvariance == TestSpec => []TestIInv
<1>1. TestSpec => RunsOneOf(Paths \cup {<<>>})
  BY DEF TestSpec, TestInit, RunsOneOf
<1> QED BY <1>1, PathsAreSound, InvarianceOfTests

(* A run of the test is a run of the storage, so that all theorems about   *)
(* the storage hold of it.                                                 *)
THEOREM TestRunsTheStorage == TestSpec => Spec
<1>1. TestSpec => Init
  BY DEF TestSpec, TestInit
<1> QED BY <1>1, TestInvariance, TestSteps, PTL DEF TestSpec, Spec

(* Every REQUIRE of the unit test holds, though any number of other        *)
(* threads read meanwhile.                                                 *)
THEOREM UnitTestHolds == TestSpec => []TestHoldsBesideReaders
<1>1. TestSpec => RunsOneOf(Paths \cup {<<>>})
  BY DEF TestSpec, TestInit, RunsOneOf
<1> QED BY <1>1, PathsAreSound, SoundTestsHold
=============================================================================

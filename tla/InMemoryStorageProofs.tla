----------------------- MODULE InMemoryStorageProofs -----------------------
(* Theorems about InMemoryStorage, for any callers, payloads and width of  *)
(* size_t; the last part is that it implements DataStorage.                *)
EXTENDS InMemoryStorage, SequenceTheorems, FiniteSetTheorems, WellFoundedInduction, TLAPS

(* What size_t arithmetic gives. *)
LEMMA Modulo ==
  ASSUME NEW m \in Int, NEW n \in Nat \ {0}
  PROVE  /\ m % n \in 0..(n - 1)
         /\ m \in 0..(n - 1) => m % n = m
OBVIOUS

(* What vector::erase leaves. *)
LEMMA Erased ==
  ASSUME NEW S, NEW s \in Seq(S), NEW i \in 1..Len(s)
  PROVE  /\ RemoveAt(s, i) \in Seq(S)
         /\ Len(RemoveAt(s, i)) = Len(s) - 1
         /\ \A j \in 1..(Len(s) - 1) :
              RemoveAt(s, i)[j] = IF j < i THEN s[j] ELSE s[j + 1]
<1> DEFINE before == SubSeq(s, 1, i - 1)
           after == SubSeq(s, i + 1, Len(s))
<1>1. /\ before \in Seq(S) /\ Len(before) = i - 1
      /\ \A j \in 1..(i - 1) : before[j] = s[j]
  BY SubSeqProperties
<1>2. /\ after \in Seq(S) /\ Len(after) = Len(s) - i
      /\ \A j \in 1..(Len(s) - i) : after[j] = s[i + j]
  BY SubSeqProperties
<1>3. RemoveAt(s, i) = before \o after
  BY DEF RemoveAt
<1> HIDE DEF before, after
<1>4. before \o after \in Seq(S)
  BY <1>1, <1>2, ConcatProperties
<1>5. Len(before \o after) = Len(before) + Len(after)
  BY <1>1, <1>2, ConcatProperties
<1>6. \A j \in 1..(Len(before) + Len(after)) :
        (before \o after)[j] = IF j <= Len(before) THEN before[j] ELSE after[j - Len(before)]
  BY <1>1, <1>2, ConcatProperties
<1>7. Len(s) \in Nat /\ Len(before) + Len(after) = Len(s) - 1
  BY <1>1, <1>2
<1>8. ASSUME NEW j \in 1..(Len(s) - 1)
      PROVE  (before \o after)[j] = IF j < i THEN s[j] ELSE s[j + 1]
  <2>1. CASE j < i
    <3>1. (before \o after)[j] = before[j]
      BY <2>1, <1>1, <1>6, <1>7
    <3> QED BY <3>1, <2>1, <1>1
  <2>2. CASE j >= i
    <3>1. (before \o after)[j] = after[j - (i - 1)]
      BY <2>2, <1>1, <1>6, <1>7
    <3>2. j - (i - 1) \in 1..(Len(s) - i)
      BY <2>2
    <3>3. i + (j - (i - 1)) = j + 1
      OBVIOUS
    <3> QED BY <2>2, <3>1, <3>2, <3>3, <1>2
  <2> QED BY <2>1, <2>2, <1>7
<1> QED
  BY <1>3, <1>4, <1>5, <1>7, <1>8

(* What vector::emplace_back leaves. *)
LEMMA Appended ==
  ASSUME NEW S, NEW s \in Seq(S), NEW e \in S
  PROVE  /\ Append(s, e) \in Seq(S)
         /\ Len(Append(s, e)) = Len(s) + 1
         /\ \A j \in 1..Len(s) : Append(s, e)[j] = s[j]
         /\ Append(s, e)[Len(s) + 1] = e
OBVIOUS

LEMMA InitStorageInv == Init => StorageInv
<1> SUFFICES ASSUME Init PROVE StorageInv
  OBVIOUS
<1>1. TypeOK
  BY IdRangeAssumption DEF Init, TypeOK, Ids, NoCall
<1>2. LockInv /\ CallInv /\ TailInv /\ CopyInv
  BY DEF Init, LockInv, CallInv, TailInv, CopyInv, At
<1>3. VectorInv /\ SortedById /\ RepliesAnswerTheCall
  BY IdRangeAssumption DEF Init, VectorInv, SortedById, RepliesAnswerTheCall
<1> QED BY <1>1, <1>2, <1>3 DEF StorageInv

LEMMA VectorUnchanged ==
  ASSUME VectorInv, SortedById, UNCHANGED <<m_tasks, m_id, taken>>
  PROVE  VectorInv' /\ SortedById'
BY DEF VectorInv, SortedById, NoWrap

(* What a call carries.                                                    *)
LEMMA Arguments ==
  ASSUME TypeOK, NEW c \in Callers
  PROVE  /\ call[c].op = "CreateTask" => call[c].payload \in Payloads
         /\ call[c].op \in {"GetTask", "DeleteTask"} =>
              /\ call[c].index \in Ids
              /\ call[c] = [op |-> call[c].op, index |-> call[c].index]
<1>1. call[c] \in Calls \cup {NoCall}
  BY DEF TypeOK
<1> QED BY <1>1 DEF Calls, NoCall

(* What the vector holds.                                                  *)
LEMMA Elements ==
  ASSUME TypeOK
  PROVE  /\ Len(m_tasks) \in Nat
         /\ \A i \in 1..Len(m_tasks) :
              /\ m_tasks[i] \in Task
              /\ m_tasks[i].id \in Ids /\ m_tasks[i].id \in Nat
<1>1. m_tasks \in Seq(Task)
  BY DEF TypeOK
<1>2. \A i \in 1..Len(m_tasks) : m_tasks[i] \in Task
  BY <1>1, ElementOfSeq
<1>3. ASSUME NEW t \in Task PROVE t.id \in Ids /\ t.id \in Nat
  BY IdRangeAssumption DEF Task, Ids
<1> QED BY <1>1, <1>2, <1>3

(* Nobody else is past the lock while a caller holds it to write.          *)
LEMMA Alone ==
  ASSUME TypeOK, LockInv, NEW c \in Callers,
         pc[c] \in {"body", "tail", "unlock", "unwind"}, call[c].op # "GetTasks"
  PROVE  \A d \in Callers : d # c => pc[d] \in {"idle", "lock"}
BY DEF TypeOK, LockInv

(* The step keeps every part of the invariant, action by action.           *)
LEMMA NextStorageInv == StorageInv /\ [Next]_vars => StorageInv'
<1> SUFFICES ASSUME TypeOK, LockInv, CallInv, VectorInv, TailInv, CopyInv,
                    SortedById, RepliesAnswerTheCall, [Next]_vars
             PROVE  StorageInv'
  BY DEF StorageInv
<1>1. ASSUME NEW c \in Callers, NEW k \in Calls, Invoke(c, k) PROVE StorageInv'
  <2> USE <1>1 DEF Invoke, Goto
  <2>1. TypeOK' BY DEF TypeOK, Calls, NoCall
  <2>2. LockInv' BY DEF TypeOK, LockInv
  <2>3. CallInv' BY DEF TypeOK, CallInv, Calls, NoCall
  <2>4. VectorInv' /\ SortedById' BY VectorUnchanged
  <2>5. TailInv' BY DEF TypeOK, TailInv
  <2>6. CopyInv' BY DEF TypeOK, CallInv, CopyInv, At
  <2>7. RepliesAnswerTheCall' BY DEF TypeOK, RepliesAnswerTheCall
  <2> QED BY <2>1, <2>2, <2>3, <2>4, <2>5, <2>6, <2>7 DEF StorageInv
<1>2. ASSUME NEW c \in Callers, LockExclusive(c) PROVE StorageInv'
  <2> USE <1>2 DEF LockExclusive, At, Goto
  <2>1. TypeOK' BY DEF TypeOK, Calls, NoCall
  <2>2. LockInv' BY DEF TypeOK, LockInv
  <2>3. CallInv' BY DEF TypeOK, CallInv, Calls, NoCall
  <2>4. VectorInv' /\ SortedById' BY VectorUnchanged
  <2>5. TailInv' BY DEF TypeOK, TailInv
  <2>6. CopyInv' BY DEF TypeOK, CallInv, CopyInv, At
  <2>7. RepliesAnswerTheCall' BY DEF TypeOK, RepliesAnswerTheCall
  <2> QED BY <2>1, <2>2, <2>3, <2>4, <2>5, <2>6, <2>7 DEF StorageInv
<1>3. ASSUME NEW c \in Callers, LockShared(c) PROVE StorageInv'
  <2> USE <1>3 DEF LockShared, At, Goto
  <2>1. TypeOK' BY DEF TypeOK, Calls, NoCall
  <2>2. LockInv' BY DEF TypeOK, LockInv
  <2>3. CallInv' BY DEF TypeOK, CallInv, Calls, NoCall
  <2>4. VectorInv' /\ SortedById' BY VectorUnchanged
  <2>5. TailInv' BY DEF TypeOK, TailInv
  <2>6. CopyInv' BY DEF TypeOK, CallInv, CopyInv, At
  <2>7. RepliesAnswerTheCall' BY DEF TypeOK, RepliesAnswerTheCall
  <2> QED BY <2>1, <2>2, <2>3, <2>4, <2>5, <2>6, <2>7 DEF StorageInv
<1>4. ASSUME NEW c \in Callers, EmplaceBack(c) PROVE StorageInv'
  <2> DEFINE task == [id |-> m_id, payload |-> call[c].payload]
  <2>1. /\ pc[c] = "body" /\ call[c].op = "CreateTask"
        /\ m_id' = (m_id + 1) % IdRange /\ taken' = taken + 1
        /\ \/ m_tasks' = Append(m_tasks, task) /\ pc' = [pc EXCEPT ![c] = "tail"]
           \/ UNCHANGED m_tasks /\ pc' = [pc EXCEPT ![c] = "unwind"]
        /\ UNCHANGED <<exclusive, shared, call, itr, out>>
    BY <1>4 DEF EmplaceBack, At, Goto
  <2>2. task \in Task
    BY <2>1, Arguments DEF TypeOK, Task
  <2>3. /\ m_id \in Nat /\ taken \in Nat /\ IdRange \in Nat \ {0}
        /\ m_id' \in Ids /\ taken' \in Nat
        /\ taken' < IdRange => m_id' = taken'
    <3>1. m_id \in Nat /\ taken \in Nat /\ IdRange \in Nat \ {0}
      BY IdRangeAssumption DEF TypeOK, Ids
    <3>2. (m_id + 1) % IdRange \in 0..(IdRange - 1)
      BY <3>1, Modulo
    <3>3. ASSUME taken + 1 < IdRange PROVE (m_id + 1) % IdRange = taken + 1
      <4>1. m_id + 1 = taken + 1 /\ m_id + 1 \in 0..(IdRange - 1)
        BY <3>1, <3>3 DEF VectorInv
      <4>2. (m_id + 1) % IdRange = m_id + 1
        <5>1. m_id + 1 \in Int
          BY <3>1
        <5> QED BY <4>1, <5>1, <3>1, Modulo
      <4> QED BY <4>1, <4>2
    <3> QED BY <2>1, <3>1, <3>2, <3>3 DEF Ids
  <2>4. \A d \in Callers : d # c => pc[d] \in {"idle", "lock"}
    BY <2>1, Alone
  <2>5. LockInv'
    BY <2>1 DEF TypeOK, LockInv
  <2>6. CallInv'
    BY <2>1 DEF TypeOK, CallInv, NoCall
  <2>7. RepliesAnswerTheCall'
    BY <2>1 DEF TypeOK, RepliesAnswerTheCall
  <2>8. CopyInv'
    BY <2>1, <2>4 DEF TypeOK, CopyInv, At
  <2>9. CASE m_tasks' = Append(m_tasks, task) /\ pc' = [pc EXCEPT ![c] = "tail"]
    <3>1. /\ m_tasks' \in Seq(Task) /\ Len(m_tasks') = Len(m_tasks) + 1
          /\ \A i \in 1..Len(m_tasks) : m_tasks'[i] = m_tasks[i]
          /\ m_tasks'[Len(m_tasks) + 1] = task
      BY <2>2, <2>9, Appended DEF TypeOK
    <3>2. TypeOK'
      BY <2>1, <2>3, <2>9, <3>1 DEF TypeOK
    <3>3. VectorInv' /\ SortedById'
      <4>1. Len(m_tasks) \in Nat /\ \A i \in 1..Len(m_tasks) : m_tasks[i].id \in Nat
        BY Elements
      <4>2. ASSUME NoWrap' PROVE /\ \A i \in 1..Len(m_tasks) : m_tasks[i].id < taken
                                 /\ m_id = taken /\ NoWrap
        BY <4>2, <2>1, <2>3 DEF NoWrap, VectorInv
      <4>3. ASSUME NoWrap', NEW i \in 1..Len(m_tasks')
            PROVE  m_tasks'[i].id < taken'
        BY <4>1, <4>2, <4>3, <3>1, <2>1, <2>3
      <4>4. ASSUME NoWrap', NEW i \in 1..Len(m_tasks'), NEW j \in 1..Len(m_tasks'), i < j
            PROVE  m_tasks'[i].id < m_tasks'[j].id
        <5>1. CASE j = Len(m_tasks')
          BY <5>1, <4>1, <4>2, <4>4, <3>1
        <5>2. CASE j # Len(m_tasks')
          BY <5>2, <4>1, <4>2, <4>4, <3>1 DEF SortedById
        <5> QED BY <5>1, <5>2
      <4> QED BY <2>3, <4>3, <4>4 DEF VectorInv, SortedById
    <3>4. TailInv'
      <4>1. Len(m_tasks) \in Nat /\ m_tasks'[Len(m_tasks')].payload = call[c].payload
        BY <3>1, Elements
      <4>2. \A d \in Callers : pc'[d] = "tail" => d = c
        BY <2>1, <2>4, <2>9 DEF TypeOK
      <4> QED BY <2>1, <3>1, <4>1, <4>2 DEF TailInv
    <3> QED BY <2>5, <2>6, <2>7, <2>8, <3>2, <3>3, <3>4 DEF StorageInv
  <2>10. CASE UNCHANGED m_tasks /\ pc' = [pc EXCEPT ![c] = "unwind"]
    <3>1. TypeOK'
      BY <2>1, <2>3, <2>10 DEF TypeOK
    <3>2. VectorInv' /\ SortedById'
      <4>1. \A i \in 1..Len(m_tasks) : m_tasks[i].id \in Nat
        BY Elements
      <4>2. NoWrap' => NoWrap
        BY <2>1, <2>3 DEF NoWrap
      <4> QED BY <2>1, <2>3, <2>10, <4>1, <4>2 DEF VectorInv, SortedById
    <3>3. TailInv'
      BY <2>1, <2>4, <2>10 DEF TypeOK, TailInv
    <3> QED BY <2>5, <2>6, <2>7, <2>8, <3>1, <3>2, <3>3 DEF StorageInv
  <2> QED BY <2>1, <2>9, <2>10
<1>5. ASSUME NEW c \in Callers, CopyBack(c) PROVE StorageInv'
  <2>1. /\ pc[c] = "tail" /\ call[c].op = "CreateTask"
        /\ out' = [out EXCEPT ![c] = <<m_tasks[Len(m_tasks)]>>]
        /\ pc' = [pc EXCEPT ![c] = "unlock"]
        /\ UNCHANGED <<m_tasks, m_id, exclusive, shared, call, itr, taken>>
    BY <1>5 DEF CopyBack, At, Goto
  <2>2. /\ m_tasks[Len(m_tasks)] \in Task
        /\ m_tasks[Len(m_tasks)].payload = call[c].payload
    <3>1. Len(m_tasks) > 0 /\ m_tasks[Len(m_tasks)].payload = call[c].payload
      BY <2>1 DEF TailInv
    <3> QED BY <3>1, Elements
  <2>3. <<m_tasks[Len(m_tasks)]>> \in Seq(Task)
    BY <2>2
  <2>4. TypeOK'
    BY <2>1, <2>3 DEF TypeOK
  <2>5. LockInv'
    BY <2>1 DEF TypeOK, LockInv
  <2>6. CallInv'
    BY <2>1 DEF TypeOK, CallInv, NoCall
  <2>7. VectorInv' /\ SortedById'
    BY <2>1, VectorUnchanged
  <2>8. TailInv'
    BY <2>1 DEF TypeOK, TailInv
  <2>9. RepliesAnswerTheCall'
    <3>1. Len(out'[c]) = 1 /\ out'[c][1].payload = call[c].payload
      BY <2>1, <2>2 DEF TypeOK
    <3>2. \A d \in Callers : d # c => pc'[d] = pc[d] /\ out'[d] = out[d]
      BY <2>1 DEF TypeOK
    <3> QED BY <2>1, <3>1, <3>2 DEF RepliesAnswerTheCall
  <2>10. CopyInv'
    BY <2>1 DEF TypeOK, CopyInv, At
  <2> QED BY <2>4, <2>5, <2>6, <2>7, <2>8, <2>9, <2>10 DEF StorageInv
<1>6. ASSUME NEW c \in Callers, Find(c) PROVE StorageInv'
  <2>1. /\ pc[c] = "body" /\ call[c].op \in {"DeleteTask", "GetTask"}
        /\ UNCHANGED <<m_tasks, m_id, exclusive, shared, call, out, taken>>
    BY <1>6 DEF Find, At
  <2>2. PICK i \in LowerBound(m_tasks, call[c].index) :
          \/ pc' = [pc EXCEPT ![c] = "unlock"] /\ UNCHANGED itr
          \/ /\ ~(i > Len(m_tasks)) /\ m_tasks[i].id = call[c].index
             /\ pc' = [pc EXCEPT ![c] = "tail"] /\ itr' = [itr EXCEPT ![c] = i]
    BY <1>6 DEF Find, Goto
  <2>3. i \in 1..(Len(m_tasks) + 1)
    BY <2>2 DEF LowerBound
  <2>4. out[c] = <<>>
    BY <2>1 DEF CallInv
  <2>5. CASE pc' = [pc EXCEPT ![c] = "unlock"] /\ UNCHANGED itr
    <3>1. TypeOK'
      BY <2>1, <2>5 DEF TypeOK
    <3>2. LockInv'
      BY <2>1, <2>5 DEF TypeOK, LockInv
    <3>3. CallInv'
      BY <2>1, <2>5 DEF TypeOK, CallInv, NoCall
    <3>4. VectorInv' /\ SortedById'
      BY <2>1, VectorUnchanged
    <3>5. TailInv'
      BY <2>1, <2>5 DEF TypeOK, TailInv
    <3>6. RepliesAnswerTheCall'
      BY <2>1, <2>4, <2>5 DEF TypeOK, RepliesAnswerTheCall
    <3>7. CopyInv'
      BY <2>1, <2>5 DEF TypeOK, CopyInv, At
    <3> QED BY <3>1, <3>2, <3>3, <3>4, <3>5, <3>6, <3>7 DEF StorageInv
  <2>6. CASE /\ ~(i > Len(m_tasks)) /\ m_tasks[i].id = call[c].index
             /\ pc' = [pc EXCEPT ![c] = "tail"] /\ itr' = [itr EXCEPT ![c] = i]
    <3>1. TypeOK'
      BY <2>1, <2>3, <2>6 DEF TypeOK
    <3>2. LockInv'
      BY <2>1, <2>6 DEF TypeOK, LockInv
    <3>3. CallInv'
      BY <2>1, <2>6 DEF TypeOK, CallInv, NoCall
    <3>4. VectorInv' /\ SortedById'
      BY <2>1, VectorUnchanged
    <3>5. TailInv'
      <4>1. i \in 1..Len(m_tasks)
        BY <2>3, <2>6, Elements
      <4> QED BY <2>1, <2>6, <4>1 DEF TypeOK, TailInv
    <3>6. RepliesAnswerTheCall'
      BY <2>1, <2>6 DEF TypeOK, RepliesAnswerTheCall
    <3>7. CopyInv'
      BY <2>1, <2>6 DEF TypeOK, CopyInv, At
    <3> QED BY <3>1, <3>2, <3>3, <3>4, <3>5, <3>6, <3>7 DEF StorageInv
  <2> QED BY <2>2, <2>5, <2>6
<1>7. ASSUME NEW c \in Callers, Erase(c) PROVE StorageInv'
  <2>1. /\ pc[c] = "tail" /\ call[c].op = "DeleteTask"
        /\ m_tasks' = RemoveAt(m_tasks, itr[c])
        /\ pc' = [pc EXCEPT ![c] = "unlock"]
        /\ UNCHANGED <<m_id, exclusive, shared, call, itr, out, taken>>
    BY <1>7 DEF Erase, At, Goto
  <2>2. itr[c] \in 1..Len(m_tasks) /\ out[c] = <<>>
    BY <2>1 DEF TailInv, CallInv
  <2>3. /\ m_tasks' \in Seq(Task) /\ Len(m_tasks') = Len(m_tasks) - 1
        /\ \A j \in 1..(Len(m_tasks) - 1) :
             m_tasks'[j] = IF j < itr[c] THEN m_tasks[j] ELSE m_tasks[j + 1]
    BY <2>1, <2>2, Erased DEF TypeOK
  <2>4. \A d \in Callers : d # c => pc[d] \in {"idle", "lock"}
    BY <2>1, Alone
  <2>5. TypeOK'
    BY <2>1, <2>3 DEF TypeOK
  <2>6. LockInv'
    BY <2>1 DEF TypeOK, LockInv
  <2>7. CallInv'
    BY <2>1 DEF TypeOK, CallInv, NoCall
  <2>8. VectorInv' /\ SortedById'
    <3>1. Len(m_tasks) \in Nat /\ itr[c] \in Nat
      BY <2>2, Elements
    <3>2. ASSUME NEW i \in 1..Len(m_tasks')
          PROVE  \E k \in 1..Len(m_tasks) : m_tasks'[i] = m_tasks[k]
      BY <2>3, <3>1
    <3>3. VectorInv'
      BY <2>1, <3>2 DEF VectorInv, NoWrap
    <3>4. ASSUME NoWrap, NEW i \in 1..Len(m_tasks'), NEW j \in 1..Len(m_tasks'), i < j
          PROVE  m_tasks'[i].id < m_tasks'[j].id
      <4>1. CASE j < itr[c]
        BY <4>1, <2>3, <3>1, <3>4 DEF SortedById
      <4>2. CASE i < itr[c] /\ ~(j < itr[c])
        BY <4>2, <2>3, <3>1, <3>4 DEF SortedById
      <4>3. CASE ~(i < itr[c])
        BY <4>3, <2>3, <3>1, <3>4 DEF SortedById
      <4> QED BY <4>1, <4>2, <4>3
    <3> QED BY <2>1, <3>3, <3>4 DEF SortedById, NoWrap
  <2>9. TailInv'
    BY <2>1, <2>4 DEF TypeOK, TailInv
  <2>10. RepliesAnswerTheCall'
    BY <2>1, <2>4 DEF TypeOK, RepliesAnswerTheCall
  <2>11. CopyInv'
    BY <2>1, <2>4 DEF TypeOK, CopyInv, At
  <2> QED BY <2>5, <2>6, <2>7, <2>8, <2>9, <2>10, <2>11 DEF StorageInv
<1>8. ASSUME NEW c \in Callers, CopyItr(c) PROVE StorageInv'
  <2>1. /\ pc[c] = "tail" /\ call[c].op = "GetTask"
        /\ out' = [out EXCEPT ![c] = <<m_tasks[itr[c]]>>]
        /\ pc' = [pc EXCEPT ![c] = "unlock"]
        /\ UNCHANGED <<m_tasks, m_id, exclusive, shared, call, itr, taken>>
    BY <1>8 DEF CopyItr, At, Goto
  <2>2. m_tasks[itr[c]] \in Task /\ m_tasks[itr[c]].id = call[c].index
    BY <2>1, Elements DEF TailInv
  <2>3. <<m_tasks[itr[c]]>> \in Seq(Task)
    BY <2>2
  <2>4. TypeOK'
    BY <2>1, <2>3 DEF TypeOK
  <2>5. LockInv'
    BY <2>1 DEF TypeOK, LockInv
  <2>6. CallInv'
    BY <2>1 DEF TypeOK, CallInv, NoCall
  <2>7. VectorInv' /\ SortedById'
    BY <2>1, VectorUnchanged
  <2>8. TailInv'
    BY <2>1 DEF TypeOK, TailInv
  <2>9. RepliesAnswerTheCall'
    <3>1. \A i \in 1..Len(out'[c]) : i = 1 /\ out'[c][1].id = call[c].index
      BY <2>1, <2>2 DEF TypeOK
    <3>2. \A d \in Callers : d # c => pc'[d] = pc[d] /\ out'[d] = out[d]
      BY <2>1 DEF TypeOK
    <3>3. call' = call /\ call[c].op # "CreateTask"
      BY <2>1
    <3> QED BY <3>1, <3>2, <3>3 DEF RepliesAnswerTheCall
  <2>10. CopyInv'
    BY <2>1 DEF TypeOK, CopyInv, At
  <2> QED BY <2>4, <2>5, <2>6, <2>7, <2>8, <2>9, <2>10 DEF StorageInv
<1>9. ASSUME NEW c \in Callers, CopyNext(c) PROVE StorageInv'
  <2>1. /\ pc[c] = "body" /\ call[c].op = "GetTasks"
        /\ \/ /\ Len(out[c]) < Len(m_tasks)
              /\ out' = [out EXCEPT ![c] = Append(@, m_tasks[Len(@) + 1])]
              /\ UNCHANGED pc
           \/ pc' = [pc EXCEPT ![c] = "unlock"] /\ UNCHANGED out
        /\ UNCHANGED <<m_tasks, m_id, exclusive, shared, call, itr, taken>>
    BY <1>9 DEF CopyNext, At, Goto
  <2>2. out' \in [Callers -> Seq(Task)]
    <3>1. CASE UNCHANGED out
      BY <3>1 DEF TypeOK
    <3>2. CASE /\ Len(out[c]) < Len(m_tasks)
               /\ out' = [out EXCEPT ![c] = Append(@, m_tasks[Len(@) + 1])]
      <4>1. out[c] \in Seq(Task) /\ Len(out[c]) \in Nat
        BY DEF TypeOK
      <4>2. m_tasks[Len(out[c]) + 1] \in Task
        BY <3>2, <4>1, Elements
      <4> QED BY <3>2, <4>1, <4>2 DEF TypeOK
    <3> QED BY <2>1, <3>1, <3>2
  <2>3. pc' \in [Callers -> {"idle", "lock", "body", "tail", "unlock", "unwind"}]
    BY <2>1 DEF TypeOK
  <2>4. \A d \in Callers : d # c => pc'[d] = pc[d] /\ out'[d] = out[d]
    BY <2>1 DEF TypeOK
  <2>5. pc'[c] \in {"body", "unlock"}
    BY <2>1 DEF TypeOK
  <2>6. TypeOK'
    BY <2>1, <2>2, <2>3 DEF TypeOK
  <2>7. LockInv'
    BY <2>1, <2>4, <2>5 DEF LockInv
  <2>8. CallInv'
    BY <2>1, <2>4, <2>5 DEF CallInv, NoCall
  <2>9. VectorInv' /\ SortedById'
    BY <2>1, VectorUnchanged
  <2>10. TailInv'
    BY <2>1, <2>4, <2>5 DEF TailInv
  <2>11. RepliesAnswerTheCall'
    BY <2>1, <2>4 DEF RepliesAnswerTheCall
  <2>12. CopyInv'
    <3>1. CASE UNCHANGED out
      BY <2>1, <2>4, <3>1 DEF CopyInv, At
    <3>2. CASE /\ Len(out[c]) < Len(m_tasks)
               /\ out' = [out EXCEPT ![c] = Append(@, m_tasks[Len(@) + 1])]
      <4>1. out[c] \in Seq(Task) /\ Len(out[c]) \in Nat /\ Len(m_tasks) \in Nat
        BY Elements DEF TypeOK
      <4>2. m_tasks[Len(out[c]) + 1] \in Task
        BY <3>2, <4>1, Elements
      <4>3. out'[c] = Append(out[c], m_tasks[Len(out[c]) + 1])
        BY <3>2 DEF TypeOK
      <4>4. /\ Len(out'[c]) = Len(out[c]) + 1
            /\ \A i \in 1..Len(out[c]) : out'[c][i] = out[c][i]
            /\ out'[c][Len(out[c]) + 1] = m_tasks[Len(out[c]) + 1]
        BY <4>1, <4>2, <4>3, Appended
      <4>5. Len(out'[c]) <= Len(m_tasks)
            /\ \A i \in 1..Len(out'[c]) : out'[c][i] = m_tasks[i]
        BY <2>1, <3>2, <4>1, <4>4 DEF CopyInv, At
      <4> QED BY <2>1, <2>4, <4>5 DEF CopyInv, At
    <3> QED BY <2>1, <3>1, <3>2
  <2> QED BY <2>6, <2>7, <2>8, <2>9, <2>10, <2>11, <2>12 DEF StorageInv
<1>10. ASSUME NEW c \in Callers, CopyThrows(c) PROVE StorageInv'
  <2> USE <1>10 DEF CopyThrows, At, Goto
  <2>1. TypeOK' BY DEF TypeOK, Calls, NoCall
  <2>2. LockInv' BY DEF TypeOK, LockInv
  <2>3. CallInv' BY DEF TypeOK, CallInv, Calls, NoCall
  <2>4. VectorInv' /\ SortedById' BY VectorUnchanged
  <2>5. TailInv' BY DEF TypeOK, TailInv
  <2>6. CopyInv' BY DEF TypeOK, CallInv, CopyInv, At
  <2>7. RepliesAnswerTheCall' BY DEF TypeOK, RepliesAnswerTheCall
  <2> QED BY <2>1, <2>2, <2>3, <2>4, <2>5, <2>6, <2>7 DEF StorageInv
<1>11. ASSUME NEW c \in Callers, Return(c) PROVE StorageInv'
  <2> USE <1>11 DEF Return, At, Goto
  <2>1. TypeOK' BY DEF TypeOK, Calls, NoCall
  <2>2. LockInv' BY DEF TypeOK, LockInv
  <2>3. CallInv' BY DEF TypeOK, CallInv, Calls, NoCall
  <2>4. VectorInv' /\ SortedById' BY VectorUnchanged
  <2>5. TailInv' BY DEF TypeOK, TailInv
  <2>6. CopyInv' BY DEF TypeOK, CallInv, CopyInv, At
  <2>7. RepliesAnswerTheCall' BY DEF TypeOK, RepliesAnswerTheCall
  <2> QED BY <2>1, <2>2, <2>3, <2>4, <2>5, <2>6, <2>7 DEF StorageInv
<1>12. CASE UNCHANGED vars
  <2> USE <1>12 DEF vars
  <2>1. TypeOK' BY DEF TypeOK, Calls, NoCall
  <2>2. LockInv' BY DEF LockInv
  <2>3. CallInv' BY DEF CallInv
  <2>4. VectorInv' /\ SortedById' BY VectorUnchanged
  <2>5. TailInv' BY DEF TailInv
  <2>6. CopyInv' BY DEF CopyInv, At
  <2>7. RepliesAnswerTheCall' BY DEF RepliesAnswerTheCall
  <2> QED BY <2>1, <2>2, <2>3, <2>4, <2>5, <2>6, <2>7 DEF StorageInv
<1> QED
  BY <1>1, <1>2, <1>3, <1>4, <1>5, <1>6, <1>7, <1>8, <1>9, <1>10, <1>11, <1>12
  DEF Next, Step

(* What every caller relies on between its two accesses of the vector, for *)
(* any number of callers: it holds m_mutex in the mode its call needs, and *)
(* what it found at the first access is still there at the second.         *)
THEOREM Invariance == Spec => []StorageInv
BY InitStorageInv, NextStorageInv, PTL DEF Spec

-----------------------------------------------------------------------------
(* No call of the storage, complete or cut short by an exception, leaves a *)
(* value of the wrong type behind, and back(), *itr and m_tasks[i] are     *)
(* only evaluated where there is an element.                               *)
THEOREM TypeCorrectness == Spec => []TypeOK
BY Invariance, PTL DEF StorageInv

(* The vector stays strictly sorted by id under every interleaving of      *)
(* CreateTask, DeleteTask, GetTask and GetTasks until m_id wraps.          *)
THEOREM Sortedness == Spec => []SortedById
BY Invariance, PTL DEF StorageInv

(* CreateTask and GetTask return the caller's own task, wrapped or not.    *)
THEOREM OwnReplies == Spec => []RepliesAnswerTheCall
BY Invariance, PTL DEF StorageInv

(* While a call writes, or returns a reference it found, no other call is  *)
(* between taking m_mutex and releasing it: the two modes of the           *)
(* std::shared_mutex are used so that every pair of accesses is ordered.   *)
THEOREM Exclusion ==
  Spec => [](\A c, d \in Callers :
               c \in exclusive /\ d # c => pc[d] \in {"idle", "lock"})
<1>1. StorageInv => \A c, d \in Callers :
                c \in exclusive /\ d # c => pc[d] \in {"idle", "lock"}
  <2> SUFFICES ASSUME StorageInv, NEW c \in Callers, NEW d \in Callers,
                      c \in exclusive, d # c
               PROVE  pc[d] \in {"idle", "lock"}
    OBVIOUS
  <2>1. TypeOK /\ LockInv
    BY DEF StorageInv
  <2>2. pc[c] \in {"body", "tail", "unlock", "unwind"} /\ call[c].op # "GetTasks"
    BY <2>1 DEF LockInv
  <2> QED BY <2>1, <2>2, Alone
<1> QED BY <1>1, Invariance, PTL

(* A step of the storage takes no task from the vector but the one that a  *)
(* running DeleteTask was called for.                                      *)
THEOREM NoOtherTaskDeleted == Spec => OnlyTheNamedTaskIsDeleted
<1> DEFINE Named(t) == \E c \in exclusive : call[c] = [op |-> "DeleteTask", index |-> t.id]
<1>1. ASSUME StorageInv, [Next]_vars, NEW t \in Range(m_tasks) \ Range(m_tasks')
      PROVE  Named(t)
  <2>1. PICK c \in Callers : EmplaceBack(c) \/ Erase(c)
    <3>1. m_tasks' # m_tasks
      BY <1>1
    <3> QED
      BY <3>1, <1>1 DEF Next, Step, vars, Invoke, LockExclusive, LockShared, CopyBack,
         Find, CopyItr, CopyNext, CopyThrows, Return
  <2>2. TypeOK /\ LockInv /\ TailInv
    BY <1>1 DEF StorageInv
  <2>3. PICK i \in 1..Len(m_tasks) : m_tasks[i] = t
    BY <1>1, <2>2 DEF Range, TypeOK
  <2>4. CASE EmplaceBack(c)
    <3> DEFINE task == [id |-> m_id, payload |-> call[c].payload]
    <3>1. m_tasks' = Append(m_tasks, task)
      BY <2>4, <1>1 DEF EmplaceBack
    <3>2. task \in Task
      BY <2>2, <2>4, Arguments DEF EmplaceBack, At, TypeOK, Task
    <3>3. i \in DOMAIN m_tasks' /\ m_tasks'[i] = t
      BY <2>2, <2>3, <3>1, <3>2, Appended DEF TypeOK
    <3> QED BY <3>3, <1>1 DEF Range
  <2>5. CASE Erase(c)
    <3>1. /\ pc[c] = "tail" /\ call[c].op = "DeleteTask"
          /\ m_tasks' = RemoveAt(m_tasks, itr[c])
      BY <2>5 DEF Erase, At
    <3>2. /\ c \in exclusive
          /\ itr[c] \in 1..Len(m_tasks) /\ m_tasks[itr[c]].id = call[c].index
      BY <2>2, <3>1 DEF LockInv, TailInv
    <3>3. i = itr[c]
      <4>1. /\ m_tasks' \in Seq(Task) /\ Len(m_tasks') = Len(m_tasks) - 1
            /\ \A j \in 1..(Len(m_tasks) - 1) :
                 m_tasks'[j] = IF j < itr[c] THEN m_tasks[j] ELSE m_tasks[j + 1]
        BY <2>2, <3>1, <3>2, Erased DEF TypeOK
      <4>2. Len(m_tasks) \in Nat /\ DOMAIN m_tasks' = 1..(Len(m_tasks) - 1)
        BY <2>2, <4>1, Elements
      <4>3. CASE i < itr[c]
        <5>1. i \in 1..(Len(m_tasks) - 1) /\ m_tasks'[i] = t
          BY <4>1, <4>2, <4>3, <3>2, <2>3
        <5> QED BY <5>1, <4>2, <1>1 DEF Range
      <4>4. CASE i > itr[c]
        <5>1. i - 1 \in 1..(Len(m_tasks) - 1) /\ m_tasks'[i - 1] = t
          BY <4>1, <4>2, <4>4, <3>2, <2>3
        <5> QED BY <5>1, <4>2, <1>1 DEF Range
      <4> QED BY <4>2, <4>3, <4>4, <3>2
    <3>4. call[c] = [op |-> "DeleteTask", index |-> t.id]
      BY <2>2, <2>3, <3>1, <3>2, <3>3, Arguments
    <3> QED BY <3>2, <3>4
  <2> QED BY <2>1, <2>4, <2>5
<1>2. StorageInv /\ [Next]_vars => [\A t \in Range(m_tasks) \ Range(m_tasks') : Named(t)]_vars
  BY <1>1
<1> QED BY <1>2, Invariance, PTL DEF Spec, OnlyTheNamedTaskIsDeleted

-----------------------------------------------------------------------------
(* The storage implements the contract, as long as m_id has not wrapped.   *)

(* Every set of naturals that is not empty has a least element. *)
LEMMA LeastElement ==
  ASSUME NEW T, T \subseteq Nat, T # {}
  PROVE  \E m \in T : \A n \in T : m <= n
<1>1. PICK m \in T : \A n \in T : ~(<<n, m>> \in OpToRel(<, Nat))
  BY NatLessThanWellFounded, WFMin
<1>2. \A n \in T : ~(n < m)
  BY <1>1 DEF OpToRel
<1> QED BY <1>2

Sorted == \A i, j \in 1..Len(m_tasks) : i < j => m_tasks[i].id < m_tasks[j].id

(* The precondition of lower_bound gives its postcondition. *)
LEMMA LowerBoundOfSorted ==
  ASSUME TypeOK, Sorted, NEW index \in Nat, NEW i \in LowerBound(m_tasks, index)
  PROVE  /\ i \in 1..(Len(m_tasks) + 1)
         /\ \A j \in 1..Len(m_tasks) : m_tasks[j].id < index <=> j < i
<1> DEFINE Positions == 1..(Len(m_tasks) + 1)
           IsBound(k) == \A j \in 1..Len(m_tasks) : m_tasks[j].id < index <=> j < k
           Above == {k \in Positions : k = Len(m_tasks) + 1 \/ ~(m_tasks[k].id < index)}
<1>1. Len(m_tasks) \in Nat /\ \A k \in 1..Len(m_tasks) : m_tasks[k].id \in Nat
  BY Elements
<1>2. Above \subseteq Nat /\ Len(m_tasks) + 1 \in Above
  BY <1>1
<1>3. PICK m \in Above : \A n \in Above : m <= n
  BY <1>2, LeastElement
<1>4. IsBound(m)
  <2> SUFFICES ASSUME NEW j \in 1..Len(m_tasks)
               PROVE  m_tasks[j].id < index <=> j < m
    OBVIOUS
  <2>1. CASE j < m
    BY <2>1, <1>1, <1>3
  <2>2. CASE m <= j
    <3>1. m \in 1..Len(m_tasks) /\ ~(m_tasks[m].id < index)
      BY <2>2, <1>1, <1>3
    <3> QED BY <2>2, <3>1, <1>1 DEF Sorted
  <2> QED BY <2>1, <2>2, <1>1, <1>2
<1>5. LowerBound(m_tasks, index) = {k \in Positions : IsBound(k)}
  BY <1>3, <1>4 DEF LowerBound
<1> QED BY <1>5

(* DataStorage counts as this module does. *)
LEMMA SameCardinality == ASSUME NEW S PROVE Storage!Cardinality(S) = Cardinality(S)
BY DEF Storage!Cardinality, Cardinality, Storage!IsFiniteSet, IsFiniteSet

(* A sorted vector is the one listing of its elements. *)
LEMMA ListsItsElements ==
  ASSUME TypeOK, Sorted
  PROVE  m_tasks \in Storage!Listings(Range(m_tasks))
<1>1. m_tasks \in Seq(Task) /\ Len(m_tasks) \in Nat /\ DOMAIN m_tasks = 1..Len(m_tasks)
  BY DEF TypeOK
<1>2. m_tasks \in [1..Len(m_tasks) -> Range(m_tasks)]
  BY <1>1 DEF Range
<1>3. \A i, j \in 1..Len(m_tasks) : m_tasks[i] = m_tasks[j] => i = j
  BY Elements DEF Sorted
<1>4. m_tasks \in Bijection(1..Len(m_tasks), Range(m_tasks))
  BY <1>1, <1>2, <1>3 DEF Bijection, Injection, Surjection, IsInjective, Range
<1>5. IsFiniteSet(1..Len(m_tasks)) /\ Cardinality(1..Len(m_tasks)) = Len(m_tasks)
  BY <1>1, FS_Interval
<1>6. Cardinality(Range(m_tasks)) = Len(m_tasks)
  BY <1>4, <1>5, FS_Bijection DEF ExistsBijection
<1> QED BY <1>1, <1>2, <1>6, SameCardinality DEF Storage!Listings, Sorted

-----------------------------------------------------------------------------
(* The mapping changes for the caller that makes a step only, if no other  *)
(* caller is between its accesses while the vector changes.                *)
LEMMA OthersUnchanged ==
  ASSUME TypeOK, NEW c \in Callers,
         \A d \in Callers \ {c} :
           /\ pc'[d] = pc[d] /\ call'[d] = call[d] /\ out'[d] = out[d]
           /\ pc[d] = "tail" => UNCHANGED m_tasks
  PROVE  /\ Phases' = [Phases EXCEPT ![c] = Phases'[c]]
         /\ Results' = [Results EXCEPT ![c] = Results'[c]]
         /\ Phases'[c] = Phases[c] => UNCHANGED Phases
         /\ Results'[c] = Results[c] => UNCHANGED Results
<1>1. ASSUME NEW d \in Callers \ {c}
      PROVE  Phases'[d] = Phases[d] /\ Results'[d] = Results[d]
  <2>1. pc'[d] = pc[d] /\ call'[d] = call[d] /\ out'[d] = out[d]
    OBVIOUS
  <2>2. Created(d)' = Created(d)
    BY <2>1 DEF Created, At
  <2>3. Created(d) => UNCHANGED m_tasks
    BY DEF Created, At
  <2> QED BY <2>1, <2>2, <2>3 DEF Phases, Results
<1>2. /\ Phases = [d \in Callers |-> Phases[d]] /\ Phases' = [d \in Callers |-> Phases'[d]]
      /\ Results = [d \in Callers |-> Results[d]] /\ Results' = [d \in Callers |-> Results'[d]]
  BY DEF Phases, Results
<1> QED BY <1>1, <1>2

LEMMA InitRefines == Init => Storage!Init
<1> SUFFICES ASSUME Init PROVE Storage!Init
  OBVIOUS
<1>1. Range(m_tasks) = {}
  BY DEF Init, Range
<1> QED BY <1>1 DEF Init, Storage!Init, Phases, Results, Created, At, NoCall, Storage!NoCall

LEMMA NextRefines == StorageInv /\ NoWrap /\ NoWrap' /\ [Next]_vars => [Storage!Next]_(Storage!vars)
<1> SUFFICES ASSUME TypeOK, LockInv, CallInv, VectorInv, TailInv, CopyInv, SortedById,
                    NoWrap, NoWrap', [Next]_vars
             PROVE  Storage!Next \/ UNCHANGED Storage!vars
  BY DEF StorageInv
<1> DEFINE Stutters == UNCHANGED Storage!vars
<1>1. ASSUME NEW c \in Callers, NEW k \in Calls, Invoke(c, k) PROVE Storage!Invoke(c, k)
  <2>1. /\ pc[c] = "idle" /\ pc' = [pc EXCEPT ![c] = "lock"]
        /\ call' = [call EXCEPT ![c] = k]
        /\ UNCHANGED <<m_tasks, taken, out>>
    BY <1>1 DEF Invoke, Goto
  <2>2. pc'[c] = "lock" BY <2>1 DEF TypeOK
  <2>3. Phases[c] = "idle" /\ Phases'[c] = "called" /\ Results'[c] = Results[c]
    BY <2>1, <2>2 DEF Phases, Results, Created, At
  <2>4. Phases' = [Phases EXCEPT ![c] = "called"] /\ UNCHANGED Results
    BY <2>1, <2>3, OthersUnchanged DEF TypeOK
  <2> QED BY <2>1, <2>3, <2>4 DEF Storage!Invoke
<1>2. ASSUME NEW c \in Callers, LockExclusive(c) \/ LockShared(c) PROVE Stutters
  <2>1. /\ pc[c] = "lock" /\ pc' = [pc EXCEPT ![c] = "body"]
        /\ UNCHANGED <<m_tasks, taken, call, out>>
    BY <1>2 DEF LockExclusive, LockShared, At, Goto
  <2>2. pc'[c] = "body" BY <2>1 DEF TypeOK
  <2>3. Phases'[c] = Phases[c] /\ Results'[c] = Results[c]
    BY <2>1, <2>2 DEF Phases, Results, Created, At
  <2>4. UNCHANGED Phases /\ UNCHANGED Results
    BY <2>1, <2>3, OthersUnchanged DEF TypeOK
  <2> QED BY <2>1, <2>4 DEF Storage!vars
<1>3. ASSUME NEW c \in Callers, EmplaceBack(c) PROVE Storage!CreateTask(c) \/ Storage!Fail(c)
  <2> DEFINE task == [id |-> m_id, payload |-> call[c].payload]
  <2>1. /\ pc[c] = "body" /\ call[c].op = "CreateTask" /\ taken' = taken + 1
        /\ \/ m_tasks' = Append(m_tasks, task) /\ pc' = [pc EXCEPT ![c] = "tail"]
           \/ UNCHANGED m_tasks /\ pc' = [pc EXCEPT ![c] = "unwind"]
        /\ UNCHANGED <<call, out>>
    BY <1>3 DEF EmplaceBack, At, Goto
  <2>2. m_id = taken
    BY <2>1, IdRangeAssumption DEF NoWrap, VectorInv, TypeOK
  <2>3. \A d \in Callers \ {c} : pc[d] \in {"idle", "lock"} /\ pc'[d] = pc[d]
    BY <2>1, Alone DEF TypeOK
  <2>4. Phases[c] = "called" /\ Results[c] = <<>>
    BY <2>1 DEF Phases, Results, Created, At
  <2>5. CASE m_tasks' = Append(m_tasks, task) /\ pc' = [pc EXCEPT ![c] = "tail"]
    <3>1. task \in Task
      BY <2>1, Arguments DEF TypeOK, Task
    <3>2. /\ m_tasks' \in Seq(Task) /\ Len(m_tasks') = Len(m_tasks) + 1
          /\ \A i \in 1..Len(m_tasks) : m_tasks'[i] = m_tasks[i]
          /\ m_tasks'[Len(m_tasks')] = task
      BY <3>1, <2>5, Appended DEF TypeOK
    <3>3. Range(m_tasks') = Range(m_tasks) \cup {task}
      <4>1. /\ Len(m_tasks) \in Nat
            /\ Range(m_tasks) = {m_tasks[i] : i \in 1..Len(m_tasks)}
            /\ Range(m_tasks') = {m_tasks'[i] : i \in 1..Len(m_tasks')}
        BY <3>2, Elements, RangeEquality DEF TypeOK
      <4> HIDE DEF task
      <4>2. ASSUME NEW t \in Range(m_tasks') PROVE t \in Range(m_tasks) \cup {task}
        BY <4>1, <4>2, <3>2
      <4>3. ASSUME NEW t \in Range(m_tasks) PROVE t \in Range(m_tasks')
        BY <4>1, <4>3, <3>2
      <4>4. task \in Range(m_tasks')
        BY <4>1, <3>2
      <4> QED BY <4>2, <4>3, <4>4
    <3>4. pc'[c] = "tail"
      BY <2>5 DEF TypeOK
    <3>5. Phases'[c] = "done" /\ Results'[c] = <<task>>
      BY <2>1, <3>2, <3>4 DEF Phases, Results, Created, At
    <3>6. Phases' = [Phases EXCEPT ![c] = "done"] /\ Results' = [Results EXCEPT ![c] = <<task>>]
      BY <2>1, <2>3, <3>5, OthersUnchanged
    <3> QED BY <2>1, <2>2, <2>4, <3>3, <3>6 DEF Storage!CreateTask, Storage!Finish
  <2>6. CASE UNCHANGED m_tasks /\ pc' = [pc EXCEPT ![c] = "unwind"]
    <3>1. pc'[c] = "unwind"
      BY <2>6 DEF TypeOK
    <3>2. Phases'[c] = "failed" /\ Results'[c] = Results[c]
      BY <2>1, <2>4, <3>1 DEF Phases, Results, Created, At
    <3>3. Phases' = [Phases EXCEPT ![c] = "failed"] /\ UNCHANGED Results
      BY <2>1, <2>3, <2>6, <3>2, OthersUnchanged
    <3> QED BY <2>1, <2>4, <2>6, <3>3 DEF Storage!Fail
  <2> QED BY <2>1, <2>5, <2>6
<1>4. ASSUME NEW c \in Callers, CopyBack(c) PROVE Stutters
  <2>1. /\ pc[c] = "tail" /\ call[c].op = "CreateTask"
        /\ out' = [out EXCEPT ![c] = <<m_tasks[Len(m_tasks)]>>]
        /\ pc' = [pc EXCEPT ![c] = "unlock"]
        /\ UNCHANGED <<m_tasks, call, taken>>
    BY <1>4 DEF CopyBack, At, Goto
  <2>2. pc'[c] = "unlock" /\ out'[c] = <<m_tasks[Len(m_tasks)]>>
    BY <2>1 DEF TypeOK
  <2>3. Phases'[c] = Phases[c] /\ Results'[c] = Results[c]
    BY <2>1, <2>2 DEF Phases, Results, Created, At
  <2>4. UNCHANGED Phases /\ UNCHANGED Results
    BY <2>1, <2>3, OthersUnchanged DEF TypeOK
  <2> QED BY <2>1, <2>4 DEF Storage!vars
<1>5. ASSUME NEW c \in Callers, Find(c)
      PROVE  Stutters \/ Storage!DeleteTask(c) \/ Storage!GetTask(c)
  <2> DEFINE asked == call[c].index
  <2>1. /\ pc[c] = "body" /\ call[c].op \in {"DeleteTask", "GetTask"}
        /\ UNCHANGED <<m_tasks, call, out, taken>>
    BY <1>5 DEF Find, At
  <2>2. PICK i \in LowerBound(m_tasks, asked) :
          \/ (i > Len(m_tasks) \/ m_tasks[i].id # asked) /\ pc' = [pc EXCEPT ![c] = "unlock"]
          \/ pc' = [pc EXCEPT ![c] = "tail"]
    BY <1>5 DEF Find, Goto
  <2>3. Phases[c] = "called" /\ Results[c] = <<>> /\ out[c] = <<>>
    BY <2>1 DEF Phases, Results, Created, At, CallInv
  <2>4. CASE (i > Len(m_tasks) \/ m_tasks[i].id # asked) /\ pc' = [pc EXCEPT ![c] = "unlock"]
    <3>1. pc'[c] = "unlock" /\ out'[c] = <<>>
      BY <2>1, <2>3, <2>4 DEF TypeOK
    <3>2. Phases'[c] = "done" /\ Results'[c] = <<>>
      BY <2>1, <3>1 DEF Phases, Results, Created, At
    <3>3. Phases' = [Phases EXCEPT ![c] = "done"] /\ Results' = [Results EXCEPT ![c] = <<>>]
      BY <2>1, <2>4, <3>2, OthersUnchanged DEF TypeOK
    <3>4. \A j \in 1..Len(m_tasks) : m_tasks[j].id # asked
      <4>1. asked \in Nat
        <5>1. asked \in Ids
          BY <2>1, Arguments
        <5> QED BY <5>1, IdRangeAssumption DEF Ids
      <4>2. /\ i \in 1..(Len(m_tasks) + 1)
            /\ \A j \in 1..Len(m_tasks) : m_tasks[j].id < asked <=> j < i
        BY <4>1, LowerBoundOfSorted DEF SortedById, Sorted
      <4>3. Len(m_tasks) \in Nat /\ \A j \in 1..Len(m_tasks) : m_tasks[j].id \in Nat
        BY Elements
      <4>4. ASSUME NEW j \in 1..Len(m_tasks), m_tasks[j].id = asked PROVE FALSE
        <5>1. i <= j /\ i \in 1..Len(m_tasks)
          BY <4>1, <4>2, <4>3, <4>4
        <5>2. m_tasks[i].id # asked /\ ~(m_tasks[i].id < asked)
          BY <2>4, <4>2, <4>3, <5>1
        <5> QED BY <4>1, <4>3, <4>4, <5>1, <5>2 DEF SortedById
      <4> QED BY <4>4
    <3>5. \A t \in Range(m_tasks) : t.id # asked
      <4>1. Range(m_tasks) = {m_tasks[j] : j \in 1..Len(m_tasks)}
        BY RangeEquality DEF TypeOK
      <4> QED BY <3>4, <4>1
    <3>6. CASE call[c].op = "DeleteTask"
      <4>1. Range(m_tasks) = {t \in Range(m_tasks) : t.id # asked}
        BY <3>5
      <4> QED BY <2>1, <2>3, <3>3, <3>6, <4>1 DEF Storage!DeleteTask, Storage!Finish
    <3>7. CASE call[c].op = "GetTask"
      <4>1. {t \in Range(m_tasks) : t.id = asked} = {}
        BY <3>5
      <4>2. <<>> \in Storage!Listings({})
        BY FS_EmptySet, SameCardinality DEF Storage!Listings
      <4> QED BY <2>1, <2>3, <3>3, <3>7, <4>1, <4>2 DEF Storage!GetTask, Storage!Finish
    <3> QED BY <2>1, <3>6, <3>7
  <2>5. CASE pc' = [pc EXCEPT ![c] = "tail"]
    <3>1. pc'[c] = "tail"
      BY <2>5 DEF TypeOK
    <3>2. Phases'[c] = Phases[c] /\ Results'[c] = Results[c]
      BY <2>1, <3>1 DEF Phases, Results, Created, At
    <3>3. UNCHANGED Phases /\ UNCHANGED Results
      BY <2>1, <2>5, <3>2, OthersUnchanged DEF TypeOK
    <3> QED BY <2>1, <3>3 DEF Storage!vars
  <2> QED BY <2>2, <2>4, <2>5
<1>6. ASSUME NEW c \in Callers, Erase(c) PROVE Storage!DeleteTask(c)
  <2> DEFINE asked == call[c].index
  <2>1. /\ pc[c] = "tail" /\ call[c].op = "DeleteTask"
        /\ m_tasks' = RemoveAt(m_tasks, itr[c])
        /\ pc' = [pc EXCEPT ![c] = "unlock"]
        /\ UNCHANGED <<call, out, taken>>
    BY <1>6 DEF Erase, At, Goto
  <2>2. itr[c] \in 1..Len(m_tasks) /\ m_tasks[itr[c]].id = asked /\ out[c] = <<>>
    BY <2>1 DEF TailInv, CallInv
  <2>3. /\ m_tasks' \in Seq(Task) /\ Len(m_tasks') = Len(m_tasks) - 1
        /\ \A j \in 1..(Len(m_tasks) - 1) :
             m_tasks'[j] = IF j < itr[c] THEN m_tasks[j] ELSE m_tasks[j + 1]
    BY <2>1, <2>2, Erased DEF TypeOK
  <2>4. \A d \in Callers \ {c} : pc[d] \in {"idle", "lock"} /\ pc'[d] = pc[d]
    BY <2>1, Alone DEF TypeOK
  <2>5. pc'[c] = "unlock"
    BY <2>1 DEF TypeOK
  <2>6. /\ Phases[c] = "called" /\ Phases'[c] = "done"
        /\ Results[c] = <<>> /\ Results'[c] = <<>>
    BY <2>1, <2>2, <2>5 DEF Phases, Results, Created, At
  <2>7. Phases' = [Phases EXCEPT ![c] = "done"] /\ Results' = [Results EXCEPT ![c] = <<>>]
    BY <2>1, <2>4, <2>6, OthersUnchanged
  <2>8. Range(m_tasks') = {t \in Range(m_tasks) : t.id # asked}
    <3>1. /\ Len(m_tasks) \in Nat /\ itr[c] \in Nat
          /\ \A i \in 1..Len(m_tasks) : m_tasks[i].id \in Nat
          /\ Range(m_tasks) = {m_tasks[i] : i \in 1..Len(m_tasks)}
          /\ Range(m_tasks') = {m_tasks'[i] : i \in 1..Len(m_tasks')}
      BY <2>2, <2>3, Elements, RangeEquality DEF TypeOK
    <3>2. \A i \in 1..Len(m_tasks) : m_tasks[i].id = asked <=> i = itr[c]
      BY <2>2, <3>1 DEF SortedById
    <3>3. ASSUME NEW t \in Range(m_tasks') PROVE t \in Range(m_tasks) /\ t.id # asked
      <4>1. PICK j \in 1..(Len(m_tasks) - 1) : t = m_tasks'[j]
        BY <2>3, <3>1
      <4>2. PICK k \in 1..Len(m_tasks) : t = m_tasks[k] /\ k # itr[c]
        BY <4>1, <2>3, <3>1
      <4> QED BY <4>2, <3>1, <3>2
    <3>4. ASSUME NEW t \in Range(m_tasks), t.id # asked PROVE t \in Range(m_tasks')
      <4>1. PICK k \in 1..Len(m_tasks) : t = m_tasks[k]
        BY <3>1
      <4>2. k # itr[c]
        BY <2>2, <3>4, <4>1
      <4>3. PICK j \in 1..(Len(m_tasks) - 1) : k = IF j < itr[c] THEN j ELSE j + 1
        <5>1. CASE k < itr[c]
          BY <5>1, <2>2, <3>1
        <5>2. CASE k > itr[c]
          <6>1. k - 1 \in 1..(Len(m_tasks) - 1) /\ ~(k - 1 < itr[c]) /\ k = (k - 1) + 1
            BY <5>2, <3>1, <2>2
          <6> QED BY <6>1
        <5> QED BY <4>2, <5>1, <5>2, <3>1
      <4>4. t = m_tasks'[j] /\ j \in 1..Len(m_tasks')
        BY <2>3, <4>1, <4>3
      <4> QED BY <3>1, <4>4
    <3> QED BY <3>3, <3>4
  <2> QED BY <2>1, <2>6, <2>7, <2>8 DEF Storage!DeleteTask, Storage!Finish
<1>7. ASSUME NEW c \in Callers, CopyItr(c) PROVE Storage!GetTask(c)
  <2> DEFINE asked == call[c].index
             found == m_tasks[itr[c]]
  <2>1. /\ pc[c] = "tail" /\ call[c].op = "GetTask"
        /\ out' = [out EXCEPT ![c] = <<found>>]
        /\ pc' = [pc EXCEPT ![c] = "unlock"]
        /\ UNCHANGED <<m_tasks, call, taken>>
    BY <1>7 DEF CopyItr, At, Goto
  <2>2. itr[c] \in 1..Len(m_tasks) /\ found.id = asked
    BY <2>1 DEF TailInv
  <2>3. pc'[c] = "unlock" /\ out'[c] = <<found>>
    BY <2>1 DEF TypeOK
  <2>4. Phases[c] = "called" /\ Phases'[c] = "done" /\ Results'[c] = <<found>>
    BY <2>1, <2>3 DEF Phases, Results, Created, At
  <2>5. Phases' = [Phases EXCEPT ![c] = "done"] /\ Results' = [Results EXCEPT ![c] = <<found>>]
    BY <2>1, <2>4, OthersUnchanged DEF TypeOK
  <2>6. {t \in Range(m_tasks) : t.id = asked} = {found}
    <3>1. /\ \A i \in 1..Len(m_tasks) : m_tasks[i].id \in Nat
          /\ Range(m_tasks) = {m_tasks[i] : i \in 1..Len(m_tasks)}
      BY Elements, RangeEquality DEF TypeOK
    <3>2. \A i \in 1..Len(m_tasks) : m_tasks[i].id = asked <=> i = itr[c]
      BY <2>2, <3>1, Elements DEF SortedById
    <3> QED BY <2>2, <3>1, <3>2
  <2>7. <<found>> \in Storage!Listings({found})
    <3>1. Storage!Cardinality({found}) = 1
      BY FS_Singleton, SameCardinality
    <3> QED BY <3>1 DEF Storage!Listings
  <2> QED BY <2>1, <2>4, <2>5, <2>6, <2>7 DEF Storage!GetTask, Storage!Finish
<1>8. ASSUME NEW c \in Callers, CopyNext(c) PROVE Stutters \/ Storage!GetTasks(c)
  <2>1. /\ pc[c] = "body" /\ call[c].op = "GetTasks"
        /\ \/ UNCHANGED pc /\ \E x : out' = [out EXCEPT ![c] = x]
           \/ /\ ~(Len(out[c]) < Len(m_tasks))
              /\ pc' = [pc EXCEPT ![c] = "unlock"] /\ UNCHANGED out
        /\ UNCHANGED <<m_tasks, call, taken>>
    BY <1>8 DEF CopyNext, At, Goto
  <2>2. Phases[c] = "called" /\ Results[c] = <<>>
    BY <2>1 DEF Phases, Results, Created, At
  <2>3. CASE UNCHANGED pc /\ \E x : out' = [out EXCEPT ![c] = x]
    <3>1. Phases'[c] = Phases[c] /\ Results'[c] = Results[c]
      BY <2>1, <2>3 DEF Phases, Results, Created, At
    <3>2. UNCHANGED Phases /\ UNCHANGED Results
      BY <2>1, <2>3, <3>1, OthersUnchanged DEF TypeOK
    <3> QED BY <2>1, <3>2 DEF Storage!vars
  <2>4. CASE /\ ~(Len(out[c]) < Len(m_tasks))
             /\ pc' = [pc EXCEPT ![c] = "unlock"] /\ UNCHANGED out
    <3>1. out[c] = m_tasks
      <4>1. /\ Len(out[c]) <= Len(m_tasks)
            /\ \A i \in 1..Len(out[c]) : out[c][i] = m_tasks[i]
        BY <2>1 DEF CopyInv, At
      <4>2. /\ m_tasks \in Seq(Task) /\ out[c] \in Seq(Task)
            /\ Len(m_tasks) \in Nat /\ Len(out[c]) \in Nat
        BY DEF TypeOK
      <4>3. Len(out[c]) = Len(m_tasks)
        BY <2>4, <4>1, <4>2
      <4> QED BY <4>1, <4>2, <4>3, SeqEqual
    <3>2. pc'[c] = "unlock"
      BY <2>4 DEF TypeOK
    <3>3. Phases'[c] = "done" /\ Results'[c] = m_tasks
      BY <2>1, <2>4, <3>1, <3>2 DEF Phases, Results, Created, At
    <3>4. Phases' = [Phases EXCEPT ![c] = "done"] /\ Results' = [Results EXCEPT ![c] = m_tasks]
      BY <2>1, <2>4, <3>3, OthersUnchanged DEF TypeOK
    <3>5. m_tasks \in Storage!Listings(Range(m_tasks))
      BY ListsItsElements DEF SortedById, Sorted
    <3> QED BY <2>1, <2>2, <3>4, <3>5 DEF Storage!GetTasks, Storage!Finish
  <2> QED BY <2>1, <2>3, <2>4
<1>9. ASSUME NEW c \in Callers, CopyThrows(c) PROVE Storage!Fail(c) \/ Storage!Lose(c)
  <2>1. /\ \/ pc[c] = "tail" /\ call[c].op \in {"CreateTask", "GetTask"}
           \/ pc[c] = "body" /\ call[c].op = "GetTasks"
        /\ out' = [out EXCEPT ![c] = <<>>]
        /\ pc' = [pc EXCEPT ![c] = "unwind"]
        /\ UNCHANGED <<m_tasks, call, taken>>
    BY <1>9 DEF CopyThrows, At, Goto
  <2>2. pc'[c] = "unwind"
    BY <2>1 DEF TypeOK
  <2>3. Phases'[c] = "failed" /\ Results'[c] = <<>>
    BY <2>1, <2>2 DEF Phases, Results, Created, At
  <2>4. Phases' = [Phases EXCEPT ![c] = "failed"] /\ Results' = [Results EXCEPT ![c] = <<>>]
    BY <2>1, <2>3, OthersUnchanged DEF TypeOK
  <2>5. CASE pc[c] = "tail" /\ call[c].op = "CreateTask"
    <3>1. Phases[c] = "done"
      BY <2>5 DEF Phases, Created, At
    <3> QED BY <2>1, <2>4, <2>5, <3>1 DEF Storage!Lose
  <2>6. CASE call[c].op # "CreateTask"
    <3>1. Phases[c] = "called" /\ Results[c] = <<>>
      BY <2>1, <2>6 DEF Phases, Results, Created, At
    <3>2. UNCHANGED Results
      BY <2>1, <2>3, <3>1, OthersUnchanged DEF TypeOK
    <3> QED BY <2>1, <2>4, <2>6, <3>1, <3>2 DEF Storage!Fail
  <2> QED BY <2>1, <2>5, <2>6
<1>10. ASSUME NEW c \in Callers, Return(c) PROVE Storage!Return(c)
  <2>1. /\ pc[c] \in {"unlock", "unwind"} /\ pc' = [pc EXCEPT ![c] = "idle"]
        /\ call' = [call EXCEPT ![c] = NoCall] /\ out' = [out EXCEPT ![c] = <<>>]
        /\ UNCHANGED <<m_tasks, taken>>
    BY <1>10 DEF Return, Goto
  <2>2. pc'[c] = "idle"
    BY <2>1 DEF TypeOK
  <2>3. /\ Phases[c] \in {"done", "failed"}
        /\ Phases'[c] = "idle" /\ Results'[c] = <<>>
    BY <2>1, <2>2 DEF Phases, Results, Created, At
  <2>4. Phases' = [Phases EXCEPT ![c] = "idle"] /\ Results' = [Results EXCEPT ![c] = <<>>]
    BY <2>1, <2>3, OthersUnchanged DEF TypeOK
  <2> QED BY <2>1, <2>3, <2>4 DEF Storage!Return, Storage!NoCall, NoCall
<1>11. CASE UNCHANGED vars
  BY <1>11 DEF vars, Storage!vars, Phases, Results, Created, At
<1>12. Calls = Storage!Calls
  BY DEF Calls, Storage!Calls
<1> QED
  BY <1>1, <1>2, <1>3, <1>4, <1>5, <1>6, <1>7, <1>8, <1>9, <1>10, <1>11, <1>12
  DEF Next, Step, Storage!Next

(* The storage is linearizable: seen through the mapping, every behaviour  *)
(* of the code is one of the contract, exceptions included, for as long as *)
(* the counter of ids has not come round to ids it gave out before.        *)
THEOREM Implementation == Spec /\ []NoWrap => Linearizable
BY Invariance, InitRefines, NextRefines, PTL DEF Spec, Linearizable, Storage!Spec
=============================================================================

------------------------- MODULE QueryStringProofs --------------------------
(* ParseParams finds what a query means, for urls of any length.           *)
EXTENDS MCRouter, RouterProofs, SequenceTheorems

-----------------------------------------------------------------------------
(* find, and what it finds: the first position, or npos.                   *)

LEMMA Found ==
  ASSUME NEW S, NEW s \in Seq(S), NEW c, NEW from \in Nat \ {0}
  PROVE  LET at == FindFrom(s, c, from)
         IN  /\ at \in Nat
             /\ at = npos => \A i \in from..Len(s) : s[i] # c
             /\ at # npos => /\ at \in from..Len(s) /\ s[at] = c
                             /\ \A i \in from..Len(s) : s[i] = c => at <= i
<1> DEFINE At == {i \in from..Len(s) : s[i] = c}
<1>1. At \subseteq Nat
  OBVIOUS
<1>2. CASE At = {}
  BY <1>2 DEF FindFrom, npos
<1>3. CASE At # {}
  <2>1. FindFrom(s, c, from) = Min(At)
    BY <1>3 DEF FindFrom
  <2>2. Min(At) \in At /\ \A i \in At : Min(At) <= i
    BY <1>1, <1>3, LeastElement
  <2> QED BY <2>1, <2>2 DEF npos
<1> QED BY <1>2, <1>3

(* A part of a sequence.                                                   *)
LEMMA Part ==
  ASSUME NEW S, NEW s \in Seq(S), NEW m \in Nat \ {0}, NEW n \in Nat, n <= Len(s), m <= n + 1
  PROVE  /\ SubSeq(s, m, n) \in Seq(S)
         /\ Len(SubSeq(s, m, n)) = n - m + 1
         /\ \A i \in 1..(n - m + 1) : SubSeq(s, m, n)[i] = s[m + i - 1]
<1>1. \A i \in m..n : s[i] \in S
  OBVIOUS
<1> QED BY <1>1, SubSeqProperties

(* A sequence is what lies before a position, what is at it, and the rest. *)
LEMMA Cut ==
  ASSUME NEW S, NEW s \in Seq(S), NEW at \in 1..Len(s)
  PROVE  /\ SubSeq(s, 1, at - 1) \o <<s[at]>> = SubSeq(s, 1, at)
         /\ s = SubSeq(s, 1, at - 1) \o <<s[at]>> \o SubSeq(s, at + 1, Len(s))
<1>1. SubSeq(s, 1, at) = SubSeq(s, 1, at - 1) \o <<s[at]>>
  BY SubSeqRecursiveSecond
<1>2. SubSeq(s, 1, at) \o SubSeq(s, at + 1, Len(s)) = SubSeq(s, 1, Len(s))
  BY ConcatAdjacentSubSeq
<1>3. SubSeq(s, 1, Len(s)) = s
  BY SubSeqFull
<1> QED BY <1>1, <1>2, <1>3

-----------------------------------------------------------------------------
(* One parameter: its key has no "=" and is the only such key it has.      *)

LEMMA KeyHasNoEquals ==
  ASSUME NEW S, NEW param \in Seq(S)
  PROVE  /\ Key(param) \in Seq(S) /\ ~Contains(Key(param), "=")
         /\ HasKey(param, Key(param))
         /\ HasValue(param, Key(param), Value(param))
<1> DEFINE eq == FindFrom(param, "=", 1)
<1>1. /\ eq \in Nat
      /\ eq = npos => \A i \in 1..Len(param) : param[i] # "="
      /\ eq # npos => /\ eq \in 1..Len(param) /\ param[eq] = "="
                      /\ \A i \in 1..Len(param) : param[i] = "=" => eq <= i
  BY Found
<1> HIDE DEF eq
<1>2. CASE eq = npos
  <2>1. Key(param) = param /\ Value(param) = <<>>
    BY <1>2 DEF Key, Value, eq
  <2> QED BY <1>1, <1>2, <2>1 DEF Contains, HasKey, HasValue
<1>3. CASE eq # npos
  <2> DEFINE key == SubSeq(param, 1, eq - 1)
             value == SubSeq(param, eq + 1, Len(param))
  <2>1. Key(param) = key /\ Value(param) = value
    BY <1>3 DEF Key, Value, eq
  <2>2. /\ key \in Seq(S) /\ Len(key) = eq - 1
        /\ \A i \in 1..(eq - 1) : key[i] = param[i]
    BY <1>1, <1>3, Part
  <2>3. key \o <<"=">> = SubSeq(param, 1, eq) /\ param = key \o <<"=">> \o value
    BY <1>1, <1>3, Cut
  <2> HIDE DEF key, value
  <2>4. ~Contains(key, "=")
    BY <1>1, <1>3, <2>2 DEF Contains
  <2>5. IsPrefix(key \o <<"=">>, param)
    <3>1. /\ SubSeq(param, 1, eq) \in Seq(S) /\ Len(SubSeq(param, 1, eq)) = eq
      BY <1>1, <1>3, Part
    <3>2. SubSeq(SubSeq(param, 1, eq), 1, eq) = SubSeq(param, 1, eq)
      BY <3>1, SubSeqFull
    <3> QED BY <1>1, <1>3, <2>3, <3>1, <3>2 DEF IsPrefix
  <2> QED BY <2>1, <2>2, <2>3, <2>4, <2>5 DEF HasKey, HasValue
<1> QED BY <1>2, <1>3

LEMMA OnlyKey ==
  ASSUME NEW S, NEW param \in Seq(S), NEW key \in Seq(S), ~Contains(key, "="), HasKey(param, key),
         "=" \in S
  PROVE  key = Key(param)
<1> DEFINE eq == FindFrom(param, "=", 1)
<1>1. /\ eq \in Nat
      /\ eq = npos => \A i \in 1..Len(param) : param[i] # "="
      /\ eq # npos => /\ eq \in 1..Len(param) /\ param[eq] = "="
                      /\ \A i \in 1..Len(param) : param[i] = "=" => eq <= i
  BY Found
<1> HIDE DEF eq
<1>2. \A i \in 1..Len(key) : key[i] # "="
  BY DEF Contains
<1>3. CASE param = key
  <2>1. eq = npos
    BY <1>1, <1>2, <1>3
  <2> QED BY <1>3, <2>1 DEF Key, eq
<1>4. CASE IsPrefix(key \o <<"=">>, param)
  <2> DEFINE start == key \o <<"=">>
             n == Len(key) + 1
  <2>1. /\ start \in Seq(S) /\ Len(start) = n /\ start[n] = "="
        /\ \A i \in 1..Len(key) : start[i] = key[i]
    <3>1. <<"=">> \in Seq(S) /\ Len(<<"=">>) = 1 /\ <<"=">>[1] = "="
      OBVIOUS
    <3> QED BY <3>1, ConcatProperties
  <2> HIDE DEF start
  <2>2. n <= Len(param) /\ SubSeq(start, 1, n) = SubSeq(param, 1, n)
    BY <1>4, <2>1 DEF IsPrefix, start
  <2>3. \A i \in 1..n : SubSeq(start, 1, n)[i] = start[i] /\ SubSeq(param, 1, n)[i] = param[i]
    BY <2>1, <2>2, Part
  <2>4. param[n] = "=" /\ \A i \in 1..Len(key) : param[i] = key[i]
    BY <2>1, <2>2, <2>3
  <2>5. eq # npos /\ eq = n
    <3>1. eq # npos /\ eq <= n
      BY <1>1, <2>2, <2>4
    <3>2. ~(eq < n)
      BY <1>1, <1>2, <2>4, <3>1
    <3> QED BY <1>1, <3>1, <3>2
  <2>6. Key(param) = SubSeq(param, 1, Len(key))
    BY <2>5 DEF Key, eq
  <2>7. SubSeq(param, 1, Len(key)) = key
    <3>1. /\ SubSeq(param, 1, Len(key)) \in Seq(S) /\ Len(SubSeq(param, 1, Len(key))) = Len(key)
          /\ \A i \in 1..Len(key) : SubSeq(param, 1, Len(key))[i] = param[i]
      BY <2>2, Part
    <3> QED BY <2>4, <3>1, SeqEqual
  <2> QED BY <2>6, <2>7
<1> QED BY <1>3, <1>4 DEF HasKey

-----------------------------------------------------------------------------
(* The loop: what the turns from one start on make of the query is what    *)
(* the definition says, at every start.                                    *)

End(query, start) == FindFrom(query, "&", start)
OneTurn(query, turn, start) ==
  IF End(query, start) = npos THEN Pair(SubSeq(query, start, Len(query)))
  ELSE Then(Pair(SubSeq(query, start, End(query, start) - 1)), turn[End(query, start) + 1])

TakesTurns(query, turn) ==
  turn = [start \in 1..Len(query) + 1 |-> OneTurn(query, turn, start)]

LEMMA TurnsAreTaken ==
  ASSUME NEW query, NEW turn, TakesTurns(query, turn)
  PROVE  TakesTurns(query, TurnsFrom(query))
BY DEF TurnsFrom, TakesTurns, OneTurn, End

(* A turn leaves a later start behind; the last one is at the end.         *)
LEMMA EndIsAhead ==
  ASSUME NEW S, NEW query \in Seq(S), NEW start \in 1..Len(query) + 1
  PROVE  End(query, start) = npos \/ End(query, start) + 1 \in (start + 1)..Len(query) + 1
<1>1. Len(query) \in Nat
  OBVIOUS
<1> QED BY <1>1, Found DEF End

LEMMA SomeTurns ==
  ASSUME NEW S, NEW query \in Seq(S)
  PROVE  \E turn : TakesTurns(query, turn)
<1> DEFINE n == Len(query) + 1
           Solves(turn, first) == \A start \in first..n : turn[start] = OneTurn(query, turn, start)
           Good == {first \in 1..n : \E turn : Solves(turn, first)}
<1>1. n \in Nat \ {0} /\ n = Len(query) + 1
  OBVIOUS
<1> HIDE DEF n
<1>2. ASSUME NEW turn, NEW other, NEW first \in 1..n,
             \A start \in (first + 1)..n : other[start] = turn[start]
      PROVE  \A start \in first..n : OneTurn(query, other, start) = OneTurn(query, turn, start)
  <2> SUFFICES ASSUME NEW start \in first..n
               PROVE  OneTurn(query, other, start) = OneTurn(query, turn, start)
    OBVIOUS
  <2>1. End(query, start) = npos \/ End(query, start) + 1 \in (start + 1)..n
    BY <1>1, EndIsAhead
  <2>2. CASE End(query, start) = npos
    BY <2>2 DEF OneTurn
  <2>3. CASE End(query, start) + 1 \in (start + 1)..n
    <3>1. End(query, start) + 1 \in (first + 1)..n
      BY <1>1, <2>3
    <3>2. other[End(query, start) + 1] = turn[End(query, start) + 1]
      BY <1>2, <3>1
    <3> QED BY <3>2 DEF OneTurn
  <2> QED BY <2>1, <2>2, <2>3
<1>3. ASSUME NEW turn, NEW first \in 1..n,
             \A start \in (first + 1)..n : turn[start] = OneTurn(query, turn, start)
      PROVE  first \in Good
  <2> DEFINE other == [start \in first..n |->
                         IF start = first THEN OneTurn(query, turn, first) ELSE turn[start]]
  <2>1. \A start \in (first + 1)..n : other[start] = turn[start]
    BY <1>1, <1>3
  <2>2. other[first] = OneTurn(query, turn, first)
    BY <1>1, <1>3
  <2> HIDE DEF other
  <2>3. \A start \in first..n : OneTurn(query, other, start) = OneTurn(query, turn, start)
    BY <1>2, <1>3, <2>1
  <2>4. ASSUME NEW start \in first..n PROVE other[start] = OneTurn(query, other, start)
    <3>1. CASE start = first
      BY <2>2, <2>3, <3>1
    <3>2. CASE start \in (first + 1)..n
      BY <1>3, <2>1, <2>3, <3>2
    <3> QED BY <1>1, <1>3, <3>1, <3>2
  <2> QED BY <1>3, <2>4
<1>4. n \in Good
  <2>1. \A start \in (n + 1)..n : <<>>[start] = OneTurn(query, <<>>, start)
    BY <1>1
  <2> QED BY <1>1, <1>3, <2>1
<1>5. 1 \in Good
  <2>1. Min(Good) \in Good /\ \A first \in Good : Min(Good) <= first
    <3>1. Good \subseteq Nat
      BY <1>1
    <3> QED BY <1>4, <3>1, LeastElement
  <2> DEFINE first == Min(Good)
  <2> HIDE DEF first
  <2>2. first \in 1..n /\ \E turn : Solves(turn, first)
    BY <2>1 DEF first
  <2>3. PICK turn : \A start \in first..n : turn[start] = OneTurn(query, turn, start)
    BY <2>2
  <2>4. CASE first = 1
    BY <2>1, <2>4 DEF first
  <2>5. CASE first # 1
    <3> DEFINE before == first - 1
    <3>1. before \in 1..n /\ before + 1 = first
      BY <1>1, <2>2, <2>5
    <3>2. before \in Good
      <4> HIDE DEF before, Good
      <4>1. \A start \in (before + 1)..n : turn[start] = OneTurn(query, turn, start)
        BY <2>3, <3>1
      <4> QED BY <1>3, <3>1, <4>1
    <3>3. first <= before
      BY <2>1, <3>2 DEF first
    <3> QED BY <1>1, <2>2, <3>1, <3>3
  <2> QED BY <2>4, <2>5
<1>6. PICK turn : \A start \in 1..n : turn[start] = OneTurn(query, turn, start)
  BY <1>5
<1> DEFINE other == [start \in 1..n |-> turn[start]]
<1>7. 1 \in 1..n /\ \A start \in (1 + 1)..n : other[start] = turn[start]
  BY <1>1
<1>8. \A start \in 1..n : OneTurn(query, other, start) = OneTurn(query, turn, start)
  <2> HIDE DEF other
  <2> QED BY <1>2, <1>7
<1>9. other = [start \in 1..n |-> OneTurn(query, other, start)]
  <2>1. \A start \in 1..n : other[start] = OneTurn(query, other, start)
    BY <1>6, <1>8
  <2>2. other = [start \in 1..n |-> other[start]]
    OBVIOUS
  <2> HIDE DEF other
  <2> QED BY <2>1, <2>2
<1> QED BY <1>9 DEF TakesTurns, n

-----------------------------------------------------------------------------
(* The intervals between the separators, and the turns that read them.     *)

Ends(query) == {0, Len(query) + 1} \cup {i \in DOMAIN query : query[i] = "&"}
Stop(query, start) == IF End(query, start) = npos THEN Len(query) + 1 ELSE End(query, start)
Interval(query, start) == <<start - 1, Stop(query, start)>>

LEMMA IntervalsAre ==
  ASSUME NEW S, NEW query \in Seq(S)
  PROVE  /\ Ends(query) \subseteq 0..(Len(query) + 1)
         /\ \A pair : pair \in Intervals(query) <=>
              /\ pair \in Ends(query) \X Ends(query) /\ pair[1] < pair[2]
              /\ \A k \in Ends(query) : k <= pair[1] \/ pair[2] <= k
<1>1. Ends(query) \subseteq 0..(Len(query) + 1)
  BY DEF Ends
<1>2. Intervals(query) =
        {pair \in Ends(query) \X Ends(query) : pair[1] < pair[2]
           /\ \A k \in Ends(query) : k <= pair[1] \/ pair[2] <= k}
  BY DEF Intervals, Ends
<1> QED BY <1>1, <1>2

(* A turn reads the interval that begins before its start; the intervals   *)
(* behind that one are those of the turns to come.                         *)
LEMMA TurnReadsInterval ==
  ASSUME NEW S, NEW query \in Seq(S),
         NEW start \in 1..Len(query) + 1, start - 1 \in Ends(query)
  PROVE  /\ Interval(query, start) \in Intervals(query)
         /\ Stop(query, start) \in start..Len(query) + 1
         /\ \A pair \in Intervals(query) :
              pair[1] < start - 1 \/ pair = Interval(query, start) \/ Stop(query, start) <= pair[1]
         /\ End(query, start) = npos
              => \A pair \in Intervals(query) : pair[1] < Stop(query, start)
         /\ Between(query, Interval(query, start)) = SubSeq(query, start, Stop(query, start) - 1)
<1> DEFINE stop == Stop(query, start)
           n == Len(query)
<1>1. n \in Nat /\ DOMAIN query = 1..n
  OBVIOUS
<1>2. /\ End(query, start) \in Nat
      /\ End(query, start) = npos => \A i \in start..n : query[i] # "&"
      /\ End(query, start) # npos =>
           /\ End(query, start) \in start..n /\ query[End(query, start)] = "&"
           /\ \A i \in start..n : query[i] = "&" => End(query, start) <= i
  BY <1>1, Found DEF End
<1>3. stop \in Ends(query) /\ stop \in start..(n + 1)
  BY <1>1, <1>2 DEF Ends, Stop
<1>4. \A k \in Ends(query) : k <= start - 1 \/ stop <= k
  BY <1>1, <1>2 DEF Ends, Stop
<1>5. End(query, start) = npos => stop = n + 1
  BY DEF Stop
<1>6. /\ Interval(query, start) = <<start - 1, stop>>
      /\ Interval(query, start)[1] = start - 1 /\ Interval(query, start)[2] = stop
  BY DEF Interval
<1> HIDE DEF stop, n
<1>7. Interval(query, start) \in Intervals(query)
  BY <1>1, <1>3, <1>4, <1>6, IntervalsAre
<1>8. ASSUME NEW pair \in Intervals(query)
      PROVE  /\ pair[1] < start - 1 \/ pair = Interval(query, start) \/ stop <= pair[1]
             /\ stop = n + 1 => pair[1] < stop
  <2>1. /\ pair \in Ends(query) \X Ends(query) /\ pair[1] < pair[2]
        /\ \A k \in Ends(query) : k <= pair[1] \/ pair[2] <= k
    BY IntervalsAre
  <2>2. pair[1] \in Ends(query) /\ pair[2] \in Ends(query) /\ pair = <<pair[1], pair[2]>>
    BY <2>1
  <2>3. pair[1] \in 0..(n + 1) /\ pair[2] \in 0..(n + 1)
    BY <2>2, IntervalsAre DEF n
  <2>4. pair[1] = start - 1 => pair[2] = stop
    <3>1. stop <= pair[1] \/ pair[2] <= stop
      BY <1>3, <2>1
    <3>2. pair[2] <= start - 1 \/ stop <= pair[2]
      BY <1>4, <2>2
    <3> QED BY <1>1, <1>3, <2>1, <2>3, <3>1, <3>2
  <2>5. pair[1] <= start - 1 \/ stop <= pair[1]
    BY <1>4, <2>2
  <2>6. pair[1] < start - 1 \/ pair[1] = start - 1 \/ stop <= pair[1]
    BY <1>1, <2>3, <2>5
  <2>7. pair[1] = start - 1 => pair = Interval(query, start)
    BY <1>6, <2>2, <2>4
  <2>8. stop = n + 1 => pair[1] < stop
    BY <1>1, <2>1, <2>3
  <2> QED BY <2>6, <2>7, <2>8
<1>9. Between(query, Interval(query, start)) = SubSeq(query, start, stop - 1)
  <2>1. Interval(query, start)[1] + 1 = start
    BY <1>6
  <2> QED BY <1>6, <2>1 DEF Between
<1> QED BY <1>3, <1>5, <1>7, <1>8, <1>9 DEF stop, n

(* What a map says of the intervals from a start on, if it is right: every *)
(* key has the value of the last interval with that key.                   *)
KeyOf(query, pair) == Key(Between(query, pair))
Right(query, params, start) ==
  /\ \A pair \in Intervals(query) : start - 1 <= pair[1] => KeyOf(query, pair) \in DOMAIN params
  /\ \A key \in DOMAIN params : \E pair \in Intervals(query) :
       /\ start - 1 <= pair[1]
       /\ key = KeyOf(query, pair) /\ params[key] = Value(Between(query, pair))
       /\ \A other \in Intervals(query) : key = KeyOf(query, other) => other[1] <= pair[1]

LEMMA TurnIsRight ==
  ASSUME NEW S, NEW query \in Seq(S), NEW turn,
         NEW start \in 1..Len(query) + 1, start - 1 \in Ends(query),
         End(query, start) # npos => Right(query, turn[End(query, start) + 1], End(query, start) + 1)
  PROVE  Right(query, OneTurn(query, turn, start), start)
<1> DEFINE this == Interval(query, start)
           stop == Stop(query, start)
           n == Len(query)
<1>1. /\ this \in Intervals(query) /\ stop \in start..(n + 1) /\ n \in Nat
      /\ \A pair \in Intervals(query) :
           pair[1] < start - 1 \/ pair = this \/ stop <= pair[1]
      /\ End(query, start) = npos => \A pair \in Intervals(query) : pair[1] < stop
      /\ Between(query, this) = SubSeq(query, start, stop - 1)
  BY TurnReadsInterval
<1>2. \A pair \in Intervals(query) : pair[1] \in Nat
  BY IntervalsAre
<1>3. this[1] = start - 1
  BY DEF Interval
<1>4. start \in Nat /\ stop \in Nat
  BY <1>1
<1> DEFINE pair1 == Pair(Between(query, this))
<1>5. DOMAIN pair1 = {KeyOf(query, this)} /\ pair1[KeyOf(query, this)] = Value(Between(query, this))
  BY DEF Pair, KeyOf
<1> HIDE DEF this, stop, n, pair1
<1>6. CASE End(query, start) = npos
  <2>1. stop - 1 = Len(query)
    BY <1>6 DEF Stop, stop
  <2>2. OneTurn(query, turn, start) = pair1
    BY <1>1, <1>6, <2>1 DEF OneTurn, pair1
  <2>3. \A pair \in Intervals(query) : pair[1] < start - 1 \/ pair = this
    BY <1>1, <1>2, <1>4, <1>6
  <2>4. ASSUME NEW pair \in Intervals(query), start - 1 <= pair[1]
        PROVE  KeyOf(query, pair) \in DOMAIN pair1
    BY <1>2, <1>4, <1>5, <2>3, <2>4
  <2>5. \A other \in Intervals(query) : other[1] <= this[1]
    BY <1>2, <1>3, <1>4, <2>3
  <2>6. start - 1 <= this[1]
    BY <1>3, <1>4
  <2> QED BY <1>1, <1>5, <2>2, <2>4, <2>5, <2>6 DEF Right
<1>7. CASE End(query, start) # npos
  <2> DEFINE later == turn[stop + 1]
             params == Then(pair1, later)
  <2>1. stop = End(query, start) /\ OneTurn(query, turn, start) = params
    BY <1>1, <1>7 DEF Stop, stop, OneTurn, pair1
  <2>2. Right(query, later, stop + 1) /\ stop + 1 - 1 = stop
    BY <1>4, <1>7, <2>1
  <2> HIDE DEF later
  <2>3. /\ \A pair \in Intervals(query) : stop <= pair[1] => KeyOf(query, pair) \in DOMAIN later
        /\ \A key \in DOMAIN later : \E pair \in Intervals(query) :
             /\ stop <= pair[1]
             /\ key = KeyOf(query, pair) /\ later[key] = Value(Between(query, pair))
             /\ \A other \in Intervals(query) : key = KeyOf(query, other) => other[1] <= pair[1]
    <3> DEFINE next == stop + 1
    <3>1. Right(query, later, next)
      BY <2>2
    <3>2. next - 1 = stop
      BY <1>4
    <3> HIDE DEF next
    <3> QED BY <3>1, <3>2 DEF Right
  <2>4. /\ DOMAIN params = DOMAIN pair1 \cup DOMAIN later
        /\ \A key \in DOMAIN params :
             params[key] = IF key \in DOMAIN later THEN later[key] ELSE pair1[key]
    BY DEF Then
  <2> HIDE DEF params
  <2>5. ASSUME NEW pair \in Intervals(query), start - 1 <= pair[1]
        PROVE  KeyOf(query, pair) \in DOMAIN params
    <3>1. pair = this \/ stop <= pair[1]
      BY <1>1, <1>2, <1>4, <2>5
    <3> QED BY <1>5, <2>3, <2>4, <3>1
  <2>6. ASSUME NEW key \in DOMAIN params
        PROVE  \E pair \in Intervals(query) :
                 /\ start - 1 <= pair[1]
                 /\ key = KeyOf(query, pair) /\ params[key] = Value(Between(query, pair))
                 /\ \A other \in Intervals(query) : key = KeyOf(query, other) => other[1] <= pair[1]
    <3>1. CASE key \in DOMAIN later
      <4>1. PICK pair \in Intervals(query) :
              /\ stop <= pair[1]
              /\ key = KeyOf(query, pair) /\ later[key] = Value(Between(query, pair))
              /\ \A other \in Intervals(query) : key = KeyOf(query, other) => other[1] <= pair[1]
        BY <2>3, <3>1
      <4>2. start - 1 <= pair[1]
        BY <1>1, <1>2, <1>4, <4>1
      <4> QED BY <2>4, <3>1, <4>1, <4>2
    <3>2. CASE key \notin DOMAIN later
      <4>1. key = KeyOf(query, this) /\ params[key] = Value(Between(query, this))
        BY <1>5, <2>4, <3>2
      <4>2. ASSUME NEW other \in Intervals(query), key = KeyOf(query, other)
            PROVE  other[1] <= this[1]
        <5>1. ~(stop <= other[1])
          BY <2>3, <3>2, <4>2
        <5>2. other[1] < start - 1 \/ other = this
          BY <1>1, <5>1
        <5> QED BY <1>2, <1>3, <1>4, <5>2
      <4>3. start - 1 <= this[1]
        BY <1>3, <1>4
      <4> QED BY <1>1, <4>1, <4>2, <4>3
    <3> QED BY <3>1, <3>2
  <2> QED BY <2>1, <2>5, <2>6 DEF Right
<1> QED BY <1>6, <1>7

(* All turns together: from the start of the query on, and from every      *)
(* start behind a separator.                                               *)
LEMMA TurnsAreRight ==
  ASSUME NEW S, NEW query \in Seq(S)
  PROVE  Right(query, Turns(query), 1)
<1> DEFINE turn == TurnsFrom(query)
           n == Len(query)
           Starts == {start \in 1..n + 1 : start - 1 \in Ends(query)}
           Wrong == {start \in Starts : ~Right(query, turn[start], start)}
<1>1. \A start \in 1..n + 1 : turn[start] = OneTurn(query, turn, start)
  <2>1. TakesTurns(query, turn)
    BY SomeTurns, TurnsAreTaken
  <2> HIDE DEF turn
  <2> QED BY <2>1 DEF TakesTurns
<1>2. n \in Nat
  OBVIOUS
<1> HIDE DEF turn
<1>3. ASSUME NEW last \in Wrong PROVE \E start \in Wrong : last < start
  <2>1. last \in 1..n + 1 /\ last - 1 \in Ends(query) /\ ~Right(query, turn[last], last)
    OBVIOUS
  <2>2. turn[last] = OneTurn(query, turn, last)
    BY <1>1, <2>1
  <2>3. /\ End(query, last) # npos
        /\ ~Right(query, turn[End(query, last) + 1], End(query, last) + 1)
    BY <2>1, <2>2, TurnIsRight
  <2> DEFINE start == End(query, last) + 1
  <2>4. start \in (last + 1)..n + 1
    BY <2>1, <2>3, EndIsAhead
  <2>5. start - 1 \in Ends(query)
    <3>1. End(query, last) \in Nat /\ End(query, last) \in 1..n /\ query[End(query, last)] = "&"
      BY <2>1, <2>3, Found DEF End
    <3> QED BY <3>1 DEF Ends
  <2> HIDE DEF start
  <2>6. start \in 1..n + 1 /\ last < start
    BY <1>2, <2>1, <2>4
  <2>7. ~Right(query, turn[start], start)
    BY <2>3 DEF start
  <2> QED BY <2>5, <2>6, <2>7
<1>4. Wrong = {}
  <2> SUFFICES ASSUME Wrong # {} PROVE FALSE
    OBVIOUS
  <2>1. Wrong \subseteq 0..(n + 1) /\ n + 1 \in Nat
    BY <1>2
  <2> HIDE DEF Wrong
  <2>2. Max(Wrong) \in Wrong /\ \A start \in Wrong : start <= Max(Wrong)
    BY <2>1, GreatestElement
  <2>3. PICK start \in Wrong : Max(Wrong) < start
    BY <1>3, <2>2
  <2>4. start \in 0..(n + 1) /\ Max(Wrong) \in 0..(n + 1)
    BY <2>1, <2>2
  <2> QED BY <1>2, <2>2, <2>3, <2>4
<1>5. 1 \in Starts
  BY <1>2 DEF Ends
<1>6. Right(query, turn[1], 1)
  BY <1>4, <1>5
<1> QED BY <1>6 DEF Turns, turn

-----------------------------------------------------------------------------
(* The property.                                                           *)

LEMMA IntervalsHoldCharacters ==
  ASSUME NEW S, NEW query \in Seq(S), NEW pair \in Intervals(query)
  PROVE  Between(query, pair) \in Seq(S) /\ pair[1] \in 0..(Len(query) + 1)
<1>1. /\ pair[1] \in 0..(Len(query) + 1) /\ pair[2] \in 0..(Len(query) + 1)
      /\ pair[1] < pair[2]
  BY IntervalsAre
<1>2. /\ pair[1] + 1 \in Nat \ {0} /\ pair[2] - 1 \in Nat
      /\ pair[2] - 1 <= Len(query) /\ pair[1] + 1 <= pair[2] - 1 + 1
  BY <1>1
<1>3. SubSeq(query, pair[1] + 1, pair[2] - 1) \in Seq(S)
  BY <1>2, Part
<1> QED BY <1>1, <1>3 DEF Between

LEMMA LastInterval ==
  ASSUME NEW S, NEW query \in Seq(S), "=" \in S, NEW pair \in Intervals(query),
         NEW key \in Seq(S), ~Contains(key, "="), HasKey(Between(query, pair), key),
         \A other \in Intervals(query) : key = KeyOf(query, other) => other[1] <= pair[1]
  PROVE  pair[1] = Max({p[1] : p \in {p \in Intervals(query) : HasKey(Between(query, p), key)}})
<1> DEFINE Same == {p \in Intervals(query) : HasKey(Between(query, p), key)}
           Starts == {p[1] : p \in Same}
           bound == Len(query) + 1
<1>1. bound \in Nat
  OBVIOUS
<1>2. \A p \in Intervals(query) : p[1] \in 0..bound
  BY IntervalsHoldCharacters
<1>3. \A p \in Same : p[1] <= pair[1]
  <2> SUFFICES ASSUME NEW p \in Intervals(query), HasKey(Between(query, p), key)
               PROVE  p[1] <= pair[1]
    OBVIOUS
  <2>1. Between(query, p) \in Seq(S)
    BY IntervalsHoldCharacters
  <2>2. key = KeyOf(query, p)
    BY <2>1, OnlyKey DEF KeyOf
  <2> QED BY <2>2
<1>4. pair \in Same
  OBVIOUS
<1> HIDE DEF Same, bound
<1>5. Same \subseteq Intervals(query)
  BY DEF Same
<1>6. Starts \subseteq 0..bound /\ Starts # {}
  BY <1>2, <1>4, <1>5
<1>7. Max(Starts) \in Starts /\ \A n \in Starts : n <= Max(Starts)
  <2> HIDE DEF Starts
  <2> QED BY <1>1, <1>6, GreatestElement
<1>8. pair[1] <= Max(Starts) /\ Max(Starts) <= pair[1]
  BY <1>3, <1>4, <1>7
<1>9. Max(Starts) \in 0..bound /\ pair[1] \in 0..bound
  BY <1>2, <1>6, <1>7
<1>10. pair[1] = Max(Starts)
  <2> HIDE DEF Starts
  <2> QED BY <1>1, <1>8, <1>9
<1> QED BY <1>10 DEF Same

(* Whatever the characters and the length of the url are.                  *)
THEOREM EveryQueryIsParsed == ParsesTheQuery
<1> DEFINE Characters == Letters \cup Separators
<1> SUFFICES ASSUME NEW target \in SeqOf(Characters, MaxLen)
             PROVE  /\ ~Contains(ParseParams(target).url, "?")
                    /\ ~Contains(target, "?") =>
                         ParseParams(target).url = target /\ ParseParams(target).params = <<>>
                    /\ Contains(target, "?") =>
                         /\ target = ParseParams(target).url \o <<"?">> \o Query(target)
                         /\ \A pair \in Intervals(Query(target)) :
                              \E key \in DOMAIN ParseParams(target).params :
                                HasKey(Between(Query(target), pair), key)
                         /\ \A key \in DOMAIN ParseParams(target).params :
                              /\ ~Contains(key, "=")
                              /\ \E pair \in Intervals(Query(target)) :
                                   /\ HasValue(Between(Query(target), pair), key,
                                               ParseParams(target).params[key])
                                   /\ pair[1] = Max({p[1] : p \in {p \in Intervals(Query(target)) :
                                                     HasKey(Between(Query(target), p), key)}})
  BY DEF ParsesTheQuery
<1>1. target \in Seq(Characters)
  <2>1. PICK m \in 0..MaxLen : target \in [1..m -> Characters]
    BY DEF SeqOf
  <2> QED BY <2>1, MaxLenAssumption
<1>2. "=" \in Characters
  BY DEF Separators
<1> HIDE DEF Characters
<1> DEFINE at == FindFrom(target, "?", 1)
           query == Query(target)
           params == ParseParams(target).params
<1>3. /\ at \in Nat
      /\ at = npos => \A i \in 1..Len(target) : target[i] # "?"
      /\ at # npos => /\ at \in 1..Len(target) /\ target[at] = "?"
                      /\ \A i \in 1..Len(target) : target[i] = "?" => at <= i
  BY <1>1, Found
<1>4. CASE at = npos
  <2>1. ParseParams(target).url = target /\ params = <<>>
    BY <1>4 DEF ParseParams
  <2>2. ~Contains(target, "?")
    BY <1>3, <1>4 DEF Contains
  <2> QED BY <2>1, <2>2
<1>5. CASE at # npos
  <2> DEFINE url == SubSeq(target, 1, at - 1)
  <2>1. ParseParams(target).url = url /\ params = Turns(query)
    BY <1>5 DEF ParseParams
  <2>2. query = SubSeq(target, at + 1, Len(target))
    BY DEF Query
  <2> HIDE DEF at
  <2>3. target = url \o <<"?">> \o query
    BY <1>1, <1>3, <1>5, <2>2, Cut
  <2>4. ~Contains(url, "?")
    <3>1. /\ Len(url) = at - 1 /\ \A i \in 1..(at - 1) : url[i] = target[i]
      BY <1>1, <1>3, <1>5, Part
    <3> HIDE DEF url
    <3> QED BY <1>1, <1>3, <1>5, <3>1 DEF Contains
  <2>5. Contains(target, "?")
    BY <1>3, <1>5 DEF Contains
  <2>6. query \in Seq(Characters)
    BY <1>1, <1>3, <1>5, <2>2, Part
  <2> HIDE DEF query, url
  <2>7. Right(query, params, 1)
    BY <2>1, <2>6, TurnsAreRight
  <2> HIDE DEF params
  <2>8. ASSUME NEW pair \in Intervals(query)
        PROVE  /\ Between(query, pair) \in Seq(Characters) /\ 1 - 1 <= pair[1]
               /\ KeyOf(query, pair) \in Seq(Characters) /\ ~Contains(KeyOf(query, pair), "=")
               /\ HasKey(Between(query, pair), KeyOf(query, pair))
               /\ HasValue(Between(query, pair), KeyOf(query, pair), Value(Between(query, pair)))
    <3>1. Between(query, pair) \in Seq(Characters) /\ pair[1] \in 0..(Len(query) + 1)
      BY <2>6, IntervalsHoldCharacters
    <3>2. 1 - 1 <= pair[1]
      BY <3>1
    <3> QED BY <3>1, <3>2, KeyHasNoEquals DEF KeyOf
  <2>9. \A pair \in Intervals(query) : \E key \in DOMAIN params : HasKey(Between(query, pair), key)
    BY <2>7, <2>8 DEF Right
  <2>10. ASSUME NEW key \in DOMAIN params
         PROVE  /\ ~Contains(key, "=")
                /\ \E pair \in Intervals(query) :
                     /\ HasValue(Between(query, pair), key, params[key])
                     /\ pair[1] = Max({p[1] : p \in {p \in Intervals(query) :
                                                     HasKey(Between(query, p), key)}})
    <3>1. PICK pair \in Intervals(query) :
            /\ key = KeyOf(query, pair) /\ params[key] = Value(Between(query, pair))
            /\ \A other \in Intervals(query) : key = KeyOf(query, other) => other[1] <= pair[1]
      BY <2>7 DEF Right
    <3>2. /\ key \in Seq(Characters) /\ ~Contains(key, "=") /\ HasKey(Between(query, pair), key)
          /\ HasValue(Between(query, pair), key, params[key])
      BY <2>8, <3>1
    <3>3. pair[1] = Max({p[1] : p \in {p \in Intervals(query) : HasKey(Between(query, p), key)}})
      BY <1>2, <2>6, <3>1, <3>2, LastInterval
    <3> QED BY <3>2, <3>3
  <2> QED BY <2>1, <2>3, <2>4, <2>5, <2>9, <2>10 DEF params, query
<1> QED BY <1>4, <1>5

(* ParseParams depends on no state of the router.                          *)
THEOREM QueriesAreAlwaysParsed == Spec => []QueriesAreParsed
<1>1. QueriesAreParsed
  BY EveryQueryIsParsed DEF QueriesAreParsed
<1> QED BY <1>1, PTL
=============================================================================

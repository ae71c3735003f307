----------------------------- MODULE QueryString -----------------------------
(***************************************************************************)
(* ParseParams (rest_router.cpp): from a url as a sequence of characters   *)
(* to the url without its query and the map of the query's parameters.     *)
(* Positions are counted from 1; npos is 0.                                *)
(***************************************************************************)
EXTENDS Naturals, SequencesExt

CONSTANTS
  Letters,  \* characters other than "?", "&" and "="
  MaxLen    \* bound on the length of the urls of the property

Separators == {"?", "&", "="}
ASSUME LettersAssumption == Letters \cap Separators = {}
ASSUME MaxLenAssumption == MaxLen \in Nat

npos == 0

(* std::string_view::find *)
FindFrom(s, c, from) ==
  LET At == {i \in from..Len(s) : s[i] = c} IN IF At = {} THEN npos ELSE Min(At)

(* substr(0, eq) of a parameter, and substr(eq + 1) or "" *)
Key(param) ==
  LET eq == FindFrom(param, "=", 1)
  IN  IF eq = npos THEN param ELSE SubSeq(param, 1, eq - 1)
Value(param) ==
  LET eq == FindFrom(param, "=", 1)
  IN  IF eq = npos THEN <<>> ELSE SubSeq(param, eq + 1, Len(param))

Pair(param) == [key \in {Key(param)} |-> Value(param)]

(* Mistake: emplace, which keeps what is there. *)
Then_Emplace(params, later) ==
  [key \in DOMAIN params \cup DOMAIN later |->
     IF key \in DOMAIN params THEN params[key] ELSE later[key]]

(* query_params[key] = value replaces what an earlier turn has put there.  *)
Then(params, later) ==
  [key \in DOMAIN params \cup DOMAIN later |->
     IF key \in DOMAIN later THEN later[key] ELSE params[key]]

(* What the turns of while (true), the first one with the given start,     *)
(* make of the query.                                                      *)
TurnsFrom(query) ==
  LET turn[start \in 1..Len(query) + 1] ==
        LET end == FindFrom(query, "&", start)
        IN  IF end = npos THEN Pair(SubSeq(query, start, Len(query)))
            ELSE Then(Pair(SubSeq(query, start, end - 1)), turn[end + 1])
  IN  turn
Turns(query) == TurnsFrom(query)[1]

Query(url) == SubSeq(url, FindFrom(url, "?", 1) + 1, Len(url))

ParseParams(url) ==
  LET query_start == FindFrom(url, "?", 1)
  IN  IF query_start = npos THEN [url |-> url, params |-> <<>>]
      ELSE [url |-> SubSeq(url, 1, query_start - 1), params |-> Turns(Query(url))]

-----------------------------------------------------------------------------
(* What a query means, told from the positions of its separators: a        *)
(* parameter lies between two neighbours of the "&" and the ends of the    *)
(* query, empty ones included.                                             *)
Intervals(query) ==
  LET Ends == {0, Len(query) + 1} \cup {i \in DOMAIN query : query[i] = "&"}
  IN  {pair \in Ends \X Ends : pair[1] < pair[2]
         /\ \A k \in Ends : k <= pair[1] \/ pair[2] <= k}
Between(query, pair) == SubSeq(query, pair[1] + 1, pair[2] - 1)

HasKey(param, key) == param = key \/ IsPrefix(key \o <<"=">>, param)
HasValue(param, key, value) ==
  (param = key /\ value = <<>>) \/ param = key \o <<"=">> \o value

(* Every parameter of the query is in the map, under a key without "=";    *)
(* what a key has is the value of the last parameter with that key; and    *)
(* the url is left without its query.                                      *)
ParsesTheQuery ==
  \A target \in SeqOf(Letters \cup Separators, MaxLen) :
    LET result == ParseParams(target)
        query == Query(target)
        params == result.params
        LastOf(key) == Max({pair[1] : pair \in {p \in Intervals(query) :
                                                HasKey(Between(query, p), key)}})
    IN  /\ ~Contains(result.url, "?")
        /\ IF ~Contains(target, "?") THEN result.url = target /\ params = <<>>
           ELSE /\ target = result.url \o <<"?">> \o query
                /\ \A pair \in Intervals(query) : \E key \in DOMAIN params :
                     HasKey(Between(query, pair), key)
                /\ \A key \in DOMAIN params :
                     /\ ~Contains(key, "=")
                     /\ \E pair \in Intervals(query) :
                          /\ HasValue(Between(query, pair), key, params[key])
                          /\ pair[1] = LastOf(key)
=============================================================================

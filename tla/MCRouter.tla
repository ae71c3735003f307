------------------------------ MODULE MCRouter ------------------------------
(* Instances of Router for TLC. *)
EXTENDS RouterTest, QueryString

Group == [kind |-> "group"]

(* Two paths that match the same urls, two that overlap others and use a   *)
(* parameter twice, and one with a group.                                  *)
SomePaths == {<<Literal("a"), Param("id")>>, <<Literal("a"), Param("n")>>,
              <<Param("id"), Literal("x")>>, <<Param("id"), Literal("b"), Param("id")>>,
              <<Literal("c"), Group>>}
AllPaths == SomePaths \cup TestPaths

(* The paths of the test and the others are not mixed; with the others, the *)
(* two handlers are interchangeable, and "ok" stands for the first.         *)
Interesting ==
  \/ \A i \in DOMAIN added : added[i].path \in TestPaths
  \/ /\ \A i \in DOMAIN added : added[i].path \in SomePaths
     /\ \A i \in DOMAIN added : added[i].done =>
          \E j \in 1..i : added[j].done /\ added[j].handler = "ok"

Urls == {<<"a">>, <<"a", "x">>, <<"a", "y">>, <<"a", "">>, <<"x", "b", "y">>, <<"c", "y">>}
(* A key that is also a path parameter, and one that is given twice.       *)
SomeQuery == <<<<"id", "q">>, <<"k", "1">>, <<"k", "2">>>>

UrlRequests == [method : Methods, words : Urls, query : {SomeQuery}]

(* ParseParams, on every url up to a length, has every parameter of the    *)
(* query in its map, a repeated key with its last value, and cuts the      *)
(* query off.  It depends on no state: checked while the table is empty.   *)
QueriesAreParsed == added = <<>> => ParsesTheQuery
=============================================================================

----------------------------- MODULE RouterTest -----------------------------
(***************************************************************************)
(* The router's unit test (rest_router_ut.cpp) on module Router: what was  *)
(* registered, the request, and the answer the test requires.  The test    *)
(* gives each registration a handler of its own; "ok" and "processing"     *)
(* stand for them, and for the status they answer with.                    *)
(***************************************************************************)
EXTENDS Router

Literal(word) == [kind |-> "literal", text |-> word]
Param(name) == [kind |-> "param", name |-> name]

Test == <<Literal("test")>>
TestSlash == <<Literal("test"), Literal(Empty)>>
Subtest == <<Literal("test"), Param("id"), Literal("subtest")>>

Added(path, method, handler) ==
  [path |-> path, method |-> method, handler |-> handler, done |-> TRUE]
Get(words, query) == [method |-> "Get", words |-> words, query |-> query]
Post(words) == [method |-> "Post", words |-> words, query |-> <<>>]
Calls(handler, params) == [handler |-> handler, params |-> params]

KeyValue == <<<<"key", "value">>>>
TwoKeys == <<<<"key", "value">>, <<"key2", "value2">>>>

(* <<registrations, request, required answer>> of the SUBCASEs *)
RoutingCases ==
  LET get == Added(Test, "Get", "ok")
      both == <<get, Added(Test, "Post", "processing")>>
  IN {<<<<>>, Get(<<>>, <<>>), Status("NotFound")>>,
      <<<<>>, Get(<<"test">>, <<>>), Status("NotFound")>>,
      <<<<get>>, Get(<<"test">>, <<>>), Calls("ok", <<>>)>>,
      <<<<get>>, Get(<<"test_2">>, <<>>), Status("NotFound")>>,
      <<<<get>>, Post(<<"test">>), Status("MethodNotAllowed")>>,
      <<both, Get(<<"test">>, <<>>), Calls("ok", <<>>)>>,
      <<both, Post(<<"test">>), Calls("processing", <<>>)>>}

ParamCases ==
  LET sub == Added(Subtest, "Get", "ok")
  IN {<<<<sub>>, Get(<<"test", "135", "subtest">>, <<>>), Calls("ok", [id |-> "135"])>>,
      <<<<sub>>, Get(<<"test", "135">>, <<>>), Status("NotFound")>>,
      <<<<Added(TestSlash, "Get", "ok")>>, Get(<<"test", Empty>>, KeyValue),
        Calls("ok", [key |-> "value"])>>,
      <<<<sub>>, Get(<<"test", "23", "subtest">>, TwoKeys),
        Calls("ok", [id |-> "23", key |-> "value", key2 |-> "value2"])>>}

Cases == RoutingCases \cup ParamCases

TestPaths == {Test, TestSlash, Subtest}
TestRequests == {case[2] : case \in Cases}

(* What the test requires holds beside any registrations, before or after, *)
(* of paths the request does not match, and whether those throw or not; its *)
(* own may come in any order, and more than once.                          *)
TestHoldsBesideOtherRoutes ==
  \A case \in Cases :
    {call \in Range(added) : call \in Range(case[1]) \/ Matches(call.path, case[2].words)}
      = Range(case[1])
    => Route(case[2]) = case[3]
=============================================================================

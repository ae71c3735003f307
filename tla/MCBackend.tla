----------------------------- MODULE MCBackend -----------------------------
(* Instances of Backend for TLC. *)
EXTENDS Backend

SessionSymmetry == Permutations(Sessions)

Numbers == [w \in {"0", "1", "1x", "-2", "9"} |->
  [negative |-> w = "-2",
   value |-> CASE w = "0" -> 0 [] w \in {"1", "1x"} -> 1 [] w = "-2" -> 2 [] w = "9" -> 9]]

Basic == [method |-> "Get", words |-> <<"tasks">>, query |-> <<>>,
          content_type |-> "json", accept |-> "json", body |-> "", keep_alive |-> TRUE]
Post == [Basic EXCEPT !.method = "Post", !.body = "p1"]
ById(method, word) == [Basic EXCEPT !.method = method, !.words = <<"tasks", word>>]

(* Requests that reach the storage. *)
Served == {Basic, Post, [Post EXCEPT !.body = "p2", !.keep_alive = FALSE],
           [Post EXCEPT !.accept = "plain"],
           ById("Get", "0"), ById("Get", "1x"), ById("Delete", "-2"),
           [ById("Delete", "0") EXCEPT !.query = <<<<"id", "1">>>>],
           [ById("Delete", "1") EXCEPT !.accept = "plain"]}

(* Requests that do not, one for every way out. *)
Refused == {[Basic EXCEPT !.method = "Lock"], [Basic EXCEPT !.content_type = "xml"],
            [Basic EXCEPT !.accept = "", !.keep_alive = FALSE], [Basic EXCEPT !.method = "Put"],
            [Basic EXCEPT !.words = <<"task">>], [Post EXCEPT !.body = "{"],
            [Post EXCEPT !.content_type = "plain"], ById("Get", "x"), ById("Delete", "9")}

AllRequests == Served \cup Refused
=============================================================================

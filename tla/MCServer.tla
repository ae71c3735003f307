------------------------------ MODULE MCServer ------------------------------
(* Instances of Server for TLC. *)
EXTENDS Server, TLC

SessionSymmetry == Permutations(Sessions)

Numbers == "0" :> [negative |-> FALSE, value |-> 0]

Basic == [method |-> "Get", words |-> <<"tasks">>, query |-> <<>>,
          content_type |-> "json", accept |-> "json", body |-> "", keep_alive |-> TRUE]
Post == [Basic EXCEPT !.method = "Post", !.body = "p1"]

(* One that changes the storage, one that may go unanswered, and one that  *)
(* is refused.                                                             *)
Mixed == {Post, [Basic EXCEPT !.words = <<"tasks", "0">>],
          [Basic EXCEPT !.method = "Put", !.keep_alive = FALSE]}

(* Bound: the router's table is iterated in one order, as no url of these  *)
(* requests matches two routes (backend_safe has both orders).             *)
OneOrderInit == Init /\ order = <<Backend!Tasks, Backend!TaskById>>
OneOrderSpec == OneOrderInit /\ [][Next]_vars
=============================================================================

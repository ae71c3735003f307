----------------------------- MODULE MCPrograms -----------------------------
(* Instances of Programs for TLC. *)
EXTENDS Programs, TLC

Numbers == "0" :> [negative |-> FALSE, value |-> 0]

Basic == [method |-> "Get", words |-> <<"tasks">>, query |-> <<>>,
          content_type |-> "json", accept |-> "json", body |-> "", keep_alive |-> TRUE]

(* One that needs the storage and goes on after the answer. *)
Listing == {Basic}

(* One that may go unanswered, and one that is refused. *)
Unserved == {[Basic EXCEPT !.words = <<"tasks", "0">>],
             [Basic EXCEPT !.method = "Put", !.keep_alive = FALSE]}

(* Bound: the router's table is iterated in one order, as no url of these  *)
(* requests matches two routes (backend_safe has both orders).             *)
OneOrderInit == ProgramInit /\ order = <<Backend!Tasks, Backend!TaskById>>
OneOrderSpec == OneOrderInit /\ [][ProgramNext]_programvars /\ Fairness
=============================================================================

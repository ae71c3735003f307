------------------------------ MODULE Programs ------------------------------
(***************************************************************************)
(* The two programs that run the server: the application (backend_app.cpp) *)
(* starts it, waits for it and returns; the server's unit test             *)
(* (rest_server_ut.cpp) starts it, sends its requests, stops it and        *)
(* returns.  Returning destroys the handler.  The clients are those of     *)
(* module Server, so the test may stop the server in the middle of them.   *)
(***************************************************************************)
EXTENDS Server

VARIABLES
  program,  \* application or test
  main      \* the statement its main thread is at, or how it ended

programvars == <<vars, program, main>>

ProgramInit == Init /\ program \in {"application", "test"} /\ main = "StartServer"

(* StartServer(...) returns the handler, or throws (the step that stands   *)
(* for it, SpawnThreadThrows, may come before the first thread, as do      *)
(* AddRoute, make_shared, make_address and co_spawn).  No try in the main  *)
(* of the application catches that, which is std::terminate; the one of    *)
(* the test reports it.                                                    *)
Starts ==
  /\ main = "StartServer"
  /\ Lifetime!InStartServer
  /\ main' = CASE owner' = "owns"  -> IF program = "test" THEN "SUBCASE" ELSE "Wait"
               [] owner' = "threw" -> IF program = "test" THEN "caught" ELSE "terminated"
               [] OTHER            -> main

(* Mistake: main returns as soon as the server has started. *)
Waits_NotAtAll ==
  /\ main = "Wait"
  /\ main' = "return"
  /\ UNCHANGED lifetime

(* server.Wait() *)
Waits ==
  /\ main = "Wait"
  /\ Lifetime!CallWait \/ Lifetime!InHandler
  /\ main' = IF owner = "in_Wait" /\ owner' = "owns" THEN "return" ELSE main

(* stop_token.Stop(), which does nothing if the io_context has stopped. *)
Stops ==
  /\ main = "SUBCASE"
  /\ Lifetime!CallStop \/ (Lifetime!stopped /\ UNCHANGED lifetime)
  /\ main' = IF Lifetime!stopped THEN "return" ELSE "Stop"
StopsServer ==
  /\ main = "Stop"
  /\ Lifetime!InHandler
  /\ main' = IF owner' = "owns" THEN "return" ELSE main

(* ~StopHandler *)
Returns ==
  /\ main = "return"
  /\ Lifetime!Destroy \/ Lifetime!InHandler
  /\ main' = CASE owner' # "gone"       -> main
               [] Lifetime!Terminates'  -> "terminated"
               [] OTHER                 -> "returned"

Main == (Starts \/ Waits \/ StopsServer \/ Returns) /\ UNCHANGED <<backend, program>>
Tests == Stops /\ UNCHANGED <<backend, program>>
ServerOnly(A) == A /\ UNCHANGED <<program, main>>

Runs == main \notin {"caught", "terminated", "returned"}
ProgramNext ==
  /\ Runs
  /\ Main \/ Tests \/ ServerOnly(Environment \/ \E w \in Lifetime!Threads : Work(w))

ProgramSpec == ProgramInit /\ [][ProgramNext]_programvars

(* Threads run, the one of main among them, and clocks go; the queue of    *)
(* the io_context is served in its order, so no coroutine in it is passed  *)
(* over for ever.  Nothing makes the test stop the server, a client send,  *)
(* or a connection fail.                                                   *)
Fairness ==
  /\ WF_programvars(Main)
  /\ \A w \in Lifetime!Threads : WF_programvars(Runs /\ ServerOnly(Work(w)))
  /\ \A k \in Lifetime!Coroutines : SF_programvars(Runs /\ ServerOnly(Takes(k)))
  /\ \A s \in Sessions :
       /\ WF_programvars(Runs /\ ServerOnly(Expire(s)))
       /\ WF_programvars(Runs /\ ServerOnly(TimesOut(s)))
ProgramFairSpec == ProgramSpec /\ Fairness

-----------------------------------------------------------------------------
(* The application returns only when nothing is left to be cut off:        *)
(* listening has failed, and every connection has been served to its end.  *)
(* It ends by std::terminate only if StartServer throws, and on one thread *)
(* (the default) before anybody is served; never by destroying its         *)
(* handler.  The test ends by that only if the server had run dry before   *)
(* it was stopped.                                                         *)
MainEndsWithTheServer ==
  /\ main = "returned" /\ program = "application" =>
       stopper = "ran_dry" /\ \A s \in Sessions : Backend!Over(s) /\ phase[s] = "idle"
  /\ main = "terminated" /\ program = "application" =>
       owner = "threw" /\ (NumThreads = 1 => \A s \in Sessions : job[s] = "none")
  /\ main = "terminated" /\ program = "test" => stopper = "ran_dry"

(* The inductive invariant behind it: which part of the life of its        *)
(* handler each statement of main may see, and that Wait has left the      *)
(* application a server that ran dry, with its threads joined.             *)
MainInv ==
  /\ main = "StartServer" => owner \in {"spawn", "await_started", "asleep"}
  /\ main = "Wait" =>
       program = "application" /\ owner \in {"owns", "in_Wait"} /\ stopper # "owner"
  /\ main = "SUBCASE" => program = "test" /\ owner = "owns"
  /\ main = "Stop" => program = "test" /\ owner \in {"in_Stop", "Stop_waits"}
  /\ main = "return" =>
       /\ owner \in {"owns", "in_destructor", "destructor_waits"}
       /\ program = "application" => stopper = "ran_dry" /\ joinable = {}
  /\ main = "returned" /\ program = "application" => stopper = "ran_dry"
  /\ main = "terminated" =>
       IF program = "application" THEN owner = "threw" ELSE stopper = "ran_dry"
  /\ program \in {"application", "test"}

ProgramInv == IInv /\ MainInv

(* A server that cannot accept any more does not linger: once listening    *)
(* has ended and no client sends another request, the application returns. *)
MainReturns ==
  /\ program = "application"
  /\ <>(main = "Wait" /\ job["listen"] = "done")
  /\ <>[][\A s \in Sessions : ~(stage[s] = "reading" /\ stage'[s] = "routing")]_programvars
  => <>(main = "returned")
=============================================================================

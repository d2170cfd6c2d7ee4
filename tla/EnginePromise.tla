---------------------------- MODULE EnginePromise ----------------------------
(***************************************************************************)
(* What an engine promises to whoever runs its turns (the loop of the      *)
(* desktop, the terminal): a turn that returns has said that it is done,   *)
(* and says nothing else after it, except that it is done once more.  This *)
(* is what TurnLifecycle takes for granted of an engine that does not fail.*)
(* EngineTurn implements it.                                               *)
(***************************************************************************)
VARIABLES
  running,  \* a turn is on its way
  closed    \* it has said that it is done

vars == <<running, closed>>

Init == running = FALSE /\ closed = FALSE

Begin ==
  /\ ~running
  /\ running' = TRUE
  /\ closed' = FALSE

\* The turn says that it is done, and may return in the same step.
Close ==
  /\ running
  /\ ~closed
  /\ closed' = TRUE
  /\ running' \in BOOLEAN

Return ==
  /\ running
  /\ closed
  /\ running' = FALSE
  /\ closed' = TRUE

Next == Begin \/ Close \/ Return

Spec == Init /\ [][Next]_vars
==============================================================================

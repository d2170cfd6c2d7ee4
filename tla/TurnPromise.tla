----------------------------- MODULE TurnPromise -----------------------------
(***************************************************************************)
(* What the journal promises about every turn, whoever writes to it: a     *)
(* turn starts as "starting", its status moves one turn at a time while it *)
(* is live, a terminal status is final, a restart turns all that was live  *)
(* into "interrupted" and nothing else, and only a deletion makes a turn   *)
(* disappear.  TurnJournal and TurnLifecycle implement it.                 *)
(***************************************************************************)
EXTENDS TurnStates

CONSTANT Turn

VARIABLE status

Init == status = [t \in Turn |-> "absent"]

Begin(t) ==
  /\ status[t] = "absent"
  /\ status' = [status EXCEPT ![t] = "starting"]

Move(t, new) ==
  /\ status[t] \in LiveStates
  /\ status' = [status EXCEPT ![t] = new]

\* A restart interrupts every live turn at once and leaves the others alone.
Restart ==
  status' = [t \in Turn |->
               IF status[t] \in LiveStates THEN "interrupted" ELSE status[t]]

Forget(T) == status' = [t \in Turn |-> IF t \in T THEN "absent" ELSE status[t]]

Next ==
  \/ \E t \in Turn : Begin(t)
  \/ \E t \in Turn, new \in TurnState \ {"starting"} : Move(t, new)
  \/ Restart
  \/ \E T \in SUBSET Turn : Forget(T)

Spec == Init /\ [][Next]_status
==============================================================================

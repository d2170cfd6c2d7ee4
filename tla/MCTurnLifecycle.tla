--------------------------- MODULE MCTurnLifecycle ---------------------------
(***************************************************************************)
(* Instances of TurnLifecycle small enough for TLC.  Processes, turns and  *)
(* commands are interchangeable, so the runs that check no liveness may    *)
(* take states equal up to a renaming of them for one.                     *)
(***************************************************************************)
EXTENDS TurnLifecycle, TLC

Symmetry == Permutations(Instance) \cup Permutations(Turn) \cup Permutations(Op)
==============================================================================

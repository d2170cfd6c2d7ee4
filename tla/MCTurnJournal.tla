---------------------------- MODULE MCTurnJournal ----------------------------
(***************************************************************************)
(* One session with one turn that may overflow both limits, and a second   *)
(* session whose turn it must not disturb.                                 *)
(***************************************************************************)
EXTENDS TurnJournal

CONSTANTS t1, t2, s1, s2

MCSessionOf == (t1 :> s1) @@ (t2 :> s2)

\* A small payload of ASCII and one of two wide characters.
MCSizes == {[chars |-> 1, bytes |-> 1], [chars |-> 2, bytes |-> 4]}
==============================================================================

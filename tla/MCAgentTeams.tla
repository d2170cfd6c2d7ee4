----------------------------- MODULE MCAgentTeams -----------------------------
(* Two members; b depends on a, and comes first in the list.                  *)
EXTENDS AgentTeams

CONSTANTS a, b, cmd

MCWorkstreams == <<b, a>>
MCDepends == [m \in Members |-> IF m = b THEN {a} ELSE {}]
===============================================================================

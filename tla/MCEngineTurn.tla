----------------------------- MODULE MCEngineTurn -----------------------------
(* Four calls: one that looks, one that changes a file, one that verifies,    *)
(* and one that asks the user.                                                *)
EXTENDS EngineTurn

CONSTANTS look, edit, check, ask
===============================================================================

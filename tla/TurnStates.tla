----------------------------- MODULE TurnStates -----------------------------
(***************************************************************************)
(* The vocabulary of the turn journal: the status of a turn, the kinds of  *)
(* event its loop persists, and what each SQL transaction of db/turns.rs   *)
(* does to one row of the table "turns".  Constant level: the modules that *)
(* keep rows as state (TurnJournal, TurnLifecycle) use these operators.    *)
(* Timestamps, details and error codes are left out: no property reads     *)
(* them.  A definition introduced as a "Variant" here and in the other     *)
(* modules is a mistake one could make in the definition below it; no      *)
(* specification uses it, and PROJECT.json says which property fails when  *)
(* it takes that definition's place.                                       *)
(***************************************************************************)
EXTENDS Integers

LiveStates == {"starting", "running", "waiting_approval", "waiting_user", "cancelling"}

TerminalStates == {"completed", "cancelled", "failed", "interrupted"}

TurnState == LiveStates \cup TerminalStates

\* What run_status_for_event_kind and the pruning tell apart in the engine's
\* events, and the three kinds the loop makes itself.  "started" is the start of
\* the engine's thinking, "progress" a text delta or a tool call, "note" every
\* kind without a status (usage, tool results, completed texts, retries...).
EngineKinds == {"started", "progress", "note", "approval", "error", "done"}

EventKinds == EngineKinds \cup {"ask_user", "cancelling", "cancelled"}

\* The status an event carries into the journal, "none" when it carries none.
StateOf(kind) ==
  CASE kind = "started"    -> "running"
    [] kind = "progress"   -> "running"
    [] kind = "note"       -> "none"
    [] kind = "approval"   -> "waiting_approval"
    [] kind = "ask_user"   -> "waiting_user"
    [] kind = "error"      -> "failed"
    [] kind = "done"       -> "completed"
    [] kind = "cancelling" -> "cancelling"
    [] kind = "cancelled"  -> "cancelled"

-----------------------------------------------------------------------------
\* A row of "turns"; NoTurn is the absence of one.
NoTurn == [status |-> "absent", lastSeq |-> -1, cancelRequested |-> FALSE]

Rows(maxSeq) ==
  {NoTurn} \cup [status : TurnState, lastSeq : -1 .. maxSeq, cancelRequested : BOOLEAN]

Exists(row) == row.status # "absent"

\* create_turn: ON CONFLICT DO NOTHING, so an existing row is returned as it is.
Created(row) == IF Exists(row) THEN row ELSE [NoTurn EXCEPT !.status = "starting"]

\* Variant: a status is simply overwritten.
MayAlwaysBecome(row, state) == TRUE

\* A terminal status may only be written over by itself.
MayBecome(row, state) == row.status \in TerminalStates => state = row.status

\* The transaction of append_turn_event_with_state commits as a whole or not at all.
Accepts(row, seq, state) ==
  /\ Exists(row)
  /\ seq > row.lastSeq
  /\ state # "none" => MayBecome(row, state)

Appended(row, seq, state) ==
  IF ~Accepts(row, seq, state) THEN row
  ELSE [row EXCEPT !.lastSeq = seq, !.status = IF state = "none" THEN @ ELSE state]

\* update_turn_state.
Updated(row, state) ==
  IF Exists(row) /\ MayBecome(row, state) THEN [row EXCEPT !.status = state] ELSE row

\* mark_turn_cancellation_requested updates zero rows when there is none.
CancelMarked(row) == IF Exists(row) THEN [row EXCEPT !.cancelRequested = TRUE] ELSE row

\* Variants: the status literal of the SQL text is misspelt, or a turn that a
\* restart finds is taken for one that ended well.
InterruptedMisspelt(row) ==
  IF row.status \in LiveStates THEN [row EXCEPT !.status = "interupted"] ELSE row

InterruptedAsSuccess(row) ==
  IF row.status \in LiveStates THEN [row EXCEPT !.status = "completed"] ELSE row

\* mark_interrupted_turns, for one row.
Interrupted(row) ==
  IF row.status \in LiveStates THEN [row EXCEPT !.status = "interrupted"] ELSE row
=============================================================================

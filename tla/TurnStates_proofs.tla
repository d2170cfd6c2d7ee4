--------------------------- MODULE TurnStates_proofs ---------------------------
(***************************************************************************)
(* What the transactions of db/turns.rs do to a row, for every bound on    *)
(* the sequence numbers: they return rows, they never lower the last       *)
(* number, and they move the status as TurnPromise allows.                 *)
(***************************************************************************)
EXTENDS TurnStates, TLAPS

\* Every status an event may carry is a status.
LEMMA StateOfType ==
  ASSUME NEW kind \in EventKinds
  PROVE  StateOf(kind) \in TurnState \cup {"none"}
BY DEF StateOf, EventKinds, EngineKinds, TurnState, LiveStates, TerminalStates

\* "absent" is not a status: a row that exists is told from one that does not.
LEMMA AbsentIsNoState == "absent" \notin TurnState /\ "none" \notin TurnState
BY DEF TurnState, LiveStates, TerminalStates

\* create_turn returns a row, and keeps the number of one that was there.
LEMMA CreatedRow ==
  ASSUME NEW n \in Nat, NEW row \in Rows(n)
  PROVE  Created(row) \in Rows(n) /\ Exists(Created(row)) /\ Created(row).lastSeq = row.lastSeq
<1>1. CASE row = NoTurn
  <2>1. Created(row) = [status |-> "starting", lastSeq |-> -1, cancelRequested |-> FALSE]
    BY <1>1 DEF Created, Exists, NoTurn
  <2>2. "starting" \in TurnState /\ -1 \in -1 .. n
    BY DEF TurnState, LiveStates
  <2>3. row.lastSeq = -1
    BY <1>1 DEF NoTurn
  <2> QED
    BY <2>1, <2>2, <2>3 DEF Rows, Exists
<1>2. CASE row \in [status : TurnState, lastSeq : -1 .. n, cancelRequested : BOOLEAN]
  <2>1. Exists(row)
    BY <1>2, AbsentIsNoState DEF Exists
  <2> QED
    BY <2>1 DEF Created
<1> QED
  BY <1>1, <1>2 DEF Rows

\* append_turn_event_with_state leaves the last number alone or makes it seq.
LEMMA AppendedRow ==
  ASSUME NEW n \in Nat, NEW row \in Rows(n), NEW seq \in 0 .. n,
         NEW state \in TurnState \cup {"none"}
  PROVE  /\ Appended(row, seq, state) \in Rows(n)
         /\ Exists(Appended(row, seq, state)) <=> Exists(row)
         /\ Appended(row, seq, state).lastSeq \in {row.lastSeq, seq}
<1>1. CASE ~Accepts(row, seq, state)
  BY <1>1 DEF Appended
<1>2. CASE Accepts(row, seq, state)
  <2>1. Exists(row)
    BY <1>2 DEF Accepts
  <2>2. row \in [status : TurnState, lastSeq : -1 .. n, cancelRequested : BOOLEAN]
    BY <2>1 DEF Rows, Exists, NoTurn
  <2>3. Appended(row, seq, state) =
          [row EXCEPT !.lastSeq = seq, !.status = IF state = "none" THEN @ ELSE state]
    BY <1>2 DEF Appended
  <2>4. Appended(row, seq, state)
          \in [status : TurnState, lastSeq : -1 .. n, cancelRequested : BOOLEAN]
    <3>1. seq \in -1 .. n
      OBVIOUS
    <3> QED
      BY <3>1, <2>2, <2>3
  <2>5. Appended(row, seq, state).lastSeq = seq
    BY <2>2, <2>3
  <2> QED
    BY <2>1, <2>4, <2>5, AbsentIsNoState DEF Rows, Exists
<1> QED
  BY <1>1, <1>2

\* update_turn_state touches the status only.
LEMMA UpdatedRow ==
  ASSUME NEW n \in Nat, NEW row \in Rows(n), NEW state \in TurnState
  PROVE  /\ Updated(row, state) \in Rows(n)
         /\ Exists(Updated(row, state)) <=> Exists(row)
         /\ Updated(row, state).lastSeq = row.lastSeq
<1>1. CASE row = NoTurn
  BY <1>1 DEF Updated, Rows, Exists, NoTurn
<1>2. CASE row \in [status : TurnState, lastSeq : -1 .. n, cancelRequested : BOOLEAN]
  BY <1>2, AbsentIsNoState DEF Updated, Rows, Exists
<1> QED
  BY <1>1, <1>2 DEF Rows

\* mark_turn_cancellation_requested touches the mark only.
LEMMA CancelMarkedRow ==
  ASSUME NEW n \in Nat, NEW row \in Rows(n)
  PROVE  /\ CancelMarked(row) \in Rows(n)
         /\ Exists(CancelMarked(row)) <=> Exists(row)
         /\ CancelMarked(row).lastSeq = row.lastSeq
<1>1. CASE row = NoTurn
  BY <1>1 DEF CancelMarked, Rows, Exists, NoTurn
<1>2. CASE row \in [status : TurnState, lastSeq : -1 .. n, cancelRequested : BOOLEAN]
  BY <1>2, AbsentIsNoState DEF CancelMarked, Rows, Exists
<1> QED
  BY <1>1, <1>2 DEF Rows

\* mark_interrupted_turns touches the status only.
LEMMA InterruptedRow ==
  ASSUME NEW n \in Nat, NEW row \in Rows(n)
  PROVE  /\ Interrupted(row) \in Rows(n)
         /\ Exists(Interrupted(row)) <=> Exists(row)
         /\ Interrupted(row).lastSeq = row.lastSeq
<1>1. CASE row = NoTurn
  BY <1>1 DEF Interrupted, Rows, Exists, NoTurn, LiveStates
<1>2. CASE row \in [status : TurnState, lastSeq : -1 .. n, cancelRequested : BOOLEAN]
  BY <1>2, AbsentIsNoState
     DEF Interrupted, Rows, Exists, TurnState, LiveStates, TerminalStates
<1> QED
  BY <1>1, <1>2 DEF Rows

\* The number of a row is an integer.
LEMMA RowSeq ==
  ASSUME NEW n \in Nat, NEW row \in Rows(n)
  PROVE  row.lastSeq \in -1 .. n
BY DEF Rows, NoTurn

-----------------------------------------------------------------------------
(* Where a status may go, and what becomes of the mark of a cancellation. *)

\* One step of TurnPromise for one turn, or none.
MayMove(old, new) == new = old \/ (old \in LiveStates /\ new \in TurnState \ {"starting"})

\* No event brings a turn back to its start.
LEMMA StateOfMoves ==
  ASSUME NEW kind \in EventKinds
  PROVE  StateOf(kind) \in (TurnState \cup {"none"}) \ {"starting"}
BY DEF StateOf, EventKinds, EngineKinds, TurnState, LiveStates, TerminalStates

\* A row is the absence of one, or a record with a status.
LEMMA RowCases ==
  ASSUME NEW n \in Nat, NEW row \in Rows(n)
  PROVE  \/ row = NoTurn /\ ~Exists(row)
         \/ /\ Exists(row)
            /\ row \in [status : TurnState, lastSeq : -1 .. n, cancelRequested : BOOLEAN]
BY AbsentIsNoState DEF Rows, Exists, NoTurn

\* A row that is asked for a status has it already, or is live.
LEMMA AskedStatus ==
  ASSUME NEW n \in Nat, NEW row \in Rows(n), Exists(row), NEW state, MayBecome(row, state)
  PROVE  state = row.status \/ row.status \in LiveStates
BY RowCases DEF MayBecome, TurnState

\* An event moves the status to its own, or nowhere.
LEMMA AppendedMoves ==
  ASSUME NEW n \in Nat, NEW row \in Rows(n), NEW seq \in 0 .. n,
         NEW state \in (TurnState \cup {"none"}) \ {"starting"}
  PROVE  /\ MayMove(row.status, Appended(row, seq, state).status)
         /\ Appended(row, seq, state).status \in {row.status, state}
         /\ Appended(row, seq, state).cancelRequested = row.cancelRequested
<1> DEFINE new == Appended(row, seq, state)
<1>1. CASE ~Accepts(row, seq, state)
  BY <1>1 DEF Appended, MayMove
<1>2. CASE Accepts(row, seq, state)
  <2>1. Exists(row) /\ (state # "none" => MayBecome(row, state))
    BY <1>2 DEF Accepts
  <2>2. new = [row EXCEPT !.lastSeq = seq, !.status = IF state = "none" THEN @ ELSE state]
    BY <1>2 DEF Appended
  <2>3. row \in [status : TurnState, lastSeq : -1 .. n, cancelRequested : BOOLEAN]
    BY <2>1, RowCases
  <2>4. /\ new.status = IF state = "none" THEN row.status ELSE state
        /\ new.cancelRequested = row.cancelRequested
    BY <2>2, <2>3
  <2>5. state # "none" => state = row.status \/ row.status \in LiveStates
    BY <2>1, AskedStatus
  <2> QED
    BY <2>4, <2>5 DEF MayMove
<1> QED
  BY <1>1, <1>2

\* A state that is asked for is taken, or the row stays as it is.
LEMMA UpdatedMoves ==
  ASSUME NEW n \in Nat, NEW row \in Rows(n), NEW state \in TurnState \ {"starting"}
  PROVE  /\ MayMove(row.status, Updated(row, state).status)
         /\ Updated(row, state).status \in {row.status, state}
         /\ Updated(row, state).cancelRequested = row.cancelRequested
<1>1. CASE Exists(row) /\ MayBecome(row, state)
  <2>1. /\ Updated(row, state).status = state
        /\ Updated(row, state).cancelRequested = row.cancelRequested
    BY <1>1, RowCases DEF Updated
  <2>2. state = row.status \/ row.status \in LiveStates
    BY <1>1, AskedStatus
  <2> QED
    BY <2>1, <2>2 DEF MayMove
<1>2. CASE ~(Exists(row) /\ MayBecome(row, state))
  BY <1>2 DEF Updated, MayMove
<1> QED
  BY <1>1, <1>2

\* A mark is set and moves nothing.
LEMMA CancelMarkedMoves ==
  ASSUME NEW n \in Nat, NEW row \in Rows(n)
  PROVE  /\ CancelMarked(row).status = row.status
         /\ Exists(row) => CancelMarked(row).cancelRequested
BY RowCases DEF CancelMarked

\* A restart moves what is live, and keeps the mark.
LEMMA InterruptedMoves ==
  ASSUME NEW n \in Nat, NEW row \in Rows(n)
  PROVE  /\ Interrupted(row).status =
              IF row.status \in LiveStates THEN "interrupted" ELSE row.status
         /\ Interrupted(row).cancelRequested = row.cancelRequested
BY RowCases DEF Interrupted

\* A row that is there is returned as it is, and a new one starts.
LEMMA CreatedMoves ==
  ASSUME NEW row
  PROVE  /\ Exists(row) => Created(row) = row
         /\ ~Exists(row) => Created(row).status = "starting"
BY DEF Created, NoTurn
================================================================================

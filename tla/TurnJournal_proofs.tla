-------------------------- MODULE TurnJournal_proofs --------------------------
(***************************************************************************)
(* Proofs about TurnJournal, for any turns, events, limits and callers:    *)
(* the tables agree, the end of a turn stays on record, pruning takes      *)
(* nothing but plain events of turns that are over and enough of them to   *)
(* fit, and the statuses keep TurnPromise.                                 *)
(***************************************************************************)
EXTENDS TurnJournal, TurnStates_proofs, NatRecursion

-----------------------------------------------------------------------------
(* Types. *)

\* An event comes with a number and a state, or none.
LEMMA EventTyped ==
  ASSUME NEW e \in Event
  PROVE  e.seq \in 0 .. MaxSeq /\ StateOf(e.kind) \in TurnState \cup {"none"}
<1>1. e.seq \in 0 .. MaxSeq /\ e.kind \in EventKinds  BY LimitsAssumption DEF Event
<1>2. QED BY <1>1, StateOfType

\* Pruning selects, and it selects all essential events.
LEMMA KeptSelects ==
  ASSUME NEW es
  PROVE  \E W : Kept(es) = SelectIn(es, W) /\ \A e \in Event : Essential(e) => e \in W
BY DEF Kept

LEMMA InitTyped == Init => TypeOK
<1> SUFFICES ASSUME Init PROVE TypeOK  OBVIOUS
<1>1. <<>> \in Seq(Event)  BY EmptySeq
<1>2. QED BY <1>1 DEF Init, TypeOK, Rows

LEMMA NextTyped == TypeOK /\ [Next]_vars => TypeOK'
<1> SUFFICES ASSUME TypeOK, [Next]_vars PROVE TypeOK'  OBVIOUS
<1>0. MaxSeq \in Nat  BY LimitsAssumption
<1> DEFINE R == Rows(MaxSeq)
<1>1. journal \in [Turn -> R] /\ events \in [Turn -> Seq(Event)]  BY DEF TypeOK
<1> SUFFICES journal' \in [Turn -> R] /\ events' \in [Turn -> Seq(Event)]  BY DEF TypeOK
<1>2. ASSUME NEW row \in R
      PROVE  Created(row) \in R /\ CancelMarked(row) \in R /\ Interrupted(row) \in R
             /\ \A state \in TurnState : Updated(row, state) \in R
  BY <1>0, CreatedRow, CancelMarkedRow, InterruptedRow, UpdatedRow
<1>3. NoTurn \in R  BY DEF Rows
<1> HIDE DEF R
<1>4. ASSUME NEW t \in Turn, CreateTurn(t) \/ MarkCancellationRequested(t)
      PROVE  journal' \in [Turn -> R] /\ events' \in [Turn -> Seq(Event)]
  BY <1>1, <1>2, <1>4 DEF CreateTurn, MarkCancellationRequested
<1>5. ASSUME NEW t \in Turn, NEW e \in Event, AppendEvent(t, e)
      PROVE  journal' \in [Turn -> R] /\ events' \in [Turn -> Seq(Event)]
  <2> DEFINE row == Appended(journal[t], e.seq, StateOf(e.kind))
  <2> DEFINE es == Append(events[t], e)
  <2>1. row \in R
    <3>1. journal[t] \in R  BY <1>1
    <3>2. QED BY <1>0, <3>1, EventTyped, AppendedRow DEF R
  <2>2. es \in Seq(Event)  BY <1>1, AppendProperties
  <2>3. journal' = [journal EXCEPT ![t] = row] /\ events' = [events EXCEPT ![t] = es]
    BY <1>5 DEF AppendEvent
  <2> HIDE DEF row, es
  <2>4. QED BY <1>1, <2>1, <2>2, <2>3
<1>6. ASSUME NEW t \in Turn, NEW state \in {"cancelling", "interrupted"}, UpdateState(t, state)
      PROVE  journal' \in [Turn -> R] /\ events' \in [Turn -> Seq(Event)]
  <2>1. state \in TurnState  BY DEF TurnState, LiveStates, TerminalStates
  <2>2. QED BY <1>1, <1>2, <1>6, <2>1 DEF UpdateState
<1>7. CASE MarkInterrupted  BY <1>1, <1>2, <1>7 DEF MarkInterrupted
<1>8. ASSUME NEW s \in Session, DeleteJournal(s)
      PROVE  journal' \in [Turn -> R] /\ events' \in [Turn -> Seq(Event)]
  <2>1. <<>> \in Seq(Event)  BY EmptySeq
  <2>2. QED BY <1>1, <1>3, <1>8, <2>1 DEF DeleteJournal
<1>9. CASE Prune
  <2>1. ASSUME NEW t \in Turn PROVE Kept(events[t]) \in Seq(Event)
    <3>1. events[t] \in Seq(Event)  BY <1>1
    <3>2. QED BY <3>1, KeptSelects, SelectKeeps
  <2>2. QED BY <1>1, <1>9, <2>1 DEF Prune
<1>10. CASE UNCHANGED vars  BY <1>1, <1>10 DEF vars
<1>11. QED BY <1>4, <1>5, <1>6, <1>7, <1>8, <1>9, <1>10 DEF Next

\* Rows and events keep their types.
THEOREM JournalTypesHold == Spec => []TypeOK
BY InitTyped, NextTyped, PTL DEF Spec

-----------------------------------------------------------------------------
(* What a step does to one turn. *)

\* The ways in which a row and its events change together.
Appends(t, e) ==
  /\ Accepts(journal[t], e.seq, StateOf(e.kind))
  /\ journal'[t] = Appended(journal[t], e.seq, StateOf(e.kind))
  /\ events'[t] = Append(events[t], e)

Deletes(t) == journal'[t] = NoTurn /\ events'[t] = <<>>

Prunes(t) ==
  /\ NeedsPruning(t)
  /\ journal'[t] = journal[t]
  /\ events'[t] = Kept(events[t])

Writes(t) ==
  /\ \/ journal'[t] \in {journal[t], Created(journal[t]), CancelMarked(journal[t]),
                         Interrupted(journal[t])}
     \/ \E state \in {"cancelling", "interrupted"} : journal'[t] = Updated(journal[t], state)
  /\ events'[t] = events[t]

LEMMA StepOfTurn ==
  ASSUME TypeOK, [Next]_vars, NEW t \in Turn
  PROVE  (\E e \in Event : Appends(t, e)) \/ Deletes(t) \/ Prunes(t) \/ Writes(t)
<1>1. journal \in [Turn -> Rows(MaxSeq)] /\ events \in [Turn -> Seq(Event)]  BY DEF TypeOK
<1>2. ASSUME NEW u \in Turn, CreateTurn(u) \/ MarkCancellationRequested(u) PROVE Writes(t)
  <2>1. journal'[t] \in {journal[t], Created(journal[t]), CancelMarked(journal[t])}
    BY <1>1, <1>2 DEF CreateTurn, MarkCancellationRequested
  <2>2. QED BY <1>2, <2>1 DEF CreateTurn, MarkCancellationRequested, Writes
<1>3. ASSUME NEW u \in Turn, NEW e \in Event, AppendEvent(u, e)
      PROVE  Appends(t, e) \/ Writes(t)
  <2>1. CASE t = u  BY <1>1, <1>3, <2>1 DEF AppendEvent, Appends
  <2>2. CASE t # u
    <3>1. journal'[t] = journal[t] /\ events'[t] = events[t]
      BY <1>1, <1>3, <2>2 DEF AppendEvent
    <3>2. QED BY <3>1 DEF Writes
  <2>3. QED BY <2>1, <2>2
<1>4. ASSUME NEW u \in Turn, NEW state \in {"cancelling", "interrupted"}, UpdateState(u, state)
      PROVE  Writes(t)
  <2>1. journal'[t] = journal[t] \/ journal'[t] = Updated(journal[t], state)
    BY <1>1, <1>4 DEF UpdateState
  <2>2. QED BY <1>4, <2>1 DEF UpdateState, Writes
<1>5. CASE MarkInterrupted  BY <1>5 DEF MarkInterrupted, Writes
<1>6. ASSUME NEW s \in Session, DeleteJournal(s) PROVE Deletes(t) \/ Writes(t)
  BY <1>6 DEF DeleteJournal, Deletes, Writes
<1>7. CASE Prune  BY <1>7 DEF Prune, Prunes, Writes
<1>8. CASE UNCHANGED vars  BY <1>8 DEF vars, Writes
<1>9. QED BY <1>2, <1>3, <1>4, <1>5, <1>6, <1>7, <1>8 DEF Next

\* A write keeps the last number, whether there is a row, and a status that an
\* event brought.
Brought == {"completed", "cancelled", "failed"}

LEMMA WrittenRow ==
  ASSUME TypeOK, NEW t \in Turn, Writes(t)
  PROVE  /\ journal'[t].lastSeq = journal[t].lastSeq
         /\ Exists(journal[t]) => Exists(journal'[t])
         /\ journal'[t].status \in Brought => journal[t].status = journal'[t].status
<1> DEFINE row == journal[t]
<1>0. row \in Rows(MaxSeq) /\ MaxSeq \in Nat  BY LimitsAssumption DEF TypeOK
<1> HIDE DEF row
<1>1. /\ Created(row).lastSeq = row.lastSeq
      /\ CancelMarked(row).lastSeq = row.lastSeq
      /\ Interrupted(row).lastSeq = row.lastSeq
      /\ \A state \in TurnState : Updated(row, state).lastSeq = row.lastSeq
      /\ Exists(row) => /\ Exists(Created(row)) /\ Exists(CancelMarked(row))
                        /\ Exists(Interrupted(row))
                        /\ \A state \in TurnState : Exists(Updated(row, state))
  BY <1>0, CreatedRow, CancelMarkedRow, InterruptedRow, UpdatedRow
<1>2. {"cancelling", "interrupted"} \subseteq TurnState
  BY DEF TurnState, LiveStates, TerminalStates
<1>3. Created(row).status \in Brought => row.status = Created(row).status
  BY DEF Created, NoTurn, Brought
<1>4. CancelMarked(row).status \in Brought => row.status = CancelMarked(row).status
  <2>1. CASE row = NoTurn  BY <2>1 DEF CancelMarked, Exists, NoTurn
  <2>2. CASE row # NoTurn  BY <1>0, <2>2 DEF Rows, CancelMarked
  <2>3. QED BY <2>1, <2>2
<1>5. Interrupted(row).status \in Brought => row.status = Interrupted(row).status
  <2>1. CASE row = NoTurn  BY <2>1 DEF Interrupted, NoTurn, LiveStates
  <2>2. CASE row # NoTurn  BY <1>0, <2>2 DEF Rows, Interrupted, Brought
  <2>3. QED BY <2>1, <2>2
<1>6. ASSUME NEW state \in {"cancelling", "interrupted"}, Updated(row, state).status \in Brought
      PROVE  row.status = Updated(row, state).status
  <2>1. CASE row = NoTurn  BY <2>1 DEF Updated, Exists, NoTurn
  <2>2. CASE row # NoTurn  BY <1>0, <1>6, <2>2 DEF Rows, Updated, Brought
  <2>3. QED BY <2>1, <2>2
<1>7. QED BY <1>1, <1>2, <1>3, <1>4, <1>5, <1>6 DEF Writes, row

\* An append that is accepted.
LEMMA AppendedRowIs ==
  ASSUME TypeOK, NEW t \in Turn, NEW e \in Event, Appends(t, e)
  PROVE  /\ Exists(journal[t]) /\ Exists(journal'[t])
         /\ journal[t].lastSeq < e.seq /\ journal'[t].lastSeq = e.seq
         /\ IF StateOf(e.kind) = "none" THEN journal'[t].status = journal[t].status
            ELSE journal'[t].status = StateOf(e.kind)
<1> DEFINE row == journal[t]
<1> DEFINE new == Appended(row, e.seq, StateOf(e.kind))
<1>1. row \in Rows(MaxSeq) /\ MaxSeq \in Nat  BY LimitsAssumption DEF TypeOK
<1>2. Accepts(row, e.seq, StateOf(e.kind)) /\ journal'[t] = new  BY DEF Appends
<1>3. Exists(row) /\ e.seq > row.lastSeq  BY <1>2 DEF Accepts
<1>4. Exists(new)  BY <1>1, <1>3, EventTyped, AppendedRow
<1>5. row \in [status : TurnState, lastSeq : -1 .. MaxSeq, cancelRequested : BOOLEAN]
  BY <1>1, <1>3 DEF Rows, Exists, NoTurn
<1>6. new = [row EXCEPT !.lastSeq = e.seq,
                        !.status = IF StateOf(e.kind) = "none" THEN @ ELSE StateOf(e.kind)]
  BY <1>2 DEF Appended
<1> DEFINE st == StateOf(e.kind)
<1> HIDE DEF new, row, st
<1>7. new.lastSeq = e.seq /\ new.status = IF st = "none" THEN row.status ELSE st
  BY <1>5, <1>6 DEF st
<1>8. row.lastSeq < e.seq
  <2>1. row.lastSeq \in Int /\ e.seq \in Int  BY <1>5, EventTyped
  <2>2. QED BY <1>3, <2>1
<1>9. QED BY <1>2, <1>3, <1>4, <1>7, <1>8 DEF row, st

-----------------------------------------------------------------------------
(* The two tables. *)

Increasing(es) == \A i, j \in 1 .. Len(es) : i < j => es[i].seq < es[j].seq

UpTo(es, last) == \A i \in 1 .. Len(es) : es[i].seq <= last

Matches(t) ==
  /\ events[t] # <<>> => Exists(journal[t])
  /\ Increasing(events[t]) /\ UpTo(events[t], journal[t].lastSeq)

\* EventsMatchRow, with indices written as the provers know them.
LEMMA MatchesIs ==
  ASSUME TypeOK
  PROVE  EventsMatchRow <=> \A t \in Turn : Matches(t)
<1>1. ASSUME NEW t \in Turn PROVE DOMAIN events[t] = 1 .. Len(events[t])
  <2>1. events[t] \in Seq(Event)  BY DEF TypeOK
  <2>2. QED BY <2>1, LenProperties
<1>2. QED BY <1>1 DEF EventsMatchRow, Matches, Increasing, UpTo

LEMMA MatchesIsNext ==
  ASSUME TypeOK'
  PROVE  EventsMatchRow' <=> \A t \in Turn : Matches(t)'
<1>1. ASSUME NEW t \in Turn PROVE DOMAIN events'[t] = 1 .. Len(events'[t])
  <2>1. events'[t] \in Seq(Event)  BY DEF TypeOK
  <2>2. QED BY <2>1, LenProperties
<1>2. QED BY <1>1 DEF EventsMatchRow, Matches, Increasing, UpTo

\* A list of events, its elements, and one more.
LEMMA OneMore ==
  ASSUME NEW es \in Seq(Event), NEW e \in Event
  PROVE  /\ Len(es) \in Nat /\ Len(Append(es, e)) = Len(es) + 1
         /\ Append(es, e)[Len(es) + 1] = e
         /\ \A i \in 1 .. Len(es) : Append(es, e)[i] = es[i]
         /\ \A i \in 1 .. Len(es) + 1 : i \in 1 .. Len(es) \/ i = Len(es) + 1
OBVIOUS

\* An event that comes with a higher number than the last goes to the end.
LEMMA AppendIncreasing ==
  ASSUME NEW es \in Seq(Event), NEW last \in Int, NEW e \in Event, last < e.seq,
         Increasing(es), UpTo(es, last)
  PROVE  Increasing(Append(es, e)) /\ UpTo(Append(es, e), e.seq)
<1> DEFINE new == Append(es, e)
<1>1. /\ Len(es) \in Nat /\ Len(new) = Len(es) + 1
      /\ new[Len(es) + 1] = e
      /\ \A i \in 1 .. Len(es) : new[i] = es[i]
      /\ \A i \in 1 .. Len(es) + 1 : i \in 1 .. Len(es) \/ i = Len(es) + 1
  BY OneMore
<1> HIDE DEF new
<1>2. e.seq \in Int  BY EventTyped
<1>3. ASSUME NEW i \in 1 .. Len(es) PROVE es[i].seq \in Int /\ es[i].seq < e.seq
  <2>1. es[i] \in Event  BY ElementOfSeq
  <2>2. es[i].seq \in Int  BY <2>1, EventTyped
  <2>3. es[i].seq <= last  BY DEF UpTo
  <2>4. QED BY <1>2, <2>2, <2>3
<1>4. Increasing(new)
  <2> SUFFICES ASSUME NEW i \in 1 .. Len(es) + 1, NEW j \in 1 .. Len(es) + 1, i < j
               PROVE  new[i].seq < new[j].seq
    BY <1>1 DEF Increasing
  <2>1. i \in 1 .. Len(es)  BY <1>1
  <2>2. CASE j \in 1 .. Len(es)  BY <1>1, <2>1, <2>2 DEF Increasing
  <2>3. CASE j = Len(es) + 1  BY <1>1, <1>3, <2>1, <2>3
  <2>4. QED BY <1>1, <2>2, <2>3
<1>5. UpTo(new, e.seq)
  <2> SUFFICES ASSUME NEW i \in 1 .. Len(es) + 1 PROVE new[i].seq <= e.seq
    BY <1>1 DEF UpTo
  <2>1. CASE i \in 1 .. Len(es)
    <3>1. es[i].seq \in Int /\ es[i].seq < e.seq  BY <1>3, <2>1
    <3>2. es[i].seq <= e.seq  BY <1>2, <3>1
    <3>3. QED BY <1>1, <2>1, <3>2
  <2>2. CASE i = Len(es) + 1  BY <1>1, <1>2, <2>2
  <2>3. QED BY <1>1, <2>1, <2>2
<1>6. QED BY <1>4, <1>5 DEF new

\* A selection keeps the order, the bound, and what is to be kept.
LEMMA SelectMatches ==
  ASSUME NEW es \in Seq(Event), NEW W, NEW last, Increasing(es), UpTo(es, last)
  PROVE  /\ Increasing(SelectIn(es, W)) /\ UpTo(SelectIn(es, W), last)
         /\ es = <<>> => SelectIn(es, W) = <<>>
<1> DEFINE q == SelectIn(es, W)
<1> DEFINE P == {p \in Event \X Event : p[1].seq < p[2].seq}
<1>1. \A i \in 1 .. Len(es) : es[i] \in Event  BY ElementOfSeq
<1>2. \A i, j \in 1 .. Len(es) : i < j => <<es[i], es[j]>> \in P  BY <1>1 DEF Increasing
<1>3. \A i, j \in 1 .. Len(q) : i < j => <<q[i], q[j]>> \in P
  <2> HIDE DEF P
  <2>1. QED BY <1>2, SelectOrdered
<1>4. ASSUME NEW j \in 1 .. Len(q) PROVE \E i \in 1 .. Len(es) : es[i] = q[j]
  <2> DEFINE x == q[j]
  <2>1. \E k \in 1 .. Len(q) : q[k] = x  OBVIOUS
  <2>2. q = SelectIn(es, W)  OBVIOUS
  <2> HIDE DEF x, q
  <2>3. (\E k \in 1 .. Len(q) : q[k] = x) <=> x \in W /\ \E i \in 1 .. Len(es) : es[i] = x
    BY <2>2, SelectElements
  <2>4. \E i \in 1 .. Len(es) : es[i] = x  BY <2>1, <2>3
  <2>5. QED BY <2>4 DEF x
<1>5. q \in Seq(Event)  BY SelectKeeps
<1> HIDE DEF q
<1>6. Increasing(q)  BY <1>3 DEF Increasing
<1>7. UpTo(q, last)  BY <1>4 DEF UpTo
<1>8. ASSUME es = <<>> PROVE q = <<>>
  <2>1. Len(es) = 0  BY <1>8, EmptySeq
  <2>2. \A i : i \notin 1 .. Len(es)  BY <2>1
  <2>3. \A j : j \notin 1 .. Len(q)  BY <1>4, <2>2
  <2>4. Len(q) \in Nat  BY <1>5, LenProperties
  <2>5. PICK n \in Nat : n = Len(q)  BY <2>4
  <2>6. 1 \notin 1 .. n  BY <2>3, <2>5
  <2>7. n = 0  BY <2>6
  <2>8. QED BY <1>5, <2>5, <2>7, EmptySeq
<1>9. QED BY <1>6, <1>7, <1>8 DEF q

LEMMA MatchesStep ==
  ASSUME TypeOK, TypeOK', [Next]_vars, NEW t \in Turn, Matches(t)
  PROVE  Matches(t)'
<1>1. events[t] \in Seq(Event) /\ journal[t] \in Rows(MaxSeq) /\ MaxSeq \in Nat
  BY LimitsAssumption DEF TypeOK
<1>2. journal[t].lastSeq \in Int
  <2>1. journal[t].lastSeq \in -1 .. MaxSeq  BY <1>1, RowSeq
  <2>2. QED BY <1>1, <2>1
<1>3. ASSUME NEW e \in Event, Appends(t, e) PROVE Matches(t)'
  <2>1. /\ Exists(journal'[t]) /\ journal[t].lastSeq < e.seq /\ journal'[t].lastSeq = e.seq
    BY <1>3, AppendedRowIs
  <2>2. events'[t] = Append(events[t], e)  BY <1>3 DEF Appends
  <2>3. Increasing(events'[t]) /\ UpTo(events'[t], e.seq)
    BY <1>1, <1>2, <2>1, <2>2, AppendIncreasing DEF Matches
  <2>4. QED BY <2>1, <2>3 DEF Matches
<1>4. CASE Deletes(t)
  <2>1. events'[t] = <<>>  BY <1>4 DEF Deletes
  <2>2. \A i : i \notin 1 .. Len(events'[t])  BY <2>1, EmptySeq
  <2>3. QED BY <2>1, <2>2 DEF Matches, Increasing, UpTo
<1>5. CASE Prunes(t)
  <2>1. PICK W : Kept(events[t]) = SelectIn(events[t], W)  BY KeptSelects
  <2>2. journal'[t] = journal[t] /\ events'[t] = SelectIn(events[t], W)
    BY <1>5, <2>1 DEF Prunes
  <2>3. /\ Increasing(events'[t]) /\ UpTo(events'[t], journal[t].lastSeq)
        /\ events[t] = <<>> => events'[t] = <<>>
    BY <1>1, <2>2, SelectMatches DEF Matches
  <2>4. QED BY <2>2, <2>3 DEF Matches
<1>6. CASE Writes(t)
  <2>1. /\ journal'[t].lastSeq = journal[t].lastSeq
        /\ Exists(journal[t]) => Exists(journal'[t])
        /\ events'[t] = events[t]
    BY <1>6, WrittenRow DEF Writes
  <2>2. QED BY <2>1 DEF Matches
<1>7. QED BY <1>3, <1>4, <1>5, <1>6, StepOfTurn

\* The two tables agree, whatever the callers write and in whatever order.
THEOREM TablesAgree == Spec => []EventsMatchRow
<1>1. Init => EventsMatchRow
  <2> SUFFICES ASSUME Init PROVE EventsMatchRow  OBVIOUS
  <2>1. \A t \in Turn : events[t] = <<>> /\ DOMAIN events[t] = {}
    <3>1. DOMAIN << >> = {}  OBVIOUS
    <3>2. QED BY <3>1 DEF Init
  <2>2. QED BY <2>1 DEF EventsMatchRow
<1>2. TypeOK /\ TypeOK' /\ EventsMatchRow /\ [Next]_vars => EventsMatchRow'
  <2> SUFFICES ASSUME TypeOK, TypeOK', EventsMatchRow, [Next]_vars PROVE EventsMatchRow'
    OBVIOUS
  <2>1. \A t \in Turn : Matches(t)  BY MatchesIs
  <2>2. \A t \in Turn : Matches(t)'  BY <2>1, MatchesStep
  <2>3. QED BY <2>2, MatchesIsNext
<1>3. QED BY <1>1, <1>2, JournalTypesHold, PTL DEF Spec
-----------------------------------------------------------------------------
(* What stays on record. *)

\* The events of a turn, with indices written as the provers know them.
LEMMA RangeIs ==
  ASSUME NEW es \in Seq(Event), NEW x
  PROVE  x \in Range(es) <=> \E i \in 1 .. Len(es) : es[i] = x
<1>1. DOMAIN es = 1 .. Len(es)  BY LenProperties
<1>2. QED BY <1>1 DEF Range

\* What a step does to the events on record: an append adds one, a pruning takes
\* plain ones of a turn that is over, a write takes none.
LEMMA AppendKeeps ==
  ASSUME NEW es \in Seq(Event), NEW e \in Event
  PROVE  Append(es, e) \in Seq(Event) /\ Range(Append(es, e)) = Range(es) \cup {e}
<1> DEFINE new == Append(es, e)
<1>1. new \in Seq(Event)  BY AppendProperties
<1>2. /\ Len(es) \in Nat /\ Len(new) = Len(es) + 1
      /\ new[Len(es) + 1] = e
      /\ \A i \in 1 .. Len(es) : new[i] = es[i]
      /\ \A i \in 1 .. Len(es) + 1 : i \in 1 .. Len(es) \/ i = Len(es) + 1
  BY OneMore
<1> HIDE DEF new
<1>3. PICK n \in Nat : n = Len(es)  BY <1>2
<1>4. n + 1 \in 1 .. n + 1 /\ \A i \in 1 .. n : i \in 1 .. n + 1  BY <1>3
<1>5. ASSUME NEW x PROVE x \in Range(new) <=> x \in Range(es) \/ x = e
  <2>1. x \in Range(new) <=> \E i \in 1 .. n + 1 : new[i] = x  BY <1>1, <1>2, <1>3, RangeIs
  <2>2. x \in Range(es) <=> \E i \in 1 .. n : es[i] = x  BY <1>3, RangeIs
  <2>3. QED BY <1>2, <1>3, <1>4, <2>1, <2>2
<1>6. QED BY <1>1, <1>5 DEF new

LEMMA KeptIsEssential ==
  ASSUME NEW es \in Seq(Event)
  PROVE  \A e \in Range(es) : Essential(e) => e \in Range(Kept(es))
<1> SUFFICES ASSUME NEW e \in Range(es), Essential(e) PROVE e \in Range(Kept(es))  OBVIOUS
<1>1. PICK W : Kept(es) = SelectIn(es, W) /\ \A x \in Event : Essential(x) => x \in W
  BY KeptSelects
<1> DEFINE q == SelectIn(es, W)
<1>2. \E i \in 1 .. Len(es) : es[i] = e  BY RangeIs
<1>3. e \in Event  BY <1>2, ElementOfSeq
<1>4. q \in Seq(Event)  BY SelectKeeps
<1>5. q = SelectIn(es, W)  OBVIOUS
<1> HIDE DEF q
<1>6. \E j \in 1 .. Len(q) : q[j] = e  BY <1>1, <1>2, <1>3, <1>5, SelectElements
<1>7. QED BY <1>1, <1>4, <1>5, <1>6, RangeIs

LEMMA EndEventIsEssential ==
  ASSUME NEW e \in Event, StateOf(e.kind) \in Brought
  PROVE  Essential(e)
<1>1. e.kind \in EventKinds  BY LimitsAssumption DEF Event
<1>2. QED BY <1>1 DEF EventKinds, EngineKinds, StateOf, Brought, Essential

EndOf(t) ==
  journal[t].status \in Brought =>
    \E e \in Range(events[t]) : StateOf(e.kind) = journal[t].status

LEMMA EndStep ==
  ASSUME TypeOK, TypeOK', [Next]_vars, NEW t \in Turn, EndOf(t)
  PROVE  EndOf(t)'
<1>1. events[t] \in Seq(Event)  BY DEF TypeOK
<1>2. ASSUME NEW e \in Event, Appends(t, e) PROVE EndOf(t)'
  <2>1. IF StateOf(e.kind) = "none" THEN journal'[t].status = journal[t].status
        ELSE journal'[t].status = StateOf(e.kind)
    BY <1>2, AppendedRowIs
  <2>2. Range(events'[t]) = Range(events[t]) \cup {e}
    BY <1>1, <1>2, AppendKeeps DEF Appends
  <2>3. CASE StateOf(e.kind) = "none"  BY <2>1, <2>2, <2>3 DEF EndOf
  <2>4. CASE StateOf(e.kind) # "none"  BY <2>1, <2>2, <2>4 DEF EndOf
  <2>5. QED BY <2>3, <2>4
<1>3. CASE Deletes(t)  BY <1>3 DEF Deletes, EndOf, NoTurn, Brought
<1>4. CASE Prunes(t)
  <2>1. journal'[t] = journal[t] /\ events'[t] = Kept(events[t])  BY <1>4 DEF Prunes
  <2>2. SUFFICES ASSUME journal[t].status \in Brought
                 PROVE  \E e \in Range(Kept(events[t])) : StateOf(e.kind) = journal[t].status
    BY <2>1 DEF EndOf
  <2>3. PICK e \in Range(events[t]) : StateOf(e.kind) = journal[t].status
    BY <2>2 DEF EndOf
  <2>4. \E i \in 1 .. Len(events[t]) : events[t][i] = e  BY <1>1, RangeIs
  <2>5. e \in Event  BY <1>1, <2>4, ElementOfSeq
  <2>6. Essential(e)  BY <2>2, <2>3, <2>5, EndEventIsEssential
  <2>7. e \in Range(Kept(events[t]))  BY <1>1, <2>6, KeptIsEssential
  <2>8. QED BY <2>3, <2>7
<1>5. CASE Writes(t)
  <2>1. /\ journal'[t].status \in Brought => journal[t].status = journal'[t].status
        /\ events'[t] = events[t]
    BY <1>5, WrittenRow DEF Writes
  <2>2. QED BY <2>1 DEF EndOf
<1>6. QED BY <1>2, <1>3, <1>4, <1>5, StepOfTurn

\* The event that ended a turn is still there, however often the journal was
\* pruned: nobody asks the journal for a status that only an event may bring.
THEOREM EndStaysOnRecord == Spec => []EndIsOnRecord
<1>1. Init => EndIsOnRecord
  <2> SUFFICES ASSUME Init PROVE EndIsOnRecord  OBVIOUS
  <2>1. \A t \in Turn : journal[t].status = "absent"  BY DEF Init, NoTurn
  <2>2. QED BY <2>1 DEF EndIsOnRecord
<1>2. TypeOK /\ TypeOK' /\ EndIsOnRecord /\ [Next]_vars => EndIsOnRecord'
  <2> SUFFICES ASSUME TypeOK, TypeOK', EndIsOnRecord, [Next]_vars PROVE EndIsOnRecord'
    OBVIOUS
  <2>1. \A t \in Turn : EndOf(t)  BY DEF EndIsOnRecord, EndOf, Brought
  <2>2. \A t \in Turn : EndOf(t)'  BY <2>1, EndStep
  <2>3. QED BY <2>2 DEF EndIsOnRecord, EndOf, Brought
<1>3. QED BY <1>1, <1>2, JournalTypesHold, PTL DEF Spec

LEMMA WhatGoes ==
  ASSUME TypeOK, [Next]_vars, NEW t \in Turn, Exists(journal'[t]),
         NEW e \in Range(events[t]), e \notin Range(events'[t])
  PROVE  Plain(e) /\ journal[t].status \in TerminalStates
<1>1. events[t] \in Seq(Event)  BY DEF TypeOK
<1>2. ASSUME NEW x \in Event, Appends(t, x) PROVE FALSE
  <2>1. Range(events'[t]) = Range(events[t]) \cup {x}
    BY <1>1, <1>2, AppendKeeps DEF Appends
  <2>2. QED BY <2>1
<1>3. CASE Deletes(t)  BY <1>3 DEF Deletes, Exists, NoTurn
<1>4. CASE Prunes(t)
  <2>1. e \notin Range(Kept(events[t])) /\ journal[t].status \in TerminalStates
    BY <1>4 DEF Prunes, NeedsPruning
  <2>2. ~Essential(e)  BY <1>1, <2>1, KeptIsEssential
  <2>3. QED BY <2>1, <2>2 DEF Plain
<1>5. CASE Writes(t)  BY <1>5 DEF Writes
<1>6. QED BY <1>2, <1>3, <1>4, <1>5, StepOfTurn

\* Pruning takes nothing but plain events of turns that are over.
THEOREM OnlyPlainGo == Spec => OnlyPlainEventsGo
<1> DEFINE Fine == \A t \in Turn : Exists(journal'[t]) =>
       \A e \in Range(events[t]) \ Range(events'[t]) :
         Plain(e) /\ journal[t].status \in TerminalStates
<1>1. TypeOK /\ [Next]_vars => [Fine]_vars
  <2>1. TypeOK /\ [Next]_vars => Fine  BY WhatGoes
  <2>2. QED BY <2>1
<1>2. QED BY <1>1, JournalTypesHold, PTL DEF Spec, OnlyPlainEventsGo

-----------------------------------------------------------------------------
(* How many characters a list of events has. *)

\* The function that the sum is made of.
Totals(es) ==
  CHOOSE F : F = [i \in 0 .. Len(es) |-> IF i = 0 THEN 0 ELSE F[i - 1] + es[i].size.chars]

LEMMA CharsIsLast ==
  ASSUME NEW es
  PROVE  Chars(es) = Totals(es)[Len(es)]
BY DEF Chars, Totals

LEMMA EventChars == ASSUME NEW e \in Event PROVE e.size.chars \in Nat /\ e.size.chars # 0
BY LimitsAssumption DEF Event

\* It exists, and its values are numbers.
LEMMA TotalsExist ==
  ASSUME NEW es \in Seq(Event)
  PROVE  /\ Totals(es) \in [0 .. Len(es) -> Nat]
         /\ Totals(es)[0] = 0
         /\ \A i \in 1 .. Len(es) : Totals(es)[i] = Totals(es)[i - 1] + es[i].size.chars
<1> DEFINE N == Len(es)
<1> DEFINE Body(F) == [i \in 0 .. N |-> IF i = 0 THEN 0 ELSE F[i - 1] + es[i].size.chars]
<1> DEFINE h == [p \in Nat \X Nat |-> IF p[1] < N THEN p[2] + es[p[1] + 1].size.chars ELSE 0]
<1>0. N \in Nat /\ \A i \in 1 .. N : es[i].size.chars \in Nat
  <2>1. \A i \in 1 .. N : es[i] \in Event  BY ElementOfSeq
  <2>2. N \in Nat  BY LenProperties
  <2>3. QED BY <2>1, <2>2, EventChars
<1>1. h \in StepFunctions(Nat)
  <2>1. ASSUME NEW p \in Nat \X Nat
        PROVE  (IF p[1] < N THEN p[2] + es[p[1] + 1].size.chars ELSE 0) \in Nat
    <3>1. CASE p[1] < N
      <4>1. p[1] + 1 \in 1 .. N /\ p[2] \in Nat  BY <1>0, <3>1
      <4>2. es[p[1] + 1].size.chars \in Nat  BY <1>0, <4>1
      <4>3. QED BY <3>1, <4>1, <4>2
    <3>2. CASE ~(p[1] < N)  BY <3>2
    <3>3. QED BY <3>1, <3>2
  <2>2. QED BY <2>1 DEF StepFunctions
<1>2. PICK g \in [0 .. N -> Nat] : g[0] = 0 /\ \A i \in 1 .. N : g[i] = h[<<i - 1, g[i - 1]>>]
  <2> DEFINE X == Nat
  <2>1. 0 \in X /\ h \in StepFunctions(X) /\ N \in Nat  BY <1>0, <1>1
  <2> HIDE DEF h, N, X
  <2>2. \E g : RecursiveUpTo(g, N, X, 0, h)  BY <2>1, RecursionUpTo
  <2>3. QED BY <2>2 DEF X, RecursiveUpTo
<1>3. ASSUME NEW i \in 1 .. N PROVE g[i] = g[i - 1] + es[i].size.chars
  <2> DEFINE p == <<i - 1, g[i - 1]>>
  <2>1. i - 1 \in 0 .. N /\ i - 1 < N /\ (i - 1) + 1 = i /\ i - 1 \in Nat  BY <1>0
  <2>2. p \in Nat \X Nat /\ p[1] = i - 1 /\ p[2] = g[i - 1]  BY <2>1, <1>2
  <2> HIDE DEF p
  <2>3. h[p] = IF p[1] < N THEN p[2] + es[p[1] + 1].size.chars ELSE 0  BY <2>2
  <2>4. h[p] = g[i - 1] + es[i].size.chars
    <3> HIDE DEF h, N
    <3>1. QED BY <2>1, <2>2, <2>3
  <2>5. g[i] = h[p]
    <3> HIDE DEF h
    <3>1. QED BY <1>2 DEF p
  <2>6. QED BY <2>4, <2>5
<1> HIDE DEF h
<1>4. g = Body(g)
  <2>1. g[0] = 0 /\ g = [i \in 0 .. N |-> g[i]]  BY <1>2
  <2>2. ASSUME NEW i \in 0 .. N
        PROVE  g[i] = IF i = 0 THEN 0 ELSE g[i - 1] + es[i].size.chars
    <3>1. CASE i = 0  BY <2>1, <3>1
    <3>2. CASE i # 0
      <4>1. i \in 1 .. N  BY <1>0, <3>2
      <4>2. QED BY <1>3, <3>2, <4>1
    <3>3. QED BY <3>1, <3>2
  <2> HIDE DEF N
  <2>3. QED BY <2>1, <2>2
<1> DEFINE F == CHOOSE F : F = Body(F)
<1>5. F = Body(F)
  <2> HIDE DEF Body
  <2>1. QED BY <1>4
<1>6. F = Totals(es)  BY DEF Totals
<1> HIDE DEF F
<1>7. F[0] = 0 /\ DOMAIN F = 0 .. N /\ F = [i \in 0 .. N |-> F[i]]
  <2>1. Body(F)[0] = 0 /\ DOMAIN Body(F) = 0 .. N /\ Body(F) = [i \in 0 .. N |-> Body(F)[i]]
    BY <1>0
  <2> HIDE DEF Body
  <2>2. QED BY <1>5, <2>1
<1>8. ASSUME NEW i \in 1 .. N PROVE F[i] = F[i - 1] + es[i].size.chars
  <2>1. i \in 0 .. N /\ i # 0  BY <1>0
  <2>2. Body(F)[i] = F[i - 1] + es[i].size.chars  BY <2>1
  <2> HIDE DEF Body
  <2>3. QED BY <1>5, <2>2
<1> HIDE DEF N, Body
<1>9. \A n \in Nat : n \in {i \in Nat : i <= N => F[i] \in Nat}
  <2> DEFINE S == {i \in Nat : i <= N => F[i] \in Nat}
  <2>1. 0 \in S  BY <1>7
  <2>2. ASSUME NEW n \in Nat, n \in S PROVE n + 1 \in S
    <3> SUFFICES ASSUME n + 1 <= N PROVE F[n + 1] \in Nat  OBVIOUS
    <3>1. n + 1 \in 1 .. N /\ (n + 1) - 1 = n /\ F[n] \in Nat
      <4>1. N \in Nat  BY <1>0
      <4>2. n + 1 \in 1 .. N /\ (n + 1) - 1 = n  BY <4>1
      <4>3. n <= N  BY <4>1
      <4>4. QED BY <2>2, <4>2, <4>3
    <3>2. F[n + 1] = F[n] + es[n + 1].size.chars
      <4>1. F[n + 1] = F[(n + 1) - 1] + es[n + 1].size.chars  BY <1>8, <3>1
      <4>2. QED BY <3>1, <4>1
    <3>3. QED BY <1>0, <3>1, <3>2
  <2> HIDE DEF S
  <2>3. \A n \in Nat : n \in S  BY <2>1, <2>2, Induction
  <2>4. QED BY <2>3 DEF S
<1>10. F \in [0 .. N -> Nat]
  <2>1. \A i \in 0 .. N : F[i] \in Nat  BY <1>0, <1>9
  <2>2. QED BY <1>7, <2>1
<1>11. QED BY <1>6, <1>7, <1>8, <1>10 DEF N

\* The sum of the empty list, and of one more event.
LEMMA CharsOfNone == Chars(<<>>) = 0
<1>1. <<>> \in Seq(Event) /\ Len(<<>>) = 0  BY EmptySeq
<1>2. QED BY <1>1, CharsIsLast, TotalsExist

LEMMA CharsOfOneMore ==
  ASSUME NEW es \in Seq(Event), NEW e \in Event
  PROVE  Chars(es) \in Nat /\ Chars(Append(es, e)) = Chars(es) + e.size.chars
<1> DEFINE new == Append(es, e)
<1> DEFINE N == Len(es)
<1> DEFINE F == Totals(es)
<1> DEFINE G == Totals(new)
<1>1. /\ N \in Nat /\ Len(new) = N + 1 /\ new[N + 1] = e
      /\ \A i \in 1 .. N : new[i] = es[i]
      /\ new \in Seq(Event)
  BY OneMore, AppendProperties
<1>2. F \in [0 .. N -> Nat] /\ F[0] = 0 /\ \A i \in 1 .. N : F[i] = F[i - 1] + es[i].size.chars
  BY TotalsExist
<1> HIDE DEF new
<1>3. G[0] = 0 /\ \A i \in 1 .. N + 1 : G[i] = G[i - 1] + new[i].size.chars
  BY <1>1, TotalsExist
<1> HIDE DEF N, F, G
<1> DEFINE S == {n \in Nat : n <= N => G[n] = F[n]}
<1>4. 0 \in S  BY <1>2, <1>3
<1>5. ASSUME NEW n \in Nat, n \in S PROVE n + 1 \in S
  <2> SUFFICES ASSUME n + 1 <= N PROVE G[n + 1] = F[n + 1]  OBVIOUS
  <2>1. n + 1 \in 1 .. N /\ n + 1 \in 1 .. N + 1 /\ (n + 1) - 1 = n /\ n <= N  BY <1>1
  <2>2. F[n + 1] = F[n] + es[n + 1].size.chars
    <3>1. F[n + 1] = F[(n + 1) - 1] + es[n + 1].size.chars  BY <1>2, <2>1
    <3>2. QED BY <2>1, <3>1
  <2>3. G[n + 1] = G[n] + new[n + 1].size.chars
    <3>1. G[n + 1] = G[(n + 1) - 1] + new[n + 1].size.chars  BY <1>3, <2>1
    <3>2. QED BY <2>1, <3>1
  <2>4. QED BY <1>1, <1>5, <2>1, <2>2, <2>3
<1> HIDE DEF S
<1>6. N \in S  BY <1>1, <1>4, <1>5, Induction
<1>7. G[N] = F[N]  BY <1>1, <1>6 DEF S
<1>8. G[N + 1] = F[N] + e.size.chars
  <2>1. N + 1 \in 1 .. N + 1 /\ (N + 1) - 1 = N  BY <1>1
  <2>2. G[N + 1] = G[(N + 1) - 1] + new[N + 1].size.chars  BY <1>3, <2>1
  <2>3. QED BY <1>1, <1>7, <2>1, <2>2
<1>9. Chars(es) = F[N]  BY CharsIsLast DEF F, N
<1>10. Chars(new) = G[N + 1]  BY <1>1, CharsIsLast DEF G
<1>11. F[N] \in Nat  BY <1>1, <1>2
<1>12. QED BY <1>8, <1>9, <1>10, <1>11 DEF new

\* One event more is selected: the count grows by one, the sum by its characters.
LEMMA OneMoreSelected ==
  ASSUME NEW es \in Seq(Event), NEW V, NEW W, NEW k \in 1 .. Len(es),
         es[k] \notin V, es[k] \in W,
         \A i \in 1 .. Len(es) : i # k => (es[i] \in V <=> es[i] \in W)
  PROVE  /\ Len(SelectIn(es, W)) = Len(SelectIn(es, V)) + 1
         /\ Chars(SelectIn(es, W)) = Chars(SelectIn(es, V)) + es[k].size.chars
<1> DEFINE N == Len(es)
<1> DEFINE F == Selecting(es, V)
<1> DEFINE G == Selecting(es, W)
<1> DEFINE b == es[k].size.chars
<1>1. N \in Nat /\ \A i \in 1 .. N : es[i] \in Event  BY LenProperties, ElementOfSeq
<1>2. /\ F \in [0 .. N -> Seq(Event)] /\ F[0] = <<>>
      /\ G \in [0 .. N -> Seq(Event)] /\ G[0] = <<>>
  BY SelectingExists
<1>3. ASSUME NEW i \in 1 .. N
      PROVE  /\ F[i] = IF es[i] \in V THEN Append(F[i - 1], es[i]) ELSE F[i - 1]
             /\ G[i] = IF es[i] \in W THEN Append(G[i - 1], es[i]) ELSE G[i - 1]
  BY SelectingExists
<1>4. k \in 1 .. N /\ b \in Nat /\ k \in Nat
  <2>1. k \in 1 .. N  OBVIOUS
  <2>2. QED BY <1>1, <2>1, EventChars
<1>5. \A i \in 1 .. N : i # k => (es[i] \in V <=> es[i] \in W)  OBVIOUS
<1> HIDE DEF N, F, G
<1> DEFINE More(q, r) == Len(r) = Len(q) + 1 /\ Chars(r) = Chars(q) + b
<1> DEFINE Now(n) == IF n < k THEN G[n] = F[n] ELSE More(F[n], G[n])
<1> DEFINE S == {n \in Nat : n <= N => Now(n)}
<1>6. ASSUME NEW q \in Seq(Event), NEW e \in Event
      PROVE  /\ Len(Append(q, e)) = Len(q) + 1 /\ Len(q) \in Nat
             /\ Chars(Append(q, e)) = Chars(q) + e.size.chars /\ Chars(q) \in Nat
  BY OneMore, CharsOfOneMore
<1>7. ASSUME NEW q \in Seq(Event), NEW r \in Seq(Event), NEW e \in Event, More(q, r)
      PROVE  More(Append(q, e), Append(r, e))
  <2>1. e.size.chars \in Nat  BY EventChars
  <2>2. Len(Append(r, e)) = Len(Append(q, e)) + 1  BY <1>6, <1>7
  <2>3. Chars(Append(r, e)) = Chars(r) + e.size.chars /\ Chars(Append(q, e)) = Chars(q) + e.size.chars
        /\ Chars(q) \in Nat /\ Chars(r) \in Nat
    BY <1>6
  <2>4. Chars(r) = Chars(q) + b  BY <1>7
  <2> HIDE DEF b
  <2>5. Chars(Append(r, e)) = Chars(Append(q, e)) + b  BY <1>4, <2>1, <2>3, <2>4
  <2>6. QED BY <2>2, <2>5
<1>8. 0 \in S
  <2>1. 0 < k  BY <1>4
  <2>2. QED BY <1>2, <2>1
<1>9. ASSUME NEW n \in Nat, n \in S PROVE n + 1 \in S
  <2> SUFFICES ASSUME n + 1 <= N PROVE Now(n + 1)  OBVIOUS
  <2>1. n + 1 \in 1 .. N /\ (n + 1) - 1 = n /\ n \in 0 .. N /\ n <= N  BY <1>1
  <2>2. Now(n)  BY <1>9, <2>1
  <2>3. F[n] \in Seq(Event) /\ G[n] \in Seq(Event) /\ es[n + 1] \in Event  BY <1>1, <1>2, <2>1
  <2>4. /\ F[n + 1] = IF es[n + 1] \in V THEN Append(F[n], es[n + 1]) ELSE F[n]
        /\ G[n + 1] = IF es[n + 1] \in W THEN Append(G[n], es[n + 1]) ELSE G[n]
    <3>1. /\ F[n + 1] = IF es[n + 1] \in V THEN Append(F[(n + 1) - 1], es[n + 1])
                        ELSE F[(n + 1) - 1]
          /\ G[n + 1] = IF es[n + 1] \in W THEN Append(G[(n + 1) - 1], es[n + 1])
                        ELSE G[(n + 1) - 1]
      BY <1>3, <2>1
    <3>2. QED BY <2>1, <3>1
  <2> HIDE DEF More, b
  <2>5. CASE n + 1 = k
    <3>1. G[n] = F[n] /\ es[n + 1] \notin V /\ es[n + 1] \in W  BY <1>4, <2>2, <2>5
    <3>2. F[n + 1] = F[n] /\ G[n + 1] = Append(F[n], es[n + 1])  BY <2>4, <3>1
    <3>3. More(F[n], Append(F[n], es[n + 1]))  BY <1>6, <2>3, <2>5 DEF More, b
    <3>4. QED BY <1>4, <2>5, <3>2, <3>3
  <2>6. CASE n + 1 < k
    <3>1. G[n] = F[n] /\ (es[n + 1] \in V <=> es[n + 1] \in W)
      BY <1>4, <1>5, <2>1, <2>2, <2>6
    <3>2. QED BY <2>4, <2>6, <3>1
  <2>7. CASE n + 1 > k
    <3>1. More(F[n], G[n]) /\ (es[n + 1] \in V <=> es[n + 1] \in W)
      BY <1>4, <1>5, <2>1, <2>2, <2>7
    <3>2. More(F[n + 1], G[n + 1])
      <4>1. CASE es[n + 1] \in V  BY <1>7, <2>3, <2>4, <3>1, <4>1
      <4>2. CASE es[n + 1] \notin V  BY <2>4, <3>1, <4>2
      <4>3. QED BY <4>1, <4>2
    <3>3. QED BY <1>4, <2>7, <3>2
  <2>8. QED BY <1>4, <2>5, <2>6, <2>7
<1> HIDE DEF S
<1>10. N \in S  BY <1>1, <1>8, <1>9, Induction
<1>11. More(F[N], G[N])  BY <1>1, <1>4, <1>10 DEF S
<1>12. QED BY <1>11, SelectIsLast DEF F, G, N

-----------------------------------------------------------------------------
(* What a pruning leaves. *)

\* The walk of Kept, from the newest event to the oldest.
Essentials(es) == SelectIn(es, EssentialEvents)

WalkStates == [places : Nat, chars : Nat, seqs : SUBSET (0 .. MaxSeq)]

WalkStart(es) ==
  [places |-> PlacesLeft(Essentials(es)),
   chars  |-> Less(MaxTurnEventBytes, Chars(Essentials(es))),
   seqs   |-> {}]

Takes(e, left) == Plain(e) /\ left.places > 0 /\ e.size.chars <= left.chars

WalkStep(es, n, left) ==
  LET e == es[Len(es) + 1 - n] IN
  IF Takes(e, left)
  THEN [places |-> left.places - 1,
        chars  |-> left.chars - e.size.chars,
        seqs   |-> left.seqs \cup {e.seq}]
  ELSE left

Walk(es) ==
  CHOOSE F : F = [n \in 0 .. Len(es) |->
                    IF n = 0 THEN WalkStart(es) ELSE WalkStep(es, n, F[n - 1])]

TakenBy(w) == {e \in Event : Essential(e) \/ e.seq \in w.seqs}

LEMMA KeptIsWalk ==
  ASSUME NEW es
  PROVE  Kept(es) = SelectIn(es, TakenBy(Walk(es)[Len(es)]))
BY DEF Kept, Walk, WalkStart, WalkStep, Takes, TakenBy, Essentials

LEMMA CharsType ==
  ASSUME NEW es \in Seq(Event)
  PROVE  Chars(es) \in Nat
<1>1. Len(es) \in 0 .. Len(es)  BY LenProperties
<1>2. QED BY <1>1, CharsIsLast, TotalsExist

LEMMA EssentialsType ==
  ASSUME NEW es \in Seq(Event)
  PROVE  Essentials(es) \in Seq(Event) /\ Chars(Essentials(es)) \in Nat
         /\ Len(Essentials(es)) \in Nat
<1>1. Essentials(es) \in Seq(Event)  BY SelectKeeps DEF Essentials
<1>2. QED BY <1>1, CharsType, LenProperties

LEMMA WalkStartType ==
  ASSUME NEW es \in Seq(Event)
  PROVE  WalkStart(es) \in WalkStates
<1>1. /\ PlacesLeft(Essentials(es)) \in Nat
      /\ Less(MaxTurnEventBytes, Chars(Essentials(es))) \in Nat
  BY EssentialsType, LimitsAssumption DEF PlacesLeft, Less
<1>2. QED BY <1>1 DEF WalkStart, WalkStates

LEMMA WalkStepType ==
  ASSUME NEW es \in Seq(Event), NEW n \in 1 .. Len(es), NEW left \in WalkStates
  PROVE  WalkStep(es, n, left) \in WalkStates
<1> DEFINE e == es[Len(es) + 1 - n]
<1>1. e \in Event
  <2>1. Len(es) \in Nat  BY LenProperties
  <2>2. Len(es) + 1 - n \in 1 .. Len(es)  BY <2>1
  <2>3. QED BY <2>2, ElementOfSeq
<1>2. e.seq \in 0 .. MaxSeq /\ e.size.chars \in Nat  BY <1>1, EventTyped, EventChars
<1>3. WalkStep(es, n, left) =
        IF Takes(e, left)
        THEN [places |-> left.places - 1, chars |-> left.chars - e.size.chars,
              seqs |-> left.seqs \cup {e.seq}]
        ELSE left
  BY DEF WalkStep
<1> HIDE DEF e
<1>4. CASE Takes(e, left)
  <2>1. left.places \in Nat /\ left.chars \in Nat /\ left.seqs \subseteq 0 .. MaxSeq
    BY DEF WalkStates
  <2>2. left.places - 1 \in Nat /\ left.chars - e.size.chars \in Nat
        /\ left.seqs \cup {e.seq} \subseteq 0 .. MaxSeq
    BY <1>2, <1>4, <2>1 DEF Takes
  <2>3. QED BY <1>3, <1>4, <2>2 DEF WalkStates
<1>5. QED BY <1>3, <1>4

\* The walk exists, and goes on as it is written.
LEMMA WalkExists ==
  ASSUME NEW es \in Seq(Event)
  PROVE  /\ Walk(es) \in [0 .. Len(es) -> WalkStates]
         /\ Walk(es)[0] = WalkStart(es)
         /\ \A i \in 1 .. Len(es) : Walk(es)[i] = WalkStep(es, i, Walk(es)[i - 1])
<1> DEFINE N == Len(es)
<1> DEFINE a == WalkStart(es)
<1> DEFINE step(n, left) == WalkStep(es, n, left)
<1> DEFINE Body(F) == [i \in 0 .. N |-> IF i = 0 THEN a ELSE step(i, F[i - 1])]
<1> DEFINE h == [p \in Nat \X WalkStates |-> IF p[1] < N THEN step(p[1] + 1, p[2]) ELSE a]
<1>0. /\ N \in Nat /\ a \in WalkStates
      /\ \A n \in 1 .. N, left \in WalkStates : step(n, left) \in WalkStates
  BY LenProperties, WalkStartType, WalkStepType
<1>00. Walk(es) = CHOOSE F : F = Body(F)  BY DEF Walk
<1> HIDE DEF N, a, step
<1>1. h \in StepFunctions(WalkStates)
  <2>1. ASSUME NEW p \in Nat \X WalkStates
        PROVE  (IF p[1] < N THEN step(p[1] + 1, p[2]) ELSE a) \in WalkStates
    <3>1. CASE p[1] < N
      <4>1. p[1] + 1 \in 1 .. N /\ p[2] \in WalkStates  BY <1>0, <3>1
      <4>2. QED BY <1>0, <3>1, <4>1
    <3>2. CASE ~(p[1] < N)  BY <1>0, <3>2
    <3>3. QED BY <3>1, <3>2
  <2>2. QED BY <2>1 DEF StepFunctions
<1>2. PICK g : RecursiveUpTo(g, N, WalkStates, a, h)
  <2> HIDE DEF h
  <2>1. QED BY <1>0, <1>1, RecursionUpTo
<1>3. /\ g \in [0 .. N -> WalkStates] /\ g[0] = a
      /\ \A i \in 1 .. N : g[i] = h[<<i - 1, g[i - 1]>>]
  <2> HIDE DEF h
  <2>1. QED BY <1>2 DEF RecursiveUpTo
<1>4. ASSUME NEW i \in 1 .. N PROVE g[i] = step(i, g[i - 1])
  <2> DEFINE p == <<i - 1, g[i - 1]>>
  <2>1. i - 1 \in 0 .. N /\ i - 1 < N /\ (i - 1) + 1 = i /\ i - 1 \in Nat  BY <1>0
  <2>2. p \in Nat \X WalkStates /\ p[1] = i - 1 /\ p[2] = g[i - 1]  BY <2>1, <1>3
  <2> HIDE DEF p
  <2>3. h[p] = IF p[1] < N THEN step(p[1] + 1, p[2]) ELSE a  BY <2>2
  <2> HIDE DEF h
  <2>4. h[p] = step(i, g[i - 1])  BY <2>1, <2>2, <2>3
  <2>5. g[i] = h[p]  BY <1>3 DEF p
  <2>6. QED BY <2>4, <2>5
<1> HIDE DEF h
<1>5. g = Body(g)
  <2>1. g[0] = a /\ g = [i \in 0 .. N |-> g[i]]  BY <1>3
  <2>2. ASSUME NEW i \in 0 .. N
        PROVE  g[i] = IF i = 0 THEN a ELSE step(i, g[i - 1])
    <3>1. CASE i = 0  BY <2>1, <3>1
    <3>2. CASE i # 0
      <4>1. i \in 1 .. N  BY <1>0, <3>2
      <4>2. QED BY <1>4, <3>2, <4>1
    <3>3. QED BY <3>1, <3>2
  <2>3. QED BY <2>1, <2>2
<1> DEFINE F == CHOOSE F : F = Body(F)
<1>6. F = Body(F)
  <2> HIDE DEF Body
  <2>1. QED BY <1>5
<1>7. F = Walk(es)  BY <1>00
<1> HIDE DEF F
<1>8. F[0] = a /\ DOMAIN F = 0 .. N /\ F = [i \in 0 .. N |-> F[i]]
  <2>1. Body(F)[0] = a /\ DOMAIN Body(F) = 0 .. N /\ Body(F) = [i \in 0 .. N |-> Body(F)[i]]
    BY <1>0
  <2> HIDE DEF Body
  <2>2. QED BY <1>6, <2>1
<1>9. ASSUME NEW i \in 1 .. N PROVE F[i] = step(i, F[i - 1])
  <2>1. i \in 0 .. N /\ i # 0  BY <1>0
  <2>2. Body(F)[i] = step(i, F[i - 1])  BY <2>1
  <2> HIDE DEF Body
  <2>3. QED BY <1>6, <2>2
<1> HIDE DEF Body
<1> DEFINE S == {i \in Nat : i <= N => F[i] \in WalkStates}
<1>10. 0 \in S  BY <1>0, <1>8
<1>11. ASSUME NEW n \in Nat, n \in S PROVE n + 1 \in S
  <2> SUFFICES ASSUME n + 1 <= N PROVE F[n + 1] \in WalkStates  OBVIOUS
  <2>1. n + 1 \in 1 .. N /\ (n + 1) - 1 = n /\ F[n] \in WalkStates  BY <1>0, <1>11
  <2>2. F[n + 1] = step(n + 1, F[n])
    <3>1. F[n + 1] = step(n + 1, F[(n + 1) - 1])  BY <1>9, <2>1
    <3>2. QED BY <2>1, <3>1
  <2>3. QED BY <1>0, <2>1, <2>2
<1> HIDE DEF S
<1>12. \A n \in Nat : n \in S  BY <1>10, <1>11, Induction
<1>13. F \in [0 .. N -> WalkStates]
  <2>1. \A i \in 0 .. N : F[i] \in WalkStates  BY <1>0, <1>12 DEF S
  <2>2. QED BY <1>8, <2>1
<1>14. \A i \in 1 .. N : Walk(es)[i] = WalkStep(es, i, Walk(es)[i - 1])
  BY <1>7, <1>9 DEF step
<1>15. QED BY <1>7, <1>8, <1>13, <1>14 DEF N, a

\* What the walk has taken so far: newer events, whose places and characters it has
\* accounted for, and none when there was nothing to give away.
Accounted(es, n) ==
  LET w    == Walk(es)[n]
      kept == SelectIn(es, TakenBy(w))
      base == Essentials(es)
  IN  /\ \A s \in w.seqs : \E i \in 1 .. Len(es) : i > Len(es) - n /\ es[i].seq = s
      /\ Len(kept) + w.places = Len(base) + WalkStart(es).places
      /\ Chars(kept) + w.chars = Chars(base) + WalkStart(es).chars
      /\ WalkStart(es).places = 0 \/ WalkStart(es).chars = 0 => w = WalkStart(es)

LEMMA AccountedStart ==
  ASSUME NEW es \in Seq(Event)
  PROVE  Accounted(es, 0)
<1>1. Walk(es)[0] = WalkStart(es)  BY WalkExists
<1>2. WalkStart(es).seqs = {}  BY DEF WalkStart
<1>3. TakenBy(WalkStart(es)) = EssentialEvents  BY <1>2 DEF TakenBy, EssentialEvents
<1>4. QED BY <1>1, <1>2, <1>3 DEF Accounted, Essentials

\* One step of the walk: the event it looks at has a number of its own, so
\* taking that number selects this event and no other.
LEMMA AccountedStep ==
  ASSUME NEW es \in Seq(Event), Increasing(es), NEW n \in Nat, n + 1 <= Len(es),
         Accounted(es, n)
  PROVE  Accounted(es, n + 1)
<1> DEFINE N == Len(es)
<1> DEFINE w == Walk(es)[n]
<1> DEFINE new == Walk(es)[n + 1]
<1> DEFINE k == N - n
<1> DEFINE e == es[k]
<1> DEFINE V == TakenBy(w)
<1> DEFINE W == TakenBy(new)
<1> DEFINE start == WalkStart(es)
<1>1. N \in Nat /\ k \in 1 .. N /\ N + 1 - (n + 1) = k /\ n \in 0 .. N /\ n + 1 \in 1 .. N
  BY LenProperties
<1>2. \A i \in 1 .. N : es[i] \in Event /\ es[i].seq \in Int
  <2>1. \A i \in 1 .. N : es[i] \in Event  BY ElementOfSeq
  <2>2. QED BY <2>1, EventTyped
<1>3. w \in WalkStates /\ start \in WalkStates  BY <1>1, WalkExists, WalkStartType
<1>4. new = WalkStep(es, n + 1, w)
  <2>1. (n + 1) - 1 = n  OBVIOUS
  <2>2. new = WalkStep(es, n + 1, Walk(es)[(n + 1) - 1])  BY <1>1, WalkExists
  <2>3. QED BY <2>1, <2>2
<1>5. new = IF Takes(e, w)
            THEN [places |-> w.places - 1, chars |-> w.chars - e.size.chars,
                  seqs |-> w.seqs \cup {e.seq}]
            ELSE w
  BY <1>1, <1>4 DEF WalkStep
<1>6. /\ \A s \in w.seqs : \E i \in 1 .. N : i > N - n /\ es[i].seq = s
      /\ Len(SelectIn(es, V)) + w.places = Len(Essentials(es)) + start.places
      /\ Chars(SelectIn(es, V)) + w.chars = Chars(Essentials(es)) + start.chars
      /\ start.places = 0 \/ start.chars = 0 => w = start
  BY DEF Accounted
<1>7. /\ w.places \in Nat /\ w.chars \in Nat /\ start.places \in Nat /\ start.chars \in Nat
      /\ Len(SelectIn(es, V)) \in Nat /\ Chars(SelectIn(es, V)) \in Nat
      /\ Len(Essentials(es)) \in Nat /\ Chars(Essentials(es)) \in Nat
  <2>1. SelectIn(es, V) \in Seq(Event)  BY SelectKeeps
  <2>2. Len(SelectIn(es, V)) \in Nat /\ Chars(SelectIn(es, V)) \in Nat
    BY <2>1, LenProperties, CharsType
  <2>3. QED BY <1>3, <2>2, EssentialsType DEF WalkStates
<1>8. e \in Event /\ e.size.chars \in Nat /\ e.size.chars # 0  BY <1>1, <1>2, EventChars
<1>9. SUFFICES
        /\ \A s \in new.seqs : \E i \in 1 .. N : i > N - (n + 1) /\ es[i].seq = s
        /\ Len(SelectIn(es, W)) + new.places = Len(Essentials(es)) + start.places
        /\ Chars(SelectIn(es, W)) + new.chars = Chars(Essentials(es)) + start.chars
        /\ start.places = 0 \/ start.chars = 0 => new = start
  BY DEF Accounted
<1>10. \A i \in 1 .. N : i # k => es[i].seq # e.seq
  <2> SUFFICES ASSUME NEW i \in 1 .. N, i # k PROVE es[i].seq # es[k].seq  OBVIOUS
  <2>1. es[i].seq < es[k].seq \/ es[k].seq < es[i].seq
    <3>1. i < k \/ k < i  BY <1>1
    <3>2. i \in 1 .. Len(es) /\ k \in 1 .. Len(es)  BY <1>1
    <3> HIDE DEF N, k
    <3>3. QED BY <3>1, <3>2 DEF Increasing
  <2>2. es[i].seq \in Int /\ es[k].seq \in Int  BY <1>1, <1>2
  <2>3. QED BY <2>1, <2>2
<1>11. e.seq \notin w.seqs
  <2> SUFFICES ASSUME e.seq \in w.seqs PROVE FALSE  OBVIOUS
  <2>1. PICK i \in 1 .. N : i > N - n /\ es[i].seq = e.seq  BY <1>6
  <2>2. i # k  BY <2>1
  <2>3. QED BY <1>10, <2>1, <2>2
<1> HIDE DEF w, new, e, start, V, W
<1>12. CASE ~Takes(e, w)
  <2>1. new = w /\ W = V  BY <1>5, <1>12 DEF V, W
  <2>2. \A i \in 1 .. N : i > N - n => i > N - (n + 1)  BY <1>1
  <2>3. QED BY <1>6, <2>1, <2>2
<1>13. CASE Takes(e, w)
  <2>1. Plain(e) /\ w.places > 0 /\ e.size.chars <= w.chars  BY <1>13 DEF Takes
  <2>2. new.places = w.places - 1 /\ new.chars = w.chars - e.size.chars
        /\ new.seqs = w.seqs \cup {e.seq}
    BY <1>5, <1>13
  <2>3. Len(SelectIn(es, W)) = Len(SelectIn(es, V)) + 1
        /\ Chars(SelectIn(es, W)) = Chars(SelectIn(es, V)) + e.size.chars
    <3>1. es[k] \notin V  BY <1>8, <1>11, <2>1 DEF V, TakenBy, Plain, e
    <3>2. es[k] \in W  BY <1>8, <2>2 DEF W, TakenBy, e
    <3>3. \A i \in 1 .. N : i # k => (es[i] \in V <=> es[i] \in W)
      BY <1>2, <1>10, <2>2 DEF V, W, TakenBy
    <3>4. k \in 1 .. Len(es)  BY <1>1
    <3> HIDE DEF k
    <3>5. QED BY <3>1, <3>2, <3>3, <3>4, OneMoreSelected DEF e
  <2>4. \A s \in new.seqs : \E i \in 1 .. N : i > N - (n + 1) /\ es[i].seq = s
    <3>1. \A i \in 1 .. N : i > N - n => i > N - (n + 1)  BY <1>1
    <3>2. k \in 1 .. N /\ k > N - (n + 1) /\ es[k].seq = e.seq  BY <1>1 DEF e
    <3>3. QED BY <1>6, <2>2, <3>1, <3>2
  <2>5. Len(SelectIn(es, W)) + new.places = Len(Essentials(es)) + start.places
    <3> DEFINE x == Len(SelectIn(es, V))
    <3> DEFINE y == Len(SelectIn(es, W))
    <3> DEFINE z == Len(Essentials(es))
    <3>1. x + w.places = z + start.places /\ y = x + 1 /\ x \in Nat /\ w.places \in Nat
      BY <1>6, <1>7, <2>3
    <3> SUFFICES y + new.places = z + start.places  OBVIOUS
    <3> HIDE DEF x, y, z
    <3>2. QED BY <2>2, <3>1
  <2>6. Chars(SelectIn(es, W)) + new.chars = Chars(Essentials(es)) + start.chars
    BY <1>6, <1>7, <1>8, <2>1, <2>2, <2>3
  <2>7. ~(start.places = 0 \/ start.chars = 0)  BY <1>6, <1>7, <1>8, <2>1
  <2>8. QED BY <2>4, <2>5, <2>6, <2>7
<1>14. QED BY <1>12, <1>13

\* A list that was pruned fits, or it is what the essential events are.
LEMMA KeptFits ==
  ASSUME NEW es \in Seq(Event), Increasing(es)
  PROVE  LET kept == Kept(es) IN
         /\ Len(kept) <= MaxTurnEvents \/ kept = SelectIn(kept, EssentialEvents)
         /\ Chars(kept) <= MaxTurnEventBytes \/ kept = SelectIn(kept, EssentialEvents)
<1> DEFINE N == Len(es)
<1> DEFINE w == Walk(es)[N]
<1> DEFINE kept == Kept(es)
<1> DEFINE base == Essentials(es)
<1> DEFINE start == WalkStart(es)
<1>1. N \in Nat  BY LenProperties
<1>2. Accounted(es, N)
  <2> DEFINE S == {n \in Nat : n <= N => Accounted(es, n)}
  <2>1. 0 \in S  BY AccountedStart
  <2>2. ASSUME NEW n \in Nat, n \in S PROVE n + 1 \in S
    <3> SUFFICES ASSUME n + 1 <= N PROVE Accounted(es, n + 1)  OBVIOUS
    <3>1. Accounted(es, n)  BY <1>1, <2>2
    <3>2. QED BY <3>1, AccountedStep
  <2> HIDE DEF S
  <2>3. N \in S  BY <1>1, <2>1, <2>2, Induction
  <2>4. QED BY <1>1, <2>3 DEF S
<1>3. kept = SelectIn(es, TakenBy(w))  BY KeptIsWalk
<1>4. /\ Len(kept) + w.places = Len(base) + start.places
      /\ Chars(kept) + w.chars = Chars(base) + start.chars
      /\ start.places = 0 \/ start.chars = 0 => w = start
  BY <1>2, <1>3 DEF Accounted
<1>5. /\ w.places \in Nat /\ w.chars \in Nat
      /\ Len(kept) \in Nat /\ Chars(kept) \in Nat /\ kept \in Seq(Event)
      /\ Len(base) \in Nat /\ Chars(base) \in Nat
      /\ MaxTurnEvents \in Nat /\ MaxTurnEventBytes \in Nat
  <2>1. kept \in Seq(Event)  BY <1>3, SelectKeeps
  <2>2. Len(kept) \in Nat /\ Chars(kept) \in Nat  BY <2>1, LenProperties, CharsType
  <2>3. w \in WalkStates  BY <1>1, WalkExists
  <2>4. QED BY <2>1, <2>2, <2>3, EssentialsType, LimitsAssumption DEF WalkStates
<1>6. /\ start.places = Less(MaxTurnEvents, Len(base))
      /\ start.chars = Less(MaxTurnEventBytes, Chars(base))
      /\ start.seqs = {}
  BY DEF WalkStart, PlacesLeft
<1>7. ASSUME w = start PROVE kept = SelectIn(kept, EssentialEvents)
  <2>1. TakenBy(w) = EssentialEvents  BY <1>6, <1>7 DEF TakenBy, EssentialEvents
  <2>2. kept = SelectIn(es, EssentialEvents)  BY <1>3, <2>1
  <2> HIDE DEF kept
  <2>3. ASSUME NEW i \in 1 .. Len(kept) PROVE kept[i] \in EssentialEvents
    <3> DEFINE x == kept[i]
    <3>1. \E j \in 1 .. Len(kept) : kept[j] = x  OBVIOUS
    <3> HIDE DEF x
    <3>2. (\E j \in 1 .. Len(kept) : kept[j] = x) <=>
            x \in EssentialEvents /\ \E j \in 1 .. Len(es) : es[j] = x
      BY <2>2, SelectElements
    <3>3. QED BY <3>1, <3>2 DEF x
  <2>4. QED BY <1>5, <2>3, SelectAll
<1> HIDE DEF kept, w, base, start
<1>8. Len(kept) <= MaxTurnEvents \/ kept = SelectIn(kept, EssentialEvents)
  <2>1. CASE MaxTurnEvents > Len(base)
    <3>1. start.places = MaxTurnEvents - Len(base)  BY <1>6, <2>1 DEF Less
    <3>2. QED BY <1>4, <1>5, <3>1
  <2>2. CASE ~(MaxTurnEvents > Len(base))
    <3>1. start.places = 0  BY <1>6, <2>2 DEF Less
    <3>2. QED BY <1>4, <1>7, <3>1
  <2>3. QED BY <2>1, <2>2
<1>9. Chars(kept) <= MaxTurnEventBytes \/ kept = SelectIn(kept, EssentialEvents)
  <2>1. CASE MaxTurnEventBytes > Chars(base)
    <3>1. start.chars = MaxTurnEventBytes - Chars(base)  BY <1>6, <2>1 DEF Less
    <3>2. QED BY <1>4, <1>5, <3>1
  <2>2. CASE ~(MaxTurnEventBytes > Chars(base))
    <3>1. start.chars = 0  BY <1>6, <2>2 DEF Less
    <3>2. QED BY <1>4, <1>7, <3>1
  <2>3. QED BY <2>1, <2>2
<1>10. QED BY <1>8, <1>9 DEF kept

\* What is pruned fits both limits, or consists of essential events: the walk
\* gives away exactly what these leave, for any limits and any list of events.
THEOREM PrunedTurnsFit == Spec => PruningFits
<1> DEFINE Fits(t) ==
      LET es == events'[t]
          essential == SelectIn(es, EssentialEvents)
      IN  NeedsPruning(t) =>
            /\ Len(es) <= MaxTurnEvents \/ es = essential
            /\ Chars(es) <= MaxTurnEventBytes \/ es = essential
<1> DEFINE Fine == Prune => \A t \in Turn : Fits(t)
<1>1. TypeOK /\ EventsMatchRow /\ [Next]_vars => [Fine]_vars
  <2> SUFFICES ASSUME TypeOK, EventsMatchRow, Prune, NEW t \in Turn, NeedsPruning(t)
               PROVE  Fits(t)
    OBVIOUS
  <2>1. events[t] \in Seq(Event) /\ Increasing(events[t])  BY MatchesIs DEF TypeOK, Matches
  <2>2. events'[t] = Kept(events[t])  BY DEF Prune
  <2>3. QED BY <2>1, <2>2, KeptFits
<1>2. QED BY <1>1, JournalTypesHold, TablesAgree, PTL DEF Spec, PruningFits

-----------------------------------------------------------------------------
(* The journal keeps its promise. *)

\* The statuses, as TurnPromise sees them.
Statuses == [t \in Turn |-> journal[t].status]

\* The promise speaks of the same states.
LEMMA SameStates == Promise!LiveStates = LiveStates /\ Promise!TurnState = TurnState
BY DEF Promise!LiveStates, LiveStates, Promise!TerminalStates, TerminalStates,
       Promise!TurnState, TurnState

LEMMA OneStatus ==
  ASSUME TypeOK, NEW u \in Turn, NEW row, journal' = [journal EXCEPT ![u] = row]
  PROVE  Statuses' = [Statuses EXCEPT ![u] = row.status]
BY DEF TypeOK, Statuses

\* The status of one turn moves, or it stays.
LEMMA MovesOrStays ==
  ASSUME TypeOK, NEW u \in Turn, NEW row, journal' = [journal EXCEPT ![u] = row],
         MayMove(journal[u].status, row.status)
  PROVE  [Promise!Next]_Statuses
<1>1. Statuses' = [Statuses EXCEPT ![u] = row.status]  BY OneStatus
<1>2. Statuses \in [Turn -> {journal[t].status : t \in Turn}] /\ Statuses[u] = journal[u].status
  BY DEF Statuses
<1>3. CASE row.status = journal[u].status  BY <1>1, <1>2, <1>3
<1>4. CASE journal[u].status \in LiveStates /\ row.status \in TurnState \ {"starting"}
  <2>1. Promise!Move(u, row.status)
    BY <1>1, <1>2, <1>4, SameStates DEF Promise!Move, Statuses
  <2>2. QED BY <1>4, <2>1, SameStates DEF Promise!Next
<1>5. QED BY <1>3, <1>4 DEF MayMove

LEMMA StepKeepsPromise ==
  ASSUME TypeOK, [Next]_vars
  PROVE  [Promise!Next]_Statuses
<1>0. MaxSeq \in Nat  BY LimitsAssumption
<1>1. ASSUME NEW t \in Turn PROVE journal[t] \in Rows(MaxSeq)  BY DEF TypeOK
<1>2. ASSUME NEW u \in Turn, CreateTurn(u) PROVE [Promise!Next]_Statuses
  <2>1. journal' = [journal EXCEPT ![u] = Created(journal[u])]  BY <1>2 DEF CreateTurn
  <2>2. CASE Exists(journal[u])
    <3>1. Created(journal[u]).status = journal[u].status  BY <2>2, CreatedMoves
    <3>2. QED BY <2>1, <3>1, MovesOrStays DEF MayMove
  <2>3. CASE ~Exists(journal[u])
    <3>1. Created(journal[u]).status = "starting"  BY <2>3, CreatedMoves
    <3>2. Statuses' = [Statuses EXCEPT ![u] = "starting"]  BY <2>1, <3>1, OneStatus
    <3>3. Statuses[u] = "absent"  BY <2>3 DEF Statuses, Exists
    <3>4. Promise!Begin(u)  BY <3>2, <3>3 DEF Promise!Begin, Statuses
    <3>5. QED BY <3>4 DEF Promise!Next
  <2>4. QED BY <2>2, <2>3
<1>3. ASSUME NEW u \in Turn, MarkCancellationRequested(u) PROVE [Promise!Next]_Statuses
  <2>1. journal' = [journal EXCEPT ![u] = CancelMarked(journal[u])]
    BY <1>3 DEF MarkCancellationRequested
  <2>2. CancelMarked(journal[u]).status = journal[u].status
    BY <1>0, <1>1, CancelMarkedMoves
  <2>3. QED BY <2>1, <2>2, MovesOrStays DEF MayMove
<1>4. ASSUME NEW u \in Turn, NEW e \in Event, AppendEvent(u, e) PROVE [Promise!Next]_Statuses
  <2> DEFINE new == Appended(journal[u], e.seq, StateOf(e.kind))
  <2>1. journal' = [journal EXCEPT ![u] = new]  BY <1>4 DEF AppendEvent
  <2>2. StateOf(e.kind) \in (TurnState \cup {"none"}) \ {"starting"}
    <3>1. e.kind \in EventKinds  BY LimitsAssumption DEF Event
    <3>2. QED BY <3>1, StateOfMoves
  <2>3. MayMove(journal[u].status, new.status)
    BY <1>0, <1>1, <2>2, EventTyped, AppendedMoves
  <2> HIDE DEF new
  <2>4. QED BY <2>1, <2>3, MovesOrStays
<1>5. ASSUME NEW u \in Turn, NEW state \in {"cancelling", "interrupted"}, UpdateState(u, state)
      PROVE  [Promise!Next]_Statuses
  <2> DEFINE new == Updated(journal[u], state)
  <2>1. journal' = [journal EXCEPT ![u] = new]  BY <1>5 DEF UpdateState
  <2>2. state \in TurnState \ {"starting"}  BY DEF TurnState, LiveStates, TerminalStates
  <2>3. MayMove(journal[u].status, new.status)  BY <1>0, <1>1, <2>2, UpdatedMoves
  <2> HIDE DEF new
  <2>4. QED BY <2>1, <2>3, MovesOrStays
<1>6. CASE MarkInterrupted
  <2>1. ASSUME NEW t \in Turn
        PROVE  Interrupted(journal[t]).status =
                 IF journal[t].status \in LiveStates THEN "interrupted" ELSE journal[t].status
    BY <1>0, <1>1, InterruptedMoves
  <2>2. Promise!Restart  BY <1>6, <2>1, SameStates DEF MarkInterrupted, Promise!Restart
  <2>3. QED BY <2>2 DEF Promise!Next
<1>7. ASSUME NEW s \in Session, DeleteJournal(s) PROVE [Promise!Next]_Statuses
  <2> DEFINE T == {t \in Turn : SessionOf[t] = s}
  <2>1. NoTurn.status = "absent"  BY DEF NoTurn
  <2>2. Promise!Forget(T)  BY <1>7, <2>1 DEF DeleteJournal, Promise!Forget
  <2>3. QED BY <2>2 DEF Promise!Next
<1>8. CASE Prune  BY <1>8 DEF Prune, Statuses
<1>9. CASE UNCHANGED vars  BY <1>9 DEF vars, Statuses
<1>10. QED BY <1>2, <1>3, <1>4, <1>5, <1>6, <1>7, <1>8, <1>9 DEF Next

\* The journal implements its promise: whatever its callers ask for, and in
\* whatever order, a terminal status is final and only a deletion makes a turn
\* disappear.
THEOREM JournalKeepsPromise == Spec => KeepsPromise
<1>1. Init => Promise!Init  BY DEF Init, Promise!Init, NoTurn
<1>2. TypeOK /\ [Next]_vars => [Promise!Next]_Statuses  BY StepKeepsPromise
<1>3. QED BY <1>1, <1>2, JournalTypesHold, PTL DEF Spec, KeepsPromise, Promise!Spec, Statuses
================================================================================

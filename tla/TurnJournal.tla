----------------------------- MODULE TurnJournal -----------------------------
(***************************************************************************)
(* The turn journal of db/turns.rs: one row per turn and the events that   *)
(* were persisted for it.  Each action is one method of Database, which    *)
(* runs as one transaction (of any process: SQLite serializes them).  The  *)
(* callers are left free: an event may come with any sequence number, and  *)
(* any state may be asked for at any time, as when an event is sent twice, *)
(* a loop writes after its session was deleted, or a second process starts.*)
(***************************************************************************)
EXTENDS TurnStates, Sequences, SequencesExt, Selection

CONSTANTS
  Turn,                \* turn ids
  Session,             \* session ids
  SessionOf,           \* the session of each turn
  MaxTurnEvents,       \* MAX_TURN_EVENTS
  MaxTurnEventBytes,   \* MAX_TURN_EVENT_BYTES
  Kinds,               \* bound: kinds of event that are appended
  Sizes,               \* bound: sizes of payloads, which are JSON texts, never empty
  MaxSeq               \* bound: sequence numbers

ASSUME SessionOfTurn == SessionOf \in [Turn -> Session]

ASSUME LimitsAssumption ==
  /\ MaxTurnEvents \in Nat /\ MaxTurnEventBytes \in Nat /\ MaxSeq \in Nat
  /\ Kinds \subseteq EventKinds
  /\ \A size \in Sizes : size.chars \in Nat \ {0} /\ size.bytes \in size.chars .. 4 * size.chars

VARIABLES
  journal,   \* [Turn -> row]: the table "turns"
  events     \* [Turn -> Seq(Event)]: the table "turn_events", in order of seq

vars == <<journal, events>>

\* The size of a payload is its characters and its bytes in UTF-8.
Event == [seq : 0 .. MaxSeq, kind : Kinds, size : Sizes]

-----------------------------------------------------------------------------
(* Pruning one turn. *)

\* Variant: the event that ends a successful turn is forgotten in the list.
EssentialButDone(e) == e.kind \in {"started", "error", "cancelled", "cancelling"}

Essential(e) == e.kind \in {"started", "error", "done", "cancelled", "cancelling"}

Plain(e) == ~Essential(e)

EssentialEvents == {e \in Event : Essential(e)}

\* What the code adds up and calls bytes: length() of a TEXT column of SQLite
\* counts characters.
Chars(es) ==
  LET total[i \in 0 .. Len(es)] == IF i = 0 THEN 0 ELSE total[i - 1] + es[i].size.chars
  IN  total[Len(es)]

\* a - b, or 0 when that would be negative (saturating_sub).
Less(a, b) == IF a > b THEN a - b ELSE 0

\* Variant: essential events take no place.
PlacesForAll(essential) == MaxTurnEvents

\* The places essential events leave to plain ones.
PlacesLeft(essential) == Less(MaxTurnEvents, Len(essential))

\* Essential events are kept.  A walk from the newest event to the oldest keeps a
\* plain one when a place is left and its characters fit in what is left, and then
\* it takes both.
Kept(es) ==
  LET essential == SelectIn(es, EssentialEvents)
      walk[n \in 0 .. Len(es)] ==
        IF n = 0
        THEN [places |-> PlacesLeft(essential),
              chars  |-> Less(MaxTurnEventBytes, Chars(essential)),
              seqs   |-> {}]
        ELSE LET left == walk[n - 1]
                 e    == es[Len(es) + 1 - n]
             IN  IF Plain(e) /\ left.places > 0 /\ e.size.chars <= left.chars
                 THEN [places |-> left.places - 1,
                       chars  |-> left.chars - e.size.chars,
                       seqs   |-> left.seqs \cup {e.seq}]
                 ELSE left
  IN  SelectIn(es, {e \in Event : Essential(e) \/ e.seq \in walk[Len(es)].seqs})

\* Variant: turns that still run are pruned as well.
NeedsPruningAnyway(t) ==
  /\ journal[t].lastSeq >= MaxTurnEvents
  /\ Len(events[t]) > MaxTurnEvents \/ Chars(events[t]) > MaxTurnEventBytes

\* The first test looks at the last sequence number only.
NeedsPruning(t) ==
  /\ journal[t].status \in TerminalStates
  /\ journal[t].lastSeq >= MaxTurnEvents
  /\ Len(events[t]) > MaxTurnEvents \/ Chars(events[t]) > MaxTurnEventBytes

-----------------------------------------------------------------------------
Init ==
  /\ journal = [t \in Turn |-> NoTurn]
  /\ events = [t \in Turn |-> <<>>]

CreateTurn(t) ==
  /\ journal' = [journal EXCEPT ![t] = Created(@)]
  /\ UNCHANGED events

\* append_turn_event_with_state: the event and the status, or neither.
AppendEvent(t, e) ==
  LET state == StateOf(e.kind) IN
  /\ Accepts(journal[t], e.seq, state)
  /\ journal' = [journal EXCEPT ![t] = Appended(@, e.seq, state)]
  /\ events' = [events EXCEPT ![t] = Append(@, e)]

\* update_turn_state, with the states its callers ask for.
UpdateState(t, state) ==
  /\ journal' = [journal EXCEPT ![t] = Updated(@, state)]
  /\ UNCHANGED events

MarkCancellationRequested(t) ==
  /\ journal' = [journal EXCEPT ![t] = CancelMarked(@)]
  /\ UNCHANGED events

\* mark_interrupted_turns.
MarkInterrupted ==
  /\ journal' = [t \in Turn |-> Interrupted(journal[t])]
  /\ UNCHANGED events

\* Variant: only the rows of "turns" are deleted.
DeleteRows(s) ==
  /\ journal' = [t \in Turn |-> IF SessionOf[t] = s THEN NoTurn ELSE journal[t]]
  /\ UNCHANGED events

\* delete_turn_journal, inside the transaction of delete_session.
DeleteJournal(s) ==
  /\ events' = [t \in Turn |-> IF SessionOf[t] = s THEN <<>> ELSE events[t]]
  /\ journal' = [t \in Turn |-> IF SessionOf[t] = s THEN NoTurn ELSE journal[t]]

\* prune_turn_journals: every turn in one transaction.
Prune ==
  /\ events' = [t \in Turn |-> IF NeedsPruning(t) THEN Kept(events[t]) ELSE events[t]]
  /\ UNCHANGED journal

Next ==
  \/ \E t \in Turn : CreateTurn(t) \/ MarkCancellationRequested(t)
  \/ \E t \in Turn, e \in Event : AppendEvent(t, e)
  \/ \E t \in Turn, state \in {"cancelling", "interrupted"} : UpdateState(t, state)
  \/ MarkInterrupted
  \/ \E s \in Session : DeleteJournal(s)
  \/ Prune

Spec == Init /\ [][Next]_vars

-----------------------------------------------------------------------------
(* Properties. *)

\* Rows and events have their types.
TypeOK ==
  /\ journal \in [Turn -> Rows(MaxSeq)]
  /\ events \in [Turn -> Seq(Event)]

\* The two tables agree: events belong to a row, their numbers increase and
\* none is above the row's last number, so a client that has seen up to some
\* number finds everything newer with list_turn_events_since.
EventsMatchRow ==
  \A t \in Turn :
    /\ events[t] # <<>> => Exists(journal[t])
    /\ \A i, j \in DOMAIN events[t] : i < j => events[t][i].seq < events[t][j].seq
    /\ \A i \in DOMAIN events[t] : events[t][i].seq <= journal[t].lastSeq

\* A terminal status an event brought is explained by an event that is still
\* there: pruning never takes the end of a turn away.
EndIsOnRecord ==
  \A t \in Turn : journal[t].status \in {"completed", "cancelled", "failed"} =>
    \E e \in Range(events[t]) : StateOf(e.kind) = journal[t].status

\* An event disappears with its row, or is a plain event of a terminal turn:
\* neither a running turn nor an essential event is touched by pruning.
OnlyPlainEventsGo ==
  [][\A t \in Turn : Exists(journal'[t]) =>
       \A e \in Range(events[t]) \ Range(events'[t]) :
         Plain(e) /\ journal[t].status \in TerminalStates]_vars

\* Pruning leaves a turn that has reached the number of events within both
\* limits, unless its essential events alone exceed them.  The second limit is
\* meant in bytes and kept in characters: in bytes the turn may be up to four
\* times as large.
PruningFits ==
  [][Prune => \A t \in Turn :
       LET es == events'[t]
           essential == SelectIn(es, EssentialEvents)
       IN  NeedsPruning(t) =>
             /\ Len(es) <= MaxTurnEvents \/ es = essential
             /\ Chars(es) <= MaxTurnEventBytes \/ es = essential]_vars

Promise == INSTANCE TurnPromise WITH status <- [t \in Turn |-> journal[t].status]

\* Whatever its callers ask for, the journal keeps its promise on the statuses.
KeepsPromise == Promise!Spec

-----------------------------------------------------------------------------
(* What a comment says and the code does not do. *)

\* The bytes of a list of events, as the limit means them.
Bytes(es) == FoldLeft(LAMBDA n, e : n + e.size.bytes, 0, es)

\* "No pruning is needed when neither the count nor the bytes are exceeded":
\* after a pruning a terminal turn is within the limit of bytes, unless its
\* essential events alone exceed it.
PruningBoundsBytes ==
  [][Prune => \A t \in Turn : journal[t].status \in TerminalStates =>
       \/ Bytes(events'[t]) <= MaxTurnEventBytes
       \/ events'[t] = SelectIn(events'[t], EssentialEvents)]_vars
==============================================================================

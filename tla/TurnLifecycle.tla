---------------------------- MODULE TurnLifecycle ----------------------------
(***************************************************************************)
(* The life of a turn in the desktop runtime, against everything else that *)
(* may touch its session: other turns, the session operations (clear,      *)
(* delete, compact, export), user cancellations, and other desktop         *)
(* processes that share the database.                                      *)
(*                                                                         *)
(* Two locks protect a session.  Each process keeps a map from session to  *)
(* the KIND of operation under way (active_sessions, "slots" here); the    *)
(* operating system keeps one exclusive file lock per session, shared by   *)
(* all processes.  Turns and operations are "actors": each takes the slot  *)
(* first, then the file lock, then works on the session.                   *)
(*                                                                         *)
(* The durable state is the database (sessions, the row of each turn, the  *)
(* last writer of each session's messages) and the file locks.  All else   *)
(* is memory of one process and is lost in a crash.                        *)
(***************************************************************************)
EXTENDS TurnStates, Sequences

CONSTANTS
  Instance,    \* desktop processes that share one database
  Session,     \* session ids
  Turn,        \* turn ids, one for each turn_send_message
  Op,          \* calls of the session commands (clear, delete, compact, export)
  Nobody,      \* no actor
  Sent,        \* bound: the kinds of event the engines send
  MaxSent,     \* bound: events an engine sends in one turn
  MaxCrashes   \* bound: crashes of processes in one behaviour

ASSUME ActorsDistinct == Turn \cap Op = {} /\ Nobody \notin Turn \cup Op

ASSUME BoundsAssumption ==
  Sent \subseteq EngineKinds \cup {"ask_user"} /\ MaxSent \in Nat /\ MaxCrashes \in Nat

Actor == Turn \cup Op

OpKinds == {"clear", "delete", "compact", "export"}

SlotKinds == OpKinds \cup {"turn"}

VARIABLES
  sess,      \* [Session -> {"new", "live", "deleted"}]: the table "sessions"
  journal,   \* [Turn -> row of "turns"]
  hist,      \* [Session -> Actor \cup {Nobody}]: who last wrote its messages
  flock,     \* [Session -> Actor \cup {Nobody}]: who holds the file lock
  up,        \* the processes that run
  crashes,   \* crashes so far
  slots,     \* [Instance -> [Session -> SlotKinds \cup {"free"}]]: active_sessions
  pc,        \* [Actor -> stage]
  at,        \* [Actor -> Instance]: the process it runs in
  on,        \* [Actor -> Session]: the session it works on
  kind,      \* [Actor -> SlotKinds]
  base,      \* [Actor -> Actor \cup {Nobody}]: hist when it loaded the messages
  engine,    \* [Turn -> {"none", "running", "closing", "ended"}]: the engine task
  aborted,   \* [Turn -> BOOLEAN]: abort() was called on that task
  token,     \* [Turn -> {"none", "armed", "fired"}]: its cancel_tokens entry
  chan,      \* [Turn -> Seq(EngineKinds)]: event channel from engine to loop
  asks,      \* [Turn -> {0, 1}]: questions in the ask_user channel
  sent,      \* [Turn -> Nat]: events the engine has sent
  seq        \* [Turn -> Nat]: the loop's next sequence number

durable == <<sess, journal, hist, flock>>
process == <<up, crashes, slots>>
actor   == <<pc, at, on, kind, base>>
task    == <<engine, aborted, token, chan, asks, sent, seq>>
vars    == <<durable, process, actor, task>>

-----------------------------------------------------------------------------
\* Stages.  An actor waits for the file lock in the first two, holds it in the
\* next ones, and has given everything back in "done" ("dead": its process
\* crashed).  A turn: created (new session only), slot, checked, locked,
\* journaled, loaded, spawned, loop, draining, joining, released, exiting.
\* An operation: slot, locked, snapped, applied.
Waiting == {"created", "slot", "checked"}

TurnHolding ==
  {"locked", "journaled", "loaded", "spawned", "loop", "draining", "joining",
   "released", "exiting"}

OpHolding == {"locked", "snapped", "applied"}

Stage == {"idle", "done", "dead"} \cup Waiting \cup TurnHolding \cup OpHolding

Finished == {"idle", "done", "dead"}

HoldsLock(a) == pc[a] \in TurnHolding \cup OpHolding

\* "released" and "exiting": the thread has given the slot back and still
\* holds the file lock; "created": it has no slot yet.
HoldsSlot(a) == pc[a] \notin Finished \cup {"created", "released", "exiting"}

\* The engine task can still run tools and write messages.
Alive(t) == engine[t] \in {"running", "closing"}

-----------------------------------------------------------------------------
Init ==
  /\ sess \in [Session -> {"new", "live"}]
  /\ journal = [t \in Turn |-> NoTurn]
  /\ hist = [s \in Session |-> Nobody]
  /\ flock = [s \in Session |-> Nobody]
  /\ up = {}
  /\ crashes = 0
  /\ slots = [i \in Instance |-> [s \in Session |-> "free"]]
  /\ pc = [a \in Actor |-> "idle"]
  /\ at = [a \in Actor |-> Nobody]
  /\ on = [a \in Actor |-> Nobody]
  /\ kind = [a \in Actor |-> "turn"]
  /\ base = [a \in Actor |-> Nobody]
  /\ engine = [t \in Turn |-> "none"]
  /\ aborted = [t \in Turn |-> FALSE]
  /\ token = [t \in Turn |-> "none"]
  /\ chan = [t \in Turn |-> <<>>]
  /\ asks = [t \in Turn |-> 0]
  /\ sent = [t \in Turn |-> 0]
  /\ seq = [t \in Turn |-> 0]

-----------------------------------------------------------------------------
(* What the actions are made of. *)

Goto(a, stage) == pc' = [pc EXCEPT ![a] = stage]

Begin(a, i, s, k, stage) ==
  /\ pc[a] = "idle"
  /\ i \in up
  /\ Goto(a, stage)
  /\ at' = [at EXCEPT ![a] = i]
  /\ on' = [on EXCEPT ![a] = s]
  /\ kind' = [kind EXCEPT ![a] = k]
  /\ UNCHANGED base

\* SessionOperationSlot::acquire, once the map is known to hold nothing for s.
TakeSlot(i, s, k) == slots' = [slots EXCEPT ![i][s] = k]

\* The map knows kinds and not owners: both releases (Drop of the slot, and
\* release_turn_occupancy) remove the entry when its kind is the one expected.
GiveSlot(a) ==
  slots' = [slots EXCEPT ![at[a]][on[a]] = IF @ = kind[a] THEN "free" ELSE @]

GiveLock(a) == flock' = [flock EXCEPT ![on[a]] = IF @ = a THEN Nobody ELSE @]

\* Variant: an event that is written twice under one number.
NotCounted(t) == UNCHANGED seq

\* seq += 1.
Counted(t) == seq' = [seq EXCEPT ![t] = @ + 1]

\* persist_event: a transaction that is refused is logged and forgotten.
Persist(t, k, rows) ==
  journal' = [rows EXCEPT ![t] = Appended(@, seq[t], StateOf(k))]

\* An early return of a command that holds its slot, and the lock or not yet.
Abandon(a) ==
  /\ GiveSlot(a)
  /\ GiveLock(a)
  /\ Goto(a, "done")
  /\ base' = [base EXCEPT ![a] = Nobody]
  /\ UNCHANGED <<sess, journal, hist, up, crashes, at, on, kind, task>>

-----------------------------------------------------------------------------
(* turn_send_message, up to the moment the turn has a thread of its own. *)

\* A message to a session on the screen.
SendToSession(t, i, s) ==
  /\ Begin(t, i, s, "turn", "slot")
  /\ sess[s] # "new"
  /\ slots[i][s] = "free"
  /\ TakeSlot(i, s, "turn")
  /\ UNCHANGED <<durable, up, crashes, task>>

\* get_session: a session deleted meanwhile ends the call.
FindSession(t) ==
  /\ pc[t] = "slot"
  /\ \/ /\ sess[on[t]] = "live"
        /\ Goto(t, "checked")
        /\ UNCHANGED <<durable, process, at, on, kind, base, task>>
     \/ /\ sess[on[t]] # "live"
        /\ Abandon(t)

\* A message that opens a session: the row is there, for all to see, before
\* the slot is taken.
SendToNewSession(t, i, s) ==
  /\ Begin(t, i, s, "turn", "created")
  /\ sess[s] = "new"
  /\ sess' = [sess EXCEPT ![s] = "live"]
  /\ UNCHANGED <<journal, hist, flock, process, task>>

TakeNewSessionSlot(t) ==
  /\ pc[t] = "created"
  /\ IF slots[at[t]][on[t]] = "free"
     THEN TakeSlot(at[t], on[t], "turn") /\ Goto(t, "checked")
     ELSE UNCHANGED slots /\ Goto(t, "done")
  /\ UNCHANGED <<durable, up, crashes, at, on, kind, base, task>>

\* Variant: the call goes on although the lock is held elsewhere.
LockSessionBlindly(t) ==
  /\ pc[t] = "checked"
  /\ flock' = [flock EXCEPT ![on[t]] = t]
  /\ Goto(t, "locked")
  /\ UNCHANGED <<sess, journal, hist, process, at, on, kind, base, task>>

\* db.session_lock never waits: a lock held elsewhere ends the call.
LockSession(t) ==
  /\ pc[t] = "checked"
  /\ \/ /\ flock[on[t]] = Nobody
        /\ flock' = [flock EXCEPT ![on[t]] = t]
        /\ Goto(t, "locked")
        /\ UNCHANGED <<sess, journal, hist, process, at, on, kind, base, task>>
     \/ /\ flock[on[t]] # Nobody
        /\ Abandon(t)

\* create_turn: the foreign key refuses a turn of a session that is gone.
CreateTurn(t) ==
  /\ pc[t] = "locked"
  /\ \/ /\ sess[on[t]] = "live"
        /\ journal' = [journal EXCEPT ![t] = Created(@)]
        /\ Goto(t, "journaled")
        /\ UNCHANGED <<sess, hist, flock, process, at, on, kind, base, task>>
     \/ /\ sess[on[t]] # "live"
        /\ Abandon(t)

\* load_messages: what the engine will take for the session's history.
LoadHistory(t) ==
  /\ pc[t] = "journaled"
  /\ base' = [base EXCEPT ![t] = hist[on[t]]]
  /\ Goto(t, "loaded")
  /\ UNCHANGED <<durable, process, at, on, kind, task>>

\* Variant: the slot was disarmed before everything that may fail.
PrepareFailsDisarmed(t) ==
  /\ pc[t] \in {"journaled", "loaded"}
  /\ GiveLock(t)
  /\ Goto(t, "done")
  /\ UNCHANGED <<sess, journal, hist, process, at, on, kind, base, task>>

\* The provider, the personalization, the messages or the hooks fail to load:
\* slot and lock are dropped, the row stays "starting".
PrepareFails(t) == pc[t] \in {"journaled", "loaded"} /\ Abandon(t)

\* The channels and the token are registered, the slot is disarmed, the thread
\* (which takes the file lock over) is spawned and the call returns.
SpawnThread(t) ==
  /\ pc[t] = "loaded"
  /\ token' = [token EXCEPT ![t] = "armed"]
  /\ Goto(t, "spawned")
  /\ UNCHANGED <<durable, up, crashes, slots, at, on, kind, base, engine, aborted,
                 chan, asks, sent, seq>>

-----------------------------------------------------------------------------
(* The thread of the turn, and the engine task it runs. *)

\* No runtime or no database in the thread: release_turn_occupancy.  The row
\* stays "starting".
ThreadFails(t) ==
  /\ pc[t] = "spawned"
  /\ GiveSlot(t)
  /\ token' = [token EXCEPT ![t] = "none"]
  /\ Goto(t, "exiting")
  /\ UNCHANGED <<durable, up, crashes, at, on, kind, base, engine, aborted, chan,
                 asks, sent, seq>>

StartEngine(t) ==
  /\ pc[t] = "spawned"
  /\ engine' = [engine EXCEPT ![t] = "running"]
  /\ Goto(t, "loop")
  /\ UNCHANGED <<durable, process, at, on, kind, base, aborted, token, chan, asks,
                 sent, seq>>

\* The engine sends an event; an unbounded channel takes it.  Once it said the
\* turn is done ("closing") it only says so again before it returns.
EngineSends(t, k) ==
  /\ Alive(t)
  /\ engine[t] = "closing" => k = "done"
  /\ sent[t] < MaxSent
  /\ sent' = [sent EXCEPT ![t] = @ + 1]
  /\ chan' = [chan EXCEPT ![t] = Append(@, k)]
  /\ engine' = [engine EXCEPT ![t] = IF k = "done" THEN "closing" ELSE @]
  /\ UNCHANGED <<durable, process, actor, aborted, token, asks, seq>>

\* The ask_user tool sends a question, and waits for its answer.
EngineAsks(t) ==
  /\ "ask_user" \in Sent
  /\ engine[t] = "running"
  /\ sent[t] < MaxSent
  /\ asks[t] = 0
  /\ sent' = [sent EXCEPT ![t] = @ + 1]
  /\ asks' = [asks EXCEPT ![t] = 1]
  /\ UNCHANGED <<durable, process, actor, engine, aborted, token, chan, seq>>

\* The engine saves messages: it appends what is new to what it loaded, or
\* rewrites the whole session from its own copy.
EngineSaves(t) ==
  /\ Alive(t)
  /\ hist' = [hist EXCEPT ![on[t]] = IF sess[on[t]] = "live" THEN t ELSE @]
  /\ UNCHANGED <<sess, journal, flock, process, actor, task>>

\* run_turn_streaming returns and the task ends; a failure is sent as an event.
EngineReturns(t) ==
  /\ Alive(t)
  /\ engine' = [engine EXCEPT ![t] = "ended"]
  /\ \E failure \in {<<>>, <<"error">>} : chan' = [chan EXCEPT ![t] = @ \o failure]
  /\ UNCHANGED <<durable, process, actor, aborted, token, asks, sent, seq>>

\* An aborted task is dropped at its next await.
EngineDropped(t) ==
  /\ Alive(t)
  /\ aborted[t]
  /\ engine' = [engine EXCEPT ![t] = "ended"]
  /\ UNCHANGED <<durable, process, actor, aborted, token, chan, asks, sent, seq>>

-----------------------------------------------------------------------------
(* run_desktop_turn_event_loop.  The cancel branch of its select! is never   *)
(* disabled, so the "else" that would leave the loop once both channels are  *)
(* closed cannot be taken, nor the branch after the loop for turns that were *)
(* not cancelled: an action for them would have no step in the program.      *)

TakeEvent(t) ==
  /\ pc[t] = "loop"
  /\ chan[t] # <<>>
  /\ Persist(t, Head(chan[t]), journal)
  /\ chan' = [chan EXCEPT ![t] = Tail(@)]
  /\ Counted(t)
  /\ UNCHANGED <<sess, hist, flock, up, crashes, slots, actor, engine, aborted,
                 token, asks, sent>>

TakeQuestion(t) ==
  /\ pc[t] = "loop"
  /\ asks[t] > 0
  /\ Persist(t, "ask_user", journal)
  /\ asks' = [asks EXCEPT ![t] = @ - 1]
  /\ Counted(t)
  /\ UNCHANGED <<sess, hist, flock, up, crashes, slots, actor, engine, aborted,
                 token, chan, sent>>

\* The token is seen: note the request, say "cancelling", start to drain.
TakeCancel(t) ==
  /\ pc[t] = "loop"
  /\ token[t] = "fired"
  /\ Persist(t, "cancelling", [journal EXCEPT ![t] = CancelMarked(@)])
  /\ Counted(t)
  /\ Goto(t, "draining")
  /\ UNCHANGED <<sess, hist, flock, up, crashes, slots, at, on, kind, base, engine,
                 aborted, token, chan, asks, sent>>

\* Both channels are closed, their late events dropped.
Drained(t) ==
  /\ pc[t] = "draining"
  /\ engine[t] = "ended"
  /\ chan' = [chan EXCEPT ![t] = <<>>]
  /\ asks' = [asks EXCEPT ![t] = 0]
  /\ Goto(t, "joining")
  /\ UNCHANGED <<durable, process, at, on, kind, base, engine, aborted, token, sent, seq>>

\* Variant: the loop stops to drain but lets the task run.
NotAborted(t) == UNCHANGED aborted

\* handle.abort() asks the task to stop; it does not stop it.
Abort(t) == aborted' = [aborted EXCEPT ![t] = TRUE]

\* Ten seconds were not enough.
DrainTimesOut(t) ==
  /\ pc[t] = "draining"
  /\ Alive(t)
  /\ Abort(t)
  /\ Goto(t, "joining")
  /\ UNCHANGED <<durable, process, at, on, kind, base, engine, token, chan, asks, sent, seq>>

\* Variant: abort() is taken for the end of the task.
JoinedOrAborted(t) == engine[t] = "ended" \/ aborted[t]

\* handle.await returns.
Joined(t) == engine[t] = "ended"

\* join_turn_then_release_occupancy.
JoinThenRelease(t) ==
  /\ pc[t] = "joining"
  /\ Joined(t)
  /\ GiveSlot(t)
  /\ token' = [token EXCEPT ![t] = "none"]
  /\ Goto(t, "released")
  /\ UNCHANGED <<durable, up, crashes, at, on, kind, base, engine, aborted,
                 chan, asks, sent, seq>>

SayCancelled(t) ==
  /\ pc[t] = "released"
  /\ Persist(t, "cancelled", journal)
  /\ Goto(t, "exiting")
  /\ UNCHANGED <<sess, hist, flock, up, crashes, slots, at, on, kind, base, task>>

\* The thread returns and drops its guard of the file lock.
ThreadExits(t) ==
  /\ pc[t] = "exiting"
  /\ GiveLock(t)
  /\ Goto(t, "done")
  /\ base' = [base EXCEPT ![t] = Nobody]
  /\ seq' = [seq EXCEPT ![t] = 0]
  /\ aborted' = [aborted EXCEPT ![t] = FALSE]
  /\ UNCHANGED <<sess, journal, hist, process, at, on, kind, engine, token, chan, asks, sent>>

-----------------------------------------------------------------------------
(* The user. *)

\* turn_cancel_request, from the window of process i, on any turn it can see
\* there (runs_list shows the turns of every process).  The journal may refuse
\* "cancelling"; the token is only in the process of the turn, and only while
\* it is registered.
RequestCancel(i, t) ==
  /\ i \in up
  /\ Exists(journal[t])
  /\ journal' = [journal EXCEPT ![t] = Updated(CancelMarked(@), "cancelling")]
  /\ token' = [token EXCEPT ![t] = IF at[t] = i /\ @ = "armed" THEN "fired" ELSE @]
  /\ UNCHANGED <<sess, hist, flock, up, crashes, slots, actor, engine, aborted, chan,
                 asks, sent, seq>>

-----------------------------------------------------------------------------
(* The session commands: sessions_clear_messages, sessions_delete,           *)
(* sessions_compact_local and _engine, sessions_export_markdown.             *)

OpBegins(o, i, s, k) ==
  /\ Begin(o, i, s, k, "slot")
  /\ sess[s] # "new"
  /\ slots[i][s] = "free"
  /\ TakeSlot(i, s, k)
  /\ UNCHANGED <<durable, up, crashes, task>>

\* Variants: a command that forgets the file lock, and one that waits for it.
OpLocksNothing(o) ==
  /\ pc[o] = "slot"
  /\ Goto(o, "locked")
  /\ UNCHANGED <<durable, process, at, on, kind, base, task>>

OpWaitsForLock(o) ==
  /\ pc[o] = "slot"
  /\ flock[on[o]] = Nobody
  /\ flock' = [flock EXCEPT ![on[o]] = o]
  /\ Goto(o, "locked")
  /\ UNCHANGED <<sess, journal, hist, process, at, on, kind, base, task>>

OpLocks(o) ==
  /\ pc[o] = "slot"
  /\ \/ /\ flock[on[o]] = Nobody
        /\ flock' = [flock EXCEPT ![on[o]] = o]
        /\ Goto(o, "locked")
        /\ UNCHANGED <<sess, journal, hist, process, at, on, kind, base, task>>
     \/ /\ flock[on[o]] # Nobody
        /\ Abandon(o)

\* All but delete give up on a session that is gone; compact and export read
\* the messages here.
OpReads(o) ==
  /\ pc[o] = "locked"
  /\ \/ /\ sess[on[o]] = "live" \/ kind[o] = "delete"
        /\ base' = [base EXCEPT ![o] = hist[on[o]]]
        /\ Goto(o, "snapped")
        /\ UNCHANGED <<durable, process, at, on, kind, task>>
     \/ /\ sess[on[o]] # "live" /\ kind[o] # "delete"
        /\ Abandon(o)

OpClears(o) ==
  /\ kind[o] = "clear"
  /\ hist' = [hist EXCEPT ![on[o]] = o]
  /\ UNCHANGED <<sess, journal>>

\* delete_session: one transaction over messages, journal and session.
OpDeletes(o) ==
  /\ kind[o] = "delete"
  /\ sess' = [sess EXCEPT ![on[o]] = "deleted"]
  /\ hist' = [hist EXCEPT ![on[o]] = Nobody]
  /\ journal' = [t \in Turn |-> IF on[t] = on[o] THEN NoTurn ELSE journal[t]]

\* A compaction that finds enough to compact rewrites the messages it read.
OpCompacts(o) ==
  /\ kind[o] = "compact"
  /\ hist' = [hist EXCEPT ![on[o]] = o]
  /\ UNCHANGED <<sess, journal>>

\* An export writes a file of its own; a compaction may find nothing to do, or fail.
OpLeavesAsIs(o) ==
  /\ kind[o] \in {"compact", "export"}
  /\ UNCHANGED <<sess, journal, hist>>

OpApplies(o) ==
  /\ pc[o] = "snapped"
  /\ OpClears(o) \/ OpDeletes(o) \/ OpCompacts(o) \/ OpLeavesAsIs(o)
  /\ Goto(o, "applied")
  /\ UNCHANGED <<flock, process, at, on, kind, base, task>>

\* The two guards are dropped, the lock first.
OpEnds(o) == pc[o] = "applied" /\ Abandon(o)

-----------------------------------------------------------------------------
(* Processes. *)

\* DesktopRuntime::new: whatever the journal still calls live is interrupted
\* (and the events of terminal turns pruned, which no row shows).
Start(i) ==
  /\ i \notin up
  /\ up' = up \cup {i}
  /\ journal' = [t \in Turn |-> Interrupted(journal[t])]
  /\ UNCHANGED <<sess, hist, flock, crashes, slots, actor, task>>

\* The process exits, at any time: its memory is gone, the system drops its locks.
Crash(i) ==
  LET lost == {a \in Actor : at[a] = i /\ pc[a] \notin Finished} IN
  /\ i \in up
  /\ crashes < MaxCrashes
  /\ crashes' = crashes + 1
  /\ up' = up \ {i}
  /\ pc' = [a \in Actor |-> IF a \in lost THEN "dead" ELSE pc[a]]
  /\ flock' = [s \in Session |-> IF flock[s] \in lost THEN Nobody ELSE flock[s]]
  /\ slots' = [slots EXCEPT ![i] = [s \in Session |-> "free"]]
  /\ engine' = [t \in Turn |-> IF t \in lost /\ engine[t] # "none" THEN "ended"
                               ELSE engine[t]]
  /\ token' = [t \in Turn |-> IF t \in lost THEN "none" ELSE token[t]]
  /\ base' = [a \in Actor |-> IF a \in lost THEN Nobody ELSE base[a]]
  /\ chan' = [t \in Turn |-> IF t \in lost THEN <<>> ELSE chan[t]]
  /\ asks' = [t \in Turn |-> IF t \in lost THEN 0 ELSE asks[t]]
  /\ seq' = [t \in Turn |-> IF t \in lost THEN 0 ELSE seq[t]]
  /\ aborted' = [t \in Turn |-> IF t \in lost THEN FALSE ELSE aborted[t]]
  /\ UNCHANGED <<sess, journal, hist, at, on, kind, sent>>

-----------------------------------------------------------------------------
Sends(t) ==
  \E i \in Instance, s \in Session : SendToSession(t, i, s) \/ SendToNewSession(t, i, s)

\* The code of a turn that runs whenever it can: the command, then the thread.
Prepares(t) ==
  \/ FindSession(t) \/ TakeNewSessionSlot(t) \/ LockSession(t) \/ CreateTurn(t)
  \/ LoadHistory(t) \/ PrepareFails(t) \/ SpawnThread(t)
  \/ ThreadFails(t) \/ StartEngine(t)

Loops(t) ==
  \/ TakeEvent(t) \/ TakeQuestion(t) \/ TakeCancel(t)
  \/ Drained(t) \/ DrainTimesOut(t) \/ JoinThenRelease(t)
  \/ SayCancelled(t) \/ ThreadExits(t)

EngineActs(t) ==
  \/ \E k \in Sent \cap EngineKinds : EngineSends(t, k)
  \/ EngineAsks(t) \/ EngineSaves(t) \/ EngineReturns(t) \/ EngineDropped(t)

Operates(o) == OpLocks(o) \/ OpReads(o) \/ OpApplies(o) \/ OpEnds(o)

Next ==
  \/ \E t \in Turn : Sends(t) \/ Prepares(t) \/ Loops(t) \/ EngineActs(t)
  \/ \E t \in Turn, i \in Instance : RequestCancel(i, t)
  \/ \E o \in Op, i \in Instance, s \in Session, k \in OpKinds : OpBegins(o, i, s, k)
  \/ \E o \in Op : Operates(o)
  \/ \E i \in Instance : Start(i) \/ Crash(i)

Spec == Init /\ [][Next]_vars

\* Straight-line code goes on, a task returns or is dropped once it was told to,
\* and the branch of the cancelled token is not passed over forever.  Nothing
\* makes users act, processes start, or an engine return of its own accord.
Fairness ==
  /\ \A t \in Turn :
       /\ WF_vars(Prepares(t))
       /\ WF_vars(Loops(t))
       /\ WF_vars(TakeCancel(t))
       /\ WF_vars(EngineDropped(t))
  /\ \A o \in Op : WF_vars(Operates(o))

FairSpec == Spec /\ Fairness

-----------------------------------------------------------------------------
(* Safety. *)

\* Every variable keeps its type, and an actor that has begun knows its
\* process and its session.
TypeOK ==
  /\ sess \in [Session -> {"new", "live", "deleted"}]
  /\ journal \in [Turn -> Rows(MaxSent + 2)]
  /\ hist \in [Session -> Actor \cup {Nobody}]
  /\ flock \in [Session -> Actor \cup {Nobody}]
  /\ up \subseteq Instance
  /\ crashes \in 0 .. MaxCrashes
  /\ slots \in [Instance -> [Session -> SlotKinds \cup {"free"}]]
  /\ pc \in [Actor -> Stage]
  /\ at \in [Actor -> Instance \cup {Nobody}]
  /\ on \in [Actor -> Session \cup {Nobody}]
  /\ kind \in [Actor -> SlotKinds]
  /\ base \in [Actor -> Actor \cup {Nobody}]
  /\ engine \in [Turn -> {"none", "running", "closing", "ended"}]
  /\ aborted \in [Turn -> BOOLEAN]
  /\ token \in [Turn -> {"none", "armed", "fired"}]
  /\ chan \in [Turn -> Seq(EngineKinds)]
  /\ asks \in [Turn -> {0, 1}]
  /\ sent \in [Turn -> 0 .. MaxSent]
  /\ seq \in [Turn -> 0 .. MaxSent + 2]
  /\ \A a \in Actor : pc[a] # "idle" => at[a] \in Instance /\ on[a] \in Session

\* At most one turn or command works on a session at a time, over all the
\* processes: the two locks, taken one after the other and given back by
\* different pieces of code, exclude each other's users.
SessionExclusion ==
  \A a, b \in Actor : a # b /\ HoldsLock(a) /\ HoldsLock(b) => on[a] # on[b]

\* As long as an engine task lives, its session is there, its journal row is
\* there, and its process still says "turn" for the session: nothing was given
\* back before the task was joined, not even when it had to be aborted.
EngineUndisturbed ==
  \A t \in Turn : Alive(t) =>
    /\ sess[on[t]] = "live"
    /\ Exists(journal[t])
    /\ slots[at[t]][on[t]] = "turn"

\* A slot, a file lock or a cancel token that is taken belongs to an actor that
\* still runs and will give it back: no failure path leaves one behind, and no
\* release by kind frees the slot of another actor.
NothingLeaks ==
  /\ \A i \in Instance, s \in Session : slots[i][s] # "free" =>
       \E a \in Actor : at[a] = i /\ on[a] = s /\ HoldsSlot(a) /\ kind[a] = slots[i][s]
  /\ \A a \in Actor : HoldsSlot(a) => slots[at[a]][on[a]] = kind[a]
  /\ \A s \in Session : flock[s] # Nobody => HoldsLock(flock[s]) /\ on[flock[s]] = s
  /\ \A t \in Turn : token[t] # "none" => HoldsSlot(t)

\* The messages an actor has loaded and works from.
WorksFrom(a) ==
  IF a \in Turn THEN pc[a] \in {"loaded", "spawned", "loop", "draining", "joining"}
  ELSE pc[a] = "snapped" /\ kind[a] \in {"compact", "export"}

\* Whoever works from a copy of the history is the only one to have written it
\* since: no rewrite of a snapshot loses messages of another turn, and no
\* engine goes on from a history that was cleared, compacted or deleted.
HistoryIsCurrent ==
  \A a \in Actor : WorksFrom(a) => hist[on[a]] \in {base[a], a}

\* The loop's next number is above everything its turn has in the journal, so
\* the journal never takes one of its events for a duplicate.
SeqAhead ==
  \A t \in Turn :
    pc[t] \in TurnHolding \ {"exiting"} => journal[t].lastSeq < seq[t]

\* A turn is "completed" only when its engine said so, and "cancelled" only
\* when a user asked for it and the engine task has ended: a restart or a
\* failure never makes up either.
TerminalIsEarned ==
  \A t \in Turn :
    /\ journal[t].status = "completed" => engine[t] \in {"closing", "ended"}
    /\ journal[t].status = "cancelled" => journal[t].cancelRequested /\ engine[t] = "ended"

-----------------------------------------------------------------------------
(* What makes the above inductive: see TurnLifecycle_proofs.                *)

\* What is on its way to the loop, the failure an engine may have reported when
\* it returned, and the loop's "cancelling".
Pending(t) == Len(chan[t]) + asks[t]

Failures(t) == IF engine[t] = "ended" THEN 1 ELSE 0

Stopping == {"draining", "joining", "released", "exiting"}

Stops(t) == IF pc[t] \in Stopping THEN 1 ELSE 0

\* What the loop has numbered, and what is on its way to it, was sent by the
\* engine, up to one failure and one cancellation: seq has a bound.
TurnBudget(t) ==
  /\ Pending(t) <= sent[t] + Failures(t)
  /\ seq[t] + Pending(t) <= sent[t] + Failures(t) + Stops(t)

Budget == \A t \in Turn : TurnBudget(t)

\* Whoever is in a stage that holds the lock is the lock's owner.
LockOwned == \A a \in Actor : HoldsLock(a) => flock[on[a]] = a

\* Whoever is in a stage that holds the slot finds its own kind there, and
\* shares the slot with nobody: this is what makes a release by kind safe.
SlotOwned ==
  /\ \A t \in Turn : kind[t] = "turn"
  /\ \A a \in Actor : HoldsSlot(a) => slots[at[a]][on[a]] = kind[a]
  /\ \A a, b \in Actor :
       HoldsSlot(a) /\ HoldsSlot(b) /\ at[a] = at[b] /\ on[a] = on[b] => a = b

\* An engine starts with the loop, and lives inside the stages that hold both locks.
EngineStages ==
  \A t \in Turn :
    /\ Alive(t) => pc[t] \in {"loop", "draining", "joining"}
    /\ engine[t] # "none" =>
         pc[t] \in {"loop", "draining", "joining", "released", "exiting", "done", "dead"}

\* From the stage on in which its row is created, a turn has it, and its session.
Recorded ==
  \A t \in Turn :
    pc[t] \in TurnHolding \ {"locked"} => sess[on[t]] = "live" /\ Exists(journal[t])

\* The strengthening of SeqAhead to the stages before the row is created.
Numbered ==
  \A t \in Turn : pc[t] \notin {"exiting", "done", "dead"} => journal[t].lastSeq < seq[t]

\* A token is registered from the start of the thread to the release.
Registered ==
  \A t \in Turn : token[t] # "none" => pc[t] \in {"spawned", "loop", "draining", "joining"}

\* The strengthening of TerminalIsEarned: what is on its way to the loop was said
\* by the engine, whoever stops has noted the request, and the loop has an engine,
\* which has ended where the slot is released.
Witnessed ==
  \A t \in Turn :
    /\ (\E n \in 1 .. Len(chan[t]) : chan[t][n] = "done") => engine[t] \in {"closing", "ended"}
    /\ pc[t] \in {"draining", "joining", "released"} => journal[t].cancelRequested
    /\ pc[t] \in {"loop", "draining", "joining"} => engine[t] # "none"
    /\ pc[t] = "released" => engine[t] = "ended"

IInv ==
  /\ TypeOK /\ Budget /\ EngineStages
  /\ LockOwned /\ SlotOwned /\ Recorded /\ Numbered /\ HistoryIsCurrent
  /\ NothingLeaks /\ Registered
  /\ TerminalIsEarned /\ Witnessed

-----------------------------------------------------------------------------
(* Refinement: the rows, seen through their status, keep the journal's promise. *)

Promise == INSTANCE TurnPromise WITH status <- [t \in Turn |-> journal[t].status]

\* Every step of the runtime is a step of TurnPromise or changes no status.
KeepsPromise == Promise!Spec

-----------------------------------------------------------------------------
(* Liveness. *)

\* A turn that is cancelled once its engine runs always ends: its slot and its
\* lock are given back and the journal shows a terminal status, even if the
\* engine ignores the token.  (A thread that fails to start leaves its row live.)
CancelEnds ==
  \A t \in Turn :
    token[t] = "fired" /\ engine[t] # "none" ~>
      \/ pc[t] = "dead"
      \/ pc[t] = "done" /\ ~Alive(t) /\ journal[t].status \notin LiveStates

\* A command that holds a slot always ends.
CommandsEnd == \A o \in Op : pc[o] = "slot" ~> pc[o] \in {"done", "dead"}

-----------------------------------------------------------------------------
(* What comments say of this code and the code does not do. *)

\* No path leaves a session taken for running forever: the slot of a turn
\* whose engine task has ended is given back.
RunningIsNotForever == \A t \in Turn : engine[t] = "ended" ~> ~HoldsSlot(t)

\* A process that starts interrupts what an earlier run has left behind, and
\* not a turn that another process is running.
InterruptsLeftovers ==
  [][\A t \in Turn :
       /\ journal[t].status \in LiveStates
       /\ journal'[t].status = "interrupted"
       => pc[t] \in {"done", "dead"}]_vars
=============================================================================

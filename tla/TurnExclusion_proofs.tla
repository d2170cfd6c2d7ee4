-------------------------- MODULE TurnExclusion_proofs --------------------------
(***************************************************************************)
(* The two locks of TurnLifecycle, for any number of processes, sessions,  *)
(* turns and commands.  LockOwned and SlotOwned say who finds what in the  *)
(* two maps; every action does one of six things to them, one lemma each.  *)
(* From there: at most one actor works on a session, an engine is not      *)
(* disturbed, a snapshot of the messages stays current.  SlotsHeld and     *)
(* LocksHeld are the converse, that what is taken has an owner, so nothing *)
(* leaks; and Earned follows each turn to a terminal status.               *)
(***************************************************************************)
EXTENDS TurnLifecycle_proofs

Owned == LockOwned /\ SlotOwned

\* Stages in which the lock is held, and stages without the slot.
LockStages == TurnHolding \cup OpHolding

NoSlotStages == Finished \cup {"created", "released", "exiting"}

\* What it means to hold the lock and the slot, now and after a step.
LEMMA Holders ==
  ASSUME NEW a \in Actor
  PROVE  /\ HoldsLock(a) <=> pc[a] \in LockStages
         /\ HoldsSlot(a) <=> pc[a] \notin NoSlotStages
         /\ HoldsLock(a)' <=> pc'[a] \in LockStages
         /\ HoldsSlot(a)' <=> pc'[a] \notin NoSlotStages
BY DEF HoldsLock, HoldsSlot, LockStages, NoSlotStages

\* The two sets of stages, written out.
LEMMA StageSets ==
  /\ LockStages = {"locked", "journaled", "loaded", "spawned", "loop", "draining", "joining",
                   "released", "exiting", "snapped", "applied"}
  /\ NoSlotStages = {"idle", "done", "dead", "created", "released", "exiting"}
BY DEF LockStages, NoSlotStages, TurnHolding, OpHolding, Finished

\* A kind of operation is never taken for a free slot.
LEMMA KindIsNotFree == ASSUME TypeOK, NEW a \in Actor PROVE kind[a] # "free"
BY DEF TypeOK, SlotKinds, OpKinds

\* An actor moves on: it holds nothing it did not hold before.
LEMMA MoveOwned ==
  ASSUME TypeOK, Owned, NEW a \in Actor, NEW stage, Goto(a, stage),
         UNCHANGED <<flock, slots, at, on, kind>>,
         stage \in LockStages => pc[a] \in LockStages,
         pc[a] \in NoSlotStages => stage \in NoSlotStages
  PROVE  Owned'
<1>1. pc' = [pc EXCEPT ![a] = stage] /\ pc \in [Actor -> Stage]
  BY DEF Goto, TypeOK
<1>2. \A b \in Actor : (HoldsLock(b)' => HoldsLock(b)) /\ (HoldsSlot(b)' => HoldsSlot(b))
  BY <1>1, Holders
<1>3. LockOwned'
  BY <1>2 DEF Owned, LockOwned
<1>4. SlotOwned'
  BY <1>2 DEF Owned, SlotOwned
<1> QED
  BY <1>3, <1>4 DEF Owned

\* An actor begins its work, with the slot or without it yet.
LEMMA BeginOwned ==
  ASSUME TypeOK, Owned, NEW a \in Actor, NEW i \in Instance, NEW s \in Session,
         NEW k \in SlotKinds, NEW stage, Begin(a, i, s, k, stage), UNCHANGED flock,
         a \in Turn => k = "turn",
         \/ stage = "created" /\ UNCHANGED slots
         \/ stage = "slot" /\ slots[i][s] = "free" /\ TakeSlot(i, s, k)
  PROVE  Owned'
<1>1. /\ pc[a] = "idle" /\ pc' = [pc EXCEPT ![a] = stage]
      /\ at' = [at EXCEPT ![a] = i] /\ on' = [on EXCEPT ![a] = s]
      /\ kind' = [kind EXCEPT ![a] = k]
  BY DEF Begin, Goto
<1>2. \A b \in Actor : b # a =>
        pc'[b] = pc[b] /\ at'[b] = at[b] /\ on'[b] = on[b] /\ kind'[b] = kind[b]
  BY <1>1 DEF TypeOK
<1>3. pc'[a] = stage /\ at'[a] = i /\ on'[a] = s /\ kind'[a] = k
  BY <1>1 DEF TypeOK
<1> USE Actors
<1>4. LockOwned'
  BY <1>2, <1>3, Holders, StageSets DEF Owned, LockOwned
<1>5. CASE stage = "created" /\ UNCHANGED slots
  <2>1. SlotOwned'
    BY <1>2, <1>3, <1>5, Holders, StageSets DEF Owned, SlotOwned
  <2> QED
    BY <1>4, <2>1 DEF Owned
<1>6. CASE stage = "slot" /\ slots[i][s] = "free" /\ TakeSlot(i, s, k)
  <2>1. \A b \in Actor : b # a /\ HoldsSlot(b)' => HoldsSlot(b) /\ at[b] \in Instance /\ on[b] \in Session
    BY <1>2, Holders, StageSets DEF TypeOK
  <2>2. \A b \in Actor : HoldsSlot(b) => ~(at[b] = i /\ on[b] = s)
    BY <1>6, KindIsNotFree DEF Owned, SlotOwned
  <2>3. slots' = [slots EXCEPT ![i][s] = k] /\ slots \in [Instance -> [Session -> SlotKinds \cup {"free"}]]
    BY <1>6 DEF TakeSlot, TypeOK
  <2>4. slots'[i][s] = k
    BY <2>3
  <2>5. \A j \in Instance, r \in Session : ~(j = i /\ r = s) => slots'[j][r] = slots[j][r]
    BY <2>3
  <2>6. \A b \in Actor : HoldsSlot(b)' => slots'[at'[b]][on'[b]] = kind'[b]
    BY <1>2, <1>3, <2>1, <2>2, <2>4, <2>5 DEF Owned, SlotOwned
  <2>7. \A b, c \in Actor :
          HoldsSlot(b)' /\ HoldsSlot(c)' /\ at'[b] = at'[c] /\ on'[b] = on'[c] => b = c
    BY <1>2, <1>3, <2>1, <2>2 DEF Owned, SlotOwned
  <2>8. \A t \in Turn : kind'[t] = "turn"
    BY <1>2, <1>3 DEF Owned, SlotOwned
  <2>9. SlotOwned'
    BY <2>6, <2>7, <2>8 DEF SlotOwned
  <2> QED
    BY <1>4, <2>9 DEF Owned
<1> QED
  BY <1>5, <1>6

\* A session that is new to everybody: the slot is taken after the beginning.
LEMMA TakeSlotOwned ==
  ASSUME TypeOK, Owned, NEW a \in Actor, pc[a] = "created", Goto(a, "checked"),
         slots[at[a]][on[a]] = "free", TakeSlot(at[a], on[a], kind[a]),
         UNCHANGED <<flock, at, on, kind>>
  PROVE  Owned'
<1>1. pc' = [pc EXCEPT ![a] = "checked"] /\ pc \in [Actor -> Stage]
  BY DEF Goto, TypeOK
<1>2. LockOwned'
  BY <1>1, Holders, StageSets DEF Owned, LockOwned
<1>3. at[a] \in Instance /\ on[a] \in Session
  BY DEF TypeOK
<1>4. \A b \in Actor : b # a /\ HoldsSlot(b)' => HoldsSlot(b) /\ at[b] \in Instance /\ on[b] \in Session
  BY <1>1, Holders, StageSets DEF TypeOK
<1>5. \A b \in Actor : HoldsSlot(b) => ~(at[b] = at[a] /\ on[b] = on[a])
  BY KindIsNotFree DEF Owned, SlotOwned
<1>6. /\ slots' = [slots EXCEPT ![at[a]][on[a]] = kind[a]]
      /\ slots \in [Instance -> [Session -> SlotKinds \cup {"free"}]]
  BY DEF TakeSlot, TypeOK
<1>7. slots'[at[a]][on[a]] = kind[a]
  BY <1>3, <1>6
<1>8. \A j \in Instance, r \in Session :
        ~(j = at[a] /\ r = on[a]) => slots'[j][r] = slots[j][r]
  BY <1>3, <1>6
<1>9. SlotOwned'
  BY <1>4, <1>5, <1>7, <1>8 DEF Owned, SlotOwned
<1> QED
  BY <1>2, <1>9 DEF Owned

\* An actor takes the file lock that nobody holds.
LEMMA TakeLockOwned ==
  ASSUME TypeOK, Owned, NEW a \in Actor, pc[a] \in {"checked", "slot"}, Goto(a, "locked"),
         flock[on[a]] = Nobody, flock' = [flock EXCEPT ![on[a]] = a],
         UNCHANGED <<slots, at, on, kind>>
  PROVE  Owned'
<1>1. pc' = [pc EXCEPT ![a] = "locked"] /\ pc \in [Actor -> Stage]
  BY DEF Goto, TypeOK
<1>2. on[a] \in Session
  BY DEF TypeOK
<1>3. \A b \in Actor : HoldsLock(b) => on[b] # on[a]
  BY Actors DEF Owned, LockOwned
<1>4. \A b \in Actor : b # a /\ HoldsLock(b)' => HoldsLock(b) /\ on[b] \in Session
  BY <1>1, Holders, StageSets DEF TypeOK
<1>5. LockOwned'
  BY <1>2, <1>3, <1>4 DEF LockOwned, Owned, TypeOK
<1>6. \A b \in Actor : HoldsSlot(b)' => HoldsSlot(b)
  BY <1>1, Holders, StageSets
<1>7. SlotOwned'
  BY <1>6 DEF Owned, SlotOwned
<1> QED
  BY <1>5, <1>7 DEF Owned

\* The effect of a release of the slot, by kind, on the others: none.
LEMMA GiveSlotOwned ==
  ASSUME TypeOK, SlotOwned, NEW a \in Actor, NEW stage \in NoSlotStages, Goto(a, stage),
         GiveSlot(a), HoldsSlot(a), UNCHANGED <<at, on, kind>>
  PROVE  SlotOwned'
<1>1. pc' = [pc EXCEPT ![a] = stage] /\ pc \in [Actor -> Stage]
  BY DEF Goto, TypeOK
<1>2. \A b \in Actor : HoldsSlot(b)' => HoldsSlot(b) /\ b # a
  BY <1>1, Holders
<1>3. \A b \in Actor : HoldsSlot(b) => at[b] \in Instance /\ on[b] \in Session
  BY Holders, StageSets DEF TypeOK
<1>4. \A j \in Instance, r \in Session :
        ~(j = at[a] /\ r = on[a]) => slots'[j][r] = slots[j][r]
  BY <1>3 DEF GiveSlot, TypeOK
<1> QED
  BY <1>2, <1>3, <1>4 DEF SlotOwned

\* The effect of a release of the lock on the others: none.
LEMMA GiveLockOwned ==
  ASSUME TypeOK, LockOwned, NEW a \in Actor, Goto(a, "done"), GiveLock(a), UNCHANGED on
  PROVE  LockOwned'
<1>1. pc' = [pc EXCEPT ![a] = "done"] /\ pc \in [Actor -> Stage]
  BY DEF Goto, TypeOK
<1>2. \A b \in Actor : HoldsLock(b)' => HoldsLock(b) /\ b # a /\ on[b] \in Session
  BY <1>1, Holders, StageSets DEF TypeOK
<1>3. \A s \in Session : flock[s] # a => flock'[s] = flock[s]
  BY DEF GiveLock, TypeOK
<1> QED
  BY <1>2, <1>3 DEF LockOwned

\* An early return gives both back.
LEMMA AbandonOwned ==
  ASSUME TypeOK, Owned, NEW a \in Actor, HoldsSlot(a), Abandon(a)
  PROVE  Owned'
<1>1. Goto(a, "done") /\ GiveSlot(a) /\ GiveLock(a) /\ UNCHANGED <<at, on, kind>>
  BY DEF Abandon
<1> QED
  BY <1>1, GiveSlotOwned, GiveLockOwned, StageSets DEF Owned

\* The command of a turn.
LEMMA SendOwned ==
  ASSUME TypeOK, Owned, NEW t \in Turn, Sends(t) \/ Prepares(t)
  PROVE  Owned'
<1> USE Actors, StageSets
<1>1. ASSUME NEW i \in Instance, NEW s \in Session, SendToSession(t, i, s)
      PROVE  Owned'
  <2>1. /\ Begin(t, i, s, "turn", "slot") /\ slots[i][s] = "free" /\ TakeSlot(i, s, "turn")
        /\ UNCHANGED flock
    BY <1>1 DEF SendToSession, durable
  <2> QED
    BY <2>1, BeginOwned, Names
<1>2. ASSUME NEW i \in Instance, NEW s \in Session, SendToNewSession(t, i, s)
      PROVE  Owned'
  <2>1. Begin(t, i, s, "turn", "created") /\ UNCHANGED <<flock, slots>>
    BY <1>2 DEF SendToNewSession, process
  <2> QED
    BY <2>1, BeginOwned, Names
<1>3. CASE FindSession(t)
  <2>1. CASE Abandon(t)
    BY <1>3, <2>1, AbandonOwned, Holders DEF FindSession
  <2>2. CASE ~Abandon(t)
    BY <1>3, <2>2, MoveOwned DEF FindSession, durable, process
  <2> QED
    BY <2>1, <2>2
<1>4. CASE TakeNewSessionSlot(t)
  <2>1. kind[t] = "turn" /\ pc[t] = "created" /\ UNCHANGED <<flock, at, on, kind>>
    BY <1>4 DEF TakeNewSessionSlot, durable, Owned, SlotOwned
  <2>2. CASE slots[at[t]][on[t]] = "free"
    BY <1>4, <2>1, <2>2, TakeSlotOwned DEF TakeNewSessionSlot
  <2>3. CASE slots[at[t]][on[t]] # "free"
    BY <1>4, <2>1, <2>3, MoveOwned DEF TakeNewSessionSlot
  <2> QED
    BY <2>2, <2>3
<1>5. CASE LockSession(t)
  <2>1. CASE Abandon(t)
    BY <1>5, <2>1, AbandonOwned, Holders DEF LockSession
  <2>2. CASE ~Abandon(t)
    BY <1>5, <2>2, TakeLockOwned DEF LockSession, process
  <2> QED
    BY <2>1, <2>2
<1>6. CASE CreateTurn(t)
  <2>1. CASE Abandon(t)
    BY <1>6, <2>1, AbandonOwned, Holders DEF CreateTurn
  <2>2. CASE ~Abandon(t)
    BY <1>6, <2>2, MoveOwned DEF CreateTurn, process
  <2> QED
    BY <2>1, <2>2
<1>7. CASE LoadHistory(t)
  BY <1>7, MoveOwned DEF LoadHistory, durable, process
<1>8. CASE PrepareFails(t)
  BY <1>8, AbandonOwned, Holders DEF PrepareFails
<1>9. CASE SpawnThread(t)
  BY <1>9, MoveOwned DEF SpawnThread, durable
<1>10. CASE ThreadFails(t)
  <2>1. /\ pc[t] = "spawned" /\ Goto(t, "exiting") /\ GiveSlot(t)
        /\ UNCHANGED <<flock, at, on, kind>>
    BY <1>10 DEF ThreadFails, durable
  <2>2. SlotOwned'
    BY <2>1, GiveSlotOwned, Holders DEF Owned
  <2>3. LockOwned'
    BY <2>1, Holders DEF Owned, LockOwned, Goto, TypeOK
  <2> QED
    BY <2>2, <2>3 DEF Owned
<1>11. CASE StartEngine(t)
  BY <1>11, MoveOwned DEF StartEngine, durable, process
<1> QED
  BY <1>1, <1>2, <1>3, <1>4, <1>5, <1>6, <1>7, <1>8, <1>9, <1>10, <1>11 DEF Sends, Prepares

\* Steps that move nobody and leave both maps alone.
LEMMA StillOwned ==
  ASSUME Owned, UNCHANGED <<flock, slots, pc, at, on, kind>>
  PROVE  Owned'
BY DEF Owned, LockOwned, SlotOwned, HoldsLock, HoldsSlot

\* An engine knows neither map.
LEMMA EngineOwned ==
  ASSUME Owned, NEW t \in Turn, EngineActs(t)
  PROVE  Owned'
<1>1. UNCHANGED <<flock, slots, pc, at, on, kind>>
  BY DEF EngineActs, EngineSends, EngineAsks, EngineSaves, EngineReturns, EngineDropped,
         durable, process, actor
<1> QED
  BY <1>1, StillOwned

\* The loop gives the slot back first, and the thread the lock at its very end.
LEMMA LoopOwned ==
  ASSUME TypeOK, Owned, NEW t \in Turn, Loops(t)
  PROVE  Owned'
<1> USE Actors, StageSets
<1>1. CASE TakeEvent(t) \/ TakeQuestion(t)
  BY <1>1, StillOwned DEF TakeEvent, TakeQuestion, actor
<1>2. CASE TakeCancel(t)
  BY <1>2, MoveOwned DEF TakeCancel
<1>3. CASE Drained(t)
  BY <1>3, MoveOwned DEF Drained, durable, process
<1>4. CASE DrainTimesOut(t)
  BY <1>4, MoveOwned DEF DrainTimesOut, durable, process
<1>5. CASE JoinThenRelease(t)
  <2>1. /\ pc[t] = "joining" /\ Goto(t, "released") /\ GiveSlot(t)
        /\ UNCHANGED <<flock, at, on, kind>>
    BY <1>5 DEF JoinThenRelease, durable
  <2>2. SlotOwned'
    BY <2>1, GiveSlotOwned, Holders DEF Owned
  <2>3. LockOwned'
    BY <2>1, Holders DEF Owned, LockOwned, Goto, TypeOK
  <2> QED
    BY <2>2, <2>3 DEF Owned
<1>6. CASE SayCancelled(t)
  BY <1>6, MoveOwned DEF SayCancelled
<1>7. CASE ThreadExits(t)
  <2>1. /\ pc[t] = "exiting" /\ Goto(t, "done") /\ GiveLock(t)
        /\ UNCHANGED <<slots, at, on, kind>>
    BY <1>7 DEF ThreadExits, process
  <2>2. SlotOwned'
    BY <2>1, Holders DEF Owned, SlotOwned, Goto, TypeOK
  <2>3. LockOwned'
    BY <2>1, GiveLockOwned DEF Owned
  <2> QED
    BY <2>2, <2>3 DEF Owned
<1> QED
  BY <1>1, <1>2, <1>3, <1>4, <1>5, <1>6, <1>7 DEF Loops

\* The session commands take the slot, then the lock, and give both back.
LEMMA OpOwned ==
  ASSUME TypeOK, Owned, NEW o \in Op
  PROVE  /\ \A i \in Instance, s \in Session, k \in OpKinds : OpBegins(o, i, s, k) => Owned'
         /\ Operates(o) => Owned'
<1> USE Actors, StageSets
<1>1. ASSUME NEW i \in Instance, NEW s \in Session, NEW k \in OpKinds, OpBegins(o, i, s, k)
      PROVE  Owned'
  <2>1. /\ Begin(o, i, s, k, "slot") /\ slots[i][s] = "free" /\ TakeSlot(i, s, k)
        /\ UNCHANGED flock
    BY <1>1 DEF OpBegins, durable
  <2> QED
    BY <2>1, BeginOwned, Names
<1>2. CASE OpLocks(o)
  <2>1. CASE Abandon(o)
    BY <1>2, <2>1, AbandonOwned, Holders DEF OpLocks
  <2>2. CASE ~Abandon(o)
    BY <1>2, <2>2, TakeLockOwned DEF OpLocks, process
  <2> QED
    BY <2>1, <2>2
<1>3. CASE OpReads(o)
  <2>1. CASE Abandon(o)
    BY <1>3, <2>1, AbandonOwned, Holders DEF OpReads
  <2>2. CASE ~Abandon(o)
    BY <1>3, <2>2, MoveOwned DEF OpReads, durable, process
  <2> QED
    BY <2>1, <2>2
<1>4. CASE OpApplies(o)
  BY <1>4, MoveOwned DEF OpApplies, process
<1>5. CASE OpEnds(o)
  BY <1>5, AbandonOwned, Holders DEF OpEnds
<1> QED
  BY <1>1, <1>2, <1>3, <1>4, <1>5 DEF Operates

\* A crash takes the actors of a process and what they hold, and nothing else.
LEMMA EnvironmentOwned ==
  ASSUME TypeOK, Owned, NEW i \in Instance
  PROVE  /\ \A t \in Turn : RequestCancel(i, t) => Owned'
         /\ Start(i) \/ Crash(i) => Owned'
<1>1. ASSUME NEW t \in Turn, RequestCancel(i, t) PROVE Owned'
  BY <1>1, StillOwned DEF RequestCancel, actor
<1>2. CASE Start(i)
  BY <1>2, StillOwned DEF Start, actor
<1>3. CASE Crash(i)
  <2> DEFINE lost == {a \in Actor : at[a] = i /\ pc[a] \notin Finished}
  <2>1. \A a \in Actor : a \notin lost /\ at[a] = i => pc[a] \in Finished
    OBVIOUS
  <2>2. /\ pc' = [a \in Actor |-> IF a \in lost THEN "dead" ELSE pc[a]]
        /\ flock' = [s \in Session |-> IF flock[s] \in lost THEN Nobody ELSE flock[s]]
        /\ slots' = [slots EXCEPT ![i] = [s \in Session |-> "free"]]
        /\ UNCHANGED <<at, on, kind>>
    BY <1>3 DEF Crash
  <2> HIDE DEF lost
  <2>3. \A a \in Actor : HoldsLock(a)' => a \notin lost /\ HoldsLock(a) /\ on[a] \in Session
    BY <2>2, Holders, StageSets DEF TypeOK
  <2>4. \A a \in Actor : HoldsSlot(a)' =>
          a \notin lost /\ HoldsSlot(a) /\ on[a] \in Session /\ at[a] \in Instance /\ at[a] # i
    BY <2>1, <2>2, Holders, StageSets DEF TypeOK, Finished
  <2>5. LockOwned'
    BY <2>2, <2>3 DEF Owned, LockOwned
  <2>6. SlotOwned'
    BY <2>2, <2>4 DEF Owned, SlotOwned, TypeOK
  <2> QED
    BY <2>5, <2>6 DEF Owned
<1> QED
  BY <1>1, <1>2, <1>3

\* Every step keeps both maps in order.
LEMMA OwnedStep ==
  ASSUME TypeOK, Owned, [Next]_vars
  PROVE  Owned'
<1>1. CASE UNCHANGED vars
  BY <1>1, StillOwned DEF vars, durable, process, actor
<1>2. CASE Next
  BY <1>2, SendOwned, EngineOwned, LoopOwned, OpOwned, EnvironmentOwned DEF Next
<1> QED
  BY <1>1, <1>2

-----------------------------------------------------------------------------
(* What follows at once. *)

\* The lock of a session has one owner.
LEMMA ExclusionFollows ==
  ASSUME LockOwned
  PROVE  SessionExclusion
BY DEF LockOwned, SessionExclusion

\* Two actors that hold locks work on different sessions.
LEMMA OthersElsewhere ==
  ASSUME LockOwned, NEW a \in Actor, NEW b \in Actor, a # b, HoldsLock(a), HoldsLock(b)
  PROVE  on[a] # on[b]
BY DEF LockOwned

\* The file lock excludes the turns and commands of all processes from each
\* other's session, however many there are of each.
THEOREM SessionsAreExclusive == Spec => []SessionExclusion
<1>1. Init => TypeInv /\ Owned
  <2>1. ASSUME Init PROVE Owned
    BY <2>1, StageSets, Holders, Actors DEF Init, Owned, LockOwned, SlotOwned
  <2> QED
    BY <2>1, TypeInit
<1>2. TypeInv /\ Owned /\ [Next]_vars => TypeInv' /\ Owned'
  BY TypeStep, OwnedStep DEF TypeInv
<1>3. Owned => SessionExclusion
  BY ExclusionFollows DEF Owned
<1> QED
  BY <1>1, <1>2, <1>3, PTL DEF Spec

-----------------------------------------------------------------------------
(* The row and the session of a turn at work. *)

\* Who has written a row, and holds the lock.
RecordedStages == TurnHolding \ {"locked"}

\* The stages in which the row is there, written out.
LEMMA RecordedStageSet ==
  RecordedStages = {"journaled", "loaded", "spawned", "loop", "draining", "joining", "released",
                    "exiting"}
BY DEF RecordedStages, TurnHolding

\* Rows stay and sessions live, and a turn gets to these stages from them only.
LEMMA MoveRecorded ==
  ASSUME TypeOK, Recorded,
         \A t \in Turn : pc'[t] \in RecordedStages =>
           /\ pc[t] \in RecordedStages
           /\ on'[t] = on[t]
           /\ sess'[on[t]] = sess[on[t]]
           /\ Exists(journal[t]) => Exists(journal'[t])
  PROVE  Recorded'
BY DEF Recorded, RecordedStages

\* What persist_event does to the rows.
LEMMA PersistExists ==
  ASSUME TypeOK, NEW t \in Turn, NEW k \in EventKinds, NEW rows \in [Turn -> Rows(MaxSent + 2)],
         Persist(t, k, rows), NEW u \in Turn
  PROVE  /\ Exists(journal'[u]) <=> Exists(rows[u])
         /\ u # t => journal'[u] = rows[u]
         /\ u = t => journal'[u].lastSeq \in {rows[u].lastSeq, seq[u]}
<1>1. /\ Exists(Appended(rows[t], seq[t], StateOf(k))) <=> Exists(rows[t])
      /\ Appended(rows[t], seq[t], StateOf(k)).lastSeq \in {rows[t].lastSeq, seq[t]}
  BY AppendedRow, StateOfType, TopSeq DEF TypeOK
<1>2. journal' = [rows EXCEPT ![t] = Appended(rows[t], seq[t], StateOf(k))]
  BY DEF Persist
<1> QED
  BY <1>1, <1>2

\* The command of a turn reaches these stages by creating the row.
LEMMA SendRecorded ==
  ASSUME TypeOK, Owned, Recorded, NEW t \in Turn, Sends(t) \/ Prepares(t)
  PROVE  Recorded'
<1> USE Actors, RecordedStageSet
<1>1. ASSUME NEW stage, Goto(t, stage), UNCHANGED <<journal, sess, on>>,
             stage \in RecordedStages => pc[t] \in RecordedStages
      PROVE  Recorded'
  <2>1. \A u \in Turn : pc'[u] \in RecordedStages => pc[u] \in RecordedStages
    BY <1>1 DEF Goto, TypeOK
  <2> QED
    BY <1>1, <2>1, MoveRecorded
<1>2. Abandon(t) => Recorded'
  BY <1>1 DEF Abandon
<1>3. ASSUME NEW i \in Instance, NEW s \in Session, NEW stage \in {"slot", "created"},
             Begin(t, i, s, "turn", stage), UNCHANGED journal,
             sess' = sess \/ (sess[s] = "new" /\ sess' = [sess EXCEPT ![s] = "live"])
      PROVE  Recorded'
  <2>1. pc'[t] = stage /\ \A u \in Turn : u # t => pc'[u] = pc[u] /\ on'[u] = on[u]
    BY <1>3 DEF Begin, Goto, TypeOK
  <2>2. \A r \in Session : sess[r] = "live" => sess'[r] = "live"
    BY <1>3 DEF TypeOK
  <2>3. \A u \in Turn : pc'[u] \in RecordedStages =>
          pc[u] \in RecordedStages /\ on'[u] = on[u] /\ on[u] \in Session
    BY <2>1 DEF TypeOK
  <2>4. ASSUME NEW u \in Turn, pc'[u] \in RecordedStages
        PROVE  sess'[on'[u]] = "live" /\ Exists(journal'[u])
    BY <1>3, <2>2, <2>3, <2>4 DEF Recorded, RecordedStages
  <2> QED
    BY <2>4 DEF Recorded, RecordedStages
<1>4. Sends(t) => Recorded'
  BY <1>3 DEF Sends, SendToSession, SendToNewSession, durable
<1>5. FindSession(t) => Recorded'
  BY <1>1, <1>2 DEF FindSession, durable
<1>6. TakeNewSessionSlot(t) => Recorded'
  BY <1>1 DEF TakeNewSessionSlot, durable
<1>7. LockSession(t) => Recorded'
  BY <1>1, <1>2 DEF LockSession
<1>8. ASSUME CreateTurn(t) PROVE Recorded'
  <2>1. CASE Abandon(t)
    BY <1>2, <2>1
  <2>2. CASE ~Abandon(t)
    <3>1. /\ sess[on[t]] = "live" /\ Goto(t, "journaled") /\ UNCHANGED <<sess, on>>
          /\ journal' = [journal EXCEPT ![t] = Created(@)]
      BY <1>8, <2>2 DEF CreateTurn
    <3>2. Exists(journal'[t]) /\ \A u \in Turn : u # t => journal'[u] = journal[u]
      BY <3>1, CreatedRow, TopSeq DEF TypeOK
    <3>3. \A u \in Turn : u # t => pc'[u] = pc[u]
      BY <3>1 DEF Goto, TypeOK
    <3> QED
      BY <3>1, <3>2, <3>3 DEF Recorded
  <2> QED
    BY <2>1, <2>2
<1>9. LoadHistory(t) => Recorded'
  BY <1>1 DEF LoadHistory, durable
<1>10. PrepareFails(t) => Recorded'
  BY <1>2 DEF PrepareFails
<1>11. SpawnThread(t) => Recorded'
  BY <1>1 DEF SpawnThread, durable
<1>12. ThreadFails(t) => Recorded'
  BY <1>1 DEF ThreadFails, durable
<1>13. StartEngine(t) => Recorded'
  BY <1>1 DEF StartEngine, durable
<1> QED
  BY <1>4, <1>5, <1>6, <1>7, <1>8, <1>9, <1>10, <1>11, <1>12, <1>13 DEF Prepares

\* The loop writes to rows and removes none.
LEMMA LoopRecorded ==
  ASSUME TypeOK, Recorded, NEW t \in Turn, Loops(t)
  PROVE  Recorded'
<1> USE Actors, RecordedStageSet
<1>1. UNCHANGED <<sess, on>>
  BY DEF Loops, TakeEvent, TakeQuestion, TakeCancel, Drained, DrainTimesOut, JoinThenRelease,
         SayCancelled, ThreadExits, durable, actor
<1>2. \A u \in Turn : pc'[u] \in RecordedStages => pc[u] \in RecordedStages
  BY DEF Loops, TakeEvent, TakeQuestion, TakeCancel, Drained, DrainTimesOut, JoinThenRelease,
         SayCancelled, ThreadExits, actor, Goto, TypeOK
<1>3. \A u \in Turn : Exists(journal[u]) => Exists(journal'[u])
  <2>1. CASE TakeEvent(t)
    <3>1. Head(chan[t]) \in EventKinds
      <4>1. chan[t] \in Seq(EngineKinds) /\ chan[t] # <<>>
        BY <2>1 DEF TakeEvent, TypeOK
      <4> QED
        BY <4>1, HeadTailProperties DEF EventKinds
    <3> QED
      BY <2>1, <3>1, PersistExists DEF TakeEvent, TypeOK
  <2>2. CASE TakeQuestion(t)
    BY <2>2, PersistExists DEF TakeQuestion, TypeOK, EventKinds
  <2>3. CASE TakeCancel(t)
    <3> DEFINE rows == [journal EXCEPT ![t] = CancelMarked(@)]
    <3>1. CancelMarked(journal[t]) \in Rows(MaxSent + 2)
          /\ (Exists(CancelMarked(journal[t])) <=> Exists(journal[t]))
      BY CancelMarkedRow, TopSeq DEF TypeOK
    <3>2. rows \in [Turn -> Rows(MaxSent + 2)]
          /\ \A u \in Turn : Exists(rows[u]) <=> Exists(journal[u])
      BY <3>1 DEF TypeOK
    <3>3. Persist(t, "cancelling", rows) /\ "cancelling" \in EventKinds
      BY <2>3 DEF TakeCancel, EventKinds
    <3> HIDE DEF rows
    <3> QED
      BY <3>2, <3>3, PersistExists
  <2>4. CASE Drained(t) \/ DrainTimesOut(t) \/ JoinThenRelease(t) \/ ThreadExits(t)
    BY <2>4 DEF Drained, DrainTimesOut, JoinThenRelease, ThreadExits, durable
  <2>5. CASE SayCancelled(t)
    BY <2>5, PersistExists DEF SayCancelled, TypeOK, EventKinds
  <2> QED
    BY <2>1, <2>2, <2>3, <2>4, <2>5 DEF Loops
<1> QED
  BY <1>1, <1>2, <1>3, MoveRecorded

\* A deletion holds the lock of the session it deletes, so no turn at work is on it.
LEMMA OpRecorded ==
  ASSUME TypeOK, Owned, Recorded, NEW o \in Op
  PROVE  /\ \A i \in Instance, s \in Session, k \in OpKinds : OpBegins(o, i, s, k) => Recorded'
         /\ Operates(o) => Recorded'
<1> USE Actors, RecordedStageSet
<1>1. ASSUME NEW stage, Goto(o, stage), UNCHANGED <<journal, sess>>,
             \A t \in Turn : on'[t] = on[t]
      PROVE  Recorded'
  <2>1. \A t \in Turn : pc'[t] = pc[t]
    BY <1>1 DEF Goto, TypeOK
  <2> QED
    BY <1>1, <2>1, MoveRecorded
<1>2. Abandon(o) => Recorded'
  BY <1>1 DEF Abandon
<1>3. ASSUME NEW i \in Instance, NEW s \in Session, NEW k \in OpKinds, OpBegins(o, i, s, k)
      PROVE  Recorded'
  <2>1. \A t \in Turn : on'[t] = on[t]
    BY <1>3 DEF OpBegins, Begin, TypeOK
  <2> QED
    BY <1>1, <1>3, <2>1 DEF OpBegins, Begin, durable
<1>4. OpLocks(o) => Recorded'
  BY <1>1, <1>2 DEF OpLocks
<1>5. OpReads(o) => Recorded'
  BY <1>1, <1>2 DEF OpReads, durable
<1>6. ASSUME OpApplies(o) PROVE Recorded'
  <2>1. pc[o] = "snapped" /\ Goto(o, "applied") /\ UNCHANGED on
    BY <1>6 DEF OpApplies
  <2>2. CASE OpDeletes(o)
    <3>1. \A t \in Turn : pc'[t] = pc[t]
      BY <2>1 DEF Goto, TypeOK
    <3>2. \A t \in Turn : pc[t] \in RecordedStages => on[t] # on[o]
      BY <2>1, OthersElsewhere, Holders, StageSets DEF Owned
    <3>3. /\ sess' = [sess EXCEPT ![on[o]] = "deleted"]
          /\ journal' = [t \in Turn |-> IF on[t] = on[o] THEN NoTurn ELSE journal[t]]
      BY <2>2 DEF OpDeletes
    <3>4. \A t \in Turn : pc[t] \in RecordedStages =>
            sess'[on[t]] = sess[on[t]] /\ journal'[t] = journal[t]
      BY <3>2, <3>3 DEF TypeOK
    <3> QED
      BY <2>1, <3>1, <3>4, MoveRecorded
  <2>3. CASE ~OpDeletes(o)
    BY <1>1, <1>6, <2>1, <2>3 DEF OpApplies, OpClears, OpCompacts, OpLeavesAsIs
  <2> QED
    BY <2>2, <2>3
<1>7. OpEnds(o) => Recorded'
  BY <1>2 DEF OpEnds
<1> QED
  BY <1>3, <1>4, <1>5, <1>6, <1>7 DEF Operates

\* Engines, users, starts and crashes remove neither rows nor sessions.
LEMMA OtherRecorded ==
  ASSUME TypeOK, Recorded
  PROVE  /\ \A t \in Turn : EngineActs(t) => Recorded'
         /\ \A t \in Turn, i \in Instance : RequestCancel(i, t) => Recorded'
         /\ \A i \in Instance : Start(i) \/ Crash(i) => Recorded'
         /\ UNCHANGED vars => Recorded'
<1> USE Actors, RecordedStageSet
<1>1. ASSUME UNCHANGED <<pc, on, sess, journal>> PROVE Recorded'
  BY <1>1, MoveRecorded
<1>2. ASSUME NEW t \in Turn, EngineActs(t) PROVE Recorded'
  <2>1. CASE \E k \in EngineKinds : EngineSends(t, k)
    BY <1>1, <2>1 DEF EngineSends, durable, actor
  <2>2. CASE EngineAsks(t) \/ EngineReturns(t) \/ EngineDropped(t)
    BY <1>1, <2>2 DEF EngineAsks, EngineReturns, EngineDropped, durable, actor
  <2>3. CASE EngineSaves(t)
    BY <1>1, <2>3 DEF EngineSaves, actor
  <2> QED
    BY <1>2, <2>1, <2>2, <2>3 DEF EngineActs
<1>3. ASSUME NEW t \in Turn, NEW i \in Instance, RequestCancel(i, t) PROVE Recorded'
  <2>1. "cancelling" \in TurnState
    BY DEF TurnState, LiveStates
  <2>2. Exists(Updated(CancelMarked(journal[t]), "cancelling")) <=> Exists(journal[t])
    BY <2>1, CancelMarkedRow, UpdatedRow, TopSeq DEF TypeOK
  <2>3. \A u \in Turn : Exists(journal[u]) => Exists(journal'[u])
    BY <1>3, <2>2 DEF RequestCancel, TypeOK
  <2> QED
    BY <1>3, <2>3, MoveRecorded DEF RequestCancel, actor
<1>4. ASSUME NEW i \in Instance, Start(i) PROVE Recorded'
  <2>1. \A u \in Turn : Exists(journal[u]) => Exists(journal'[u])
    BY <1>4, InterruptedRow, TopSeq DEF Start, TypeOK
  <2> QED
    BY <1>4, <2>1, MoveRecorded DEF Start, actor
<1>5. ASSUME NEW i \in Instance, Crash(i) PROVE Recorded'
  <2>1. \A u \in Turn : pc'[u] \in RecordedStages => pc[u] \in RecordedStages
    BY <1>5 DEF Crash
  <2> QED
    BY <1>5, <2>1, MoveRecorded DEF Crash
<1> QED
  BY <1>1, <1>2, <1>3, <1>4, <1>5 DEF vars, durable, actor

\* Every step keeps rows and sessions where a turn is at work.
LEMMA RecordedStep ==
  ASSUME TypeOK, Owned, Recorded, [Next]_vars
  PROVE  Recorded'
BY SendRecorded, LoopRecorded, OpRecorded, OtherRecorded DEF Next

-----------------------------------------------------------------------------
(* The numbers of the loop are ahead of those in the journal. *)

Gone == {"exiting", "done", "dead"}

\* Steps that keep the numbers of the turns that are not gone.
LEMMA MoveNumbered ==
  ASSUME Numbered,
         \A t \in Turn : pc'[t] \notin Gone =>
           pc[t] \notin Gone /\ seq'[t] = seq[t] /\ journal'[t].lastSeq = journal[t].lastSeq
  PROVE  Numbered'
BY DEF Numbered, Gone

\* The command of a turn uses no number, and creates a row without events.
LEMMA SendNumbered ==
  ASSUME TypeOK, Numbered, NEW t \in Turn, Sends(t) \/ Prepares(t)
  PROVE  Numbered'
<1>1. UNCHANGED seq
  BY DEF Sends, SendToSession, SendToNewSession, Prepares, FindSession, TakeNewSessionSlot,
         LockSession, CreateTurn, LoadHistory, PrepareFails, Abandon, SpawnThread,
         ThreadFails, StartEngine, task
<1>2. pc[t] \notin Gone /\ \A u \in Turn : u # t => pc'[u] = pc[u]
  BY Actors DEF Sends, SendToSession, SendToNewSession, Begin, Prepares, FindSession,
         TakeNewSessionSlot, LockSession, CreateTurn, LoadHistory, PrepareFails, Abandon,
         SpawnThread, ThreadFails, StartEngine, Goto, Gone, TypeOK
<1>3. ASSUME CreateTurn(t) PROVE \A u \in Turn : journal'[u].lastSeq = journal[u].lastSeq
  <2>1. Created(journal[t]).lastSeq = journal[t].lastSeq
    BY CreatedRow, TopSeq DEF TypeOK
  <2> QED
    BY <1>3, <2>1 DEF CreateTurn, Abandon, TypeOK
<1>4. \A u \in Turn : journal'[u].lastSeq = journal[u].lastSeq
  BY <1>3 DEF Sends, SendToSession, SendToNewSession, Prepares, FindSession,
         TakeNewSessionSlot, LockSession, LoadHistory, PrepareFails, Abandon, SpawnThread,
         ThreadFails, StartEngine, durable
<1> QED
  BY <1>1, <1>2, <1>4, MoveNumbered

\* An event is written under the loop's number, which then grows.
LEMMA PersistNumbered ==
  ASSUME TypeOK, Numbered, NEW t \in Turn, NEW k \in EventKinds,
         NEW rows \in [Turn -> Rows(MaxSent + 2)], Persist(t, k, rows), Counted(t),
         \A u \in Turn : rows[u].lastSeq = journal[u].lastSeq,
         pc[t] = "loop", \A u \in Turn : u # t => pc'[u] = pc[u]
  PROVE  Numbered'
<1>1. seq'[t] = seq[t] + 1 /\ \A u \in Turn : u # t => seq'[u] = seq[u]
  BY DEF Counted, TypeOK
<1>2. journal[t].lastSeq \in -1 .. MaxSent + 2 /\ seq[t] \in 0 .. MaxSent + 2
  BY RowSeq, TopSeq DEF TypeOK
<1>3. journal[t].lastSeq < seq[t]
  BY DEF Numbered
<1>4. journal'[t].lastSeq < seq'[t]
  BY <1>1, <1>2, <1>3, PersistExists, TopSeq
<1>5. \A u \in Turn : u # t => journal'[u].lastSeq = journal[u].lastSeq
  BY PersistExists
<1> QED
  BY <1>1, <1>4, <1>5 DEF Numbered

\* The loop counts every event it writes, but for the last one, after which it is gone.
LEMMA LoopNumbered ==
  ASSUME TypeOK, Numbered, NEW t \in Turn, Loops(t)
  PROVE  Numbered'
<1> USE Actors
<1>1. CASE TakeEvent(t)
  <2>1. Head(chan[t]) \in EventKinds
    <3>1. chan[t] \in Seq(EngineKinds) /\ chan[t] # <<>>
      BY <1>1 DEF TakeEvent, TypeOK
    <3> QED
      BY <3>1, HeadTailProperties DEF EventKinds
  <2>2. /\ Persist(t, Head(chan[t]), journal) /\ Counted(t) /\ pc[t] = "loop" /\ UNCHANGED pc
        /\ journal \in [Turn -> Rows(MaxSent + 2)]
    BY <1>1 DEF TakeEvent, actor, TypeOK
  <2> QED
    BY <2>1, <2>2, PersistNumbered
<1>2. CASE TakeQuestion(t)
  <2>1. /\ Persist(t, "ask_user", journal) /\ Counted(t) /\ pc[t] = "loop" /\ UNCHANGED pc
        /\ journal \in [Turn -> Rows(MaxSent + 2)] /\ "ask_user" \in EventKinds
    BY <1>2 DEF TakeQuestion, actor, TypeOK, EventKinds
  <2> QED
    BY <2>1, PersistNumbered
<1>3. CASE TakeCancel(t)
  <2> DEFINE rows == [journal EXCEPT ![t] = CancelMarked(@)]
  <2>1. CancelMarked(journal[t]) \in Rows(MaxSent + 2)
        /\ CancelMarked(journal[t]).lastSeq = journal[t].lastSeq
    BY CancelMarkedRow, TopSeq DEF TypeOK
  <2>2. rows \in [Turn -> Rows(MaxSent + 2)]
        /\ \A u \in Turn : rows[u].lastSeq = journal[u].lastSeq
    BY <2>1 DEF TypeOK
  <2>3. /\ Persist(t, "cancelling", rows) /\ Counted(t) /\ pc[t] = "loop"
        /\ "cancelling" \in EventKinds
    BY <1>3 DEF TakeCancel, EventKinds
  <2>4. \A u \in Turn : u # t => pc'[u] = pc[u]
    BY <1>3 DEF TakeCancel, Goto, TypeOK
  <2> HIDE DEF rows
  <2> QED
    BY <2>2, <2>3, <2>4, PersistNumbered
<1>4. CASE Drained(t) \/ DrainTimesOut(t) \/ JoinThenRelease(t)
  <2>1. UNCHANGED <<journal, seq>> /\ pc[t] \notin Gone
    BY <1>4 DEF Drained, DrainTimesOut, JoinThenRelease, durable, Gone
  <2>2. \A u \in Turn : u # t => pc'[u] = pc[u]
    BY <1>4 DEF Drained, DrainTimesOut, JoinThenRelease, Goto, TypeOK
  <2> QED
    BY <2>1, <2>2, MoveNumbered
<1>5. CASE SayCancelled(t)
  <2>1. pc'[t] \in Gone /\ \A u \in Turn : u # t => pc'[u] = pc[u]
    BY <1>5 DEF SayCancelled, Goto, Gone, TypeOK
  <2>2. UNCHANGED seq /\ \A u \in Turn : u # t => journal'[u] = journal[u]
    BY <1>5 DEF SayCancelled, Persist, task, TypeOK
  <2> QED
    BY <2>1, <2>2, MoveNumbered
<1>6. CASE ThreadExits(t)
  <2>1. pc'[t] \in Gone /\ \A u \in Turn : u # t => pc'[u] = pc[u] /\ seq'[u] = seq[u]
    BY <1>6 DEF ThreadExits, Goto, Gone, TypeOK
  <2> QED
    BY <1>6, <2>1, MoveNumbered DEF ThreadExits
<1> QED
  BY <1>1, <1>2, <1>3, <1>4, <1>5, <1>6 DEF Loops

\* The session commands at most take rows away.
LEMMA OpNumbered ==
  ASSUME TypeOK, Numbered, NEW o \in Op
  PROVE  /\ \A i \in Instance, s \in Session, k \in OpKinds : OpBegins(o, i, s, k) => Numbered'
         /\ Operates(o) => Numbered'
<1> USE Actors
<1>1. ASSUME NEW stage, Goto(o, stage), UNCHANGED <<journal, seq>> PROVE Numbered'
  <2>1. \A t \in Turn : pc'[t] = pc[t]
    BY <1>1 DEF Goto, TypeOK
  <2> QED
    BY <1>1, <2>1, MoveNumbered
<1>2. Abandon(o) => Numbered'
  BY <1>1 DEF Abandon, task
<1>3. \A i \in Instance, s \in Session, k \in OpKinds : OpBegins(o, i, s, k) => Numbered'
  BY <1>1 DEF OpBegins, Begin, durable, task
<1>4. OpLocks(o) => Numbered'
  BY <1>1, <1>2 DEF OpLocks, task
<1>5. OpReads(o) => Numbered'
  BY <1>1, <1>2 DEF OpReads, durable, task
<1>6. ASSUME OpApplies(o) PROVE Numbered'
  <2>1. Goto(o, "applied") /\ UNCHANGED seq
    BY <1>6 DEF OpApplies, task
  <2>2. CASE OpDeletes(o)
    <3>1. \A t \in Turn : pc'[t] = pc[t]
      BY <2>1 DEF Goto, TypeOK
    <3>2. \A t \in Turn : journal'[t] = journal[t] \/ journal'[t] = NoTurn
      BY <2>2 DEF OpDeletes
    <3>3. NoTurn.lastSeq = -1 /\ \A t \in Turn : seq[t] \in Nat
      BY TopSeq DEF NoTurn, TypeOK
    <3> QED
      BY <2>1, <3>1, <3>2, <3>3 DEF Numbered
  <2>3. CASE ~OpDeletes(o)
    BY <1>1, <1>6, <2>1, <2>3 DEF OpApplies, OpClears, OpCompacts, OpLeavesAsIs
  <2> QED
    BY <2>2, <2>3
<1>7. OpEnds(o) => Numbered'
  BY <1>2 DEF OpEnds
<1> QED
  BY <1>3, <1>4, <1>5, <1>6, <1>7 DEF Operates

\* Engines, users, starts and crashes write no event.
LEMMA OtherNumbered ==
  ASSUME TypeOK, Numbered
  PROVE  /\ \A t \in Turn : EngineActs(t) => Numbered'
         /\ \A t \in Turn, i \in Instance : RequestCancel(i, t) => Numbered'
         /\ \A i \in Instance : Start(i) \/ Crash(i) => Numbered'
         /\ UNCHANGED vars => Numbered'
<1> USE Actors
<1>1. ASSUME UNCHANGED <<pc, journal, seq>> PROVE Numbered'
  BY <1>1, MoveNumbered
<1>2. ASSUME NEW t \in Turn, EngineActs(t) PROVE Numbered'
  BY <1>1, <1>2 DEF EngineActs, EngineSends, EngineAsks, EngineSaves, EngineReturns,
                    EngineDropped, durable, actor, task
<1>3. ASSUME NEW t \in Turn, NEW i \in Instance, RequestCancel(i, t) PROVE Numbered'
  <2>1. "cancelling" \in TurnState
    BY DEF TurnState, LiveStates
  <2>2. Updated(CancelMarked(journal[t]), "cancelling").lastSeq = journal[t].lastSeq
    BY <2>1, CancelMarkedRow, UpdatedRow, TopSeq DEF TypeOK
  <2>3. \A u \in Turn : journal'[u].lastSeq = journal[u].lastSeq
    BY <1>3, <2>2 DEF RequestCancel, TypeOK
  <2> QED
    BY <1>3, <2>3, MoveNumbered DEF RequestCancel, actor
<1>4. ASSUME NEW i \in Instance, Start(i) PROVE Numbered'
  <2>1. \A u \in Turn : journal'[u].lastSeq = journal[u].lastSeq
    BY <1>4, InterruptedRow, TopSeq DEF Start, TypeOK
  <2> QED
    BY <1>4, <2>1, MoveNumbered DEF Start, actor, task
<1>5. ASSUME NEW i \in Instance, Crash(i) PROVE Numbered'
  <2> DEFINE lost == {a \in Actor : at[a] = i /\ pc[a] \notin Finished}
  <2>1. /\ pc' = [a \in Actor |-> IF a \in lost THEN "dead" ELSE pc[a]]
        /\ seq' = [t \in Turn |-> IF t \in lost THEN 0 ELSE seq[t]]
        /\ UNCHANGED journal
    BY <1>5 DEF Crash
  <2> HIDE DEF lost
  <2>2. \A t \in Turn : pc'[t] \notin Gone => pc'[t] = pc[t] /\ seq'[t] = seq[t]
    BY <2>1 DEF Gone
  <2> QED
    BY <2>1, <2>2, MoveNumbered
<1> QED
  BY <1>1, <1>2, <1>3, <1>4, <1>5 DEF vars, durable, actor, task

\* Every step keeps the numbers ahead.
LEMMA NumberedStep ==
  ASSUME TypeOK, Numbered, [Next]_vars
  PROVE  Numbered'
BY SendNumbered, LoopNumbered, OpNumbered, OtherNumbered DEF Next

-----------------------------------------------------------------------------
(* A snapshot of the messages stays current. *)

TurnWorkStages == {"loaded", "spawned", "loop", "draining", "joining"}

\* Who works from a copy of the messages, now and after a step: only holders of the lock.
LEMMA Workers ==
  ASSUME NEW a \in Actor
  PROVE  /\ a \in Turn => (WorksFrom(a) <=> pc[a] \in TurnWorkStages)
         /\ a \in Turn => (WorksFrom(a)' <=> pc'[a] \in TurnWorkStages)
         /\ a \notin Turn => (WorksFrom(a) <=> pc[a] = "snapped" /\ kind[a] \in {"compact", "export"})
         /\ a \notin Turn => (WorksFrom(a)' <=> pc'[a] = "snapped" /\ kind'[a] \in {"compact", "export"})
         /\ WorksFrom(a) => HoldsLock(a)
BY Holders, StageSets DEF WorksFrom, TurnWorkStages

\* Steps in which nobody starts to work from a copy, and nobody else writes.
LEMMA MoveCurrent ==
  ASSUME HistoryIsCurrent,
         \A a \in Actor : WorksFrom(a)' =>
           /\ WorksFrom(a) /\ on'[a] = on[a] /\ base'[a] = base[a]
           /\ hist'[on[a]] \in {hist[on[a]], a}
  PROVE  HistoryIsCurrent'
BY DEF HistoryIsCurrent

\* An actor that moves on without a copy it did not have.
LEMMA StepCurrent ==
  ASSUME TypeOK, HistoryIsCurrent, NEW a \in Actor, UNCHANGED hist,
         \A b \in Actor : b # a =>
           pc'[b] = pc[b] /\ on'[b] = on[b] /\ kind'[b] = kind[b] /\ base'[b] = base[b],
         WorksFrom(a)' => WorksFrom(a) /\ on'[a] = on[a] /\ base'[a] = base[a]
  PROVE  HistoryIsCurrent'
<1>1. \A b \in Actor : b # a /\ WorksFrom(b)' => WorksFrom(b)
  BY Workers
<1> QED
  BY <1>1, MoveCurrent

\* An early return gives the copy up.
LEMMA AbandonCurrent ==
  ASSUME TypeOK, HistoryIsCurrent, NEW a \in Actor, Abandon(a)
  PROVE  HistoryIsCurrent'
<1>1. /\ pc' = [pc EXCEPT ![a] = "done"] /\ base' = [base EXCEPT ![a] = Nobody]
      /\ UNCHANGED <<hist, on, kind>>
  BY DEF Abandon, Goto
<1>2. pc'[a] = "done" /\ \A b \in Actor : b # a => pc'[b] = pc[b] /\ base'[b] = base[b]
  BY <1>1 DEF TypeOK
<1>3. ~WorksFrom(a)'
  BY <1>2, Workers DEF TurnWorkStages
<1> QED
  BY <1>1, <1>2, <1>3, StepCurrent

\* The command of a turn takes its copy under the lock, and writes nothing.
LEMMA SendCurrent ==
  ASSUME TypeOK, Owned, HistoryIsCurrent, NEW t \in Turn, Sends(t) \/ Prepares(t)
  PROVE  HistoryIsCurrent'
<1> USE Actors DEF TurnWorkStages
<1>1. ASSUME NEW stage, Goto(t, stage), UNCHANGED <<hist, on, kind, base>>,
             stage \in TurnWorkStages => pc[t] \in TurnWorkStages
      PROVE  HistoryIsCurrent'
  <2>1. pc'[t] = stage /\ \A b \in Actor : b # t => pc'[b] = pc[b]
    BY <1>1 DEF Goto, TypeOK
  <2>2. WorksFrom(t)' => WorksFrom(t)
    BY <1>1, <2>1, Workers
  <2> QED
    BY <1>1, <2>1, <2>2, StepCurrent
<1>2. ASSUME NEW i \in Instance, NEW s \in Session, NEW stage \in {"slot", "created"},
             Begin(t, i, s, "turn", stage), UNCHANGED hist
      PROVE  HistoryIsCurrent'
  <2>1. pc'[t] = stage /\ UNCHANGED base
        /\ \A b \in Actor : b # t => pc'[b] = pc[b] /\ on'[b] = on[b] /\ kind'[b] = kind[b]
    BY <1>2 DEF Begin, Goto, TypeOK
  <2>2. ~WorksFrom(t)'
    BY <2>1, Workers
  <2> QED
    BY <1>2, <2>1, <2>2, StepCurrent
<1>3. Sends(t) => HistoryIsCurrent'
  BY <1>2 DEF Sends, SendToSession, SendToNewSession, durable
<1>4. FindSession(t) => HistoryIsCurrent'
  BY <1>1, AbandonCurrent DEF FindSession, durable
<1>5. TakeNewSessionSlot(t) => HistoryIsCurrent'
  BY <1>1 DEF TakeNewSessionSlot, durable
<1>6. LockSession(t) => HistoryIsCurrent'
  BY <1>1, AbandonCurrent DEF LockSession
<1>7. CreateTurn(t) => HistoryIsCurrent'
  BY <1>1, AbandonCurrent DEF CreateTurn
<1>8. ASSUME LoadHistory(t) PROVE HistoryIsCurrent'
  <2>1. /\ base' = [base EXCEPT ![t] = hist[on[t]]] /\ pc' = [pc EXCEPT ![t] = "loaded"]
        /\ UNCHANGED <<hist, on, kind>>
    BY <1>8 DEF LoadHistory, Goto, durable
  <2>2. base'[t] = hist[on[t]]
        /\ \A b \in Actor : b # t => pc'[b] = pc[b] /\ base'[b] = base[b]
    BY <2>1 DEF TypeOK
  <2>3. \A b \in Actor : b # t /\ WorksFrom(b)' => WorksFrom(b)
    BY <2>1, <2>2, Workers
  <2> QED
    BY <2>1, <2>2, <2>3 DEF HistoryIsCurrent
<1>9. PrepareFails(t) => HistoryIsCurrent'
  BY AbandonCurrent DEF PrepareFails
<1>10. SpawnThread(t) => HistoryIsCurrent'
  BY <1>1 DEF SpawnThread, durable
<1>11. ThreadFails(t) => HistoryIsCurrent'
  BY <1>1 DEF ThreadFails, durable
<1>12. StartEngine(t) => HistoryIsCurrent'
  BY <1>1 DEF StartEngine, durable
<1> QED
  BY <1>3, <1>4, <1>5, <1>6, <1>7, <1>8, <1>9, <1>10, <1>11, <1>12 DEF Prepares

\* An engine writes to its own session, where nobody else works.
LEMMA EngineCurrent ==
  ASSUME TypeOK, EngineStages, Owned, HistoryIsCurrent, NEW t \in Turn, EngineActs(t)
  PROVE  HistoryIsCurrent'
<1> USE Actors
<1>1. UNCHANGED <<pc, on, kind, base>>
  BY DEF EngineActs, EngineSends, EngineAsks, EngineSaves, EngineReturns, EngineDropped, actor
<1>2. \A a \in Actor : WorksFrom(a)' => WorksFrom(a)
  BY <1>1, Workers
<1>3. CASE EngineSaves(t)
  <2>1. HoldsLock(t)
    BY <1>3, Holders, StageSets DEF EngineSaves, EngineStages
  <2>2. \A a \in Actor : WorksFrom(a) /\ a # t => on[a] # on[t]
    BY <2>1, Workers, OthersElsewhere DEF Owned
  <2>3. \A s \in Session : s # on[t] => hist'[s] = hist[s]
    BY <1>3 DEF EngineSaves, TypeOK
  <2>4. hist'[on[t]] \in {hist[on[t]], t}
    BY <1>3 DEF EngineSaves, TypeOK
  <2>5. \A a \in Actor : WorksFrom(a) => on[a] \in Session
    BY Workers, Holders, StageSets DEF TypeOK
  <2> QED
    BY <1>1, <1>2, <2>2, <2>3, <2>4, <2>5, MoveCurrent
<1>4. CASE ~EngineSaves(t)
  <2>1. UNCHANGED hist
    BY <1>4 DEF EngineActs, EngineSends, EngineAsks, EngineReturns, EngineDropped, durable
  <2> QED
    BY <1>1, <1>2, <2>1, MoveCurrent
<1> QED
  BY <1>3, <1>4

\* The loop writes no messages.
LEMMA LoopCurrent ==
  ASSUME TypeOK, HistoryIsCurrent, NEW t \in Turn, Loops(t)
  PROVE  HistoryIsCurrent'
<1> USE Actors DEF TurnWorkStages
<1>1. CASE TakeEvent(t) \/ TakeQuestion(t)
  <2>1. UNCHANGED <<pc, on, kind, base, hist>>
    BY <1>1 DEF TakeEvent, TakeQuestion, actor
  <2>2. \A a \in Actor : WorksFrom(a)' => WorksFrom(a)
    BY <2>1, Workers
  <2> QED
    BY <2>1, <2>2, MoveCurrent
<1>2. ASSUME TakeCancel(t) \/ Drained(t) \/ DrainTimesOut(t) \/ JoinThenRelease(t) \/ SayCancelled(t)
      PROVE  HistoryIsCurrent'
  <2>1. UNCHANGED <<on, kind, base, hist>>
    BY <1>2 DEF TakeCancel, Drained, DrainTimesOut, JoinThenRelease, SayCancelled, durable
  <2>2. /\ pc'[t] \in TurnWorkStages => pc[t] \in TurnWorkStages
        /\ \A b \in Actor : b # t => pc'[b] = pc[b]
    BY <1>2 DEF TakeCancel, Drained, DrainTimesOut, JoinThenRelease, SayCancelled, Goto, TypeOK
  <2>3. WorksFrom(t)' => WorksFrom(t)
    BY <2>2, Workers
  <2> QED
    BY <2>1, <2>2, <2>3, StepCurrent
<1>3. CASE ThreadExits(t)
  <2>1. pc'[t] = "done" /\ UNCHANGED <<on, kind, hist>>
        /\ \A b \in Actor : b # t => pc'[b] = pc[b] /\ base'[b] = base[b]
    BY <1>3 DEF ThreadExits, Goto, TypeOK
  <2>2. ~WorksFrom(t)'
    BY <2>1, Workers
  <2> QED
    BY <2>1, <2>2, StepCurrent
<1> QED
  BY <1>1, <1>2, <1>3 DEF Loops

\* A session command writes where it holds the lock, and gives its own copy up.
LEMMA OpCurrent ==
  ASSUME TypeOK, Owned, HistoryIsCurrent, NEW o \in Op
  PROVE  /\ \A i \in Instance, s \in Session, k \in OpKinds :
              OpBegins(o, i, s, k) => HistoryIsCurrent'
         /\ Operates(o) => HistoryIsCurrent'
<1> USE Actors
<1>1. ASSUME NEW i \in Instance, NEW s \in Session, NEW k \in OpKinds, OpBegins(o, i, s, k)
      PROVE  HistoryIsCurrent'
  <2>1. pc'[o] = "slot" /\ UNCHANGED <<base, hist>>
        /\ \A b \in Actor : b # o => pc'[b] = pc[b] /\ on'[b] = on[b] /\ kind'[b] = kind[b]
    BY <1>1 DEF OpBegins, Begin, Goto, durable, TypeOK
  <2>2. ~WorksFrom(o)'
    BY <2>1, Workers
  <2> QED
    BY <2>1, <2>2, StepCurrent
<1>2. ASSUME OpLocks(o) PROVE HistoryIsCurrent'
  <2>1. CASE Abandon(o)
    BY <2>1, AbandonCurrent
  <2>2. CASE ~Abandon(o)
    <3>1. Goto(o, "locked") /\ UNCHANGED <<hist, on, kind, base>>
      BY <1>2, <2>2 DEF OpLocks
    <3>2. pc'[o] = "locked" /\ \A b \in Actor : b # o => pc'[b] = pc[b]
      BY <3>1 DEF Goto, TypeOK
    <3>3. ~WorksFrom(o)'
      BY <3>2, Workers
    <3> QED
      BY <3>1, <3>2, <3>3, StepCurrent
  <2> QED
    BY <2>1, <2>2
<1>3. ASSUME OpReads(o) PROVE HistoryIsCurrent'
  <2>1. CASE Abandon(o)
    BY <2>1, AbandonCurrent
  <2>2. CASE ~Abandon(o)
    <3>1. /\ base' = [base EXCEPT ![o] = hist[on[o]]] /\ pc' = [pc EXCEPT ![o] = "snapped"]
          /\ UNCHANGED <<hist, on, kind>>
      BY <1>3, <2>2 DEF OpReads, Goto, durable
    <3>2. base'[o] = hist[on[o]]
          /\ \A b \in Actor : b # o => pc'[b] = pc[b] /\ base'[b] = base[b]
      BY <3>1 DEF TypeOK
    <3>3. \A b \in Actor : b # o /\ WorksFrom(b)' => WorksFrom(b)
      BY <3>1, <3>2, Workers
    <3> QED
      BY <3>1, <3>2, <3>3 DEF HistoryIsCurrent
  <2> QED
    BY <2>1, <2>2
<1>4. ASSUME OpApplies(o) PROVE HistoryIsCurrent'
  <2>1. pc[o] = "snapped" /\ Goto(o, "applied") /\ UNCHANGED <<on, kind, base>>
    BY <1>4 DEF OpApplies
  <2>2. pc'[o] = "applied" /\ \A b \in Actor : b # o => pc'[b] = pc[b]
    BY <2>1 DEF Goto, TypeOK
  <2>3. \A s \in Session : s # on[o] => hist'[s] = hist[s]
    BY <1>4 DEF OpApplies, OpClears, OpDeletes, OpCompacts, OpLeavesAsIs, TypeOK
  <2>4. HoldsLock(o)
    BY <2>1, Holders, StageSets
  <2>5. \A a \in Actor : WorksFrom(a)' => a # o /\ WorksFrom(a)
    BY <2>1, <2>2, Workers
  <2>6. \A a \in Actor : WorksFrom(a) /\ a # o => on[a] # on[o] /\ on[a] \in Session
    BY <2>4, Workers, Holders, StageSets, OthersElsewhere DEF Owned, TypeOK
  <2> QED
    BY <2>1, <2>3, <2>5, <2>6, MoveCurrent
<1>5. OpEnds(o) => HistoryIsCurrent'
  BY AbandonCurrent DEF OpEnds
<1> QED
  BY <1>1, <1>2, <1>3, <1>4, <1>5 DEF Operates

\* Users, starts and crashes write no messages.
LEMMA EnvironmentCurrent ==
  ASSUME TypeOK, HistoryIsCurrent
  PROVE  /\ \A t \in Turn, i \in Instance : RequestCancel(i, t) => HistoryIsCurrent'
         /\ \A i \in Instance : Start(i) \/ Crash(i) => HistoryIsCurrent'
         /\ UNCHANGED vars => HistoryIsCurrent'
<1>1. ASSUME UNCHANGED <<pc, on, kind, base, hist>> PROVE HistoryIsCurrent'
  <2>1. \A a \in Actor : WorksFrom(a)' => WorksFrom(a)
    BY <1>1, Workers
  <2> QED
    BY <1>1, <2>1, MoveCurrent
<1>2. ASSUME NEW t \in Turn, NEW i \in Instance, RequestCancel(i, t) PROVE HistoryIsCurrent'
  BY <1>1, <1>2 DEF RequestCancel, actor
<1>3. ASSUME NEW i \in Instance, Start(i) PROVE HistoryIsCurrent'
  BY <1>1, <1>3 DEF Start, actor
<1>4. ASSUME NEW i \in Instance, Crash(i) PROVE HistoryIsCurrent'
  <2> DEFINE lost == {a \in Actor : at[a] = i /\ pc[a] \notin Finished}
  <2>1. /\ pc' = [a \in Actor |-> IF a \in lost THEN "dead" ELSE pc[a]]
        /\ base' = [a \in Actor |-> IF a \in lost THEN Nobody ELSE base[a]]
        /\ UNCHANGED <<hist, on, kind>>
    BY <1>4 DEF Crash
  <2> HIDE DEF lost
  <2>2. \A a \in Actor : WorksFrom(a)' => a \notin lost
    BY <2>1, Workers DEF TurnWorkStages
  <2>3. \A a \in Actor : WorksFrom(a)' => WorksFrom(a) /\ base'[a] = base[a]
    BY <2>1, <2>2, Workers
  <2> QED
    BY <2>1, <2>3, MoveCurrent
<1> QED
  BY <1>1, <1>2, <1>3, <1>4 DEF vars, durable, actor

\* Every step keeps the copies current.
LEMMA CurrentStep ==
  ASSUME TypeInv, Owned, HistoryIsCurrent, [Next]_vars
  PROVE  HistoryIsCurrent'
BY SendCurrent, EngineCurrent, LoopCurrent, OpCurrent, EnvironmentCurrent DEF Next, TypeInv

-----------------------------------------------------------------------------
(* What is taken belongs to somebody who will give it back. *)

SlotsHeld ==
  \A i \in Instance, s \in Session : slots[i][s] # "free" =>
    \E a \in Actor : at[a] = i /\ on[a] = s /\ HoldsSlot(a) /\ kind[a] = slots[i][s]

LocksHeld == \A s \in Session : flock[s] # Nobody => HoldsLock(flock[s]) /\ on[flock[s]] = s

Held == SlotsHeld /\ LocksHeld

\* An actor moves on, and gives up nothing that it held.
LEMMA MoveHeld ==
  ASSUME TypeOK, Held, NEW a \in Actor, NEW stage, Goto(a, stage),
         UNCHANGED <<flock, slots, at, on, kind>>,
         pc[a] \in LockStages => stage \in LockStages,
         stage \in NoSlotStages => pc[a] \in NoSlotStages
  PROVE  Held'
<1>1. pc' = [pc EXCEPT ![a] = stage] /\ pc \in [Actor -> Stage]
  BY DEF Goto, TypeOK
<1>2. \A b \in Actor : (HoldsLock(b) => HoldsLock(b)') /\ (HoldsSlot(b) => HoldsSlot(b)')
  BY <1>1, Holders
<1>3. LocksHeld'
  BY <1>2 DEF Held, LocksHeld, TypeOK
<1>4. SlotsHeld'
  BY <1>2 DEF Held, SlotsHeld
<1> QED
  BY <1>3, <1>4 DEF Held

\* An actor begins its work, with the slot or without it yet.
LEMMA BeginHeld ==
  ASSUME TypeOK, Held, NEW a \in Actor, NEW i \in Instance, NEW s \in Session,
         NEW k \in SlotKinds, NEW stage, Begin(a, i, s, k, stage), UNCHANGED flock,
         \/ stage = "created" /\ UNCHANGED slots
         \/ stage = "slot" /\ TakeSlot(i, s, k)
  PROVE  Held'
<1>1. /\ pc[a] = "idle" /\ pc' = [pc EXCEPT ![a] = stage]
      /\ at' = [at EXCEPT ![a] = i] /\ on' = [on EXCEPT ![a] = s]
      /\ kind' = [kind EXCEPT ![a] = k]
  BY DEF Begin, Goto
<1>2. \A b \in Actor : b # a =>
        pc'[b] = pc[b] /\ at'[b] = at[b] /\ on'[b] = on[b] /\ kind'[b] = kind[b]
  BY <1>1 DEF TypeOK
<1>3. pc'[a] = stage /\ at'[a] = i /\ on'[a] = s /\ kind'[a] = k
  BY <1>1 DEF TypeOK
<1>4. ~HoldsLock(a) /\ ~HoldsSlot(a)
  BY <1>1, Holders, StageSets
<1>5. \A b \in Actor : b # a => (HoldsLock(b) => HoldsLock(b)') /\ (HoldsSlot(b) => HoldsSlot(b)')
  BY <1>2, Holders
<1>6. LocksHeld'
  BY <1>2, <1>4, <1>5 DEF Held, LocksHeld, TypeOK
<1>7. ASSUME NEW j \in Instance, NEW r \in Session, slots[j][r] # "free",
             slots'[j][r] = slots[j][r]
      PROVE  \E b \in Actor : at'[b] = j /\ on'[b] = r /\ HoldsSlot(b)' /\ kind'[b] = slots'[j][r]
  BY <1>2, <1>4, <1>5, <1>7 DEF Held, SlotsHeld
<1>8. CASE stage = "created" /\ UNCHANGED slots
  BY <1>6, <1>7, <1>8 DEF Held, SlotsHeld
<1>9. CASE stage = "slot" /\ TakeSlot(i, s, k)
  <2>1. slots' = [slots EXCEPT ![i][s] = k] /\ slots \in [Instance -> [Session -> SlotKinds \cup {"free"}]]
    BY <1>9 DEF TakeSlot, TypeOK
  <2>2. \A j \in Instance, r \in Session : ~(j = i /\ r = s) => slots'[j][r] = slots[j][r]
    BY <2>1
  <2>3. slots'[i][s] = k /\ HoldsSlot(a)'
    BY <1>3, <1>9, <2>1, Holders, StageSets
  <2>4. SlotsHeld'
    BY <1>3, <1>7, <2>2, <2>3 DEF SlotsHeld
  <2> QED
    BY <1>6, <2>4 DEF Held
<1> QED
  BY <1>8, <1>9

\* A session that is new to everybody: the slot is taken after the beginning.
LEMMA TakeSlotHeld ==
  ASSUME TypeOK, Held, NEW a \in Actor, pc[a] = "created", Goto(a, "checked"),
         TakeSlot(at[a], on[a], kind[a]), UNCHANGED <<flock, at, on, kind>>
  PROVE  Held'
<1>1. pc' = [pc EXCEPT ![a] = "checked"] /\ pc \in [Actor -> Stage]
  BY DEF Goto, TypeOK
<1>2. at[a] \in Instance /\ on[a] \in Session
  BY DEF TypeOK
<1>3. ~HoldsLock(a) /\ HoldsSlot(a)'
  BY <1>1, Holders, StageSets
<1>4. \A b \in Actor : (HoldsLock(b) => HoldsLock(b)') /\ (HoldsSlot(b) => HoldsSlot(b)')
  BY <1>1, <1>3, Holders
<1>5. LocksHeld'
  BY <1>4 DEF Held, LocksHeld, TypeOK
<1>6. /\ slots' = [slots EXCEPT ![at[a]][on[a]] = kind[a]]
      /\ slots \in [Instance -> [Session -> SlotKinds \cup {"free"}]]
  BY DEF TakeSlot, TypeOK
<1>7. slots'[at[a]][on[a]] = kind[a]
  BY <1>2, <1>6
<1>8. \A j \in Instance, r \in Session :
        ~(j = at[a] /\ r = on[a]) => slots'[j][r] = slots[j][r]
  BY <1>2, <1>6
<1>9. SlotsHeld'
  BY <1>3, <1>4, <1>7, <1>8 DEF Held, SlotsHeld
<1> QED
  BY <1>5, <1>9 DEF Held

\* An actor takes the file lock that nobody holds.
LEMMA TakeLockHeld ==
  ASSUME TypeOK, Held, NEW a \in Actor, pc[a] \in {"checked", "slot"}, Goto(a, "locked"),
         flock' = [flock EXCEPT ![on[a]] = a], UNCHANGED <<slots, at, on, kind>>
  PROVE  Held'
<1>1. pc' = [pc EXCEPT ![a] = "locked"] /\ pc \in [Actor -> Stage]
  BY DEF Goto, TypeOK
<1>2. HoldsLock(a)' /\ HoldsSlot(a)'
  BY <1>1, Holders, StageSets
<1>3. \A b \in Actor : (HoldsLock(b) => HoldsLock(b)') /\ (HoldsSlot(b) => HoldsSlot(b)')
  BY <1>1, <1>2, Holders
<1>4. LocksHeld'
  BY <1>2, <1>3 DEF Held, LocksHeld, TypeOK
<1>5. SlotsHeld'
  BY <1>3 DEF Held, SlotsHeld
<1> QED
  BY <1>4, <1>5 DEF Held

\* A release of the slot, by kind, leaves the slots of the others to them: it is
\* the actor's own kind that is found there.
LEMMA GiveSlotHeld ==
  ASSUME TypeOK, SlotOwned, SlotsHeld, NEW a \in Actor, NEW stage, Goto(a, stage),
         GiveSlot(a), HoldsSlot(a), UNCHANGED <<at, on, kind>>
  PROVE  SlotsHeld'
<1>1. pc' = [pc EXCEPT ![a] = stage] /\ pc \in [Actor -> Stage]
  BY DEF Goto, TypeOK
<1>2. \A b \in Actor : b # a => (HoldsSlot(b) => HoldsSlot(b)')
  BY <1>1, Holders
<1>3. at[a] \in Instance /\ on[a] \in Session
  BY Holders, StageSets DEF TypeOK
<1>4. slots[at[a]][on[a]] = kind[a]
  BY DEF SlotOwned
<1>5. /\ slots' = [slots EXCEPT ![at[a]][on[a]] = IF @ = kind[a] THEN "free" ELSE @]
      /\ slots \in [Instance -> [Session -> SlotKinds \cup {"free"}]]
  BY DEF GiveSlot, TypeOK
<1>6. slots'[at[a]][on[a]] = "free"
  BY <1>3, <1>4, <1>5
<1>7. \A j \in Instance, r \in Session :
        ~(j = at[a] /\ r = on[a]) => slots'[j][r] = slots[j][r]
  BY <1>3, <1>5
<1> QED
  BY <1>2, <1>6, <1>7 DEF SlotsHeld

\* A release of the lock leaves nothing in the name of the actor.
LEMMA GiveLockHeld ==
  ASSUME TypeOK, LocksHeld, NEW a \in Actor, NEW stage, Goto(a, stage), GiveLock(a),
         UNCHANGED on
  PROVE  LocksHeld'
<1>1. pc' = [pc EXCEPT ![a] = stage] /\ pc \in [Actor -> Stage]
  BY DEF Goto, TypeOK
<1>2. \A b \in Actor : b # a => (HoldsLock(b) => HoldsLock(b)')
  BY <1>1, Holders
<1>3. \A s \in Session : flock'[s] # Nobody => flock'[s] = flock[s] /\ flock[s] # a
  BY Actors DEF GiveLock, TypeOK, LocksHeld
<1> QED
  BY <1>2, <1>3 DEF LocksHeld, TypeOK

\* An early return gives both back.
LEMMA AbandonHeld ==
  ASSUME TypeOK, Owned, Held, NEW a \in Actor, HoldsSlot(a), Abandon(a)
  PROVE  Held'
<1>1. Goto(a, "done") /\ GiveSlot(a) /\ GiveLock(a) /\ UNCHANGED <<at, on, kind>>
  BY DEF Abandon
<1> QED
  BY <1>1, GiveSlotHeld, GiveLockHeld DEF Owned, Held

\* The thread gives the slot back while it holds the lock.
LEMMA ReleaseHeld ==
  ASSUME TypeOK, Owned, Held, NEW a \in Actor, HoldsSlot(a), NEW stage \in LockStages,
         Goto(a, stage), GiveSlot(a), UNCHANGED <<flock, at, on, kind>>
  PROVE  Held'
<1>1. SlotsHeld'
  BY GiveSlotHeld DEF Owned, Held
<1>2. \A b \in Actor : HoldsLock(b) => HoldsLock(b)'
  BY Holders DEF Goto, TypeOK
<1>3. LocksHeld'
  BY <1>2 DEF Held, LocksHeld, TypeOK
<1> QED
  BY <1>1, <1>3 DEF Held

\* The command of a turn.
LEMMA SendHeld ==
  ASSUME TypeOK, Owned, Held, NEW t \in Turn, Sends(t) \/ Prepares(t)
  PROVE  Held'
<1> USE Actors, StageSets
<1>1. ASSUME NEW i \in Instance, NEW s \in Session, SendToSession(t, i, s)
      PROVE  Held'
  <2>1. Begin(t, i, s, "turn", "slot") /\ TakeSlot(i, s, "turn") /\ UNCHANGED flock
    BY <1>1 DEF SendToSession, durable
  <2> QED
    BY <2>1, BeginHeld, Names
<1>2. ASSUME NEW i \in Instance, NEW s \in Session, SendToNewSession(t, i, s)
      PROVE  Held'
  <2>1. Begin(t, i, s, "turn", "created") /\ UNCHANGED <<flock, slots>>
    BY <1>2 DEF SendToNewSession, process
  <2> QED
    BY <2>1, BeginHeld, Names
<1>3. CASE FindSession(t)
  <2>1. CASE Abandon(t)
    BY <1>3, <2>1, AbandonHeld, Holders DEF FindSession
  <2>2. CASE ~Abandon(t)
    BY <1>3, <2>2, MoveHeld DEF FindSession, durable, process
  <2> QED
    BY <2>1, <2>2
<1>4. CASE TakeNewSessionSlot(t)
  <2>1. kind[t] = "turn" /\ pc[t] = "created" /\ UNCHANGED <<flock, at, on, kind>>
    BY <1>4 DEF TakeNewSessionSlot, durable, Owned, SlotOwned
  <2>2. CASE slots[at[t]][on[t]] = "free"
    BY <1>4, <2>1, <2>2, TakeSlotHeld DEF TakeNewSessionSlot
  <2>3. CASE slots[at[t]][on[t]] # "free"
    BY <1>4, <2>1, <2>3, MoveHeld DEF TakeNewSessionSlot
  <2> QED
    BY <2>2, <2>3
<1>5. CASE LockSession(t)
  <2>1. CASE Abandon(t)
    BY <1>5, <2>1, AbandonHeld, Holders DEF LockSession
  <2>2. CASE ~Abandon(t)
    BY <1>5, <2>2, TakeLockHeld DEF LockSession, process
  <2> QED
    BY <2>1, <2>2
<1>6. CASE CreateTurn(t)
  <2>1. CASE Abandon(t)
    BY <1>6, <2>1, AbandonHeld, Holders DEF CreateTurn
  <2>2. CASE ~Abandon(t)
    BY <1>6, <2>2, MoveHeld DEF CreateTurn, process
  <2> QED
    BY <2>1, <2>2
<1>7. CASE LoadHistory(t)
  BY <1>7, MoveHeld DEF LoadHistory, durable, process
<1>8. CASE PrepareFails(t)
  BY <1>8, AbandonHeld, Holders DEF PrepareFails
<1>9. CASE SpawnThread(t)
  BY <1>9, MoveHeld DEF SpawnThread, durable
<1>10. CASE ThreadFails(t)
  BY <1>10, ReleaseHeld, Holders DEF ThreadFails, durable
<1>11. CASE StartEngine(t)
  BY <1>11, MoveHeld DEF StartEngine, durable, process
<1> QED
  BY <1>1, <1>2, <1>3, <1>4, <1>5, <1>6, <1>7, <1>8, <1>9, <1>10, <1>11 DEF Sends, Prepares

\* Steps that move nobody and leave both maps alone.
LEMMA StillHeld ==
  ASSUME Held, UNCHANGED <<flock, slots, pc, at, on, kind>>
  PROVE  Held'
BY DEF Held, LocksHeld, SlotsHeld, HoldsLock, HoldsSlot

\* The loop gives the slot back first, and the thread the lock at its very end.
LEMMA LoopHeld ==
  ASSUME TypeOK, Owned, Held, NEW t \in Turn, Loops(t)
  PROVE  Held'
<1> USE Actors, StageSets
<1>1. CASE TakeEvent(t) \/ TakeQuestion(t)
  BY <1>1, StillHeld DEF TakeEvent, TakeQuestion, actor
<1>2. CASE TakeCancel(t)
  BY <1>2, MoveHeld DEF TakeCancel
<1>3. CASE Drained(t)
  BY <1>3, MoveHeld DEF Drained, durable, process
<1>4. CASE DrainTimesOut(t)
  BY <1>4, MoveHeld DEF DrainTimesOut, durable, process
<1>5. CASE JoinThenRelease(t)
  BY <1>5, ReleaseHeld, Holders DEF JoinThenRelease, durable
<1>6. CASE SayCancelled(t)
  BY <1>6, MoveHeld DEF SayCancelled
<1>7. CASE ThreadExits(t)
  <2>1. /\ pc[t] = "exiting" /\ Goto(t, "done") /\ GiveLock(t)
        /\ UNCHANGED <<slots, at, on, kind>>
    BY <1>7 DEF ThreadExits, process
  <2>2. \A b \in Actor : HoldsSlot(b) => HoldsSlot(b)'
    BY <2>1, Holders DEF Goto, TypeOK
  <2>3. SlotsHeld'
    BY <2>1, <2>2 DEF Held, SlotsHeld
  <2>4. LocksHeld'
    BY <2>1, GiveLockHeld DEF Held
  <2> QED
    BY <2>3, <2>4 DEF Held
<1> QED
  BY <1>1, <1>2, <1>3, <1>4, <1>5, <1>6, <1>7 DEF Loops

\* The session commands take the slot, then the lock, and give both back.
LEMMA OpHeld ==
  ASSUME TypeOK, Owned, Held, NEW o \in Op
  PROVE  /\ \A i \in Instance, s \in Session, k \in OpKinds : OpBegins(o, i, s, k) => Held'
         /\ Operates(o) => Held'
<1> USE Actors, StageSets
<1>1. ASSUME NEW i \in Instance, NEW s \in Session, NEW k \in OpKinds, OpBegins(o, i, s, k)
      PROVE  Held'
  <2>1. Begin(o, i, s, k, "slot") /\ TakeSlot(i, s, k) /\ UNCHANGED flock
    BY <1>1 DEF OpBegins, durable
  <2> QED
    BY <2>1, BeginHeld, Names
<1>2. CASE OpLocks(o)
  <2>1. CASE Abandon(o)
    BY <1>2, <2>1, AbandonHeld, Holders DEF OpLocks
  <2>2. CASE ~Abandon(o)
    BY <1>2, <2>2, TakeLockHeld DEF OpLocks, process
  <2> QED
    BY <2>1, <2>2
<1>3. CASE OpReads(o)
  <2>1. CASE Abandon(o)
    BY <1>3, <2>1, AbandonHeld, Holders DEF OpReads
  <2>2. CASE ~Abandon(o)
    BY <1>3, <2>2, MoveHeld DEF OpReads, durable, process
  <2> QED
    BY <2>1, <2>2
<1>4. CASE OpApplies(o)
  BY <1>4, MoveHeld DEF OpApplies, process
<1>5. CASE OpEnds(o)
  BY <1>5, AbandonHeld, Holders DEF OpEnds
<1> QED
  BY <1>1, <1>2, <1>3, <1>4, <1>5 DEF Operates

\* A crash frees what the actors of its process held, and its own slots.
LEMMA EnvironmentHeld ==
  ASSUME TypeOK, Held
  PROVE  /\ \A t \in Turn : EngineActs(t) => Held'
         /\ \A t \in Turn, i \in Instance : RequestCancel(i, t) => Held'
         /\ \A i \in Instance : Start(i) \/ Crash(i) => Held'
         /\ UNCHANGED vars => Held'
<1>1. ASSUME NEW t \in Turn, EngineActs(t) PROVE Held'
  <2>1. UNCHANGED <<flock, slots, pc, at, on, kind>>
    BY <1>1 DEF EngineActs, EngineSends, EngineAsks, EngineSaves, EngineReturns,
       EngineDropped, durable, process, actor
  <2> QED
    BY <2>1, StillHeld
<1>2. ASSUME NEW t \in Turn, NEW i \in Instance, RequestCancel(i, t) PROVE Held'
  BY <1>2, StillHeld DEF RequestCancel, actor
<1>3. ASSUME NEW i \in Instance, Start(i) PROVE Held'
  BY <1>3, StillHeld DEF Start, actor
<1>4. ASSUME NEW i \in Instance, Crash(i) PROVE Held'
  <2> DEFINE lost == {a \in Actor : at[a] = i /\ pc[a] \notin Finished}
  <2>1. /\ pc' = [a \in Actor |-> IF a \in lost THEN "dead" ELSE pc[a]]
        /\ flock' = [s \in Session |-> IF flock[s] \in lost THEN Nobody ELSE flock[s]]
        /\ slots' = [slots EXCEPT ![i] = [s \in Session |-> "free"]]
        /\ UNCHANGED <<at, on, kind>>
    BY <1>4 DEF Crash
  <2>2. \A a \in Actor : a \in lost => at[a] = i
    OBVIOUS
  <2> HIDE DEF lost
  <2>3. \A a \in Actor : a \notin lost =>
          (HoldsLock(a) => HoldsLock(a)') /\ (HoldsSlot(a) => HoldsSlot(a)')
    BY <2>1, Holders
  <2>4. \A s \in Session : flock'[s] # Nobody => flock'[s] = flock[s] /\ flock[s] \notin lost
    BY <2>1
  <2>5. LocksHeld'
    BY <2>1, <2>3, <2>4 DEF Held, LocksHeld, TypeOK
  <2>6. \A j \in Instance, s \in Session :
          slots'[j][s] # "free" => j # i /\ slots'[j][s] = slots[j][s]
    BY <2>1 DEF TypeOK
  <2>7. SlotsHeld'
    BY <2>1, <2>2, <2>3, <2>6 DEF Held, SlotsHeld
  <2> QED
    BY <2>5, <2>7 DEF Held
<1>5. ASSUME UNCHANGED vars PROVE Held'
  BY <1>5, StillHeld DEF vars, durable, process, actor
<1> QED
  BY <1>1, <1>2, <1>3, <1>4, <1>5

\* Every step leaves what is taken to its owner.
LEMMA HeldStep ==
  ASSUME TypeOK, Owned, Held, [Next]_vars
  PROVE  Held'
BY SendHeld, LoopHeld, OpHeld, EnvironmentHeld DEF Next

-----------------------------------------------------------------------------
(* How a turn came to its end. *)

Earned(t) ==
  /\ journal[t].status = "completed" => engine[t] \in {"closing", "ended"}
  /\ journal[t].status = "cancelled" => journal[t].cancelRequested /\ engine[t] = "ended"
  /\ (\E n \in 1 .. Len(chan[t]) : chan[t][n] = "done") => engine[t] \in {"closing", "ended"}
  /\ pc[t] \in {"draining", "joining", "released"} => journal[t].cancelRequested
  /\ pc[t] \in {"loop", "draining", "joining"} => engine[t] # "none"
  /\ pc[t] = "released" => engine[t] = "ended"
  /\ token[t] # "none" => pc[t] \in {"spawned", "loop", "draining", "joining"}

\* Three invariants, turn by turn.
LEMMA EarnedIs ==
  /\ (TerminalIsEarned /\ Witnessed /\ Registered) <=> \A t \in Turn : Earned(t)
  /\ (TerminalIsEarned /\ Witnessed /\ Registered)' <=> \A t \in Turn : Earned(t)'
BY DEF TerminalIsEarned, Witnessed, Registered, Earned

\* A row is changed by somebody else than the turn's own loop: no success and no
\* cancellation is made up, and the mark stays as long as the row.
RowKept(t) ==
  /\ journal'[t].status \in {"completed", "cancelled"} => journal'[t].status = journal[t].status
  /\ Exists(journal'[t]) /\ journal[t].cancelRequested => journal'[t].cancelRequested

\* Steps that are not of the turn's loop or engine.
LEMMA KeepEarned ==
  ASSUME NEW t \in Turn, Earned(t), Recorded', RowKept(t),
         chan'[t] = chan[t], engine'[t] = engine[t],
         \/ pc'[t] = pc[t]
         \/ pc'[t] \notin {"loop", "draining", "joining", "released"},
         token'[t] # "none" => pc'[t] \in {"spawned", "loop", "draining", "joining"}
  PROVE  Earned(t)'
<1>1. pc'[t] \in {"draining", "joining", "released"} => Exists(journal'[t])
  BY RecordedStageSet DEF Recorded, RecordedStages
<1>2. Exists(journal'[t]) \/ journal'[t].status = "absent"
  BY DEF Exists
<1> QED
  BY <1>1, <1>2 DEF Earned, RowKept, Exists

\* A row that is left alone is kept.
LEMMA SameRowKept ==
  ASSUME NEW t \in Turn, journal'[t] = journal[t]
  PROVE  RowKept(t)
BY DEF RowKept

\* What a persisted event does to the status and the mark.
LEMMA PersistedRow ==
  ASSUME TypeOK, NEW t \in Turn, NEW k \in EventKinds, NEW row \in Rows(MaxSent + 2),
         Persist(t, k, [journal EXCEPT ![t] = row])
  PROVE  /\ journal'[t].status \in {row.status, StateOf(k)}
         /\ journal'[t].cancelRequested = row.cancelRequested
         /\ \A u \in Turn : u # t => journal'[u] = journal[u]
<1> DEFINE new == Appended(row, seq[t], StateOf(k))
<1>1. seq[t] \in 0 .. MaxSent + 2
  BY DEF TypeOK
<1>2. new.status \in {row.status, StateOf(k)} /\ new.cancelRequested = row.cancelRequested
  BY <1>1, AppendedMoves, StateOfMoves, TopSeq
<1> DEFINE rows == [journal EXCEPT ![t] = row]
<1>3. journal' = [rows EXCEPT ![t] = Appended(rows[t], seq[t], StateOf(k))]
  BY DEF Persist
<1>4. rows[t] = row
  BY DEF TypeOK
<1>5. journal' = [rows EXCEPT ![t] = new]
  BY <1>3, <1>4
<1> HIDE DEF new
<1> QED
  BY <1>2, <1>5 DEF TypeOK

LEMMA PersistedRowOn ==
  ASSUME TypeOK, NEW t \in Turn, NEW k \in EventKinds, Persist(t, k, journal)
  PROVE  /\ journal'[t].status \in {journal[t].status, StateOf(k)}
         /\ journal'[t].cancelRequested = journal[t].cancelRequested
         /\ \A u \in Turn : u # t => journal'[u] = journal[u]
<1>1. journal = [journal EXCEPT ![t] = journal[t]] /\ journal[t] \in Rows(MaxSent + 2)
  BY DEF TypeOK
<1> QED
  BY <1>1, PersistedRow

\* The command and the thread.
LEMMA SendEarned ==
  ASSUME TypeOK, EngineStages, Recorded', NEW t \in Turn, Sends(t) \/ Prepares(t),
         NEW u \in Turn, Earned(u)
  PROVE  Earned(u)'
<1> USE Actors
<1>1. ASSUME NEW stage, Goto(t, stage), RowKept(u), UNCHANGED <<chan, engine>>,
             stage \notin {"loop", "draining", "joining", "released"},
             pc[t] \notin {"loop", "draining", "joining"},
             \/ UNCHANGED token /\ pc[t] # "spawned"
             \/ stage = "spawned" /\ token' = [token EXCEPT ![t] = "armed"]
             \/ token' = [token EXCEPT ![t] = "none"]
      PROVE  Earned(u)'
  <2>1. pc'[t] = stage /\ (u # t => pc'[u] = pc[u] /\ token'[u] = token[u])
    BY <1>1 DEF Goto, TypeOK
  <2>2. token'[u] # "none" => pc'[u] \in {"spawned", "loop", "draining", "joining"}
    BY <1>1, <2>1 DEF Earned, TypeOK
  <2> QED
    BY <1>1, <2>1, <2>2, KeepEarned
<1>2. ASSUME Abandon(t), pc[t] \notin {"spawned", "loop", "draining", "joining"}
      PROVE  Earned(u)'
  BY <1>1, <1>2, SameRowKept DEF Abandon, task
<1>3. Sends(t) => Earned(u)'
  BY <1>1, SameRowKept DEF Sends, SendToSession, SendToNewSession, Begin, durable, task
<1>4. FindSession(t) => Earned(u)'
  BY <1>1, <1>2, SameRowKept DEF FindSession, durable, task
<1>5. TakeNewSessionSlot(t) => Earned(u)'
  BY <1>1, SameRowKept DEF TakeNewSessionSlot, durable, task
<1>6. LockSession(t) => Earned(u)'
  BY <1>1, <1>2, SameRowKept DEF LockSession, task
<1>7. ASSUME CreateTurn(t) PROVE Earned(u)'
  <2>1. CASE Abandon(t)
    BY <1>2, <1>7, <2>1 DEF CreateTurn
  <2>2. CASE ~Abandon(t)
    <3>1. /\ pc[t] = "locked" /\ Goto(t, "journaled") /\ UNCHANGED task
          /\ journal' = [journal EXCEPT ![t] = Created(journal[t])]
      BY <1>7, <2>2 DEF CreateTurn
    <3>2. ASSUME u # t PROVE RowKept(u)
      BY <3>1, <3>2, SameRowKept DEF TypeOK
    <3>3. ASSUME u = t PROVE RowKept(t)
      <4>1. journal'[t] = Created(journal[t])
        BY <3>1 DEF TypeOK
      <4>2. CASE Exists(journal[t])
        BY <4>1, <4>2, CreatedMoves, SameRowKept
      <4>3. CASE ~Exists(journal[t])
        <5>1. journal'[t].status = "starting" /\ ~journal'[t].cancelRequested
          BY <4>1, <4>3 DEF Created, NoTurn
        <5>2. journal[t] \in Rows(MaxSent + 2) /\ ~journal[t].cancelRequested
          BY <4>3, RowCases, TopSeq DEF TypeOK, NoTurn
        <5> QED
          BY <5>1, <5>2 DEF RowKept
      <4> QED
        BY <4>2, <4>3
    <3>4. RowKept(u)
      BY <3>2, <3>3
    <3> QED
      BY <1>1, <3>1, <3>4 DEF task
  <2> QED
    BY <2>1, <2>2
<1>8. LoadHistory(t) => Earned(u)'
  BY <1>1, SameRowKept DEF LoadHistory, durable, task
<1>9. PrepareFails(t) => Earned(u)'
  BY <1>2 DEF PrepareFails
<1>10. SpawnThread(t) => Earned(u)'
  BY <1>1, SameRowKept DEF SpawnThread, durable
<1>11. ThreadFails(t) => Earned(u)'
  BY <1>1, SameRowKept DEF ThreadFails, durable
<1>12. ASSUME StartEngine(t) PROVE Earned(u)'
  <2>1. /\ pc[t] = "spawned" /\ pc' = [pc EXCEPT ![t] = "loop"]
        /\ engine' = [engine EXCEPT ![t] = "running"] /\ UNCHANGED <<journal, token, chan>>
    BY <1>12 DEF StartEngine, Goto, durable
  <2>2. CASE u # t
    BY <2>1, <2>2, KeepEarned, SameRowKept DEF TypeOK, Earned
  <2>3. CASE u = t
    <3>1. engine[t] = "none"
      BY <2>1 DEF EngineStages
    <3>2. pc'[t] = "loop" /\ engine'[t] = "running"
      BY <2>1 DEF TypeOK
    <3> QED
      BY <2>1, <2>3, <3>1, <3>2 DEF Earned
  <2> QED
    BY <2>2, <2>3
<1> QED
  BY <1>3, <1>4, <1>5, <1>6, <1>7, <1>8, <1>9, <1>10, <1>11, <1>12 DEF Prepares

\* The engine: it says "done" and is closing, or it has ended.
LEMMA EngineEarned ==
  ASSUME TypeOK, Recorded', NEW t \in Turn, EngineActs(t), NEW u \in Turn, Earned(u)
  PROVE  Earned(u)'
<1>1. /\ UNCHANGED <<journal, pc, token>> /\ Alive(t)
      /\ u # t => chan'[u] = chan[u] /\ engine'[u] = engine[u]
  BY DEF EngineActs, EngineSends, EngineAsks, EngineSaves, EngineReturns, EngineDropped,
         durable, actor, task, TypeOK, Alive
<1>2. CASE u # t
  BY <1>1, <1>2, KeepEarned, SameRowKept DEF Earned
<1>3. ASSUME u = t, engine'[t] = "ended" PROVE Earned(u)'
  BY <1>1, <1>3 DEF Earned
<1>4. ASSUME u = t, NEW k \in EngineKinds, EngineSends(t, k) PROVE Earned(u)'
  <2>1. /\ chan' = [chan EXCEPT ![t] = Append(chan[t], k)]
        /\ engine' = [engine EXCEPT ![t] = IF k = "done" THEN "closing" ELSE engine[t]]
        /\ engine[t] = "closing" => k = "done"
    BY <1>4 DEF EngineSends
  <2>2. chan'[t] = Append(chan[t], k) /\ chan[t] \in Seq(EngineKinds)
    BY <2>1 DEF TypeOK
  <2>3. engine'[t] = IF k = "done" THEN "closing" ELSE engine[t]
    BY <2>1 DEF TypeOK
  <2>4. \A n \in 1 .. Len(chan'[t]) :
          chan'[t][n] = k \/ (n \in 1 .. Len(chan[t]) /\ chan'[t][n] = chan[t][n])
    BY <2>2
  <2>5. (\E n \in 1 .. Len(chan'[t]) : chan'[t][n] = "done") => engine'[t] \in {"closing", "ended"}
    BY <1>4, <2>3, <2>4 DEF Earned
  <2> QED
    BY <1>1, <1>4, <2>1, <2>3, <2>5 DEF Earned, Alive
<1>5. ASSUME u = t, EngineAsks(t) \/ EngineSaves(t) PROVE Earned(u)'
  BY <1>1, <1>5, KeepEarned, SameRowKept DEF EngineAsks, EngineSaves, task, Earned
<1>6. ASSUME u = t, EngineReturns(t) \/ EngineDropped(t) PROVE Earned(u)'
  BY <1>3, <1>6 DEF EngineReturns, EngineDropped, TypeOK
<1> QED
  BY <1>2, <1>4, <1>5, <1>6 DEF EngineActs

\* No event of the engine says that a turn was cancelled, and one says that it is done.
LEMMA EngineStates ==
  ASSUME NEW k \in EngineKinds
  PROVE  /\ k \in EventKinds
         /\ StateOf(k) # "cancelled"
         /\ StateOf(k) = "completed" => k = "done"
<1>1. k \in EventKinds
  BY DEF EventKinds
<1>2. CASE k = "started"
  BY <1>1, <1>2 DEF StateOf
<1>3. CASE k = "progress"
  BY <1>1, <1>3 DEF StateOf
<1>4. CASE k = "note"
  BY <1>1, <1>4 DEF StateOf
<1>5. CASE k = "approval"
  BY <1>1, <1>5 DEF StateOf
<1>6. CASE k = "error"
  BY <1>1, <1>6 DEF StateOf
<1>7. CASE k = "done"
  BY <1>1, <1>7 DEF StateOf
<1> QED
  BY <1>2, <1>3, <1>4, <1>5, <1>6, <1>7 DEF EngineKinds

\* The loop: it writes what it was sent, and "cancelled" when the engine has ended.
LEMMA LoopEarned ==
  ASSUME TypeOK, Recorded, Recorded', NEW t \in Turn, Loops(t), NEW u \in Turn, Earned(u)
  PROVE  Earned(u)'
<1> USE Actors
<1>1. CASE TakeEvent(t)
  <2>1. /\ Persist(t, Head(chan[t]), journal)
        /\ chan' = [chan EXCEPT ![t] = Tail(chan[t])]
        /\ UNCHANGED <<pc, engine, token>> /\ pc[t] = "loop"
    BY <1>1 DEF TakeEvent, actor
  <2>2. chan[t] \in Seq(EngineKinds) /\ chan[t] # <<>>
    BY <1>1 DEF TakeEvent, TypeOK
  <2>3. /\ Head(chan[t]) \in EngineKinds /\ 1 \in 1 .. Len(chan[t])
        /\ Head(chan[t]) = chan[t][1]
        /\ \A n \in 1 .. Len(Tail(chan[t])) :
             n + 1 \in 1 .. Len(chan[t]) /\ Tail(chan[t])[n] = chan[t][n + 1]
    BY <2>2
  <2>4. /\ journal'[t].status \in {journal[t].status, StateOf(Head(chan[t]))}
        /\ journal'[t].cancelRequested = journal[t].cancelRequested
        /\ \A v \in Turn : v # t => journal'[v] = journal[v]
    BY <2>1, <2>3, EngineStates, PersistedRowOn
  <2>5. CASE u # t
    BY <2>1, <2>4, <2>5, KeepEarned, SameRowKept DEF TypeOK, Earned
  <2>6. CASE u = t
    <3>1. journal'[t].status = "completed" => engine[t] \in {"closing", "ended"}
      BY <2>3, <2>4, <2>6, EngineStates DEF Earned
    <3>2. journal'[t].status = "cancelled" => journal[t].status = "cancelled"
      BY <2>3, <2>4, EngineStates
    <3>3. chan'[t] = Tail(chan[t])
      BY <2>1 DEF TypeOK
    <3>4. (\E n \in 1 .. Len(chan'[t]) : chan'[t][n] = "done") => engine[t] \in {"closing", "ended"}
      BY <2>3, <2>6, <3>3 DEF Earned
    <3> QED
      BY <2>1, <2>4, <2>6, <3>1, <3>2, <3>4 DEF Earned
  <2> QED
    BY <2>5, <2>6
<1>2. CASE TakeQuestion(t)
  <2>1. Persist(t, "ask_user", journal) /\ UNCHANGED <<pc, engine, token, chan>>
    BY <1>2 DEF TakeQuestion, actor
  <2>2. "ask_user" \in EventKinds /\ StateOf("ask_user") = "waiting_user"
    BY DEF EventKinds, StateOf
  <2>3. RowKept(u)
    BY <2>1, <2>2, PersistedRowOn DEF RowKept
  <2> QED
    BY <2>1, <2>3, KeepEarned DEF Earned
<1>3. CASE TakeCancel(t)
  <2> DEFINE row == CancelMarked(journal[t])
  <2>1. /\ Persist(t, "cancelling", [journal EXCEPT ![t] = row]) /\ UNCHANGED <<engine, token, chan>>
        /\ pc[t] = "loop" /\ pc' = [pc EXCEPT ![t] = "draining"]
    BY <1>3 DEF TakeCancel, Goto
  <2>2. "cancelling" \in EventKinds /\ StateOf("cancelling") = "cancelling"
    BY DEF EventKinds, StateOf
  <2>3. journal[t] \in Rows(MaxSent + 2) /\ Exists(journal[t])
    BY <2>1, RecordedStageSet DEF TypeOK, Recorded, RecordedStages
  <2>4. row \in Rows(MaxSent + 2) /\ row.status = journal[t].status /\ row.cancelRequested
    BY <2>3, CancelMarkedRow, CancelMarkedMoves, TopSeq
  <2> HIDE DEF row
  <2>5. /\ journal'[t].status \in {journal[t].status, "cancelling"}
        /\ journal'[t].cancelRequested
        /\ \A v \in Turn : v # t => journal'[v] = journal[v]
    BY <2>1, <2>2, <2>4, PersistedRow
  <2>6. CASE u # t
    BY <2>1, <2>5, <2>6, KeepEarned, SameRowKept DEF TypeOK, Earned
  <2>7. CASE u = t
    <3>1. pc'[t] = "draining"
      BY <2>1 DEF TypeOK
    <3> QED
      BY <2>1, <2>5, <2>7, <3>1 DEF Earned
  <2> QED
    BY <2>6, <2>7
<1>4. CASE Drained(t) \/ DrainTimesOut(t)
  <2>1. /\ pc[t] = "draining" /\ pc' = [pc EXCEPT ![t] = "joining"]
        /\ UNCHANGED <<journal, engine, token>>
        /\ UNCHANGED chan \/ chan' = [chan EXCEPT ![t] = <<>>]
    BY <1>4 DEF Drained, DrainTimesOut, Goto, durable
  <2>2. CASE u # t
    BY <2>1, <2>2, KeepEarned, SameRowKept DEF TypeOK, Earned
  <2>3. CASE u = t
    <3>1. pc'[t] = "joining" /\ (chan'[t] = chan[t] \/ chan'[t] = <<>>)
      BY <2>1 DEF TypeOK
    <3>2. chan'[t] = <<>> => ~(\E n \in 1 .. Len(chan'[t]) : chan'[t][n] = "done")
      <4>1. Len(<<>>) = 0
        OBVIOUS
      <4> QED
        BY <4>1
    <3> QED
      BY <2>1, <2>3, <3>1, <3>2 DEF Earned
  <2> QED
    BY <2>2, <2>3
<1>5. CASE JoinThenRelease(t)
  <2>1. /\ pc[t] = "joining" /\ pc' = [pc EXCEPT ![t] = "released"] /\ engine[t] = "ended"
        /\ UNCHANGED <<journal, engine, chan>> /\ token' = [token EXCEPT ![t] = "none"]
    BY <1>5 DEF JoinThenRelease, Joined, Goto, durable
  <2>2. CASE u # t
    BY <2>1, <2>2, KeepEarned, SameRowKept DEF TypeOK, Earned
  <2>3. CASE u = t
    <3>1. pc'[t] = "released" /\ token'[t] = "none"
      BY <2>1 DEF TypeOK
    <3> QED
      BY <2>1, <2>3, <3>1 DEF Earned
  <2> QED
    BY <2>2, <2>3
<1>6. CASE SayCancelled(t)
  <2>1. /\ Persist(t, "cancelled", journal) /\ UNCHANGED <<engine, token, chan>>
        /\ pc[t] = "released" /\ pc' = [pc EXCEPT ![t] = "exiting"]
    BY <1>6 DEF SayCancelled, Goto, task
  <2>2. "cancelled" \in EventKinds /\ StateOf("cancelled") = "cancelled"
    BY DEF EventKinds, StateOf
  <2>3. /\ journal'[t].status \in {journal[t].status, "cancelled"}
        /\ journal'[t].cancelRequested = journal[t].cancelRequested
        /\ \A v \in Turn : v # t => journal'[v] = journal[v]
    BY <2>1, <2>2, PersistedRowOn
  <2>4. CASE u # t
    BY <2>1, <2>3, <2>4, KeepEarned, SameRowKept DEF TypeOK, Earned
  <2>5. CASE u = t
    <3>1. pc'[t] = "exiting"
      BY <2>1 DEF TypeOK
    <3> QED
      BY <2>1, <2>3, <2>5, <3>1 DEF Earned
  <2> QED
    BY <2>4, <2>5
<1>7. CASE ThreadExits(t)
  <2>1. /\ pc[t] = "exiting" /\ pc' = [pc EXCEPT ![t] = "done"]
        /\ UNCHANGED <<journal, engine, token, chan>>
    BY <1>7 DEF ThreadExits, Goto
  <2> QED
    BY <2>1, KeepEarned, SameRowKept DEF TypeOK, Earned
<1> QED
  BY <1>1, <1>2, <1>3, <1>4, <1>5, <1>6, <1>7 DEF Loops

\* The session commands write no status; a deletion leaves no row to be explained.
LEMMA OpEarned ==
  ASSUME TypeOK, Recorded', NEW o \in Op, NEW u \in Turn, Earned(u)
  PROVE  /\ \A i \in Instance, s \in Session, k \in OpKinds : OpBegins(o, i, s, k) => Earned(u)'
         /\ Operates(o) => Earned(u)'
<1>1. ASSUME NEW stage, Goto(o, stage), RowKept(u), UNCHANGED task PROVE Earned(u)'
  <2>1. pc'[u] = pc[u]
    BY <1>1, Actors DEF Goto, TypeOK
  <2> QED
    BY <1>1, <2>1, KeepEarned DEF task, Earned
<1>2. Abandon(o) => Earned(u)'
  BY <1>1, SameRowKept DEF Abandon
<1>3. ASSUME NEW i \in Instance, NEW s \in Session, NEW k \in OpKinds, OpBegins(o, i, s, k)
      PROVE  Earned(u)'
  BY <1>1, <1>3, SameRowKept DEF OpBegins, Begin, durable
<1>4. OpLocks(o) \/ OpReads(o) \/ OpEnds(o) => Earned(u)'
  BY <1>1, <1>2, SameRowKept DEF OpLocks, OpReads, OpEnds, durable
<1>5. ASSUME OpApplies(o) PROVE Earned(u)'
  <2>1. journal'[u] = journal[u] \/ journal'[u] = NoTurn
    BY <1>5 DEF OpApplies, OpClears, OpDeletes, OpCompacts, OpLeavesAsIs
  <2>2. RowKept(u)
    BY <2>1 DEF RowKept, NoTurn, Exists
  <2> QED
    BY <1>1, <1>5, <2>2 DEF OpApplies
<1> QED
  BY <1>3, <1>4, <1>5 DEF Operates

\* A user marks a row, a start interrupts it, a crash ends the engines it takes.
LEMMA EnvironmentEarned ==
  ASSUME TypeOK, Recorded', NEW u \in Turn, Earned(u)
  PROVE  /\ \A t \in Turn, i \in Instance : RequestCancel(i, t) => Earned(u)'
         /\ \A i \in Instance : Start(i) \/ Crash(i) => Earned(u)'
         /\ UNCHANGED vars => Earned(u)'
<1>1. ASSUME NEW t \in Turn, NEW i \in Instance, RequestCancel(i, t) PROVE Earned(u)'
  <2> DEFINE marked == CancelMarked(journal[t])
  <2>1. /\ UNCHANGED <<pc, engine, chan>> /\ Exists(journal[t])
        /\ journal' = [journal EXCEPT ![t] = Updated(marked, "cancelling")]
        /\ token'[u] # "none" => token[u] # "none"
    BY <1>1 DEF RequestCancel, actor, TypeOK
  <2>2. marked \in Rows(MaxSent + 2) /\ marked.status = journal[t].status /\ marked.cancelRequested
    BY <2>1, CancelMarkedRow, CancelMarkedMoves, TopSeq DEF TypeOK
  <2>3. "cancelling" \in TurnState \ {"starting"}
    BY DEF TurnState, LiveStates
  <2> HIDE DEF marked
  <2>4. /\ Updated(marked, "cancelling").status \in {journal[t].status, "cancelling"}
        /\ Updated(marked, "cancelling").cancelRequested
    BY <2>2, <2>3, UpdatedMoves, TopSeq
  <2>5. journal'[u] = IF u = t THEN Updated(marked, "cancelling") ELSE journal[u]
    BY <2>1 DEF TypeOK
  <2>6. RowKept(u)
    BY <2>4, <2>5 DEF RowKept
  <2> QED
    BY <2>1, <2>6, KeepEarned DEF Earned
<1>2. ASSUME NEW i \in Instance, Start(i) PROVE Earned(u)'
  <2>1. journal'[u] = Interrupted(journal[u]) /\ UNCHANGED <<pc, engine, chan, token>>
    BY <1>2 DEF Start, actor, task
  <2>2. RowKept(u)
    BY <2>1, InterruptedMoves, TopSeq DEF RowKept, TypeOK
  <2> QED
    BY <2>1, <2>2, KeepEarned DEF Earned
<1>3. ASSUME NEW i \in Instance, Crash(i) PROVE Earned(u)'
  <2> DEFINE lost == {a \in Actor : at[a] = i /\ pc[a] \notin Finished}
  <2>1. /\ pc' = [a \in Actor |-> IF a \in lost THEN "dead" ELSE pc[a]]
        /\ engine' = [t \in Turn |-> IF t \in lost /\ engine[t] # "none" THEN "ended"
                                     ELSE engine[t]]
        /\ token' = [t \in Turn |-> IF t \in lost THEN "none" ELSE token[t]]
        /\ chan' = [t \in Turn |-> IF t \in lost THEN <<>> ELSE chan[t]]
        /\ UNCHANGED journal
    BY <1>3 DEF Crash
  <2> HIDE DEF lost
  <2>2. CASE u \notin lost
    BY <2>1, <2>2, Actors, KeepEarned, SameRowKept DEF Earned
  <2>3. CASE u \in lost
    <3>1. /\ pc'[u] = "dead" /\ token'[u] = "none" /\ chan'[u] = <<>>
          /\ engine'[u] = IF engine[u] # "none" THEN "ended" ELSE "none"
      BY <2>1, <2>3, Actors
    <3>2. Len(<<>>) = 0
      OBVIOUS
    <3>3. ~(\E n \in 1 .. Len(chan'[u]) : chan'[u][n] = "done")
      BY <3>1, <3>2
    <3> QED
      BY <2>1, <3>1, <3>3 DEF Earned
  <2> QED
    BY <2>2, <2>3
<1>4. ASSUME UNCHANGED vars PROVE Earned(u)'
  BY <1>4, KeepEarned, SameRowKept DEF vars, durable, actor, task, Earned
<1> QED
  BY <1>1, <1>2, <1>3, <1>4

\* Every step explains the statuses it makes.
LEMMA EarnedStep ==
  ASSUME TypeOK, EngineStages, Recorded, Recorded', [Next]_vars, NEW u \in Turn, Earned(u)
  PROVE  Earned(u)'
BY SendEarned, EngineEarned, LoopEarned, OpEarned, EnvironmentEarned DEF Next

-----------------------------------------------------------------------------
(* The inductive invariant, and what it implies. *)

\* Nothing leaks when what is taken is held, and the tokens are registered.
LEMMA LeaksNothing ==
  /\ NothingLeaks => Held
  /\ Owned /\ Held /\ Registered => NothingLeaks
  /\ (Owned /\ Held /\ Registered => NothingLeaks)'
<1>1. ASSUME NEW t \in Turn, pc[t] \in {"spawned", "loop", "draining", "joining"}
      PROVE  HoldsSlot(t)
  BY <1>1, Holders, StageSets, Actors
<1>2. ASSUME NEW t \in Turn, pc'[t] \in {"spawned", "loop", "draining", "joining"}
      PROVE  HoldsSlot(t)'
  BY <1>2, Holders, StageSets, Actors
<1> USE DEF NothingLeaks, Held, SlotsHeld, LocksHeld
<1>3. NothingLeaks => Held
  OBVIOUS
<1>4. Owned /\ Held /\ Registered => NothingLeaks
  BY <1>1 DEF Owned, SlotOwned, Registered
<1>5. (Owned /\ Held /\ Registered => NothingLeaks)'
  BY <1>2 DEF Owned, SlotOwned, Registered
<1> QED
  BY <1>3, <1>4, <1>5

\* The invariant holds when no process runs yet.
LEMMA InvInit == Init => IInv
<1> SUFFICES ASSUME Init PROVE IInv
  OBVIOUS
<1>1. TypeInv
  BY TypeInit
<1>2. LockOwned /\ SlotOwned
  BY StageSets, Holders, Actors DEF Init, LockOwned, SlotOwned
<1>3. Recorded
  BY Actors, RecordedStageSet DEF Init, Recorded, RecordedStages
<1>4. Numbered
  BY DEF Init, Numbered, NoTurn
<1>5. HistoryIsCurrent
  BY Workers, Actors DEF Init, HistoryIsCurrent, TurnWorkStages
<1>6. Held
  BY DEF Init, Held, SlotsHeld, LocksHeld
<1>7. ASSUME NEW t \in Turn PROVE Earned(t)
  <2>1. /\ journal[t] = NoTurn /\ chan[t] = <<>> /\ pc[t] = "idle" /\ token[t] = "none"
        /\ Len(<<>>) = 0
    BY <1>7, Actors DEF Init
  <2> QED
    BY <2>1 DEF Earned, NoTurn
<1>8. TerminalIsEarned /\ Witnessed /\ Registered
  BY <1>7, EarnedIs
<1>9. NothingLeaks
  BY <1>2, <1>6, <1>8, LeaksNothing DEF Owned
<1> QED
  BY <1>1, <1>2, <1>3, <1>4, <1>5, <1>8, <1>9 DEF IInv, TypeInv

\* Every step keeps the invariant.
LEMMA InvStep == IInv /\ [Next]_vars => IInv'
<1> SUFFICES ASSUME IInv, [Next]_vars PROVE IInv'
  OBVIOUS
<1>1. /\ TypeInv /\ Owned /\ Recorded /\ Numbered /\ HistoryIsCurrent
      /\ NothingLeaks /\ TerminalIsEarned /\ Witnessed /\ Registered
  BY DEF IInv, TypeInv, Owned
<1>2. TypeInv'
  BY <1>1, TypeStep
<1>3. Owned' /\ Recorded' /\ Numbered' /\ HistoryIsCurrent'
  BY <1>1, OwnedStep, RecordedStep, NumberedStep, CurrentStep DEF TypeInv
<1>4. Held'
  BY <1>1, HeldStep, LeaksNothing DEF TypeInv
<1>5. ASSUME NEW t \in Turn PROVE Earned(t)'
  BY <1>1, <1>3, EarnedIs, EarnedStep DEF TypeInv
<1>6. TerminalIsEarned' /\ Witnessed' /\ Registered'
  BY <1>5, EarnedIs
<1>7. NothingLeaks'
  BY <1>3, <1>4, <1>6, LeaksNothing
<1> QED
  BY <1>2, <1>3, <1>6, <1>7 DEF IInv, TypeInv, Owned

\* An engine lives where its turn has its slot, its session and its row.
LEMMA UndisturbedFollows == IInv => EngineUndisturbed
<1> SUFFICES ASSUME IInv, NEW t \in Turn, Alive(t)
             PROVE  /\ sess[on[t]] = "live" /\ Exists(journal[t])
                    /\ slots[at[t]][on[t]] = "turn"
  BY DEF EngineUndisturbed
<1>1. pc[t] \in {"loop", "draining", "joining"}
  BY DEF IInv, EngineStages
<1>2. sess[on[t]] = "live" /\ Exists(journal[t])
  BY <1>1, RecordedStageSet DEF IInv, Recorded, RecordedStages
<1>3. HoldsSlot(t) /\ kind[t] = "turn"
  BY <1>1, Actors, Holders, StageSets DEF IInv, SlotOwned
<1> QED
  BY <1>2, <1>3, Actors DEF IInv, SlotOwned

\* The inductive invariant holds in every reachable state.
THEOREM InvariantHolds == Spec => []IInv
BY InvInit, InvStep, PTL DEF Spec

\* Until it has been joined, an engine's session, row and slot are its own: no
\* deletion, restart of a process or release by kind takes them away.
THEOREM EnginesAreUndisturbed == Spec => []EngineUndisturbed
BY InvariantHolds, UndisturbedFollows, PTL

\* A rewrite of the messages never loses what somebody else has written, in
\* any number of processes.
THEOREM HistoriesAreCurrent == Spec => []HistoryIsCurrent
<1>1. IInv => HistoryIsCurrent
  BY DEF IInv
<1> QED
  BY <1>1, InvariantHolds, PTL

\* No event of a turn's own loop is ever taken for a duplicate.
THEOREM NumbersAreAhead == Spec => []SeqAhead
<1>1. IInv => SeqAhead
  BY DEF IInv, Numbered, SeqAhead, TurnHolding
<1> QED
  BY <1>1, InvariantHolds, PTL

\* Nothing is left over: a slot or a lock that is taken is held by an actor that
\* will give it back, and a cancel token stands for a turn that still has its slot.
THEOREM NothingIsLeftOver == Spec => []NothingLeaks
<1>1. IInv => NothingLeaks
  BY DEF IInv
<1> QED
  BY <1>1, InvariantHolds, PTL

\* A turn shows as completed only when its engine said so, and as cancelled only
\* when somebody asked for it and the engine is no more.
THEOREM EndsAreEarned == Spec => []TerminalIsEarned
<1>1. IInv => TerminalIsEarned
  BY DEF IInv
<1> QED
  BY <1>1, InvariantHolds, PTL
=================================================================================

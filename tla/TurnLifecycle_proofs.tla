-------------------------- MODULE TurnLifecycle_proofs --------------------------
(***************************************************************************)
(* The types of TurnLifecycle, for any number of processes, sessions,      *)
(* turns, commands and events.  The bound on the sequence numbers is what  *)
(* takes an argument: Budget says what the loop may still number, and      *)
(* EngineStages that a turn has its engine started at most once.  At the   *)
(* end, that TurnLifecycle implements TurnPromise.                         *)
(***************************************************************************)
EXTENDS TurnLifecycle, TurnStates_proofs, SequenceTheorems, TLAPS

\* The largest number is a number.
LEMMA TopSeq == MaxSent + 2 \in Nat /\ MaxSent \in Nat
BY BoundsAssumption

\* Turns and commands are actors, and Nobody is none.
LEMMA Actors ==
  /\ \A t \in Turn : t \in Actor
  /\ \A o \in Op : o \in Actor /\ o \notin Turn
  /\ Nobody \notin Actor
BY ActorsDistinct DEF Actor

\* The names the actions use are stages and kinds.
LEMMA Names ==
  /\ \A x \in {"idle", "done", "dead", "created", "slot", "checked", "locked",
                "journaled", "loaded", "spawned", "loop", "draining", "joining",
                "released", "exiting", "snapped", "applied"} : x \in Stage
  /\ \A x \in {"clear", "delete", "compact", "export", "turn"} : x \in SlotKinds
  /\ \A x \in OpKinds : x \in SlotKinds
BY DEF Stage, Waiting, TurnHolding, OpHolding, SlotKinds, OpKinds

-----------------------------------------------------------------------------
(* Types. *)

\* An early return keeps the types.
LEMMA AbandonType ==
  ASSUME TypeOK, NEW a \in Actor, pc[a] # "idle", Abandon(a)
  PROVE  TypeOK'
BY Actors, Names DEF Abandon, GiveSlot, GiveLock, Goto, TypeOK, task

\* The command keeps the types.
LEMMA SendType ==
  ASSUME TypeOK, NEW t \in Turn, Sends(t) \/ Prepares(t)
  PROVE  TypeOK'
<1>1. ASSUME NEW i \in Instance, NEW s \in Session, SendToSession(t, i, s)
      PROVE  TypeOK'
  BY <1>1, Actors, Names
     DEF SendToSession, Begin, Goto, TakeSlot, TypeOK, durable, task
<1>2. ASSUME NEW i \in Instance, NEW s \in Session, SendToNewSession(t, i, s)
      PROVE  TypeOK'
  BY <1>2, Actors, Names DEF SendToNewSession, Begin, Goto, TypeOK, process, task
<1>3. ASSUME FindSession(t) PROVE TypeOK'
  <2>1. CASE Abandon(t)
    BY <1>3, <2>1, AbandonType, Actors, Names DEF FindSession
  <2>2. CASE ~Abandon(t)
    <3>1. Goto(t, "checked") /\ UNCHANGED <<durable, process, at, on, kind, base, task>>
      BY <1>3, <2>2 DEF FindSession
    <3> QED
      BY <1>3, <3>1, Actors, Names
         DEF FindSession, Goto, TypeOK, durable, process, task
  <2> QED
    BY <2>1, <2>2
<1>4. ASSUME TakeNewSessionSlot(t) PROVE TypeOK'
  <2>1. slots' \in [Instance -> [Session -> SlotKinds \cup {"free"}]]
    <3>1. CASE UNCHANGED slots
      BY <3>1 DEF TypeOK
    <3>2. CASE TakeSlot(at[t], on[t], "turn")
      BY <1>4, <3>2, Names DEF TakeNewSessionSlot, TakeSlot, TypeOK
    <3> QED
      BY <1>4, <3>1, <3>2 DEF TakeNewSessionSlot
  <2>2. pc[t] = "created" /\ \E stage \in {"checked", "done"} : Goto(t, stage)
    BY <1>4 DEF TakeNewSessionSlot
  <2>3. UNCHANGED <<durable, up, crashes, at, on, kind, base, task>>
    BY <1>4 DEF TakeNewSessionSlot
  <2> QED
    BY <2>1, <2>2, <2>3, Actors, Names DEF Goto, TypeOK, durable, task
<1>5. ASSUME LockSession(t) PROVE TypeOK'
  <2>1. CASE Abandon(t)
    BY <1>5, <2>1, AbandonType, Actors, Names DEF LockSession
  <2>2. CASE ~Abandon(t)
    <3>1. flock' = [flock EXCEPT ![on[t]] = t] /\ Goto(t, "locked")
      BY <1>5, <2>2 DEF LockSession
    <3>2. UNCHANGED <<sess, journal, hist, process, at, on, kind, base, task>>
      BY <1>5, <2>2 DEF LockSession
    <3> QED
      BY <1>5, <3>1, <3>2, Actors, Names DEF LockSession, Goto, TypeOK, process, task
  <2> QED
    BY <2>1, <2>2
<1>6. ASSUME CreateTurn(t) PROVE TypeOK'
  <2>1. CASE Abandon(t)
    BY <1>6, <2>1, AbandonType, Actors, Names DEF CreateTurn
  <2>2. CASE ~Abandon(t)
    <3>1. Created(journal[t]) \in Rows(MaxSent + 2)
      BY CreatedRow, TopSeq DEF TypeOK
    <3>2. journal' \in [Turn -> Rows(MaxSent + 2)]
      BY <1>6, <2>2, <3>1 DEF CreateTurn, TypeOK
    <3>3. Goto(t, "journaled") /\ UNCHANGED <<sess, hist, flock, process, at, on, kind, base, task>>
      BY <1>6, <2>2 DEF CreateTurn
    <3> QED
      BY <1>6, <3>2, <3>3, Actors, Names DEF CreateTurn, Goto, TypeOK, process, task
  <2> QED
    BY <2>1, <2>2
<1>7. ASSUME LoadHistory(t) PROVE TypeOK'
  BY <1>7, Actors, Names DEF LoadHistory, Goto, TypeOK, durable, process, task
<1>8. ASSUME PrepareFails(t) PROVE TypeOK'
  BY <1>8, AbandonType, Actors, Names DEF PrepareFails
<1>9. ASSUME SpawnThread(t) PROVE TypeOK'
  BY <1>9, Actors, Names DEF SpawnThread, Goto, TypeOK, durable
<1>10. ASSUME ThreadFails(t) PROVE TypeOK'
  BY <1>10, Actors, Names DEF ThreadFails, GiveSlot, Goto, TypeOK, durable
<1>11. ASSUME StartEngine(t) PROVE TypeOK'
  BY <1>11, Actors, Names DEF StartEngine, Goto, TypeOK, durable, process
<1> QED
  BY <1>1, <1>2, <1>3, <1>4, <1>5, <1>6, <1>7, <1>8, <1>9, <1>10, <1>11
     DEF Sends, Prepares

\* The engine keeps the types.
LEMMA EngineType ==
  ASSUME TypeOK, NEW t \in Turn, EngineActs(t)
  PROVE  TypeOK'
<1>1. ASSUME NEW k \in Sent \cap EngineKinds, EngineSends(t, k)
      PROVE  TypeOK'
  BY <1>1, BoundsAssumption DEF EngineSends, TypeOK, durable, process, actor
<1>2. ASSUME EngineAsks(t) PROVE TypeOK'
  BY <1>2, BoundsAssumption DEF EngineAsks, TypeOK, durable, process, actor
<1>3. ASSUME EngineSaves(t) PROVE TypeOK'
  BY <1>3, Actors, Names DEF EngineSaves, TypeOK, process, actor, task
<1>4. ASSUME EngineReturns(t) PROVE TypeOK'
  <2>1. PICK failure \in {<<>>, <<"error">>} : chan' = [chan EXCEPT ![t] = @ \o failure]
    BY <1>4 DEF EngineReturns
  <2>2. failure \in Seq(EngineKinds) /\ chan[t] \in Seq(EngineKinds)
    <3>1. "error" \in EngineKinds
      BY DEF EngineKinds
    <3>2. <<>> \in Seq(EngineKinds) /\ <<"error">> \in Seq(EngineKinds)
      BY <3>1
    <3> QED
      BY <3>2 DEF TypeOK
  <2>3. chan[t] \o failure \in Seq(EngineKinds)
    BY <2>2, ConcatProperties
  <2>4. chan' \in [Turn -> Seq(EngineKinds)]
    BY <2>1, <2>3 DEF TypeOK
  <2> QED
    BY <1>4, <2>4 DEF EngineReturns, TypeOK, durable, process, actor
<1>5. ASSUME EngineDropped(t) PROVE TypeOK'
  BY <1>5 DEF EngineDropped, TypeOK, durable, process, actor
<1> QED
  BY <1>1, <1>2, <1>3, <1>4, <1>5 DEF EngineActs

\* The journal keeps its type when the loop persists an event.
LEMMA PersistType ==
  ASSUME TypeOK, NEW t \in Turn, NEW k \in EventKinds, NEW rows \in [Turn -> Rows(MaxSent + 2)],
         Persist(t, k, rows)
  PROVE  journal' \in [Turn -> Rows(MaxSent + 2)]
<1>1. Appended(rows[t], seq[t], StateOf(k)) \in Rows(MaxSent + 2)
  BY AppendedRow, StateOfType, TopSeq DEF TypeOK
<1> QED
  BY <1>1 DEF Persist

\* The loop's next number stays within its bound: Budget leaves room for one more.
LEMMA CountedType ==
  ASSUME TypeOK, Budget, NEW t \in Turn, Counted(t),
         pc[t] = "loop",
         chan[t] # <<>> \/ asks[t] > 0 \/ pc'[t] = "draining"
  PROVE  seq' \in [Turn -> 0 .. MaxSent + 2]
<1>1. seq[t] \in Nat /\ sent[t] \in 0 .. MaxSent /\ asks[t] \in {0, 1} /\ Len(chan[t]) \in Nat
  BY TopSeq, LenProperties DEF TypeOK
<1>2. seq[t] + (Len(chan[t]) + asks[t]) <= sent[t] + 1
  BY <1>1 DEF Budget, TurnBudget, Pending, Failures, Stops, Stopping
<1>3. seq[t] + 1 \in 0 .. MaxSent + 2
  BY <1>1, <1>2, TopSeq
<1> QED
  BY <1>3 DEF Counted, TypeOK

\* The loop keeps the types.
LEMMA LoopType ==
  ASSUME TypeOK, Budget, NEW t \in Turn, Loops(t)
  PROVE  TypeOK'
<1>1. ASSUME TakeEvent(t) PROVE TypeOK'
  <2>1. Head(chan[t]) \in EventKinds /\ Tail(chan[t]) \in Seq(EngineKinds)
    <3>1. chan[t] \in Seq(EngineKinds) /\ chan[t] # <<>>
      BY <1>1 DEF TakeEvent, TypeOK
    <3> QED
      BY <3>1, HeadTailProperties DEF EventKinds
  <2>2. journal' \in [Turn -> Rows(MaxSent + 2)]
    BY <1>1, <2>1, PersistType DEF TakeEvent, TypeOK
  <2>3. seq' \in [Turn -> 0 .. MaxSent + 2]
    BY <1>1, CountedType DEF TakeEvent
  <2>4. chan' \in [Turn -> Seq(EngineKinds)]
    BY <1>1, <2>1 DEF TakeEvent, TypeOK
  <2> QED
    BY <1>1, <2>2, <2>3, <2>4 DEF TakeEvent, TypeOK, actor
<1>2. ASSUME TakeQuestion(t) PROVE TypeOK'
  <2>1. journal' \in [Turn -> Rows(MaxSent + 2)]
    BY <1>2, PersistType DEF TakeQuestion, TypeOK, EventKinds
  <2>2. seq' \in [Turn -> 0 .. MaxSent + 2]
    BY <1>2, CountedType DEF TakeQuestion
  <2>3. asks' \in [Turn -> {0, 1}]
    BY <1>2 DEF TakeQuestion, TypeOK
  <2> QED
    BY <1>2, <2>1, <2>2, <2>3 DEF TakeQuestion, TypeOK, actor
<1>3. ASSUME TakeCancel(t) PROVE TypeOK'
  <2>1. CancelMarked(journal[t]) \in Rows(MaxSent + 2)
    BY CancelMarkedRow, TopSeq DEF TypeOK
  <2>2. [journal EXCEPT ![t] = CancelMarked(@)] \in [Turn -> Rows(MaxSent + 2)]
    BY <2>1 DEF TypeOK
  <2>3. journal' \in [Turn -> Rows(MaxSent + 2)]
    BY <1>3, <2>2, PersistType DEF TakeCancel, EventKinds
  <2>4. pc[t] = "loop" /\ pc'[t] = "draining"
    BY <1>3, Actors DEF TakeCancel, Goto, TypeOK
  <2>5. seq' \in [Turn -> 0 .. MaxSent + 2]
    BY <1>3, <2>4, CountedType DEF TakeCancel
  <2> QED
    BY <1>3, <2>3, <2>5, Actors, Names DEF TakeCancel, Goto, TypeOK
<1>4. ASSUME Drained(t) PROVE TypeOK'
  <2>1. <<>> \in Seq(EngineKinds)
    OBVIOUS
  <2> QED
    BY <1>4, <2>1, Actors, Names DEF Drained, Goto, TypeOK, durable, process
<1>5. ASSUME DrainTimesOut(t) PROVE TypeOK'
  BY <1>5, Actors, Names DEF DrainTimesOut, Abort, Goto, TypeOK, durable, process
<1>6. ASSUME JoinThenRelease(t) PROVE TypeOK'
  BY <1>6, Actors, Names DEF JoinThenRelease, GiveSlot, Goto, TypeOK, durable
<1>7. ASSUME SayCancelled(t) PROVE TypeOK'
  <2>1. journal' \in [Turn -> Rows(MaxSent + 2)]
    BY <1>7, PersistType DEF SayCancelled, TypeOK, EventKinds
  <2> QED
    BY <1>7, <2>1, Actors, Names DEF SayCancelled, Goto, TypeOK, task
<1>8. ASSUME ThreadExits(t) PROVE TypeOK'
  <2>1. 0 \in 0 .. MaxSent + 2
    BY TopSeq
  <2> QED
    BY <1>8, <2>1, Actors, Names DEF ThreadExits, GiveLock, Goto, TypeOK, process
<1> QED
  BY <1>1, <1>2, <1>3, <1>4, <1>5, <1>6, <1>7, <1>8 DEF Loops

\* The session commands keep the types.
LEMMA OpType ==
  ASSUME TypeOK, NEW o \in Op
  PROVE  /\ \A i \in Instance, s \in Session, k \in OpKinds : OpBegins(o, i, s, k) => TypeOK'
         /\ Operates(o) => TypeOK'
<1>1. ASSUME NEW i \in Instance, NEW s \in Session, NEW k \in OpKinds, OpBegins(o, i, s, k)
      PROVE  TypeOK'
  BY <1>1, Actors, Names DEF OpBegins, Begin, Goto, TakeSlot, TypeOK, durable, task
<1>2. ASSUME OpLocks(o) PROVE TypeOK'
  <2>1. CASE Abandon(o)
    BY <1>2, <2>1, AbandonType, Actors DEF OpLocks
  <2>2. CASE ~Abandon(o)
    <3>1. flock' = [flock EXCEPT ![on[o]] = o] /\ Goto(o, "locked")
      BY <1>2, <2>2 DEF OpLocks
    <3>2. UNCHANGED <<sess, journal, hist, process, at, on, kind, base, task>>
      BY <1>2, <2>2 DEF OpLocks
    <3> QED
      BY <1>2, <3>1, <3>2, Actors, Names DEF OpLocks, Goto, TypeOK, process, task
  <2> QED
    BY <2>1, <2>2
<1>3. ASSUME OpReads(o) PROVE TypeOK'
  <2>1. CASE Abandon(o)
    BY <1>3, <2>1, AbandonType, Actors DEF OpReads
  <2>2. CASE ~Abandon(o)
    <3>1. base' = [base EXCEPT ![o] = hist[on[o]]] /\ Goto(o, "snapped")
      BY <1>3, <2>2 DEF OpReads
    <3>2. UNCHANGED <<durable, process, at, on, kind, task>>
      BY <1>3, <2>2 DEF OpReads
    <3> QED
      BY <1>3, <3>1, <3>2, Actors, Names DEF OpReads, Goto, TypeOK, durable, process, task
  <2> QED
    BY <2>1, <2>2
<1>4. ASSUME OpApplies(o) PROVE TypeOK'
  <2>1. sess' \in [Session -> {"new", "live", "deleted"}]
    BY <1>4 DEF OpApplies, OpClears, OpDeletes, OpCompacts, OpLeavesAsIs, TypeOK
  <2>2. hist' \in [Session -> Actor \cup {Nobody}]
    BY <1>4, Actors DEF OpApplies, OpClears, OpDeletes, OpCompacts, OpLeavesAsIs, TypeOK
  <2>3. journal' \in [Turn -> Rows(MaxSent + 2)]
    <3>1. NoTurn \in Rows(MaxSent + 2)
      BY DEF Rows
    <3>2. journal' = journal
            \/ journal' = [t \in Turn |-> IF on[t] = on[o] THEN NoTurn ELSE journal[t]]
      BY <1>4 DEF OpApplies, OpClears, OpDeletes, OpCompacts, OpLeavesAsIs
    <3> QED
      BY <3>1, <3>2 DEF TypeOK
  <2>4. pc[o] = "snapped" /\ Goto(o, "applied")
    BY <1>4 DEF OpApplies
  <2>5. UNCHANGED <<flock, process, at, on, kind, base, task>>
    BY <1>4 DEF OpApplies
  <2> QED
    BY <2>1, <2>2, <2>3, <2>4, <2>5, Actors, Names DEF Goto, TypeOK, process, task
<1>5. ASSUME OpEnds(o) PROVE TypeOK'
  BY <1>5, AbandonType, Actors DEF OpEnds
<1> QED
  BY <1>1, <1>2, <1>3, <1>4, <1>5 DEF Operates

\* User, starts and crashes keep the types.
LEMMA EnvironmentType ==
  ASSUME TypeOK, NEW i \in Instance
  PROVE  /\ \A t \in Turn : RequestCancel(i, t) => TypeOK'
         /\ Start(i) \/ Crash(i) => TypeOK'
<1>1. ASSUME NEW t \in Turn, RequestCancel(i, t) PROVE TypeOK'
  <2>1. "cancelling" \in TurnState
    BY DEF TurnState, LiveStates
  <2>2. Updated(CancelMarked(journal[t]), "cancelling") \in Rows(MaxSent + 2)
    BY <2>1, CancelMarkedRow, UpdatedRow, TopSeq DEF TypeOK
  <2>3. journal' \in [Turn -> Rows(MaxSent + 2)]
    BY <1>1, <2>2 DEF RequestCancel, TypeOK
  <2> QED
    BY <1>1, <2>3 DEF RequestCancel, TypeOK, actor
<1>2. ASSUME Start(i) PROVE TypeOK'
  <2>1. \A t \in Turn : Interrupted(journal[t]) \in Rows(MaxSent + 2)
    BY InterruptedRow, TopSeq DEF TypeOK
  <2>2. journal' \in [Turn -> Rows(MaxSent + 2)]
    BY <1>2, <2>1 DEF Start
  <2> QED
    BY <1>2, <2>2 DEF Start, TypeOK, actor, task
<1>3. ASSUME Crash(i) PROVE TypeOK'
  <2> DEFINE lost == {a \in Actor : at[a] = i /\ pc[a] \notin Finished}
  <2> HIDE DEF lost
  <2>1. /\ crashes' \in 0 .. MaxCrashes
        /\ up' \subseteq Instance
        /\ slots' \in [Instance -> [Session -> SlotKinds \cup {"free"}]]
    BY <1>3, BoundsAssumption DEF Crash, TypeOK
  <2>2. /\ pc' = [a \in Actor |-> IF a \in lost THEN "dead" ELSE pc[a]]
        /\ flock' = [s \in Session |-> IF flock[s] \in lost THEN Nobody ELSE flock[s]]
        /\ base' = [a \in Actor |-> IF a \in lost THEN Nobody ELSE base[a]]
    BY <1>3 DEF Crash, lost
  <2>3. \A a \in lost : pc[a] # "idle"
    BY DEF lost, Finished
  <2>4. /\ engine' = [t \in Turn |-> IF t \in lost /\ engine[t] # "none" THEN "ended"
                                     ELSE engine[t]]
        /\ token' = [t \in Turn |-> IF t \in lost THEN "none" ELSE token[t]]
        /\ chan' = [t \in Turn |-> IF t \in lost THEN <<>> ELSE chan[t]]
        /\ asks' = [t \in Turn |-> IF t \in lost THEN 0 ELSE asks[t]]
        /\ seq' = [t \in Turn |-> IF t \in lost THEN 0 ELSE seq[t]]
        /\ aborted' = [t \in Turn |-> IF t \in lost THEN FALSE ELSE aborted[t]]
    BY <1>3 DEF Crash, lost
  <2>5. 0 \in 0 .. MaxSent + 2 /\ <<>> \in Seq(EngineKinds)
    BY TopSeq
  <2>6. /\ pc' \in [Actor -> Stage]
        /\ flock' \in [Session -> Actor \cup {Nobody}]
        /\ base' \in [Actor -> Actor \cup {Nobody}]
    BY <2>2, Names DEF TypeOK
  <2>7. /\ engine' \in [Turn -> {"none", "running", "closing", "ended"}]
        /\ token' \in [Turn -> {"none", "armed", "fired"}]
        /\ aborted' \in [Turn -> BOOLEAN]
    BY <2>4 DEF TypeOK
  <2>8. /\ chan' \in [Turn -> Seq(EngineKinds)]
        /\ asks' \in [Turn -> {0, 1}]
        /\ seq' \in [Turn -> 0 .. MaxSent + 2]
    BY <2>4, <2>5 DEF TypeOK
  <2>9. UNCHANGED <<sess, journal, hist, at, on, kind, sent>>
    BY <1>3 DEF Crash
  <2>10. \A a \in Actor : pc'[a] # "idle" => at'[a] \in Instance /\ on'[a] \in Session
    BY <2>2, <2>3, <2>9 DEF TypeOK
  <2> QED
    BY <2>1, <2>6, <2>7, <2>8, <2>9, <2>10 DEF TypeOK
<1> QED
  BY <1>1, <1>2, <1>3

-----------------------------------------------------------------------------
(* The budget of sequence numbers. *)

\* The numbers in it are numbers.
LEMMA BudgetTerms ==
  ASSUME TypeOK, NEW t \in Turn
  PROVE  /\ Len(chan[t]) \in Nat /\ asks[t] \in {0, 1}
         /\ Pending(t) \in Nat /\ Failures(t) \in {0, 1} /\ Stops(t) \in {0, 1}
         /\ sent[t] \in 0 .. MaxSent /\ seq[t] \in 0 .. MaxSent + 2 /\ MaxSent \in Nat
BY TopSeq, LenProperties DEF TypeOK, Pending, Failures, Stops

\* A step that leaves the task of a turn alone, and does not take its loop out
\* of the stages in which it has counted its cancellation, leaves its budget alone.
LEMMA SameBudget ==
  ASSUME TypeOK, TypeOK', NEW t \in Turn, TurnBudget(t),
         chan'[t] = chan[t], asks'[t] = asks[t], sent'[t] = sent[t], seq'[t] = seq[t],
         engine[t] = "ended" => engine'[t] = "ended",
         Stops(t) = 1 => Stops(t)' = 1
  PROVE  TurnBudget(t)'
<1>1. Pending(t)' = Pending(t)
  BY DEF Pending
<1>2. Failures(t)' \in Nat /\ Failures(t) <= Failures(t)'
  BY DEF Failures
<1>3. Stops(t)' \in Nat /\ Stops(t) <= Stops(t)'
  BY DEF Stops
<1> QED
  BY <1>1, <1>2, <1>3, BudgetTerms DEF TurnBudget

\* An actor that moves on, and not out of those stages, leaves every budget alone.
LEMMA MoveBudget ==
  ASSUME TypeOK, TypeOK', NEW u \in Turn, TurnBudget(u),
         NEW a \in Actor, NEW stage, Goto(a, stage),
         pc[a] \in Stopping => stage \in Stopping,
         UNCHANGED <<chan, asks, sent, seq>>,
         engine[u] = "ended" => engine'[u] = "ended"
  PROVE  TurnBudget(u)'
<1>1. pc' = [pc EXCEPT ![a] = stage] /\ pc \in [Actor -> Stage]
  BY DEF Goto, TypeOK
<1>2. Stops(u) = 1 => Stops(u)' = 1
  BY <1>1, Actors DEF Stops
<1> QED
  BY <1>2, SameBudget

\* An early return is taken before the loop: it leaves every budget alone.
LEMMA AbandonBudget ==
  ASSUME TypeOK, TypeOK', NEW u \in Turn, TurnBudget(u), NEW a \in Actor, Abandon(a),
         pc[a] \notin Stopping
  PROVE  TurnBudget(u)'
<1>1. Goto(a, "done") /\ UNCHANGED task
  BY DEF Abandon
<1> QED
  BY <1>1, MoveBudget DEF task

\* The commands leave the budgets alone.
LEMMA SendBudget ==
  ASSUME TypeOK, TypeOK', EngineStages, NEW u \in Turn, TurnBudget(u), NEW t \in Turn, Sends(t) \/ Prepares(t)
  PROVE  TurnBudget(u)'
<1> USE Actors DEF Stopping
<1>1. CASE Sends(t)
  <2>1. pc[t] = "idle" /\ UNCHANGED task /\ \E stage \in {"slot", "created"} : Goto(t, stage)
    BY <1>1 DEF Sends, SendToSession, SendToNewSession, Begin
  <2> QED
    BY <2>1, MoveBudget DEF task
<1>2. CASE FindSession(t)
  <2>1. CASE Abandon(t)
    BY <1>2, <2>1, AbandonBudget DEF FindSession
  <2>2. CASE ~Abandon(t)
    <3>1. pc[t] = "slot" /\ Goto(t, "checked") /\ UNCHANGED task
      BY <1>2, <2>2 DEF FindSession
    <3> QED
      BY <3>1, MoveBudget DEF task
  <2> QED
    BY <2>1, <2>2
<1>3. CASE TakeNewSessionSlot(t)
  <2>1. /\ pc[t] = "created" /\ UNCHANGED task
        /\ \E stage \in {"checked", "done"} : Goto(t, stage)
    BY <1>3 DEF TakeNewSessionSlot
  <2> QED
    BY <2>1, MoveBudget DEF task
<1>4. CASE LockSession(t)
  <2>1. CASE Abandon(t)
    BY <1>4, <2>1, AbandonBudget DEF LockSession
  <2>2. CASE ~Abandon(t)
    <3>1. pc[t] = "checked" /\ Goto(t, "locked") /\ UNCHANGED task
      BY <1>4, <2>2 DEF LockSession
    <3> QED
      BY <3>1, MoveBudget DEF task
  <2> QED
    BY <2>1, <2>2
<1>5. CASE CreateTurn(t)
  <2>1. CASE Abandon(t)
    BY <1>5, <2>1, AbandonBudget DEF CreateTurn
  <2>2. CASE ~Abandon(t)
    <3>1. pc[t] = "locked" /\ Goto(t, "journaled") /\ UNCHANGED task
      BY <1>5, <2>2 DEF CreateTurn
    <3> QED
      BY <3>1, MoveBudget DEF task
  <2> QED
    BY <2>1, <2>2
<1>6. CASE LoadHistory(t)
  BY <1>6, MoveBudget DEF LoadHistory, task
<1>7. CASE PrepareFails(t)
  BY <1>7, AbandonBudget DEF PrepareFails
<1>8. CASE SpawnThread(t)
  BY <1>8, MoveBudget DEF SpawnThread
<1>9. CASE ThreadFails(t)
  BY <1>9, MoveBudget DEF ThreadFails
<1>10. CASE StartEngine(t)
  <2>1. engine[t] = "none"
    BY <1>10 DEF StartEngine, EngineStages
  <2>2. engine[u] = "ended" => engine'[u] = "ended"
    BY <1>10, <2>1 DEF StartEngine, TypeOK
  <2> QED
    BY <1>10, <2>2, MoveBudget DEF StartEngine
<1> QED
  BY <1>1, <1>2, <1>3, <1>4, <1>5, <1>6, <1>7, <1>8, <1>9, <1>10 DEF Prepares

\* The engine pays for what it puts in the channels.
LEMMA EngineBudget ==
  ASSUME TypeOK, TypeOK', NEW u \in Turn, TurnBudget(u), NEW t \in Turn, EngineActs(t)
  PROVE  TurnBudget(u)'
<1>1. CASE EngineSaves(t) \/ EngineDropped(t)
  <2>1. UNCHANGED <<chan, asks, sent, seq, pc>> /\ (engine[u] = "ended" => engine'[u] = "ended")
    BY <1>1 DEF EngineSaves, EngineDropped, task, actor, TypeOK
  <2> QED
    BY <2>1, SameBudget DEF Stops
<1>2. ASSUME NEW k \in EngineKinds, EngineSends(t, k) PROVE TurnBudget(u)'
  <2>1. UNCHANGED <<asks, seq, pc>> /\ engine[t] # "ended"
    BY <1>2 DEF EngineSends, actor, Alive
  <2>2. CASE u = t
    <3>1. sent'[t] = sent[t] + 1 /\ Len(chan'[t]) = Len(chan[t]) + 1
      BY <1>2, AppendProperties DEF EngineSends, TypeOK
    <3>2. Pending(t)' = Pending(t) + 1
      BY <2>1, <3>1, BudgetTerms DEF Pending
    <3>3. Stops(t)' = Stops(t) /\ Failures(t) = 0 /\ Failures(t)' \in {0, 1}
      BY <2>1 DEF Stops, Failures
    <3> QED
      BY <2>1, <2>2, <3>1, <3>2, <3>3, BudgetTerms DEF TurnBudget
  <2>3. CASE u # t
    <3>1. chan'[u] = chan[u] /\ sent'[u] = sent[u] /\ engine'[u] = engine[u]
      BY <1>2, <2>3 DEF EngineSends, TypeOK
    <3> QED
      BY <2>1, <3>1, SameBudget DEF Stops
  <2> QED
    BY <2>2, <2>3
<1>3. CASE EngineAsks(t)
  <2>1. UNCHANGED <<chan, seq, pc, engine>>
    BY <1>3 DEF EngineAsks, actor
  <2>2. CASE u = t
    <3>1. sent'[t] = sent[t] + 1 /\ asks[t] = 0 /\ asks'[t] = 1
      BY <1>3 DEF EngineAsks, TypeOK
    <3>2. Pending(t)' = Pending(t) + 1
      BY <2>1, <3>1, BudgetTerms DEF Pending
    <3>3. Stops(t)' = Stops(t) /\ Failures(t)' = Failures(t)
      BY <2>1 DEF Stops, Failures
    <3> QED
      BY <2>1, <2>2, <3>1, <3>2, <3>3, BudgetTerms DEF TurnBudget
  <2>3. CASE u # t
    <3>1. asks'[u] = asks[u] /\ sent'[u] = sent[u]
      BY <1>3, <2>3 DEF EngineAsks, TypeOK
    <3> QED
      BY <2>1, <3>1, SameBudget DEF Stops
  <2> QED
    BY <2>2, <2>3
<1>4. CASE EngineReturns(t)
  <2>1. UNCHANGED <<asks, sent, seq, pc>> /\ engine[t] # "ended"
    BY <1>4 DEF EngineReturns, actor, Alive
  <2>2. CASE u = t
    <3>1. PICK failure \in {<<>>, <<"error">>} : chan' = [chan EXCEPT ![t] = @ \o failure]
      BY <1>4 DEF EngineReturns
    <3>2. failure \in Seq(EngineKinds) /\ Len(failure) \in {0, 1}
      <4>1. "error" \in EngineKinds
        BY DEF EngineKinds
      <4>2. <<>> \in Seq(EngineKinds) /\ Len(<<>>) = 0
        OBVIOUS
      <4>3. <<"error">> \in Seq(EngineKinds) /\ Len(<<"error">>) = 1
        BY <4>1
      <4> QED
        BY <4>2, <4>3
    <3>3. Len(chan'[t]) = Len(chan[t]) + Len(failure)
      <4>1. chan[t] \in Seq(EngineKinds) /\ chan'[t] = chan[t] \o failure
        BY <3>1 DEF TypeOK
      <4> QED
        BY <3>2, <4>1, ConcatProperties
    <3>4. Pending(t)' <= Pending(t) + 1 /\ Pending(t)' \in Nat
      <4> DEFINE n == Len(failure)
      <4>1. n \in {0, 1} /\ Len(chan[t])' = Len(chan[t]) + n
        BY <3>2, <3>3
      <4> HIDE DEF n
      <4>2. Pending(t)' = (Len(chan[t]) + n) + asks[t]
        BY <2>1, <4>1 DEF Pending
      <4>3. Pending(t) = Len(chan[t]) + asks[t]
        BY DEF Pending
      <4>4. Len(chan[t]) \in Nat /\ asks[t] \in Nat
        BY BudgetTerms
      <4>5. (Len(chan[t]) + n) + asks[t] \in Nat
            /\ (Len(chan[t]) + n) + asks[t] <= (Len(chan[t]) + asks[t]) + 1
        BY <4>1, <4>4
      <4> QED
        BY <4>2, <4>3, <4>5
    <3>5. Stops(t)' = Stops(t) /\ Failures(t) = 0 /\ Failures(t)' = 1
      BY <1>4, <2>1 DEF EngineReturns, Stops, Failures, TypeOK
    <3> QED
      BY <2>1, <2>2, <3>4, <3>5, BudgetTerms DEF TurnBudget
  <2>3. CASE u # t
    <3>1. chan'[u] = chan[u] /\ engine'[u] = engine[u]
      BY <1>4, <2>3 DEF EngineReturns, TypeOK
    <3> QED
      BY <2>1, <3>1, SameBudget DEF Stops
  <2> QED
    BY <2>2, <2>3
<1> QED
  BY <1>1, <1>2, <1>3, <1>4 DEF EngineActs

\* The loop takes from the channels what it numbers.
LEMMA LoopBudget ==
  ASSUME TypeOK, TypeOK', NEW u \in Turn, TurnBudget(u), NEW t \in Turn, Loops(t)
  PROVE  TurnBudget(u)'
<1> USE Actors
<1>1. CASE TakeEvent(t)
  <2>1. UNCHANGED <<asks, sent, engine, pc>>
    BY <1>1 DEF TakeEvent, actor
  <2>2. CASE u = t
    <3>1. chan[t] \in Seq(EngineKinds) /\ chan[t] # <<>> /\ chan'[t] = Tail(chan[t])
      BY <1>1 DEF TakeEvent, TypeOK
    <3>2. Len(chan'[t]) = Len(chan[t]) - 1
      BY <3>1, HeadTailProperties
    <3>3. seq'[t] = seq[t] + 1
      BY <1>1 DEF TakeEvent, Counted, TypeOK
    <3>4. Pending(t)' = Pending(t) - 1
      BY <2>1, <3>2, BudgetTerms DEF Pending
    <3>5. Stops(t)' = Stops(t) /\ Failures(t)' = Failures(t)
      BY <2>1 DEF Stops, Failures
    <3> QED
      BY <2>1, <2>2, <3>3, <3>4, <3>5, BudgetTerms DEF TurnBudget
  <2>3. CASE u # t
    <3>1. chan'[u] = chan[u] /\ seq'[u] = seq[u]
      BY <1>1, <2>3 DEF TakeEvent, Counted, TypeOK
    <3> QED
      BY <2>1, <3>1, SameBudget DEF Stops
  <2> QED
    BY <2>2, <2>3
<1>2. CASE TakeQuestion(t)
  <2>1. UNCHANGED <<chan, sent, engine, pc>>
    BY <1>2 DEF TakeQuestion, actor
  <2>2. CASE u = t
    <3>1. asks[t] = 1 /\ asks'[t] = 0 /\ seq'[t] = seq[t] + 1
      BY <1>2 DEF TakeQuestion, Counted, TypeOK
    <3>2. Pending(t)' = Pending(t) - 1
      BY <2>1, <3>1, BudgetTerms DEF Pending
    <3>3. Stops(t)' = Stops(t) /\ Failures(t)' = Failures(t)
      BY <2>1 DEF Stops, Failures
    <3> QED
      BY <2>1, <2>2, <3>1, <3>2, <3>3, BudgetTerms DEF TurnBudget
  <2>3. CASE u # t
    <3>1. asks'[u] = asks[u] /\ seq'[u] = seq[u]
      BY <1>2, <2>3 DEF TakeQuestion, Counted, TypeOK
    <3> QED
      BY <2>1, <3>1, SameBudget DEF Stops
  <2> QED
    BY <2>2, <2>3
<1>3. CASE TakeCancel(t)
  <2>1. UNCHANGED <<chan, asks, sent, engine>> /\ pc[t] = "loop"
    BY <1>3 DEF TakeCancel
  <2>2. CASE u = t
    <3>1. seq'[t] = seq[t] + 1 /\ pc'[t] = "draining"
      BY <1>3 DEF TakeCancel, Counted, Goto, TypeOK
    <3>2. Pending(t)' = Pending(t) /\ Failures(t)' = Failures(t)
      BY <2>1 DEF Pending, Failures
    <3>3. Stops(t) = 0 /\ Stops(t)' = 1
      BY <2>1, <3>1 DEF Stops, Stopping
    <3> QED
      BY <2>1, <2>2, <3>1, <3>2, <3>3, BudgetTerms DEF TurnBudget
  <2>3. CASE u # t
    <3>1. seq'[u] = seq[u] /\ pc'[u] = pc[u]
      BY <1>3, <2>3 DEF TakeCancel, Counted, Goto, TypeOK
    <3> QED
      BY <2>1, <3>1, SameBudget DEF Stops
  <2> QED
    BY <2>2, <2>3
<1>4. CASE Drained(t)
  <2>1. UNCHANGED <<sent, seq, engine>> /\ pc[t] = "draining" /\ Goto(t, "joining")
    BY <1>4 DEF Drained
  <2>2. CASE u = t
    <3>1. chan'[t] = <<>> /\ asks'[t] = 0
      BY <1>4 DEF Drained, TypeOK
    <3>2. Pending(t)' = 0
      BY <3>1 DEF Pending
    <3>3. Stops(t)' = Stops(t) /\ Failures(t)' = Failures(t)
      BY <2>1 DEF Stops, Failures, Goto, Stopping, TypeOK
    <3> QED
      BY <2>1, <2>2, <3>2, <3>3, BudgetTerms DEF TurnBudget
  <2>3. CASE u # t
    <3>1. chan'[u] = chan[u] /\ asks'[u] = asks[u] /\ pc'[u] = pc[u]
      BY <1>4, <2>3 DEF Drained, Goto, TypeOK
    <3> QED
      BY <2>1, <3>1, SameBudget DEF Stops
  <2> QED
    BY <2>2, <2>3
<1>5. CASE DrainTimesOut(t)
  BY <1>5, MoveBudget DEF DrainTimesOut, Stopping
<1>6. CASE JoinThenRelease(t)
  BY <1>6, MoveBudget DEF JoinThenRelease, Stopping
<1>7. CASE SayCancelled(t)
  BY <1>7, MoveBudget DEF SayCancelled, task, Stopping
<1>8. CASE ThreadExits(t)
  <2>1. UNCHANGED <<sent, chan, asks, engine>> /\ pc[t] = "exiting"
    BY <1>8 DEF ThreadExits
  <2>2. CASE u = t
    <3>1. seq'[t] = 0
      BY <1>8 DEF ThreadExits, TypeOK
    <3>2. Pending(t)' = Pending(t) /\ Failures(t)' = Failures(t) /\ Stops(t)' \in {0, 1}
      BY <2>1 DEF Pending, Failures, Stops
    <3> QED
      BY <2>1, <2>2, <3>1, <3>2, BudgetTerms DEF TurnBudget
  <2>3. CASE u # t
    <3>1. seq'[u] = seq[u] /\ pc'[u] = pc[u]
      BY <1>8, <2>3 DEF ThreadExits, Goto, TypeOK
    <3> QED
      BY <2>1, <3>1, SameBudget DEF Stops
  <2> QED
    BY <2>2, <2>3
<1> QED
  BY <1>1, <1>2, <1>3, <1>4, <1>5, <1>6, <1>7, <1>8 DEF Loops

\* The session commands, and users, do not know of budgets.
LEMMA OpBudget ==
  ASSUME TypeOK, TypeOK', NEW u \in Turn, TurnBudget(u), NEW o \in Op
  PROVE  /\ \A i \in Instance, s \in Session, k \in OpKinds :
              OpBegins(o, i, s, k) => TurnBudget(u)'
         /\ Operates(o) => TurnBudget(u)'
<1>1. o # u
  BY Actors
<1>2. ASSUME NEW stage, Goto(o, stage), UNCHANGED task PROVE TurnBudget(u)'
  <2>1. pc'[u] = pc[u]
    BY <1>1, <1>2, Actors DEF Goto, TypeOK
  <2> QED
    BY <1>2, <2>1, SameBudget DEF Stops, task
<1>3. Abandon(o) => TurnBudget(u)'
  BY <1>2 DEF Abandon
<1>4. ASSUME NEW i \in Instance, NEW s \in Session, NEW k \in OpKinds, OpBegins(o, i, s, k)
      PROVE  TurnBudget(u)'
  BY <1>2, <1>4 DEF OpBegins, Begin
<1>5. ASSUME Operates(o) PROVE TurnBudget(u)'
  BY <1>2, <1>3, <1>5 DEF Operates, OpLocks, OpReads, OpApplies, OpEnds
<1> QED
  BY <1>4, <1>5

\* Users and starts know no budget, and a crash forgets what there was to count.
LEMMA EnvironmentBudget ==
  ASSUME TypeOK, TypeOK', NEW u \in Turn, TurnBudget(u), NEW i \in Instance
  PROVE  /\ \A t \in Turn : RequestCancel(i, t) => TurnBudget(u)'
         /\ Start(i) \/ Crash(i) => TurnBudget(u)'
<1>1. ASSUME UNCHANGED <<pc, engine, chan, asks, sent, seq>> PROVE TurnBudget(u)'
  BY <1>1, SameBudget DEF Stops
<1>2. ASSUME NEW t \in Turn, RequestCancel(i, t) PROVE TurnBudget(u)'
  BY <1>1, <1>2 DEF RequestCancel, actor
<1>3. CASE Start(i)
  BY <1>1, <1>3 DEF Start, actor, task
<1>4. CASE Crash(i)
  <2> DEFINE lost == {a \in Actor : at[a] = i /\ pc[a] \notin Finished}
  <2>1. CASE u \in lost
    <3>1. chan'[u] = <<>> /\ asks'[u] = 0 /\ seq'[u] = 0 /\ sent'[u] = sent[u]
      BY <1>4, <2>1 DEF Crash
    <3>2. Pending(u)' = 0
      BY <3>1 DEF Pending
    <3>3. Failures(u)' \in {0, 1} /\ Stops(u)' \in {0, 1}
      BY DEF Failures, Stops
    <3> QED
      BY <3>1, <3>2, <3>3, BudgetTerms DEF TurnBudget
  <2>2. CASE u \notin lost
    <3> HIDE DEF lost
    <3>1. /\ pc' = [a \in Actor |-> IF a \in lost THEN "dead" ELSE pc[a]]
          /\ chan' = [t \in Turn |-> IF t \in lost THEN <<>> ELSE chan[t]]
          /\ asks' = [t \in Turn |-> IF t \in lost THEN 0 ELSE asks[t]]
          /\ seq' = [t \in Turn |-> IF t \in lost THEN 0 ELSE seq[t]]
          /\ engine' = [t \in Turn |-> IF t \in lost /\ engine[t] # "none" THEN "ended"
                                       ELSE engine[t]]
          /\ sent' = sent
      BY <1>4 DEF Crash, lost
    <3>2. /\ pc'[u] = pc[u] /\ chan'[u] = chan[u] /\ asks'[u] = asks[u]
          /\ seq'[u] = seq[u] /\ engine'[u] = engine[u] /\ sent'[u] = sent[u]
      BY <2>2, <3>1, Actors
    <3> QED
      BY <3>2, SameBudget DEF Stops
  <2> QED
    BY <2>1, <2>2
<1> QED
  BY <1>2, <1>3, <1>4

-----------------------------------------------------------------------------
(* The stages of the engine. *)

\* An early return is taken before the engine starts, or by a command.
LEMMA AbandonStages ==
  ASSUME TypeOK, EngineStages, NEW a \in Actor, Abandon(a),
         pc[a] \notin {"loop", "draining", "joining"}
  PROVE  EngineStages'
<1>1. pc' = [pc EXCEPT ![a] = "done"] /\ UNCHANGED engine
  BY DEF Abandon, Goto, task
<1> QED
  BY <1>1, Actors DEF EngineStages, Alive, TypeOK

\* The command and the thread move on, and start the engine with the loop.
LEMMA SendStages ==
  ASSUME TypeOK, EngineStages, NEW t \in Turn, Sends(t) \/ Prepares(t)
  PROVE  EngineStages'
<1> USE Actors
<1>1. ASSUME NEW stage, Goto(t, stage), UNCHANGED engine,
             pc[t] \in {"idle", "created", "slot", "checked", "locked", "journaled", "loaded",
                        "spawned"}
      PROVE  EngineStages'
  <2>1. engine[t] = "none"
    BY <1>1 DEF EngineStages
  <2>2. \A u \in Turn : u # t => pc'[u] = pc[u]
    BY <1>1 DEF Goto, TypeOK
  <2> QED
    BY <1>1, <2>1, <2>2 DEF EngineStages, Alive
<1>2. ASSUME Sends(t) PROVE EngineStages'
  BY <1>1, <1>2 DEF Sends, SendToSession, SendToNewSession, Begin, task
<1>3. ASSUME FindSession(t) PROVE EngineStages'
  BY <1>1, <1>3, AbandonStages DEF FindSession, task
<1>4. ASSUME TakeNewSessionSlot(t) PROVE EngineStages'
  BY <1>1, <1>4 DEF TakeNewSessionSlot, task
<1>5. ASSUME LockSession(t) PROVE EngineStages'
  BY <1>1, <1>5, AbandonStages DEF LockSession, task
<1>6. ASSUME CreateTurn(t) PROVE EngineStages'
  BY <1>1, <1>6, AbandonStages DEF CreateTurn, task
<1>7. ASSUME LoadHistory(t) PROVE EngineStages'
  BY <1>1, <1>7 DEF LoadHistory, task
<1>8. ASSUME PrepareFails(t) PROVE EngineStages'
  BY <1>8, AbandonStages DEF PrepareFails
<1>9. ASSUME SpawnThread(t) PROVE EngineStages'
  BY <1>1, <1>9 DEF SpawnThread
<1>10. ASSUME ThreadFails(t) PROVE EngineStages'
  BY <1>1, <1>10 DEF ThreadFails
<1>11. ASSUME StartEngine(t) PROVE EngineStages'
  <2>1. \A u \in Turn : u # t => pc'[u] = pc[u] /\ engine'[u] = engine[u]
    BY <1>11 DEF StartEngine, Goto, TypeOK
  <2>2. pc'[t] = "loop"
    BY <1>11 DEF StartEngine, Goto, TypeOK
  <2> QED
    BY <2>1, <2>2 DEF EngineStages, Alive
<1> QED
  BY <1>2, <1>3, <1>4, <1>5, <1>6, <1>7, <1>8, <1>9, <1>10, <1>11 DEF Prepares

\* A task that ends has lived, and one that lives goes on to live or ends.
LEMMA EngineActsStages ==
  ASSUME TypeOK, EngineStages, NEW t \in Turn, EngineActs(t)
  PROVE  EngineStages'
<1>1. UNCHANGED pc /\ Alive(t)
  BY DEF EngineActs, EngineSends, EngineAsks, EngineSaves, EngineReturns, EngineDropped,
         actor, Alive
<1>2. \A u \in Turn : u # t => engine'[u] = engine[u]
  BY DEF EngineActs, EngineSends, EngineAsks, EngineSaves, EngineReturns, EngineDropped,
         task, TypeOK
<1> QED
  BY <1>1, <1>2 DEF EngineStages, Alive

\* The loop leaves the stages of a living engine only through a join.
LEMMA LoopStages ==
  ASSUME TypeOK, EngineStages, NEW t \in Turn, Loops(t)
  PROVE  EngineStages'
<1> USE Actors
<1>1. CASE TakeEvent(t) \/ TakeQuestion(t)
  BY <1>1 DEF TakeEvent, TakeQuestion, actor, EngineStages, Alive
<1>2. CASE TakeCancel(t) \/ Drained(t) \/ DrainTimesOut(t)
  <2>1. pc'[t] \in {"draining", "joining"} /\ UNCHANGED engine
    BY <1>2 DEF TakeCancel, Drained, DrainTimesOut, Goto, TypeOK
  <2>2. \A u \in Turn : u # t => pc'[u] = pc[u]
    BY <1>2 DEF TakeCancel, Drained, DrainTimesOut, Goto, TypeOK
  <2> QED
    BY <2>1, <2>2 DEF EngineStages, Alive
<1>3. CASE JoinThenRelease(t)
  <2>1. pc'[t] = "released" /\ UNCHANGED engine /\ engine[t] = "ended"
    BY <1>3 DEF JoinThenRelease, Joined, Goto, TypeOK
  <2>2. \A u \in Turn : u # t => pc'[u] = pc[u]
    BY <1>3 DEF JoinThenRelease, Goto, TypeOK
  <2> QED
    BY <2>1, <2>2 DEF EngineStages, Alive
<1>4. CASE SayCancelled(t) \/ ThreadExits(t)
  <2>1. /\ pc[t] \in {"released", "exiting"} /\ pc'[t] \in {"exiting", "done"}
        /\ UNCHANGED engine
    BY <1>4 DEF SayCancelled, ThreadExits, Goto, task, TypeOK
  <2>2. \A u \in Turn : u # t => pc'[u] = pc[u]
    BY <1>4 DEF SayCancelled, ThreadExits, Goto, TypeOK
  <2> QED
    BY <2>1, <2>2 DEF EngineStages, Alive
<1> QED
  BY <1>1, <1>2, <1>3, <1>4 DEF Loops

\* The session commands know no engine.
LEMMA OpStages ==
  ASSUME TypeOK, EngineStages, NEW o \in Op
  PROVE  /\ \A i \in Instance, s \in Session, k \in OpKinds :
              OpBegins(o, i, s, k) => EngineStages'
         /\ Operates(o) => EngineStages'
<1>1. ASSUME NEW stage, Goto(o, stage), UNCHANGED task PROVE EngineStages'
  <2>1. \A u \in Turn : pc'[u] = pc[u]
    BY <1>1, Actors DEF Goto, TypeOK
  <2> QED
    BY <1>1, <2>1 DEF EngineStages, Alive, task
<1>2. Abandon(o) => EngineStages'
  BY <1>1 DEF Abandon
<1>3. ASSUME NEW i \in Instance, NEW s \in Session, NEW k \in OpKinds, OpBegins(o, i, s, k)
      PROVE  EngineStages'
  BY <1>1, <1>3 DEF OpBegins, Begin
<1>4. ASSUME Operates(o) PROVE EngineStages'
  BY <1>1, <1>2, <1>4 DEF Operates, OpLocks, OpReads, OpApplies, OpEnds
<1> QED
  BY <1>3, <1>4

\* Users and starts know no engine, and a crash ends those of its process.
LEMMA EnvironmentStages ==
  ASSUME TypeOK, EngineStages, NEW i \in Instance
  PROVE  /\ \A t \in Turn : RequestCancel(i, t) => EngineStages'
         /\ Start(i) \/ Crash(i) => EngineStages'
<1>1. ASSUME NEW t \in Turn, RequestCancel(i, t) PROVE EngineStages'
  BY <1>1 DEF RequestCancel, actor, EngineStages, Alive
<1>2. CASE Start(i)
  BY <1>2 DEF Start, actor, task, EngineStages, Alive
<1>3. CASE Crash(i)
  BY <1>3, Actors DEF Crash, EngineStages, Alive
<1> QED
  BY <1>1, <1>2, <1>3

-----------------------------------------------------------------------------
(* The types, by these three invariants together. *)

TypeInv == TypeOK /\ Budget /\ EngineStages

\* The types hold when no process runs yet.
LEMMA TypeInit == Init => TypeInv
<1> SUFFICES ASSUME Init PROVE TypeInv
  OBVIOUS
<1>1. NoTurn \in Rows(MaxSent + 2) /\ <<>> \in Seq(EngineKinds) /\ Len(<<>>) = 0
  BY DEF Rows
<1>2. TypeOK
  BY <1>1, TopSeq, BoundsAssumption, Names DEF Init, TypeOK
<1>3. Budget
  BY <1>1, TopSeq, Actors
     DEF Init, Budget, TurnBudget, Pending, Failures, Stops, Stopping
<1>4. EngineStages
  BY Actors DEF Init, EngineStages, Alive
<1> QED
  BY <1>2, <1>3, <1>4 DEF TypeInv

\* Every step keeps the types.
LEMMA TypeStep == TypeInv /\ [Next]_vars => TypeInv'
<1> SUFFICES ASSUME TypeInv, [Next]_vars PROVE TypeInv'
  OBVIOUS
<1> USE DEF TypeInv
<1>1. TypeOK'
  <2>1. CASE UNCHANGED vars
    BY <2>1 DEF TypeOK, vars, durable, process, actor, task
  <2>2. CASE Next
    BY <2>2, SendType, LoopType, EngineType, OpType, EnvironmentType DEF Next
  <2> QED
    BY <2>1, <2>2
<1>2. Budget'
  <2> SUFFICES ASSUME NEW u \in Turn PROVE TurnBudget(u)'
    BY DEF Budget
  <2>1. TurnBudget(u)
    BY DEF Budget
  <2>2. CASE UNCHANGED vars
    BY <1>1, <2>1, <2>2, SameBudget DEF vars, actor, task, Stops
  <2>3. CASE Next
    BY <1>1, <2>1, <2>3, SendBudget, LoopBudget, EngineBudget, OpBudget, EnvironmentBudget
       DEF Next
  <2> QED
    BY <2>2, <2>3
<1>3. EngineStages'
  <2>1. CASE UNCHANGED vars
    BY <2>1 DEF EngineStages, Alive, vars, actor, task
  <2>2. CASE Next
    BY <2>2, SendStages, LoopStages, EngineActsStages, OpStages, EnvironmentStages DEF Next
  <2> QED
    BY <2>1, <2>2
<1> QED
  BY <1>1, <1>2, <1>3

\* The type invariant, for any number of processes, sessions, turns, commands
\* and events: in particular no turn ever uses more sequence numbers than its
\* engine sent events, plus two.
THEOREM TypesAreKept == Spec => [](TypeOK /\ Budget /\ EngineStages)
<1>1. Init => TypeInv
  BY TypeInit
<1>2. TypeInv /\ [Next]_vars => TypeInv'
  BY TypeStep
<1>3. TypeInv => TypeOK /\ Budget /\ EngineStages
  BY DEF TypeInv
<1> QED
  BY <1>1, <1>2, <1>3, PTL DEF Spec

-----------------------------------------------------------------------------
(* The rows keep the journal's promise, whoever writes to them. *)

\* The statuses, as TurnPromise sees them.
Statuses == [t \in Turn |-> journal[t].status]

\* The promise speaks of the same states.
LEMMA SameStates == Promise!LiveStates = LiveStates /\ Promise!TurnState = TurnState
BY DEF Promise!LiveStates, LiveStates, Promise!TerminalStates, TerminalStates,
       Promise!TurnState, TurnState

\* One row is written: its status moves, or none does.
LEMMA OneRowMoves ==
  ASSUME TypeOK, NEW t \in Turn, NEW row, journal' = [journal EXCEPT ![t] = row],
         MayMove(journal[t].status, row.status)
  PROVE  [Promise!Next]_Statuses
<1>1. Statuses' = [Statuses EXCEPT ![t] = row.status] /\ Statuses[t] = journal[t].status
  BY DEF TypeOK, Statuses
<1>2. CASE row.status = journal[t].status
  <2>1. Statuses' = Statuses
    BY <1>1, <1>2 DEF Statuses
  <2> QED
    BY <2>1
<1>3. CASE journal[t].status \in LiveStates /\ row.status \in TurnState \ {"starting"}
  <2>1. Promise!Move(t, row.status)
    BY <1>1, <1>3, SameStates DEF Promise!Move, Statuses
  <2> QED
    BY <1>3, <2>1, SameStates DEF Promise!Next
<1> QED
  BY <1>2, <1>3 DEF MayMove

\* The rows are left alone.
LEMMA RowsStay ==
  ASSUME UNCHANGED journal
  PROVE  [Promise!Next]_Statuses
BY DEF Statuses

\* persist_event, on a row that has kept its status.
LEMMA PersistMoves ==
  ASSUME TypeOK, NEW t \in Turn, NEW k \in EventKinds, NEW row \in Rows(MaxSent + 2),
         row.status = journal[t].status, Persist(t, k, [journal EXCEPT ![t] = row])
  PROVE  [Promise!Next]_Statuses
<1> DEFINE new == Appended(row, seq[t], StateOf(k))
<1>1. seq[t] \in 0 .. MaxSent + 2
  BY DEF TypeOK
<1>2. MayMove(journal[t].status, new.status)
  BY <1>1, AppendedMoves, StateOfMoves, TopSeq
<1>3. journal' = [journal EXCEPT ![t] = new]
  BY DEF Persist, TypeOK
<1> HIDE DEF new
<1> QED
  BY <1>2, <1>3, OneRowMoves

\* persist_event, on the row as it is.
LEMMA PersistMovesOn ==
  ASSUME TypeOK, NEW t \in Turn, NEW k \in EventKinds, Persist(t, k, journal)
  PROVE  [Promise!Next]_Statuses
<1>1. journal = [journal EXCEPT ![t] = journal[t]] /\ journal[t] \in Rows(MaxSent + 2)
  BY DEF TypeOK
<1> QED
  BY <1>1, PersistMoves

\* The command of a turn begins one where there is none.
LEMMA SendPromise ==
  ASSUME TypeOK, NEW t \in Turn, Sends(t) \/ Prepares(t)
  PROVE  [Promise!Next]_Statuses
<1>1. CASE CreateTurn(t) /\ journal' = [journal EXCEPT ![t] = Created(@)]
  <2>1. CASE Exists(journal[t])
    <3>1. Created(journal[t]) = journal[t]
      BY <2>1, CreatedMoves
    <3> QED
      BY <1>1, <3>1, OneRowMoves DEF MayMove
  <2>2. CASE ~Exists(journal[t])
    <3>1. Created(journal[t]).status = "starting"
      BY <2>2, CreatedMoves
    <3>2. Statuses' = [Statuses EXCEPT ![t] = "starting"] /\ Statuses[t] = "absent"
      BY <1>1, <2>2, <3>1 DEF TypeOK, Statuses, Exists
    <3>3. Promise!Begin(t)
      BY <3>2 DEF Promise!Begin, Statuses
    <3> QED
      BY <3>3 DEF Promise!Next
  <2> QED
    BY <2>1, <2>2
<1>2. CASE ~(CreateTurn(t) /\ journal' = [journal EXCEPT ![t] = Created(@)])
  <2>1. UNCHANGED journal
    BY <1>2 DEF Sends, SendToSession, SendToNewSession, Prepares, FindSession,
       TakeNewSessionSlot, LockSession, CreateTurn, LoadHistory, PrepareFails, SpawnThread,
       ThreadFails, StartEngine, Abandon, durable
  <2> QED
    BY <2>1, RowsStay
<1> QED
  BY <1>1, <1>2

\* The loop writes what the events say, and its own cancellation.
LEMMA LoopPromise ==
  ASSUME TypeOK, NEW t \in Turn, Loops(t)
  PROVE  [Promise!Next]_Statuses
<1>1. CASE TakeEvent(t)
  <2>1. chan[t] \in Seq(EngineKinds) /\ chan[t] # <<>>
    BY <1>1 DEF TakeEvent, TypeOK
  <2>2. Head(chan[t]) \in EventKinds
    BY <2>1, HeadTailProperties DEF EventKinds
  <2> QED
    BY <1>1, <2>2, PersistMovesOn DEF TakeEvent
<1>2. CASE TakeQuestion(t)
  BY <1>2, PersistMovesOn DEF TakeQuestion, EventKinds
<1>3. CASE TakeCancel(t)
  <2>1. journal[t] \in Rows(MaxSent + 2)
    BY DEF TypeOK
  <2>2. /\ CancelMarked(journal[t]) \in Rows(MaxSent + 2)
        /\ CancelMarked(journal[t]).status = journal[t].status
    BY <2>1, CancelMarkedRow, CancelMarkedMoves, TopSeq
  <2> QED
    BY <1>3, <2>2, PersistMoves DEF TakeCancel, EventKinds
<1>4. CASE Drained(t) \/ DrainTimesOut(t) \/ JoinThenRelease(t) \/ ThreadExits(t)
  BY <1>4, RowsStay DEF Drained, DrainTimesOut, JoinThenRelease, ThreadExits, durable
<1>5. CASE SayCancelled(t)
  BY <1>5, PersistMovesOn DEF SayCancelled, EventKinds
<1> QED
  BY <1>1, <1>2, <1>3, <1>4, <1>5 DEF Loops

\* A deletion forgets the turns of its session; the other commands write no row.
LEMMA OpPromise ==
  ASSUME TypeOK, NEW o \in Op
  PROVE  /\ \A i \in Instance, s \in Session, k \in OpKinds :
              OpBegins(o, i, s, k) => [Promise!Next]_Statuses
         /\ Operates(o) => [Promise!Next]_Statuses
<1>1. ASSUME NEW i \in Instance, NEW s \in Session, NEW k \in OpKinds, OpBegins(o, i, s, k)
      PROVE  [Promise!Next]_Statuses
  BY <1>1, RowsStay DEF OpBegins, durable
<1>2. ASSUME OpLocks(o) \/ OpReads(o) \/ OpEnds(o) PROVE [Promise!Next]_Statuses
  BY <1>2, RowsStay DEF OpLocks, OpReads, OpEnds, Abandon, durable
<1>3. ASSUME OpApplies(o) PROVE [Promise!Next]_Statuses
  <2>1. CASE OpDeletes(o)
    <3>1. NoTurn.status = "absent"
      BY DEF NoTurn
    <3>2. PICK T \in SUBSET Turn : T = {t \in Turn : on[t] = on[o]}
      OBVIOUS
    <3>3. Promise!Forget(T)
      BY <2>1, <3>1, <3>2 DEF OpDeletes, Promise!Forget
    <3> QED
      BY <3>3 DEF Promise!Next
  <2>2. CASE ~OpDeletes(o)
    BY <1>3, <2>2, RowsStay DEF OpApplies, OpClears, OpCompacts, OpLeavesAsIs
  <2> QED
    BY <2>1, <2>2
<1> QED
  BY <1>1, <1>2, <1>3 DEF Operates

\* Users ask for "cancelling", a start interrupts what is live, and neither an
\* engine nor a crash writes a row.
LEMMA OtherPromise ==
  ASSUME TypeOK
  PROVE  /\ \A t \in Turn : EngineActs(t) => [Promise!Next]_Statuses
         /\ \A t \in Turn, i \in Instance : RequestCancel(i, t) => [Promise!Next]_Statuses
         /\ \A i \in Instance : Start(i) \/ Crash(i) => [Promise!Next]_Statuses
         /\ UNCHANGED vars => [Promise!Next]_Statuses
<1>1. ASSUME NEW t \in Turn, EngineActs(t) PROVE [Promise!Next]_Statuses
  BY <1>1, RowsStay DEF EngineActs, EngineSends, EngineAsks, EngineSaves, EngineReturns,
     EngineDropped, durable
<1>2. ASSUME NEW t \in Turn, NEW i \in Instance, RequestCancel(i, t)
      PROVE  [Promise!Next]_Statuses
  <2> DEFINE marked == CancelMarked(journal[t])
  <2> DEFINE new == Updated(marked, "cancelling")
  <2>1. journal[t] \in Rows(MaxSent + 2)
    BY DEF TypeOK
  <2>2. marked \in Rows(MaxSent + 2) /\ marked.status = journal[t].status
    BY <2>1, CancelMarkedRow, CancelMarkedMoves, TopSeq
  <2>3. "cancelling" \in TurnState \ {"starting"}
    BY DEF TurnState, LiveStates
  <2>4. journal' = [journal EXCEPT ![t] = new]
    BY <1>2 DEF RequestCancel
  <2> HIDE DEF marked
  <2>5. MayMove(journal[t].status, new.status)
    BY <2>2, <2>3, UpdatedMoves, TopSeq
  <2> HIDE DEF new
  <2> QED
    BY <2>4, <2>5, OneRowMoves
<1>3. ASSUME NEW i \in Instance, Start(i) PROVE [Promise!Next]_Statuses
  <2>1. ASSUME NEW t \in Turn
        PROVE  Interrupted(journal[t]).status =
                 IF journal[t].status \in LiveStates THEN "interrupted" ELSE journal[t].status
    <3>1. journal[t] \in Rows(MaxSent + 2)
      BY DEF TypeOK
    <3> QED
      BY <3>1, InterruptedMoves, TopSeq
  <2>2. Promise!Restart
    BY <1>3, <2>1, SameStates DEF Start, Promise!Restart
  <2> QED
    BY <2>2 DEF Promise!Next
<1>4. ASSUME NEW i \in Instance, Crash(i) PROVE [Promise!Next]_Statuses
  BY <1>4, RowsStay DEF Crash
<1>5. ASSUME UNCHANGED vars PROVE [Promise!Next]_Statuses
  BY <1>5, RowsStay DEF vars, durable
<1> QED
  BY <1>1, <1>2, <1>3, <1>4, <1>5

\* The runtime implements TurnPromise: in any number of processes that start,
\* crash and cancel each other's turns, a status moves one turn at a time while
\* it is live, a terminal one is final, and only a deletion forgets a turn.
THEOREM RuntimeKeepsPromise == Spec => KeepsPromise
<1>1. Init => Promise!Init
  BY DEF Init, Promise!Init, NoTurn
<1>2. TypeOK /\ [Next]_vars => [Promise!Next]_Statuses
  BY SendPromise, LoopPromise, OpPromise, OtherPromise DEF Next
<1>3. Spec => []TypeOK
  BY TypesAreKept, PTL
<1> QED
  BY <1>1, <1>2, <1>3, PTL DEF Spec, KeepsPromise, Promise!Spec, Statuses
=================================================================================

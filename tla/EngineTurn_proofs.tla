--------------------------- MODULE EngineTurn_proofs ---------------------------
(***************************************************************************)
(* Proofs about EngineTurn, for any calls, kinds of calls, budgets and     *)
(* bounds.  First come the operators on data, then the types with what     *)
(* makes them inductive, then what a turn says, why it ends, and what      *)
(* stands behind the commit gate.                                          *)
(***************************************************************************)
EXTENDS EngineTurn, NatRecursion

-----------------------------------------------------------------------------
(* Recovery. *)

\* A count that goes up stays within its limits.
LEMMA CountedRecovery ==
  ASSUME NEW q \in Recovery
  PROVE  /\ [q EXCEPT !.fails = UpTo(3, @)] \in Recovery
         /\ [q EXCEPT !.notFound = UpTo(2, @)] \in Recovery
         /\ [q EXCEPT !.invalid = UpTo(2, @)] \in Recovery
         /\ [q EXCEPT !.late = UpTo(2, @)] \in Recovery
         /\ [q EXCEPT !.signed = TRUE] \in Recovery
<1>1. /\ UpTo(3, q.fails) \in 0 .. 3
      /\ UpTo(2, q.notFound) \in 0 .. 2
      /\ UpTo(2, q.invalid) \in 0 .. 2
      /\ UpTo(2, q.late) \in 0 .. 2
  BY DEF Recovery, UpTo
<1>2. QED BY <1>1 DEF Recovery

\* A record of failures stays one, whatever a call comes to.
LEMMA RecoveryKept ==
  ASSUME NEW r \in Recovery, NEW c \in Call
  PROVE  /\ Succeeded(r, c) \in Recovery
         /\ NextTurn(r) \in Recovery
         /\ \A type \in ErrorType : Failed(r, type) \in Recovery
<1>1. Calm \in Recovery  BY DEF Calm, Recovery, RecoveryState
<1>2. ASSUME NEW q \in Recovery PROVE Updated(q) \in Recovery
  BY DEF Updated, StateFor, Recovery, RecoveryState
<1>3. Succeeded(r, c) \in Recovery  BY <1>1, <1>2 DEF Succeeded
<1>4. NextTurn(r) \in Recovery  BY DEF NextTurn, Recovery
<1>5. ASSUME NEW type \in ErrorType PROVE Failed(r, type) \in Recovery
  <2> DEFINE counted == [r EXCEPT !.fails = UpTo(3, @)]
  <2> DEFINE typed == [counted EXCEPT !.signed = TRUE]
  <2>1. counted \in Recovery /\ typed \in Recovery
    <3>1. counted \in Recovery  BY CountedRecovery
    <3> HIDE DEF counted
    <3>2. QED BY <3>1, CountedRecovery
  <2>2. Failed(r, type) =
          CASE type = "Untyped"    -> counted
            [] type = "NotFound"   -> Updated([typed EXCEPT !.notFound = UpTo(2, @)])
            [] type = "Validation" -> Updated([typed EXCEPT !.invalid = UpTo(2, @)])
            [] type = "Timeout"    -> Updated([typed EXCEPT !.late = UpTo(2, @)])
            [] type = "Other"      -> Updated(typed)
    BY DEF Failed
  <2> HIDE DEF counted, typed
  <2>3. /\ [typed EXCEPT !.notFound = UpTo(2, @)] \in Recovery
        /\ [typed EXCEPT !.invalid = UpTo(2, @)] \in Recovery
        /\ [typed EXCEPT !.late = UpTo(2, @)] \in Recovery
    BY <2>1, CountedRecovery
  <2>4. QED BY <2>1, <2>2, <2>3, <1>2 DEF ErrorType
<1>6. QED BY <1>3, <1>4, <1>5

\* A failure after another one, of whatever type, leaves the gate open.
LEMMA SecondFailureOpens ==
  ASSUME NEW r \in Recovery, r.fails >= 1
  PROVE  Failed(r, "Validation").state # "ReanchorRequired"
<1> DEFINE p == [[r EXCEPT !.fails = UpTo(3, @)] EXCEPT !.signed = TRUE]
<1> DEFINE q == [p EXCEPT !.invalid = UpTo(2, @)]
<1>1. p \in Recovery /\ p.fails >= 2
  <2>1. UpTo(3, r.fails) >= 2  BY DEF Recovery, UpTo
  <2>2. p \in Recovery
    <3> DEFINE counted == [r EXCEPT !.fails = UpTo(3, @)]
    <3>1. counted \in Recovery  BY CountedRecovery
    <3> HIDE DEF counted
    <3>2. [counted EXCEPT !.signed = TRUE] \in Recovery  BY <3>1, CountedRecovery
    <3>3. QED BY <3>2 DEF counted
  <2>3. QED BY <2>1, <2>2 DEF Recovery
<1>2. Failed(r, "Validation") = Updated(q)  BY DEF Failed
<1> HIDE DEF p
<1>3. q \in Recovery  BY <1>1, CountedRecovery
<1>4. q.fails >= 2  BY <1>1 DEF Recovery
<1> HIDE DEF q
<1>5. QED BY <1>2, <1>3, <1>4 DEF Updated, StateFor, Recovery

-----------------------------------------------------------------------------
(* The calls of an answer. *)

\* The calls of a kind are calls of the answer.
LEMMA OnlyKeeps ==
  ASSUME NEW R, NEW calls \in Seq(R), NEW kind
  PROVE  Only(calls, kind) \in Seq(R)
BY SelectKeeps DEF Only

\* Every call is of one of two kinds, so none is lost and none comes twice.
LEMMA OnlySplits ==
  ASSUME NEW calls \in Seq(Received), NEW kind
  PROVE  Len(Only(calls, kind)) + Len(Only(calls, Call \ kind)) = Len(calls)
<1> DEFINE S == [call : kind, whole : BOOLEAN]
<1> DEFINE T == [call : Call \ kind, whole : BOOLEAN]
<1>1. \A q \in Received : q \in S <=> q \notin T  BY DEF Received
<1> HIDE DEF S, T
<1>2. Len(SelectIn(calls, S)) + Len(SelectIn(calls, T)) = Len(calls)  BY <1>1, SelectSplits
<1>3. QED BY <1>2 DEF Only, S, T

-----------------------------------------------------------------------------
(* The inductive invariant. *)

\* Where calls are, and how many there may be.
Placed ==
  /\ Len(buf.calls) <= MaxCalls
  /\ stage \notin {"calls", "batch", "results", "asking", "busy"} =>
       par = <<>> /\ seq = <<>>
  /\ stage = "calls" => par # <<>> \/ seq # <<>>
  /\ stage \in {"batch", "results"} => par # <<>>
  /\ stage \in {"asking", "busy"} => par = <<>> /\ seq # <<>>

\* The budget is looked at before a request, so that an answer is what it may be
\* exceeded by.
Counted ==
  /\ stage \in {"stream", "backoff", "restream", "finish", "fallback"} =>
       used <= MaxToolCalls - 1
  /\ used + Len(par) + Len(seq) <= MaxToolCalls + MaxCalls - 1

\* Done is said at the end, or before a call when the token is set.
Spoken ==
  /\ turn = 0 => stage = "idle"
  /\ said = "done" => stage = "idle" \/ (stage = "top" /\ token)
  /\ stage = "idle" /\ turn > 0 => said = "done"

\* A step that has no final response has a reason for it.
Explained ==
  /\ stage = "finish" /\ ~buf.done => why # {}
  /\ EndsAreExplained
  /\ "delivered" \in why => stage = "idle"
  /\ DeliveredAfterCheck

\* Nothing has gone wrong in a step before its stream ends, and nothing had when
\* it ended with a final response.
Committable ==
  /\ Handling \/ stage \in {"stream", "backoff", "restream"} => why = {}
  /\ buf.done => why = {} /\ stage \in {"finish", "fallback"}

Sound == TypeOK /\ Placed /\ Counted

IInv == Sound /\ Spoken /\ Explained /\ Committable

-----------------------------------------------------------------------------
(* Types, places and counts. *)

\* What is left of a sequence that is not empty.
LEMMA HeadAndTail ==
  ASSUME NEW R, NEW s \in Seq(R), s # <<>>
  PROVE  /\ Head(s) \in R
         /\ Tail(s) \in Seq(R)
         /\ Len(s) \in Nat \ {0}
         /\ Len(Tail(s)) = Len(s) - 1
         /\ Tail(s) = <<>> <=> Len(s) = 1
<1>1. /\ Head(s) \in R /\ Tail(s) \in Seq(R) /\ Len(Tail(s)) = Len(s) - 1
  BY HeadTailProperties
<1>2. Len(s) \in Nat \ {0}  BY EmptySeq
<1>3. Tail(s) # <<>> => Len(Tail(s)) \in Nat \ {0}  BY <1>1, EmptySeq
<1>4. Tail(s) = <<>> => Len(Tail(s)) = 0  BY EmptySeq
<1>5. QED BY <1>1, <1>2, <1>3, <1>4

LEMMA EmptyTyped == Empty \in Buffers /\ Len(Empty.calls) = 0 /\ ~Empty.done
<1>1. <<>> \in Seq(Received)  OBVIOUS
<1>2. QED BY <1>1 DEF Empty, Buffers, Texts

LEMMA EndsSound ==
  ASSUME Sound, NEW reasons \in SUBSET Reasons, Ends(reasons),
         leaks' \in 0 .. 2, modified' \in BOOLEAN, marker' \in BOOLEAN,
         checked' \subseteq {"ran", "deferred"}, tried' \subseteq Tried
  PROVE  Sound'
<1>1. <<>> \in Seq(Received) /\ Len(<<>>) = 0  OBVIOUS
<1>2. TypeOK'  BY <1>1, EmptyTyped, BudgetsAssumption DEF Sound, TypeOK, Ends, Stages
<1>3. Placed'  BY <1>1, EmptyTyped, BudgetsAssumption DEF Sound, Placed, Ends
<1>4. Counted'
  <2>1. used \in 0 .. MaxToolCalls + MaxCalls - 1  BY DEF Sound, TypeOK
  <2>2. QED BY <1>1, <2>1, BudgetsAssumption DEF Counted, Ends
<1>5. QED BY <1>2, <1>3, <1>4 DEF Sound

LEMMA GoesRoundSound ==
  ASSUME Sound, GoesRound, stage \in {"finish", "fallback"},
         leaks' \in 0 .. 2, modified' \in BOOLEAN, marker' \in BOOLEAN,
         checked' \subseteq {"ran", "deferred"}, tried' \subseteq Tried
  PROVE  Sound'
<1>1. par = <<>> /\ seq = <<>>  BY DEF Sound, Placed
<1>2. TypeOK'
  BY EmptyTyped, BudgetsAssumption DEF Sound, TypeOK, GoesRound, Stages, callVars
<1>3. Placed'  BY <1>1, EmptyTyped, BudgetsAssumption DEF Sound, Placed, GoesRound, callVars
<1>4. Counted'  BY DEF Sound, Counted, GoesRound, callVars
<1>5. QED BY <1>2, <1>3, <1>4 DEF Sound

\* An answer that is delivered, or is not yet.
LEMMA AnswersSound ==
  ASSUME Sound, Answers, stage \in {"finish", "fallback"}, leaks' \in 0 .. 2
  PROVE  Sound'
<1>1. modified' \in BOOLEAN /\ checked' \subseteq {"ran", "deferred"}
  BY DEF Answers, Sound, TypeOK
<1>2. CASE GateReminds
  BY <1>1, <1>2, GoesRoundSound DEF GateReminds, Sound, TypeOK
<1>3. CASE GateBlocks
  BY <1>1, <1>3, EndsSound DEF GateBlocks, Sound, TypeOK, Reasons
<1>4. CASE HookContinues
  BY <1>1, <1>4, GoesRoundSound DEF HookContinues, Sound, TypeOK, Tried
<1>5. CASE Delivers
  BY <1>1, <1>5, EndsSound DEF Delivers, Sound, TypeOK, Reasons
<1>6. QED BY <1>2, <1>3, <1>4, <1>5 DEF Answers

LEMMA AllWholeKeeps ==
  ASSUME NEW calls \in Seq(Received)
  PROVE  AllWhole(calls) \in Seq(Received) /\ Len(AllWhole(calls)) = Len(calls)
<1>1. DOMAIN calls = 1 .. Len(calls) /\ Len(calls) \in Nat  BY LenProperties
<1>2. \A i \in 1 .. Len(calls) : [calls[i] EXCEPT !.whole = TRUE] \in Received
  <2>1. ASSUME NEW i \in 1 .. Len(calls) PROVE calls[i] \in Received  BY ElementOfSeq
  <2>2. QED BY <2>1 DEF Received
<1>3. QED BY <1>1, <1>2 DEF AllWhole

\* The calls that a step comes to.
LEMMA StepCallsTyped ==
  ASSUME Sound, NEW calls \in StepCalls
  PROVE  calls \in Seq(Received) /\ Len(calls) \in 1 .. MaxCalls
<1>1. buf.calls \in Seq(Received) /\ Len(buf.calls) <= MaxCalls
  BY DEF Sound, TypeOK, Placed, Buffers
<1>2. CASE LeakedOnly /\ buf.text = "leaked call"
  <2>1. PICK c \in Call : calls = <<[call |-> c, whole |-> TRUE]>>  BY <1>2 DEF StepCalls
  <2>2. [call |-> c, whole |-> TRUE] \in Received  BY DEF Received
  <2>3. QED BY <2>1, <2>2, BudgetsAssumption
<1>3. CASE ~(LeakedOnly /\ buf.text = "leaked call")
  <2>1. calls = buf.calls /\ calls # <<>>  BY <1>3 DEF StepCalls
  <2>2. Len(calls) \in Nat \ {0}  BY <2>1, <1>1, EmptySeq
  <2>3. QED BY <1>1, <2>1, <2>2, BudgetsAssumption
<1>4. QED BY <1>2, <1>3

\* Together the two lists are the calls of the step.
LEMMA ListsAreCalls ==
  ASSUME NEW calls \in Seq(Received)
  PROVE  /\ InParallel(calls) \in Seq(Received)
         /\ OneByOne(calls) \in Seq(Received)
         /\ Len(InParallel(calls)) + Len(OneByOne(calls)) = Len(calls)
<1>1. CASE rec.state = "Normal"
  BY <1>1, OnlyKeeps, OnlySplits DEF InParallel, OneByOne
<1>2. CASE rec.state # "Normal"
  <2>1. InParallel(calls) = <<>> /\ OneByOne(calls) = calls  BY <1>2 DEF InParallel, OneByOne
  <2>2. <<>> \in Seq(Received) /\ Len(<<>>) = 0 /\ Len(calls) \in Nat
    BY EmptySeq, LenProperties
  <2>3. QED BY <2>1, <2>2
<1>3. QED BY <1>1, <1>2

\* A result is recorded.
LEMMA RecordsTyped ==
  ASSUME TypeOK, NEW c \in Call, NEW result \in Results,
         NEW way \in {"ran", "deferred", "refused"}, way = "refused" => result # "ok",
         Records(c, result, way)
  PROVE  /\ rec' \in Recovery /\ leaks' \in 0 .. 2 /\ said' = "note"
         /\ modified' \in BOOLEAN
         /\ checked' \subseteq {"ran", "deferred"}
<1>1. rec' \in Recovery
  <2>1. CASE result = "ok"  BY <2>1, RecoveryKept DEF Records, TypeOK
  <2>2. CASE result # "ok"
    <3>1. result \in ErrorType  BY <2>2 DEF Results
    <3>2. rec' = Failed(rec, result)  BY <2>2 DEF Records
    <3>3. QED BY <3>1, <3>2, RecoveryKept DEF TypeOK
  <2>3. QED BY <2>1, <2>2
<1>2. leaks' \in 0 .. 2  BY DEF Records, TypeOK
<1>3. QED BY <1>1, <1>2 DEF Records, TypeOK

\* The lists with one call less.
LEMMA HasResultSound ==
  ASSUME Sound, stage \in {"calls", "asking", "busy"}, par = <<>>,
         NEW result \in Results, NEW way \in {"ran", "deferred", "refused"},
         way = "refused" => result # "ok",
         HasResult(result, way), UNCHANGED recent
  PROVE  Sound'
<1>1. seq \in Seq(Received) /\ seq # <<>> /\ Len(par) = 0  BY EmptySeq DEF Sound, TypeOK, Placed
<1>2. /\ Head(seq) \in Received /\ Tail(seq) \in Seq(Received)
      /\ Len(seq) \in Nat \ {0} /\ Len(Tail(seq)) = Len(seq) - 1
      /\ Tail(seq) = <<>> <=> Len(seq) = 1
  BY <1>1, HeadAndTail
<1>3. Records(Head(seq).call, result, way) /\ NextCall  BY DEF HasResult
<1>4. Head(seq).call \in Call  BY <1>2 DEF Received
<1>5. /\ rec' \in Recovery /\ leaks' \in 0 .. 2 /\ said' = "note"
      /\ modified' \in BOOLEAN
      /\ checked' \subseteq {"ran", "deferred"}
  BY <1>3, <1>4, RecordsTyped DEF Sound
<1>6. /\ used' = used + 1
      /\ UNCHANGED <<turn, token, why, step, buf, attempt, marker, tried>>
  BY <1>3 DEF Records
<1>7. par' = par /\ seq' = Tail(seq) /\ stage' = IF Len(seq) = 1 THEN "top" ELSE "calls"
  BY <1>3 DEF NextCall
<1>8. used \in Nat /\ used + Len(seq) <= MaxToolCalls + MaxCalls - 1
  BY <1>1, <1>2, BudgetsAssumption DEF Sound, Counted, TypeOK
<1>9. TypeOK'
  <2>1. used' \in 0 .. MaxToolCalls + MaxCalls - 1
    BY <1>2, <1>6, <1>8, BudgetsAssumption
  <2>2. QED BY <1>2, <1>5, <1>6, <1>7, <2>1 DEF Sound, TypeOK, Stages
<1>10. Placed'  BY <1>2, <1>6, <1>7 DEF Sound, Placed
<1>11. Counted'
  <2>1. used' + Len(par') + Len(seq') <= MaxToolCalls + MaxCalls - 1
    BY <1>1, <1>2, <1>6, <1>7, <1>8, BudgetsAssumption
  <2>2. QED BY <1>7, <2>1 DEF Counted
<1>12. QED BY <1>9, <1>10, <1>11 DEF Sound

\* The parallel batch with one call less.
LEMMA RecordsBatchSound ==
  ASSUME Sound, NEW result \in Results, NEW way \in {"ran", "deferred", "refused"},
         way = "refused" => result # "ok", RecordsBatch(result, way)
  PROVE  Sound'
<1>1. par \in Seq(Received) /\ par # <<>> /\ seq \in Seq(Received)
  BY DEF Sound, TypeOK, Placed, RecordsBatch
<1>2. /\ Head(par) \in Received /\ Tail(par) \in Seq(Received)
      /\ Len(par) \in Nat \ {0} /\ Len(Tail(par)) = Len(par) - 1
      /\ Tail(par) = <<>> <=> Len(par) = 1
  BY <1>1, HeadAndTail
<1>3. Records(Head(par).call, result, way)  BY DEF RecordsBatch
<1>4. Head(par).call \in Call  BY <1>2 DEF Received
<1>5. /\ rec' \in Recovery /\ leaks' \in 0 .. 2 /\ said' = "note"
      /\ modified' \in BOOLEAN
      /\ checked' \subseteq {"ran", "deferred"}
  BY <1>3, <1>4, RecordsTyped DEF Sound
<1>6. /\ used' = used + 1
      /\ UNCHANGED <<turn, token, why, step, buf, attempt, marker, tried>>
  BY <1>3 DEF Records
<1>7. /\ par' = Tail(par) /\ UNCHANGED <<seq, recent>>
      /\ stage' = CASE Len(par) > 1              -> "results"
                    [] Len(par) = 1 /\ seq # <<>> -> "calls"
                    [] OTHER                     -> "top"
  BY DEF RecordsBatch
<1>8. /\ used \in Nat /\ Len(seq) \in Nat
      /\ used + Len(par) + Len(seq) <= MaxToolCalls + MaxCalls - 1
  BY <1>1, LenProperties DEF Sound, Counted, TypeOK
<1>9. TypeOK'
  <2>1. used' \in 0 .. MaxToolCalls + MaxCalls - 1
    BY <1>2, <1>6, <1>8, BudgetsAssumption
  <2>2. stage' \in Stages  BY <1>2, <1>7 DEF Stages
  <2>3. QED BY <1>2, <1>5, <1>6, <1>7, <2>1, <2>2 DEF Sound, TypeOK
<1>10. Placed'
  <2>1. CASE Len(par) > 1  BY <1>2, <1>6, <1>7, <2>1 DEF Sound, Placed
  <2>2. CASE Len(par) = 1  BY <1>2, <1>6, <1>7, <2>2 DEF Sound, Placed
  <2>3. QED BY <1>2, <2>1, <2>2
<1>11. Counted'
  <2>1. used' + Len(par') + Len(seq') <= MaxToolCalls + MaxCalls - 1
    BY <1>2, <1>6, <1>7, <1>8
  <2>2. stage' \in {"results", "calls", "top"}  BY <1>2, <1>7
  <2>3. QED BY <2>1, <2>2 DEF Counted
<1>12. QED BY <1>9, <1>10, <1>11 DEF Sound

\* The list of the last calls keeps its length.
LEMMA RemembersTyped ==
  ASSUME TypeOK, NEW c \in Call
  PROVE  Remembers(c) \in Seq(Call) /\ Len(Remembers(c)) <= Window
<1> DEFINE longer == Append(recent, c)
<1>1. /\ longer \in Seq(Call) /\ Len(longer) = Len(recent) + 1 /\ longer # <<>>
      /\ Len(recent) \in Nat /\ Len(recent) <= Window
  <2>1. recent \in Seq(Call) /\ Len(recent) <= Window  BY DEF TypeOK
  <2>2. QED BY <2>1
<1>2. Remembers(c) = IF Len(longer) > Window THEN Tail(longer) ELSE longer  BY DEF Remembers
<1> HIDE DEF longer
<1>3. Tail(longer) \in Seq(Call) /\ Len(Tail(longer)) = Len(longer) - 1
  BY <1>1, HeadTailProperties
<1>4. QED BY <1>1, <1>2, <1>3, BudgetsAssumption

LEMMA BeginSound ==
  ASSUME Sound, BeginTurn
  PROVE  Sound'
<1>1. <<>> \in Seq(Received) /\ <<>> \in Seq(Call) /\ Len(<<>>) = 0  BY EmptySeq
<1>2. rec' \in Recovery
  <2>1. rec \in Recovery /\ rec' = NextTurn(rec)  BY DEF BeginTurn, Sound, TypeOK
  <2>2. QED BY <2>1 DEF NextTurn, Recovery
<1>3. TypeOK'
  <2>1. /\ turn' \in 0 .. MaxTurns /\ step' \in 0 .. MaxSteps
        /\ attempt' \in 0 .. MaxRetries + 1 /\ used' \in 0 .. MaxToolCalls + MaxCalls - 1
    BY BudgetsAssumption DEF BeginTurn, Sound, TypeOK
  <2>2. recent' \in Seq(Call) /\ Len(recent') <= Window  BY <1>1, BudgetsAssumption DEF BeginTurn
  <2>3. /\ stage' \in Stages /\ token' \in BOOLEAN /\ said' \in {"none", "note", "done"}
        /\ why' \subseteq Reasons /\ tried' \subseteq Tried /\ leaks' \in 0 .. 2
        /\ modified' \in BOOLEAN /\ marker' \in BOOLEAN
        /\ checked' \subseteq {"ran", "deferred"}
    <3>1. token' \in BOOLEAN /\ modified' \in BOOLEAN /\ marker' \in BOOLEAN
      BY Zenon DEF BeginTurn
    <3>2. stage' \in Stages /\ said' \in {"none", "note", "done"} /\ leaks' \in 0 .. 2
      BY DEF BeginTurn, Stages
    <3>3. why' = {} /\ tried' = {} /\ checked' = {}  BY DEF BeginTurn
    <3>4. QED BY <3>1, <3>2, <3>3
  <2>4. buf' \in Buffers /\ par' \in Seq(Received) /\ seq' \in Seq(Received)
    BY <1>1, EmptyTyped DEF BeginTurn
  <2>5. QED BY <1>2, <2>1, <2>2, <2>3, <2>4 DEF TypeOK
<1>4. Placed'  BY <1>1, EmptyTyped, BudgetsAssumption DEF BeginTurn, Placed
<1>5. Counted'  BY <1>1, BudgetsAssumption DEF BeginTurn, Counted
<1>6. QED BY <1>3, <1>4, <1>5 DEF Sound

LEMMA StepsSound ==
  ASSUME Sound, Steps
  PROVE  Sound'
<1> USE DEF Reasons, gateVars
<1>1. CASE SeesCancelAtTop  BY <1>1, EndsSound DEF SeesCancelAtTop, Sound, TypeOK
<1>2. CASE StopsAtBudget  BY <1>2, EndsSound DEF StopsAtBudget, Sound, TypeOK
<1>3. CASE SendsRequest
  <2>1. TypeOK'
    BY <1>3, BudgetsAssumption
    DEF SendsRequest, MayRequest, BudgetSpent, Sound, TypeOK, Stages, callVars
  <2>2. Placed'  BY <1>3 DEF SendsRequest, MayRequest, Sound, Placed, callVars
  <2>3. Counted'
    BY <1>3, BudgetsAssumption
    DEF SendsRequest, MayRequest, BudgetSpent, Sound, TypeOK, Counted, callVars
  <2>4. QED BY <2>1, <2>2, <2>3 DEF Sound
<1>4. CASE RepeatsLeak
  BY <1>4, GoesRoundSound DEF RepeatsLeak, LeakedOnly, Sound, TypeOK
<1>5. CASE AbortsLeaking  BY <1>5, EndsSound DEF AbortsLeaking, Sound, TypeOK
<1>6. CASE DiscardsCalls  BY <1>6, EndsSound DEF DiscardsCalls, Sound, TypeOK
<1>7. ASSUME NEW calls \in StepCalls, CommitsCalls(calls) PROVE Sound'
  <2>1. calls \in Seq(Received) /\ Len(calls) \in 1 .. MaxCalls  BY StepCallsTyped
  <2>2. /\ par' \in Seq(Received) /\ seq' \in Seq(Received)
        /\ Len(par') + Len(seq') = Len(calls)
    BY <1>7, <2>1, ListsAreCalls DEF CommitsCalls
  <2>3. /\ stage = "finish" /\ stage' = "calls" /\ leaks' = 0 /\ buf' = Empty
        /\ UNCHANGED <<turn, token, said, why, step, attempt, used, rec, recent, gateVars, tried>>
    BY <1>7 DEF CommitsCalls
  <2>4. Len(par') \in Nat /\ Len(seq') \in Nat  BY <2>2, LenProperties
  <2>5. TypeOK'  BY <2>2, <2>3, EmptyTyped DEF Sound, TypeOK, Stages
  <2>6. Placed'
    <3>1. par' # <<>> \/ seq' # <<>>  BY <2>1, <2>2, EmptySeq
    <3>2. QED BY <2>3, <3>1, EmptyTyped, BudgetsAssumption DEF Placed
  <2>7. Counted'
    <3>1. used \in Nat /\ used <= MaxToolCalls - 1  BY <2>3 DEF Sound, TypeOK, Counted
    <3>2. used' + Len(par') + Len(seq') <= MaxToolCalls + MaxCalls - 1
      BY <2>1, <2>2, <2>3, <2>4, <3>1, BudgetsAssumption
    <3>3. QED BY <2>3, <3>2 DEF Counted
  <2>8. QED BY <2>5, <2>6, <2>7 DEF Sound
<1>8. CASE EndsUnfinished  BY <1>8, EndsSound DEF EndsUnfinished, Sound, TypeOK
<1>9. CASE FallsBack
  <2>1. TypeOK'
    <3>1. 1 \in 0 .. MaxRetries + 1  BY BudgetsAssumption
    <3>2. attempt' = 1 /\ stage' = "fallback" /\ leaks' = 0  BY <1>9 DEF FallsBack
    <3>3. UNCHANGED <<turn, token, said, why, step, buf, callVars, gateVars, tried>>
      BY <1>9 DEF FallsBack
    <3>4. QED BY <3>1, <3>2, <3>3 DEF Sound, TypeOK, Stages, callVars
  <2>2. Placed'  BY <1>9 DEF FallsBack, Plain, LeakedOnly, Sound, Placed, callVars
  <2>3. Counted'  BY <1>9 DEF FallsBack, Plain, LeakedOnly, Sound, Counted, callVars
  <2>4. QED BY <2>1, <2>2, <2>3 DEF Sound
<1>10. CASE AnswersFromStream
  <2>1. stage = "finish" /\ leaks' = 0 /\ Answers
    BY <1>10 DEF AnswersFromStream, Plain, LeakedOnly
  <2>2. QED BY <2>1, AnswersSound
<1>11. QED BY <1>1, <1>2, <1>3, <1>4, <1>5, <1>6, <1>7, <1>8, <1>9, <1>10 DEF Steps

LEMMA StreamsSound ==
  ASSUME Sound, Streams
  PROVE  Sound'
<1> USE DEF Reasons, gateVars
<1>1. ASSUME NEW text \in Texts, ReceivesText(text) PROVE Sound'
  <2>1. buf' = [buf EXCEPT !.text = text]  BY <1>1 DEF ReceivesText
  <2>2. buf' \in Buffers /\ buf'.calls = buf.calls  BY <2>1 DEF Sound, TypeOK, Buffers
  <2>3. TypeOK'  BY <1>1, <2>2 DEF ReceivesText, Sound, TypeOK, callVars
  <2>4. Placed'  BY <1>1, <2>2 DEF ReceivesText, Sound, Placed, callVars
  <2>5. Counted'  BY <1>1 DEF ReceivesText, Sound, Counted, callVars
  <2>6. QED BY <2>3, <2>4, <2>5 DEF Sound
<1>2. ASSUME NEW c \in Call, ReceivesCall(c) PROVE Sound'
  <2> DEFINE calls == Append(AllWhole(buf.calls), [call |-> c, whole |-> FALSE])
  <2>1. buf' = [buf EXCEPT !.text = "", !.calls = calls]  BY <1>2 DEF ReceivesCall
  <2>2. calls \in Seq(Received) /\ Len(calls) = Len(buf.calls) + 1
    <3>1. buf.calls \in Seq(Received)  BY DEF Sound, TypeOK, Buffers
    <3>2. /\ AllWhole(buf.calls) \in Seq(Received)
          /\ Len(AllWhole(buf.calls)) = Len(buf.calls)
      BY <3>1, AllWholeKeeps
    <3>3. [call |-> c, whole |-> FALSE] \in Received  BY DEF Received
    <3>4. QED BY <3>2, <3>3
  <2> HIDE DEF calls
  <2>3. buf' \in Buffers /\ buf'.calls = calls  BY <2>1, <2>2 DEF Sound, TypeOK, Buffers, Texts
  <2>4. Len(calls) <= MaxCalls
    <3>1. Len(buf.calls) \in Nat  BY LenProperties DEF Sound, TypeOK, Buffers
    <3>2. QED BY <1>2, <2>2, <3>1, BudgetsAssumption DEF ReceivesCall
  <2>5. TypeOK'  BY <1>2, <2>3 DEF ReceivesCall, Sound, TypeOK, callVars
  <2>6. Placed'  BY <1>2, <2>3, <2>4 DEF ReceivesCall, Sound, Placed, callVars
  <2>7. Counted'  BY <1>2 DEF ReceivesCall, Sound, Counted, callVars
  <2>8. QED BY <2>5, <2>6, <2>7 DEF Sound
<1>3. CASE StreamFinishes
  <2>1. PICK calls \in DoneWith(buf.calls) : IsDone(calls)  BY <1>3 DEF StreamFinishes
  <2>2. calls \in Seq(Received) /\ Len(calls) <= MaxCalls
    <3>1. buf.calls \in Seq(Received) /\ Len(buf.calls) <= MaxCalls
      BY DEF Sound, TypeOK, Placed, Buffers
    <3>2. /\ AllWhole(buf.calls) \in Seq(Received)
          /\ Len(AllWhole(buf.calls)) = Len(buf.calls)
      BY <3>1, AllWholeKeeps
    <3>3. calls \in {AllWhole(buf.calls), buf.calls}  BY DEF DoneWith
    <3>4. QED BY <3>1, <3>2, <3>3
  <2>3. buf' \in Buffers /\ buf'.calls = calls
    BY <2>1, <2>2 DEF IsDone, Sound, TypeOK, Buffers
  <2>4. TypeOK'  BY <2>1, <2>3 DEF IsDone, Sound, TypeOK, Stages, callVars
  <2>5. Placed'  BY <1>3, <2>1, <2>2, <2>3
    DEF StreamFinishes, Streaming, IsDone, Sound, Placed, callVars
  <2>6. Counted'  BY <1>3, <2>1 DEF StreamFinishes, Streaming, IsDone, Sound, Counted, callVars
  <2>7. QED BY <2>4, <2>5, <2>6 DEF Sound
<1>4. CASE Stalls  BY <1>4, EndsSound DEF Stalls, Sound, TypeOK
<1>5. CASE StreamFailsFatally  BY <1>5, EndsSound DEF StreamFailsFatally, Sound, TypeOK
<1>6. CASE StreamFailsEmpty
  <2>1. TypeOK'
    <3>1. attempt' \in 0 .. MaxRetries + 1
      BY <1>6, BudgetsAssumption DEF StreamFailsEmpty, Sound, TypeOK
    <3>2. QED BY <1>6, <3>1 DEF StreamFailsEmpty, Sound, TypeOK, Stages, callVars
  <2>2. Placed'  BY <1>6 DEF StreamFailsEmpty, Streaming, Sound, Placed, callVars
  <2>3. Counted'  BY <1>6 DEF StreamFailsEmpty, Streaming, Sound, Counted, callVars
  <2>4. QED BY <2>1, <2>2, <2>3 DEF Sound
<1>7. CASE StreamFailsLater
  <2>1. TypeOK'
    BY <1>7 DEF StreamFailsLater, SaysEndedEarly, Sound, TypeOK, Stages, callVars, streamVars
  <2>2. Placed'  BY <1>7 DEF StreamFailsLater, Sound, Placed, callVars, streamVars
  <2>3. Counted'  BY <1>7 DEF StreamFailsLater, Sound, Counted, callVars, streamVars
  <2>4. QED BY <2>1, <2>2, <2>3 DEF Sound
<1>8. CASE Retries
  <2>1. TypeOK'  BY <1>8 DEF Retries, Sound, TypeOK, Stages, callVars, streamVars
  <2>2. Placed'  BY <1>8 DEF Retries, Sound, Placed, callVars, streamVars
  <2>3. Counted'  BY <1>8 DEF Retries, Sound, Counted, callVars, streamVars
  <2>4. QED BY <2>1, <2>2, <2>3 DEF Sound
<1>9. CASE RetryFailsLater
  <2>1. TypeOK'  BY <1>9 DEF RetryFailsLater, Sound, TypeOK, Stages, callVars, streamVars
  <2>2. Placed'  BY <1>9 DEF RetryFailsLater, Sound, Placed, callVars, streamVars
  <2>3. Counted'  BY <1>9 DEF RetryFailsLater, Sound, Counted, callVars, streamVars
  <2>4. QED BY <2>1, <2>2, <2>3 DEF Sound
<1>10. ASSUME NEW way \in {"strip", "compact"}, ShrinksHistory(way) PROVE Sound'
  <2>1. stage = "restream"  BY <1>10 DEF ShrinksHistory, Exhausted
  <2>2. tried' \subseteq Tried /\ marker' \in BOOLEAN
    BY <1>10 DEF ShrinksHistory, Sound, TypeOK, Tried
  <2>3. TypeOK'
    BY <1>10, <2>2 DEF ShrinksHistory, Sound, TypeOK, Stages, callVars, streamVars
  <2>4. Placed'  BY <1>10, <2>1 DEF ShrinksHistory, Sound, Placed, callVars, streamVars
  <2>5. Counted'  BY <1>10, <2>1 DEF ShrinksHistory, Sound, Counted, callVars, streamVars
  <2>6. QED BY <2>3, <2>4, <2>5 DEF Sound
<1>11. CASE GivesUpRetrying
  <2>1. tried' \subseteq Tried  BY <1>11 DEF GivesUpRetrying, Sound, TypeOK, Tried
  <2>2. QED BY <1>11, <2>1, EndsSound DEF GivesUpRetrying, Sound, TypeOK
<1>12. QED BY <1>1, <1>2, <1>3, <1>4, <1>5, <1>6, <1>7, <1>8, <1>9, <1>10, <1>11 DEF Streams

LEMMA OthersSound ==
  ASSUME Sound, Cancel \/ SeesCancel \/ Fallback
  PROVE  Sound'
<1> USE DEF Reasons, gateVars
<1>1. CASE Cancel
  <2>1. TypeOK'  BY <1>1 DEF Cancel, Sound, TypeOK, callVars, streamVars
  <2>2. Placed'  BY <1>1 DEF Cancel, Sound, Placed, callVars, streamVars
  <2>3. Counted'  BY <1>1 DEF Cancel, Sound, Counted, callVars, streamVars
  <2>4. QED BY <2>1, <2>2, <2>3 DEF Sound
<1>2. CASE SeesCancelInStream  BY <1>2, EndsSound DEF SeesCancelInStream, Sound, TypeOK
<1>3. CASE SeesCancelInDelay  BY <1>3, EndsSound DEF SeesCancelInDelay, Sound, TypeOK
<1>4. CASE AnswersFromFallback
  BY <1>4, AnswersSound DEF AnswersFromFallback, Sound, TypeOK
<1>5. CASE FallbackBringsCalls
  BY <1>5, GoesRoundSound DEF FallbackBringsCalls, Sound, TypeOK
<1>6. CASE FallbackFails
  <2>1. TypeOK'
    <3>1. attempt' \in 0 .. MaxRetries + 1
      BY <1>6, BudgetsAssumption DEF FallbackFails, Sound, TypeOK
    <3>2. QED BY <1>6, <3>1 DEF FallbackFails, Sound, TypeOK, callVars
  <2>2. Placed'  BY <1>6 DEF FallbackFails, Sound, Placed, callVars
  <2>3. Counted'  BY <1>6 DEF FallbackFails, Sound, Counted, callVars
  <2>4. QED BY <2>1, <2>2, <2>3 DEF Sound
<1>7. CASE FallbackGivesUp  BY <1>7, EndsSound DEF FallbackGivesUp, Sound, TypeOK
<1>8. QED BY <1>1, <1>2, <1>3, <1>4, <1>5, <1>6, <1>7 DEF SeesCancel, Fallback

LEMMA HandlesSound ==
  ASSUME Sound, Handles
  PROVE  Sound'
<1> USE DEF gateVars
<1>1. CASE SeesCancelBeforeCall
  <2>1. <<>> \in Seq(Received) /\ Len(<<>>) = 0  BY EmptySeq
  <2>2. TypeOK'
    BY <1>1, <2>1 DEF SeesCancelBeforeCall, Sound, TypeOK, Stages, streamVars
  <2>3. Placed'  BY <1>1 DEF SeesCancelBeforeCall, Sound, Placed, streamVars
  <2>4. Counted'
    <3>1. used \in 0 .. MaxToolCalls + MaxCalls - 1  BY DEF Sound, TypeOK
    <3>2. QED BY <1>1, <2>1, <3>1, BudgetsAssumption DEF SeesCancelBeforeCall, Counted
  <2>5. QED BY <2>2, <2>3, <2>4 DEF Sound
<1>2. CASE StartsBatch
  <2>1. TypeOK'  BY <1>2 DEF StartsBatch, Sound, TypeOK, Stages, callVars, streamVars
  <2>2. Placed'  BY <1>2 DEF StartsBatch, Sound, Placed, callVars, streamVars
  <2>3. Counted'  BY <1>2 DEF StartsBatch, Sound, Counted, callVars, streamVars
  <2>4. QED BY <2>1, <2>2, <2>3 DEF Sound
<1>3. ASSUME NEW result \in Results, RecordsBatch(result, "ran") PROVE Sound'
  BY <1>3, RecordsBatchSound
<1>4. CASE RecordsBatch("ok", "deferred")  BY <1>4, RecordsBatchSound DEF Results
<1>5. CASE RecordsBatch("Other", "refused")
  BY <1>5, RecordsBatchSound DEF Results, ErrorType
<1>6. ASSUME NEW result \in Results, NEW way \in {"ran", "deferred", "refused"},
             way = "refused" => result # "ok",
             stage \in {"calls", "asking", "busy"}, stage = "calls" => par = <<>>,
             HasResult(result, way), UNCHANGED recent
      PROVE  Sound'
  <2>1. par = <<>>  BY <1>6 DEF Sound, Placed
  <2>2. QED BY <1>6, <2>1, HasResultSound
<1>7. CASE HookStopsCall
  BY <1>6, <1>7 DEF HookStopsCall, Current, Results, ErrorType
<1>8. CASE RefusesCall
  BY <1>6, <1>8 DEF RefusesCall, Current, Results, ErrorType
<1>9. CASE UnknownTool
  BY <1>6, <1>9 DEF UnknownTool, Current, Results, ErrorType
<1>10. CASE AsksUser
  <2>1. stage = "calls" /\ par = <<>> /\ seq # <<>>
    BY <1>10 DEF AsksUser, PassesGuards, Current, Sound, Placed
  <2>2. TypeOK'  BY <1>10 DEF AsksUser, Sound, TypeOK, Stages, callVars, streamVars
  <2>3. Placed'  BY <1>10, <2>1 DEF AsksUser, Sound, Placed, callVars, streamVars
  <2>4. Counted'  BY <1>10, <2>1 DEF AsksUser, Sound, Counted, callVars, streamVars
  <2>5. QED BY <2>2, <2>3, <2>4 DEF Sound
<1>11. CASE ConfirmationEnds
  BY <1>6, <1>11 DEF ConfirmationEnds, Results, ErrorType
<1>12. CASE UserDenies
  BY <1>6, <1>12 DEF UserDenies, Results, ErrorType
<1>13. CASE RefusesDuplicate
  BY <1>6, <1>13 DEF RefusesDuplicate, Allowed, PassesGuards, Current, Results, ErrorType
<1>14. CASE StartsCall
  <2>1. stage \in {"calls", "asking"} /\ par = <<>> /\ seq # <<>>
    BY <1>14 DEF StartsCall, Allowed, PassesGuards, Current, Sound, Placed
  <2>2. Head(seq).call \in Call
    <3>1. Head(seq) \in Received  BY <2>1, HeadTailProperties DEF Sound, TypeOK
    <3>2. QED BY <3>1 DEF Received
  <2>3. recent' \in Seq(Call) /\ Len(recent') <= Window
    BY <1>14, <2>2, RemembersTyped DEF StartsCall, Sound
  <2>4. TypeOK'  BY <1>14, <2>3 DEF StartsCall, Sound, TypeOK, Stages, streamVars
  <2>5. Placed'  BY <1>14, <2>1 DEF StartsCall, Sound, Placed, streamVars
  <2>6. Counted'  BY <1>14, <2>1 DEF StartsCall, Sound, Counted
  <2>7. QED BY <2>4, <2>5, <2>6 DEF Sound
<1>15. ASSUME NEW result \in Results, CallReturns(result) PROVE Sound'
  BY <1>6, <1>15 DEF CallReturns
<1>16. CASE BatchReturns
  <2>1. TypeOK'  BY <1>16 DEF BatchReturns, Sound, TypeOK, Stages, callVars, streamVars
  <2>2. Placed'  BY <1>16 DEF BatchReturns, Sound, Placed, callVars, streamVars
  <2>3. Counted'  BY <1>16 DEF BatchReturns, Sound, Counted, callVars, streamVars
  <2>4. QED BY <2>1, <2>2, <2>3 DEF Sound
<1>17. QED BY <1>1, <1>2, <1>3, <1>4, <1>5, <1>7, <1>8, <1>9, <1>10, <1>11, <1>12, <1>13,
              <1>14, <1>15, <1>16 DEF Handles

LEMMA SoundInitially == Init => Sound
<1> SUFFICES ASSUME Init PROVE Sound  OBVIOUS
<1>1. <<>> \in Seq(Received) /\ <<>> \in Seq(Call) /\ Len(<<>>) = 0  BY EmptySeq
<1>2. Calm \in Recovery  BY DEF Calm, Recovery, RecoveryState
<1>3. TypeOK
  <2>1. /\ turn \in 0 .. MaxTurns /\ step \in 0 .. MaxSteps
        /\ attempt \in 0 .. MaxRetries + 1 /\ used \in 0 .. MaxToolCalls + MaxCalls - 1
        /\ Len(recent) <= Window
    BY <1>1, BudgetsAssumption DEF Init
  <2>2. /\ stage \in Stages /\ token \in BOOLEAN /\ said \in {"none", "note", "done"}
        /\ why \subseteq Reasons /\ tried \subseteq Tried /\ leaks \in 0 .. 2
        /\ modified \in BOOLEAN /\ marker \in BOOLEAN
        /\ checked \subseteq {"ran", "deferred"} /\ rec \in Recovery
    <3>1. token \in BOOLEAN /\ modified \in BOOLEAN /\ marker \in BOOLEAN
      BY Zenon DEF Init
    <3>2. stage \in Stages /\ said \in {"none", "note", "done"} /\ leaks \in 0 .. 2
      BY DEF Init, Stages
    <3>3. why = {} /\ tried = {} /\ checked = {}  BY DEF Init
    <3>4. QED BY <3>1, <3>2, <3>3, <1>2 DEF Init
  <2>3. /\ buf \in Buffers /\ par \in Seq(Received) /\ seq \in Seq(Received)
        /\ recent \in Seq(Call)
    BY <1>1, EmptyTyped DEF Init
  <2>4. QED BY <2>1, <2>2, <2>3 DEF TypeOK
<1>4. Placed  BY <1>1, EmptyTyped, BudgetsAssumption DEF Init, Placed
<1>5. Counted  BY <1>1, BudgetsAssumption DEF Init, Counted
<1>6. QED BY <1>3, <1>4, <1>5 DEF Sound

LEMMA SoundKept == Sound /\ [Next]_vars => Sound'
<1> SUFFICES ASSUME Sound, [Next]_vars PROVE Sound'  OBVIOUS
<1>1. CASE UNCHANGED vars
  <2> USE <1>1 DEF vars, streamVars, callVars, gateVars
  <2>1. TypeOK'  BY DEF Sound, TypeOK
  <2>2. Placed'  BY DEF Sound, Placed
  <2>3. Counted'  BY DEF Sound, Counted
  <2>4. QED BY <2>1, <2>2, <2>3 DEF Sound
<1>2. CASE Next
  BY <1>2, BeginSound, StepsSound, StreamsSound, OthersSound, HandlesSound DEF Next
<1>3. QED BY <1>1, <1>2

\* Every variable keeps its type, and every count its limit: an answer of many
\* calls exceeds the budget of a turn by less than its length, however the calls
\* were refused, put off or run.
THEOREM TypesHold == Spec => []TypeOK
<1>1. Spec => []Sound  BY SoundInitially, SoundKept, PTL DEF Spec
<1>2. Sound => TypeOK  BY DEF Sound
<1>3. QED BY <1>1, <1>2, PTL

-----------------------------------------------------------------------------
(* What is said, why a turn ends, and what stands behind the commit gate. *)

Kept3 == Spoken /\ Explained /\ Committable

LEMMA EndsKept ==
  ASSUME Kept3, stage # "idle", NEW reasons \in SUBSET Reasons, Ends(reasons),
         reasons # {} \/ why # {},
         "delivered" \in reasons => (modified' => checked' # {})
  PROVE  Kept3'
<1>1. Spoken'  BY DEF Spoken, Ends
<1>2. Explained'
  BY EmptyTyped DEF Kept3, Explained, EndsAreExplained, DeliveredAfterCheck, Ends
<1>3. Committable'  BY EmptyTyped DEF Committable, Handling, Ends
<1>4. QED BY <1>1, <1>2, <1>3 DEF Kept3

LEMMA GoesOnKept ==
  ASSUME Kept3, stage # "idle", stage' # "idle", UNCHANGED turn,
         said' = "note" \/ (said' = said /\ stage # "top"),
         "delivered" \in why' => "delivered" \in why,
         stage' = "finish" => buf'.done \/ why' # {},
         Committable'
  PROVE  Kept3'
<1>1. Spoken'  BY DEF Kept3, Spoken
<1>2. Explained'  BY DEF Kept3, Explained, EndsAreExplained, DeliveredAfterCheck
<1>3. QED BY <1>1, <1>2 DEF Kept3

\* Where nothing is received, only the reasons matter.
LEMMA SameCalls ==
  ASSUME Committable, UNCHANGED buf,
         buf.done => why' = {} /\ stage' \in {"finish", "fallback"},
         stage' \in {"finish", "fallback", "top"} \/ why' = {}
  PROVE  Committable'
BY DEF Committable, Handling

LEMMA GoesRoundKept ==
  ASSUME Kept3, stage # "idle", GoesRound
  PROVE  Kept3'
<1>1. Committable'  BY EmptyTyped DEF Committable, Handling, GoesRound
<1>2. QED BY <1>1, GoesOnKept, EmptyTyped DEF GoesRound

LEMMA AnswersKept ==
  ASSUME Kept3, stage # "idle", Answers
  PROVE  Kept3'
<1>1. CASE GateReminds  BY <1>1, GoesRoundKept DEF GateReminds
<1>2. CASE GateBlocks  BY <1>2, EndsKept DEF GateBlocks, Reasons
<1>3. CASE HookContinues  BY <1>3, GoesRoundKept DEF HookContinues
<1>4. CASE Delivers
  <2>1. modified' => checked' # {}  BY <1>4 DEF Delivers, Verified, Answers
  <2>2. QED BY <1>4, <2>1, EndsKept DEF Delivers, Reasons
<1>5. QED BY <1>1, <1>2, <1>3, <1>4 DEF Answers

LEMMA StepsKept ==
  ASSUME Sound, Kept3, Steps
  PROVE  Kept3'
<1> USE DEF Reasons
<1>1. CASE SeesCancelAtTop  BY <1>1, EndsKept DEF SeesCancelAtTop
<1>2. CASE StopsAtBudget  BY <1>2, EndsKept DEF StopsAtBudget, MayRequest
<1>3. CASE SendsRequest
  <2>1. ~buf.done  BY <1>3 DEF SendsRequest, MayRequest, Kept3, Committable
  <2>2. Committable'
    BY <1>3, <2>1, SameCalls DEF SendsRequest, Kept3, callVars
  <2>3. QED BY <1>3, <2>2, GoesOnKept DEF SendsRequest, MayRequest
<1>4. CASE RepeatsLeak  BY <1>4, GoesRoundKept DEF RepeatsLeak, LeakedOnly
<1>5. CASE AbortsLeaking  BY <1>5, EndsKept DEF AbortsLeaking, LeakedOnly
<1>6. CASE DiscardsCalls  BY <1>6, EndsKept DEF DiscardsCalls
<1>7. ASSUME NEW calls \in StepCalls, CommitsCalls(calls) PROVE Kept3'
  <2>1. why = {}  BY <1>7 DEF CommitsCalls, Committed, Kept3, Committable
  <2>2. Committable'  BY <1>7, <2>1, EmptyTyped DEF CommitsCalls, Committable
  <2>3. QED BY <1>7, <2>2, GoesOnKept DEF CommitsCalls
<1>8. CASE EndsUnfinished
  <2>1. why # {}  BY <1>8 DEF EndsUnfinished, Plain, LeakedOnly, Kept3, Explained
  <2>2. QED BY <1>8, <2>1, EndsKept DEF EndsUnfinished, Plain, LeakedOnly
<1>9. CASE FallsBack
  <2>1. Committable'  BY <1>9, SameCalls DEF FallsBack, Plain, Kept3, Committable
  <2>2. QED BY <1>9, <2>1, GoesOnKept DEF FallsBack, Plain, LeakedOnly
<1>10. CASE AnswersFromStream
  BY <1>10, AnswersKept DEF AnswersFromStream, Plain, LeakedOnly
<1>11. QED BY <1>1, <1>2, <1>3, <1>4, <1>5, <1>6, <1>7, <1>8, <1>9, <1>10 DEF Steps

LEMMA StreamsKept ==
  ASSUME Sound, Kept3, Streams
  PROVE  Kept3'
<1> USE DEF Reasons
<1>1. buf \in Buffers /\ buf.calls \in Seq(Received)  BY DEF Sound, TypeOK, Buffers
<1>2. ASSUME stage \notin {"idle", "top", "finish", "fallback"}, stage' # "idle",
             UNCHANGED <<turn, buf>>,
             said' \in {said, "note"},
             "delivered" \in why' => "delivered" \in why,
             stage' = "finish" => why' # {},
             stage' = "finish" \/ why' = why,
             stage' \in {"finish", "backoff", "restream"}, Streaming \/ stage = "backoff"
      PROVE  Kept3'
  <2>1. ~buf.done  BY <1>2 DEF Kept3, Committable
  <2>2. Committable'  BY <1>2, <2>1, SameCalls DEF Streaming, Kept3, Committable
  <2>3. QED BY <1>2, <2>2, GoesOnKept
<1>3. ASSUME NEW text \in Texts, ReceivesText(text) PROVE Kept3'
  <2>1. buf'.done = buf.done /\ buf'.calls = buf.calls
    BY <1>1, <1>3 DEF ReceivesText, Buffers
  <2>2. Committable'
    BY <1>3, <2>1 DEF ReceivesText, Streaming, Kept3, Committable, callVars
  <2>3. QED BY <1>3, <2>2, GoesOnKept DEF ReceivesText, Streaming
<1>4. ASSUME NEW c \in Call, ReceivesCall(c) PROVE Kept3'
  <2>1. buf'.done = buf.done  BY <1>1, <1>4 DEF ReceivesCall, Buffers
  <2>2. Committable'
    BY <1>4, <2>1 DEF ReceivesCall, Streaming, Kept3, Committable, callVars
  <2>3. QED BY <1>4, <2>2, GoesOnKept DEF ReceivesCall, Streaming
<1>5. CASE StreamFinishes
  <2>1. PICK calls \in DoneWith(buf.calls) : IsDone(calls)  BY <1>5 DEF StreamFinishes
  <2>2. buf'.done  BY <1>1, <2>1 DEF IsDone, Buffers
  <2>3. why = {} /\ stage # "idle"
    BY <1>5 DEF StreamFinishes, Streaming, Kept3, Committable
  <2>4. Committable'  BY <2>1, <2>3 DEF IsDone, Committable, Handling
  <2>5. QED BY <2>1, <2>2, <2>3, <2>4, GoesOnKept DEF IsDone
<1>6. CASE Stalls  BY <1>6, EndsKept DEF Stalls
<1>7. CASE StreamFailsFatally  BY <1>7, EndsKept DEF StreamFailsFatally
<1>8. CASE StreamFailsEmpty
  BY <1>2, <1>8 DEF StreamFailsEmpty, Streaming
<1>9. CASE StreamFailsLater
  BY <1>2, <1>9 DEF StreamFailsLater, SaysEndedEarly, Streaming, streamVars
<1>10. CASE Retries  BY <1>2, <1>10 DEF Retries, Streaming, streamVars
<1>11. CASE RetryFailsLater
  BY <1>2, <1>11 DEF RetryFailsLater, Streaming, streamVars
<1>12. ASSUME NEW way \in {"strip", "compact"}, ShrinksHistory(way) PROVE Kept3'
  BY <1>2, <1>12 DEF ShrinksHistory, Exhausted, Streaming, streamVars
<1>13. CASE GivesUpRetrying  BY <1>13, EndsKept DEF GivesUpRetrying, Exhausted
<1>14. QED BY <1>3, <1>4, <1>5, <1>6, <1>7, <1>8, <1>9, <1>10, <1>11, <1>12, <1>13 DEF Streams

LEMMA OthersKept ==
  ASSUME Sound, Kept3, BeginTurn \/ Cancel \/ SeesCancel \/ Fallback
  PROVE  Kept3'
<1> USE DEF Reasons
<1>1. CASE BeginTurn
  <2>1. turn' # 0  BY <1>1 DEF BeginTurn, Sound, TypeOK
  <2>2. Spoken'  BY <1>1, <2>1 DEF BeginTurn, Spoken
  <2>3. Explained'
    BY <1>1 DEF BeginTurn, Explained, EndsAreExplained, DeliveredAfterCheck
  <2>4. Committable'  BY <1>1, EmptyTyped DEF BeginTurn, Committable
  <2>5. QED BY <2>2, <2>3, <2>4 DEF Kept3
<1>2. CASE Cancel
  <2> USE <1>2 DEF Cancel, Kept3, streamVars, callVars, gateVars
  <2>1. Spoken'  BY DEF Spoken
  <2>2. Explained'  BY DEF Explained, EndsAreExplained, DeliveredAfterCheck
  <2>3. Committable'  BY DEF Committable, Handling
  <2>4. QED BY <2>1, <2>2, <2>3
<1>3. CASE SeesCancelInStream  BY <1>3, EndsKept DEF SeesCancelInStream, Streaming
<1>4. CASE SeesCancelInDelay  BY <1>4, EndsKept DEF SeesCancelInDelay
<1>5. CASE AnswersFromFallback  BY <1>5, AnswersKept DEF AnswersFromFallback
<1>6. CASE FallbackBringsCalls  BY <1>6, GoesRoundKept DEF FallbackBringsCalls
<1>7. CASE FallbackFails
  <2>1. Committable'  BY <1>7, SameCalls DEF FallbackFails, Kept3, Committable
  <2>2. QED BY <1>7, <2>1, GoesOnKept DEF FallbackFails
<1>8. CASE FallbackGivesUp  BY <1>8, EndsKept DEF FallbackGivesUp
<1>9. QED BY <1>1, <1>2, <1>3, <1>4, <1>5, <1>6, <1>7, <1>8 DEF SeesCancel, Fallback

LEMMA HandlesKept ==
  ASSUME Sound, Kept3, Handles
  PROVE  Kept3'
<1>1. CASE ~Handling
  BY <1>1
  DEF Handling, Handles, SeesCancelBeforeCall, StartsBatch, BatchReturns, RecordsBatch,
    HookStopsCall,
    RefusesCall, UnknownTool, AsksUser, ConfirmationEnds, UserDenies, RefusesDuplicate,
    StartsCall, CallReturns, Allowed, PassesGuards, Current
<1>2. ASSUME Handling
      PROVE  Kept3'
  <2>1. why = {} /\ ~buf.done /\ stage # "idle"
    BY <1>2 DEF Handling, Kept3, Committable
  <2>2. ASSUME stage' \in {"top", "calls", "batch", "results", "asking", "busy"},
               said' = "note", UNCHANGED <<turn, why, buf>>
        PROVE  Kept3'
    <3>1. Committable'  BY <2>1, <2>2 DEF Committable
    <3>2. stage # "top"  BY <1>2 DEF Handling
    <3>3. QED BY <2>1, <2>2, <3>1, <3>2, GoesOnKept
  <2>3. ASSUME NEW result, NEW way, HasResult(result, way)
        PROVE  Kept3'
    BY <2>2, <2>3 DEF HasResult, Records, NextCall
  <2>4. ASSUME NEW result, NEW way, RecordsBatch(result, way)
        PROVE  Kept3'
    BY <2>2, <2>4 DEF RecordsBatch, Records
  <2>5. ASSUME StartsBatch \/ BatchReturns \/ AsksUser \/ StartsCall PROVE Kept3'
    <3>1. stage' \in {"batch", "results", "asking", "busy"}
      BY <2>5 DEF StartsBatch, BatchReturns, AsksUser, StartsCall
    <3>2. said' = said \/ said' = "note"
      BY <2>5 DEF StartsBatch, BatchReturns, AsksUser, StartsCall
    <3>3. UNCHANGED <<turn, why, buf>>
      BY <2>5 DEF StartsBatch, BatchReturns, AsksUser, StartsCall, streamVars
    <3>4. Committable'  BY <2>1, <3>1, <3>3 DEF Committable
    <3>5. stage # "top"  BY <1>2 DEF Handling
    <3>6. QED BY <2>1, <3>1, <3>2, <3>3, <3>4, <3>5, GoesOnKept
  <2>6. ASSUME SeesCancelBeforeCall PROVE Kept3'
    <3>1. Spoken'  BY <2>1, <2>6 DEF SeesCancelBeforeCall, Kept3, Spoken
    <3>2. Explained'
      BY <2>1, <2>6 DEF SeesCancelBeforeCall, Kept3, Explained, EndsAreExplained,
                        DeliveredAfterCheck
    <3>3. Committable'
      BY <2>1, <2>6 DEF SeesCancelBeforeCall, Committable, Handling, streamVars
    <3>4. QED BY <3>1, <3>2, <3>3 DEF Kept3
  <2>7. ASSUME HookStopsCall \/ RefusesCall \/ UnknownTool PROVE Kept3'
    BY <2>3, <2>7 DEF HookStopsCall, RefusesCall, UnknownTool
  <2>8. ASSUME ConfirmationEnds \/ UserDenies \/ RefusesDuplicate PROVE Kept3'
    BY <2>3, <2>8 DEF ConfirmationEnds, UserDenies, RefusesDuplicate
  <2>9. ASSUME NEW result \in Results, CallReturns(result) PROVE Kept3'
    BY <2>3, <2>9 DEF CallReturns
  <2>10. QED BY <2>4, <2>5, <2>6, <2>7, <2>8, <2>9 DEF Handles
<1>3. QED BY <1>1, <1>2

LEMMA IInvInitially == Init => IInv
<1> SUFFICES ASSUME Init PROVE IInv  OBVIOUS
<1>1. Sound  BY SoundInitially
<1>2. Spoken  BY DEF Init, Spoken
<1>3. Explained  BY DEF Init, Explained, EndsAreExplained, DeliveredAfterCheck
<1>4. Committable  BY EmptyTyped DEF Init, Committable, Handling
<1>5. QED BY <1>1, <1>2, <1>3, <1>4 DEF IInv

LEMMA IInvKept == IInv /\ [Next]_vars => IInv'
<1> SUFFICES ASSUME IInv, [Next]_vars PROVE IInv'  OBVIOUS
<1>1. Sound /\ Kept3  BY DEF IInv, Kept3
<1>2. Sound'  BY <1>1, SoundKept
<1>3. Kept3'
  <2>1. CASE UNCHANGED vars
    <3> USE <1>1, <2>1 DEF vars, streamVars, callVars, gateVars
    <3>1. Spoken'  BY DEF Kept3, Spoken
    <3>2. Explained'  BY DEF Kept3, Explained, EndsAreExplained, DeliveredAfterCheck
    <3>3. Committable'  BY DEF Kept3, Committable, Handling
    <3>4. QED BY <3>1, <3>2, <3>3 DEF Kept3
  <2>2. CASE Next
    BY <1>1, <2>2, StepsKept, StreamsKept, OthersKept, HandlesKept DEF Next
  <2>3. QED BY <2>1, <2>2
<1>4. QED BY <1>2, <1>3 DEF IInv, Kept3

LEMMA IInvHolds == Spec => []IInv
BY IInvInitially, IInvKept, PTL DEF Spec

-----------------------------------------------------------------------------
(* The properties. *)

\* Of an answer that broke off before its final response no call is run, whatever
\* the model sends, however its stream breaks off and however it is retried.
THEOREM NoBrokenAnswerRuns == Spec => []BrokenAnswersRunNothing
<1>1. IInv => BrokenAnswersRunNothing  BY DEF IInv, Committable, BrokenAnswersRunNothing
<1>2. QED BY <1>1, IInvHolds, PTL

\* A turn that returns has a reason the user can know of, or one of the two that
\* are silent.
THEOREM TurnsAreExplained == Spec => []EndsAreExplained
<1>1. IInv => EndsAreExplained  BY DEF IInv, Explained
<1>2. QED BY <1>1, IInvHolds, PTL

\* A turn that changed files and delivers its answer has a check that counted.
THEOREM DeliveriesAreChecked == Spec => []DeliveredAfterCheck
<1>1. IInv => DeliveredAfterCheck  BY DEF IInv, Explained
<1>2. QED BY <1>1, IInvHolds, PTL

\* The gate of recovery gives way at the second failure in a row.
THEOREM RecoveryGateGivesWay == Spec => GateGivesWay
<1> DEFINE A == RefusesCall /\ GateRefuses(rec, Head(seq).call) /\ rec.fails >= 1 =>
                  rec'.state # "ReanchorRequired"
<1>1. IInv /\ [Next]_vars => [A]_vars
  <2> SUFFICES ASSUME IInv, RefusesCall, GateRefuses(rec, Head(seq).call), rec.fails >= 1
               PROVE  rec'.state # "ReanchorRequired"
    OBVIOUS
  <2>1. seq \in Seq(Received) /\ seq # <<>> /\ rec \in Recovery
    BY DEF IInv, Sound, TypeOK, Placed, RefusesCall, Current
  <2>2. HasResult("Validation", "refused")  BY DEF RefusesCall
  <2>3. rec' = Failed(rec, "Validation")  BY <2>2 DEF HasResult, Records
  <2>4. QED BY <2>1, <2>3, SecondFailureOpens
<1>2. QED BY <1>1, IInvHolds, PTL DEF Spec, GateGivesWay

-----------------------------------------------------------------------------
(* The engine keeps its promise. *)

\* Between turns only a turn may begin; the cancelled top of the loop returns.
LEMMA OnlyBeginFromIdle ==
  ASSUME Next, stage = "idle"
  PROVE  BeginTurn
<1>1. ~Cancel  BY DEF Cancel
<1>2. ~Steps
  BY DEF Steps, SeesCancelAtTop, StopsAtBudget, SendsRequest, MayRequest, RepeatsLeak,
         AbortsLeaking, LeakedOnly, DiscardsCalls, CommitsCalls, EndsUnfinished, FallsBack,
         AnswersFromStream, Plain
<1>3. ~Streams
  BY DEF Streams, ReceivesText, ReceivesCall, StreamFinishes, Streaming, Stalls,
         StreamFailsFatally, StreamFailsEmpty, StreamFailsLater, Retries, RetryFailsLater,
         ShrinksHistory, GivesUpRetrying, Exhausted
<1>4. ~SeesCancel  BY DEF SeesCancel, SeesCancelInStream, Streaming, SeesCancelInDelay
<1>5. ~Fallback
  BY DEF Fallback, AnswersFromFallback, FallbackBringsCalls, FallbackFails, FallbackGivesUp
<1>6. ~Handles
  BY DEF Handles, SeesCancelBeforeCall, StartsBatch, BatchReturns, RecordsBatch,
         HookStopsCall, RefusesCall, UnknownTool, AsksUser, ConfirmationEnds, UserDenies,
         RefusesDuplicate, StartsCall, CallReturns, Allowed, PassesGuards, Current
<1>7. QED BY <1>1, <1>2, <1>3, <1>4, <1>5, <1>6 DEF Next

LEMMA CancelledTopReturns ==
  ASSUME Next, stage = "top", token
  PROVE  stage' = "idle"
<1>1. ~BeginTurn /\ ~Cancel  BY DEF BeginTurn, Cancel
<1>2. ASSUME Steps PROVE SeesCancelAtTop
  BY <1>2
  DEF Steps, StopsAtBudget, SendsRequest, MayRequest, RepeatsLeak,
      AbortsLeaking, LeakedOnly, DiscardsCalls, CommitsCalls, EndsUnfinished, FallsBack,
      AnswersFromStream, Plain
<1>3. ~Streams
  BY DEF Streams, ReceivesText, ReceivesCall, StreamFinishes, Streaming, Stalls,
         StreamFailsFatally, StreamFailsEmpty, StreamFailsLater, Retries, RetryFailsLater,
         ShrinksHistory, GivesUpRetrying, Exhausted
<1>4. ~SeesCancel  BY DEF SeesCancel, SeesCancelInStream, Streaming, SeesCancelInDelay
<1>5. ~Fallback
  BY DEF Fallback, AnswersFromFallback, FallbackBringsCalls, FallbackFails, FallbackGivesUp
<1>6. ~Handles
  BY DEF Handles, SeesCancelBeforeCall, StartsBatch, BatchReturns, RecordsBatch,
         HookStopsCall, RefusesCall, UnknownTool, AsksUser, ConfirmationEnds, UserDenies,
         RefusesDuplicate, StartsCall, CallReturns, Allowed, PassesGuards, Current
<1>7. SeesCancelAtTop  BY <1>1, <1>2, <1>3, <1>4, <1>5, <1>6 DEF Next
<1>8. QED BY <1>7 DEF SeesCancelAtTop, Ends

LEMMA SameTurn ==
  ASSUME Next, ~BeginTurn
  PROVE  UNCHANGED turn
<1>1. ASSUME NEW reasons, Ends(reasons) PROVE UNCHANGED turn  BY <1>1 DEF Ends
<1>2. ASSUME GoesRound PROVE UNCHANGED turn  BY <1>2 DEF GoesRound
<1>3. ASSUME Answers PROVE UNCHANGED turn
  BY <1>1, <1>2, <1>3 DEF Answers, GateReminds, GateBlocks, HookContinues, Delivers
<1>4. ASSUME NEW c, NEW result, NEW way, Records(c, result, way) PROVE UNCHANGED turn
  BY <1>4 DEF Records
<1>5. CASE Cancel  BY <1>5 DEF Cancel
<1>6. CASE Steps
  BY <1>1, <1>2, <1>3, <1>6
  DEF Steps, SeesCancelAtTop, StopsAtBudget, SendsRequest, RepeatsLeak, AbortsLeaking,
      DiscardsCalls, CommitsCalls, EndsUnfinished, FallsBack, AnswersFromStream
<1>7. CASE Streams
  BY <1>1, <1>7
  DEF Streams, ReceivesText, ReceivesCall, StreamFinishes, IsDone, Stalls,
      StreamFailsFatally, StreamFailsEmpty, StreamFailsLater, Retries, RetryFailsLater,
      ShrinksHistory, GivesUpRetrying
<1>8. CASE SeesCancel  BY <1>1, <1>8 DEF SeesCancel, SeesCancelInStream, SeesCancelInDelay
<1>9. CASE Fallback
  BY <1>1, <1>2, <1>3, <1>9
  DEF Fallback, AnswersFromFallback, FallbackBringsCalls, FallbackFails, FallbackGivesUp
<1>10. CASE Handles
  BY <1>4, <1>10
  DEF Handles, HasResult, SeesCancelBeforeCall, StartsBatch, BatchReturns, RecordsBatch,
      HookStopsCall, RefusesCall, UnknownTool, AsksUser, ConfirmationEnds, UserDenies,
      RefusesDuplicate, StartsCall, CallReturns
<1>11. QED BY <1>5, <1>6, <1>7, <1>8, <1>9, <1>10 DEF Next

LEMMA StepKeepsPromise ==
  ASSUME IInv, IInv', [Next]_vars
  PROVE  [Promise!Next]_(Promise!vars)
<1>1. CASE UNCHANGED vars
  <2>1. UNCHANGED <<stage, said>>  BY <1>1 DEF vars
  <2>2. QED BY <2>1 DEF Promise!vars
<1>2. CASE Next /\ stage = "idle"
  <2>1. stage' # "idle" /\ said' # "done"  BY <1>2, OnlyBeginFromIdle DEF BeginTurn
  <2>2. Promise!Begin  BY <1>2, <2>1 DEF Promise!Begin
  <2>3. QED BY <2>2 DEF Promise!Next
<1>3. CASE Next /\ stage # "idle" /\ said = "done"
  <2>1. stage = "top" /\ token  BY <1>3 DEF IInv, Spoken
  <2>2. stage' = "idle"  BY <1>3, <2>1, CancelledTopReturns
  <2>3. turn' # 0
    <3>1. turn' = turn  BY <1>3, SameTurn DEF BeginTurn
    <3>2. QED BY <1>3, <3>1 DEF IInv, Spoken
  <2>4. said' = "done"
    <3>1. turn' \in 0 .. MaxTurns  BY DEF IInv, Sound, TypeOK
    <3>2. QED BY <2>2, <2>3, <3>1 DEF IInv, Spoken
  <2>5. Promise!Return  BY <1>3, <2>2, <2>4 DEF Promise!Return
  <2>6. QED BY <2>5 DEF Promise!Next
<1>4. CASE Next /\ stage # "idle" /\ said # "done" /\ said' = "done"
  <2>1. Promise!Close  BY <1>4 DEF Promise!Close
  <2>2. QED BY <2>1 DEF Promise!Next
<1>5. CASE Next /\ stage # "idle" /\ said # "done" /\ said' # "done"
  <2>1. turn' # 0
    <3>1. turn' = turn  BY <1>5, SameTurn DEF BeginTurn
    <3>2. QED BY <1>5, <3>1 DEF IInv, Spoken
  <2>2. stage' # "idle"
    <3>1. turn' \in 0 .. MaxTurns  BY DEF IInv, Sound, TypeOK
    <3>2. QED BY <1>5, <2>1, <3>1 DEF IInv, Spoken
  <2>3. QED BY <1>5, <2>2 DEF Promise!vars
<1>6. QED BY <1>1, <1>2, <1>3, <1>4, <1>5

\* The engine implements its promise: a turn says that it is done before it
\* returns, and says nothing after that but that it is done.
THEOREM EngineKeepsPromise == Spec => KeepsPromise
<1>1. Init => Promise!Init  BY DEF Init, Promise!Init
<1>2. IInv /\ IInv' /\ [Next]_vars => [Promise!Next]_(Promise!vars)
  BY StepKeepsPromise
<1>3. QED BY <1>1, <1>2, IInvHolds, PTL DEF Spec, KeepsPromise, Promise!Spec

===============================================================================

----------------------- MODULE ToolConfirmation_proofs -----------------------
(***************************************************************************)
(* Proofs about ToolConfirmation, for any number of calls, any turns they  *)
(* may come with and any answers: the types of its variables, the order of *)
(* calls and answers, and what the permission manager holds to.            *)
(***************************************************************************)
EXTENDS ToolConfirmation, NatRecursion

-----------------------------------------------------------------------------
(* Types. *)

\* A call that has its turn has a command of the turn.
LEMMA CommandsTyped ==
  ASSUME turn \in Turns, NEW c \in Call
  PROVE  Cmd(c) \in Commands /\ ToolOf[Cmd(c)] \in Tools
<1>1. turn.calls \in [Call -> Commands]  BY TurnsAssumption DEF Turn
<1>2. Cmd(c) \in Commands  BY <1>1 DEF Cmd
<1>3. QED BY <1>2 DEF Tools

\* A stage that one call comes to.
LEMMA BecomesTyped ==
  ASSUME TypeOK, NEW c \in Call, NEW s \in {"todo", "asking"} \cup Over, Becomes(c, s)
  PROVE  /\ stage' \in [Call -> {"todo", "asking"} \cup Over]
         /\ stage'[c] = s
         /\ \A d \in Call : d # c => stage'[d] = stage[d]
BY DEF TypeOK, Becomes

\* The first of several answers, and what is left.
LEMMA Answers ==
  ASSUME TypeOK, answers # <<>>
  PROVE  /\ Head(answers) \in Answer
         /\ Tail(answers) \in Seq(Answer)
BY HeadTailProperties DEF TypeOK

LEMMA InitTyped == Init => TypeOK
<1> SUFFICES ASSUME Init PROVE TypeOK  OBVIOUS
<1> USE DEF Init
<1>1. turn.planning \in BOOLEAN /\ turn.kept \subseteq Commands
  BY TurnsAssumption DEF Turn
<1>2. stage \in [Call -> {"todo", "asking"} \cup Over] /\ replied \in [Call -> Nat]
  OBVIOUS
<1>3. by \in [Call -> Answer \cup {NoAnswer}] /\ denials \in [Tools -> Nat]  OBVIOUS
<1>4. requests \in Seq(Call) /\ cards \in Seq(Call) /\ answers \in Seq(Answer)
  BY EmptySeq
<1>5. QED BY <1>1, <1>2, <1>3, <1>4 DEF TypeOK

\* Counts stay counts when some are forgotten.
LEMMA ForgottenTyped ==
  ASSUME NEW counts \in [Tools -> Nat], NEW expired
  PROVE  Forgotten(counts, expired) \in [Tools -> Nat]
<1>1. ASSUME NEW t \in Tools PROVE (IF t \in expired THEN 0 ELSE counts[t]) \in Nat
  OBVIOUS
<1>2. QED BY <1>1 DEF Forgotten

\* The stages a call leaves the queue for, and what else its step changes.
Quiet ==
  UNCHANGED <<turn, by, rules, aged, screenVars, answers, responding, pending,
              sessionRules, cancelled>>

LEMMA StartsTyped ==
  ASSUME TypeOK, NEW c \in Call,
         GuardRefuses(c) \/ RunsUnasked(c) \/ Refuses(c) \/ Asks(c) \/ TimesOut(c) \/ SeesCancel(c)
  PROVE  TypeOK'
<1>1. PICK s \in {"asking"} \cup Over : Becomes(c, s)
  BY DEF GuardRefuses, RunsUnasked, Refuses, Asks, TimesOut, SeesCancel, Over
<1>2. stage' \in [Call -> {"todo", "asking"} \cup Over]  BY <1>1, BecomesTyped
<1>3. Quiet
  BY DEF Quiet, GuardRefuses, RunsUnasked, Refuses, Asks, TimesOut, SeesCancel
<1>4. planning' \in BOOLEAN
  BY DEF TypeOK, PlanningAfter, GuardRefuses, RunsUnasked, Refuses, Asks, TimesOut, SeesCancel
<1>5. requests' \in Seq(Call)
  <2>1. CASE Asks(c)  BY <2>1, AppendProperties DEF TypeOK, Asks
  <2>2. CASE ~Asks(c)
    BY <2>2 DEF TypeOK, GuardRefuses, RunsUnasked, Refuses, TimesOut, SeesCancel
  <2>3. QED BY <2>1, <2>2
<1>6. denials' \in [Tools -> Nat]
  <2>1. \/ denials' = denials
        \/ denials' = AfterRefusal(denials, ToolOf[Cmd(c)], Expired)
    BY DEF GuardRefuses, RunsUnasked, Refuses, Asks, TimesOut, SeesCancel
  <2>2. denials \in [Tools -> Nat]  BY DEF TypeOK
  <2>3. QED BY <2>1, <2>2, ForgottenTyped DEF AfterRefusal
<1>7. QED BY <1>2, <1>3, <1>4, <1>5, <1>6 DEF TypeOK, Quiet, screenVars

LEMMA TakesTyped ==
  ASSUME TypeOK, NEW c \in Call, LetsThrough(c) \/ IsDenied(c)
  PROVE  TypeOK'
<1>1. TakesAnswer(c)  BY DEF LetsThrough, IsDenied
<1>2. answers' \in Seq(Answer) /\ by' \in [Call -> Answer \cup {NoAnswer}]
  <2>1. Head(answers) \in Answer /\ Tail(answers) \in Seq(Answer)
    BY <1>1, Answers DEF TakesAnswer
  <2>2. QED BY <1>1, <2>1 DEF TakesAnswer, TypeOK
<1>3. stage' \in [Call -> {"todo", "asking"} \cup Over]
  BY BecomesTyped DEF LetsThrough, IsDenied, Over
<1>4. rules' \subseteq Commands /\ planning' \in BOOLEAN
  <2>1. Cmd(c) \in Commands  BY CommandsTyped DEF TypeOK
  <2>2. QED BY <2>1 DEF TypeOK, LetsThrough, IsDenied, RuleFor, PlanningAfter
<1>5. denials' \in [Tools -> Nat]
  <2>1. CASE LetsThrough(c)  BY <2>1 DEF LetsThrough, TypeOK
  <2>2. CASE IsDenied(c)
    <3>1. denials' = AfterDenial(denials, ToolOf[Cmd(c)], Expired)  BY <2>2 DEF IsDenied
    <3>2. denials \in [Tools -> Nat]  BY DEF TypeOK
    <3>3. PICK counts \in [Tools -> Nat] :
            counts = Forgotten(denials, Expired \ {ToolOf[Cmd(c)]})
      BY <3>2, ForgottenTyped
    <3>4. denials' = [counts EXCEPT ![ToolOf[Cmd(c)]] = @ + 1]
      BY <3>1, <3>3 DEF AfterDenial
    <3>5. PICK tool \in Tools : tool = ToolOf[Cmd(c)]  BY CommandsTyped DEF TypeOK
    <3>6. QED BY <3>4, <3>5
  <2>3. QED BY <2>1, <2>2
<1>6. QED
  <2>1. UNCHANGED <<turn, aged, cards, replied, requests, responding, pending, sessionRules, cancelled>>
    BY <1>1 DEF TakesAnswer, screenVars
  <2>2. QED BY <1>2, <1>3, <1>4, <1>5, <2>1 DEF TypeOK

LEMMA OthersTyped ==
  ASSUME TypeOK,
         \/ ShowsCard \/ HalfAnHourPasses
         \/ \E r \in Reply : SendsReply(r)
         \/ \E answer \in responding : FinishesReply(answer)
         \/ Cancels
  PROVE  TypeOK'
<1>1. CASE ShowsCard
  <2>1. Head(requests) \in Call /\ Tail(requests) \in Seq(Call)
    BY <1>1, HeadTailProperties DEF ShowsCard, TypeOK
  <2>2. requests' \in Seq(Call) /\ cards' \in Seq(Call) /\ pending' \in Call
    BY <1>1, <2>1, AppendProperties DEF ShowsCard, TypeOK
  <2>3. QED BY <1>1, <2>2 DEF ShowsCard, TypeOK, engineVars
<1>2. ASSUME NEW r \in Reply, SendsReply(r) PROVE TypeOK'
  <2> DEFINE card == Last(cards)
  <2> DEFINE answer == [card |-> card, rank |-> replied[card] + 1, reply |-> r]
  <2>1. card \in Call
    <3>1. cards \in Seq(Call) /\ cards # <<>>  BY <1>2 DEF TypeOK, SendsReply
    <3>2. Len(cards) \in 1 .. Len(cards)  BY <3>1, EmptySeq, LenProperties
    <3>3. QED BY <3>1, <3>2, ElementOfSeq DEF Last
  <2>2. replied[card] \in Nat  BY <2>1 DEF TypeOK
  <2>3. answer \in Answer  BY <2>1, <2>2 DEF Answer
  <2>4. /\ replied' = [replied EXCEPT ![card] = @ + 1]
        /\ answers' = Append(answers, answer)
        /\ responding' = responding \cup {answer}
        /\ UNCHANGED <<engineVars, cards, requests, pending, sessionRules, cancelled>>
    BY <1>2 DEF SendsReply
  <2> HIDE DEF card, answer
  <2>5. replied' \in [Call -> Nat]  BY <2>1, <2>2, <2>4 DEF TypeOK
  <2>6. answers' \in Seq(Answer) /\ responding' \subseteq Answer
    BY <2>3, <2>4, AppendProperties DEF TypeOK
  <2>7. QED BY <2>4, <2>5, <2>6 DEF TypeOK, engineVars
<1>3. ASSUME NEW answer \in responding, FinishesReply(answer) PROVE TypeOK'
  <2>1. cards' \in Seq(Call)
    <3>1. cards \in Seq(Call)  BY DEF TypeOK
    <3>2. QED BY <1>3, <3>1, SelectKeeps DEF FinishesReply
  <2>2. sessionRules' \subseteq Commands
    <3>1. pending # NoCall => Cmd(pending) \in Commands
      BY CommandsTyped DEF TypeOK
    <3>2. QED BY <1>3, <3>1 DEF FinishesReply, TypeOK
  <2>3. QED BY <1>3, <2>1, <2>2 DEF FinishesReply, TypeOK, engineVars
<1>4. CASE Cancels  BY <1>4 DEF Cancels, TypeOK, engineVars, screenVars
<1>5. CASE HalfAnHourPasses  BY <1>5 DEF HalfAnHourPasses, TypeOK, screenVars
<1>6. QED BY <1>1, <1>2, <1>3, <1>4, <1>5

LEMMA NextTyped == TypeOK /\ [Next]_vars => TypeOK'
<1> SUFFICES ASSUME TypeOK, [Next]_vars PROVE TypeOK'  OBVIOUS
<1>1. CASE UNCHANGED vars
  BY <1>1 DEF vars, engineVars, screenVars, TypeOK
<1>2. CASE Next
  BY <1>2, StartsTyped, TakesTyped, OthersTyped DEF Next, EngineStep
<1>3. QED BY <1>1, <1>2

\* Every variable keeps its type, whatever the calls, the rules and the answers.
THEOREM ConfirmationTypesHold == Spec => []TypeOK
BY InitTyped, NextTyped, PTL DEF Spec

-----------------------------------------------------------------------------
(* One call after the other. *)

\* A call is taken up when those before it are over.
InOrder ==
  \A c, d \in Call : d < c /\ stage[c] # "todo" => stage[d] \in Over

\* When a call has seen the cancellation, none is asked about any more.
CancelEnds ==
  \A c, d \in Call : stage[d] = "cancelled" => cancelled /\ stage[c] # "asking"

\* What is asked about may run in the plan mode that the engine is in.
AskedMayRun == \A c \in Call : stage[c] = "asking" => ~PlanStops(planning, Cmd(c))

Queue == TypeOK /\ InOrder /\ CancelEnds /\ AskedMayRun

\* The steps that take a call up, and those that end the asking.
Starts(c) == GuardRefuses(c) \/ RunsUnasked(c) \/ Refuses(c) \/ Asks(c)

Ends(c) == LetsThrough(c) \/ IsDenied(c) \/ TimesOut(c) \/ SeesCancel(c)

\* A step of the engine moves one call that may start, or is asked about.
LEMMA EngineMoves ==
  ASSUME TypeOK, NEW c \in Call, Starts(c) \/ Ends(c)
  PROVE  /\ Starts(c) => MayStart(c)
         /\ Ends(c) => stage[c] = "asking" /\ stage'[c] \in Over
         /\ stage'[c] \in {"asking"} \cup Over
         /\ \A d \in Call : d # c => stage'[d] = stage[d]
         /\ UNCHANGED <<turn, cancelled>>
<1>1. PICK s \in {"asking"} \cup Over :
        Becomes(c, s) /\ (Ends(c) /\ ~Starts(c) => s \in Over)
  BY DEF Starts, Ends, GuardRefuses, RunsUnasked, Refuses, Asks, LetsThrough, IsDenied,
         TimesOut, SeesCancel, Over
<1>2. stage'[c] = s /\ \A d \in Call : d # c => stage'[d] = stage[d]
  BY <1>1, BecomesTyped
<1>3. Starts(c) => MayStart(c)
  BY DEF Starts, GuardRefuses, RunsUnasked, Refuses, Asks, PassesGuards
<1>4. Ends(c) => stage[c] = "asking"
  BY DEF Ends, LetsThrough, IsDenied, TakesAnswer, TimesOut, SeesCancel
<1>5. ~(Starts(c) /\ Ends(c))  BY <1>3, <1>4 DEF MayStart
<1>6. UNCHANGED <<turn, cancelled>>
  BY DEF Starts, Ends, GuardRefuses, RunsUnasked, Refuses, Asks, LetsThrough, IsDenied,
         TakesAnswer, TimesOut, SeesCancel
<1>7. QED BY <1>1, <1>2, <1>3, <1>4, <1>5, <1>6

\* The other steps move no call; time may pass.
callVars == <<turn, stage, by, rules, denials, planning>>

LEMMA OthersMoveNothing ==
  ASSUME [Next]_vars, ~ \E c \in Call : Starts(c) \/ Ends(c)
  PROVE  /\ UNCHANGED callVars
         /\ cancelled => cancelled'
<1> USE DEF callVars, engineVars
<1>1. \/ UNCHANGED vars \/ ShowsCard \/ Cancels \/ HalfAnHourPasses
      \/ \E r \in Reply : SendsReply(r)
      \/ \E answer \in responding : FinishesReply(answer)
  BY DEF Next, EngineStep, Starts, Ends
<1>2. CASE UNCHANGED vars  BY <1>2 DEF vars
<1>3. CASE ShowsCard  BY <1>3 DEF ShowsCard
<1>4. CASE Cancels  BY <1>4 DEF Cancels
<1>5. CASE \E r \in Reply : SendsReply(r)  BY <1>5 DEF SendsReply
<1>6. CASE \E answer \in responding : FinishesReply(answer)  BY <1>6 DEF FinishesReply
<1>7. CASE HalfAnHourPasses  BY <1>7 DEF HalfAnHourPasses
<1>8. QED BY <1>1, <1>2, <1>3, <1>4, <1>5, <1>6, <1>7

\* The calls, the mode and the configuration are those the turn began with.
LEMMA TurnStays ==
  ASSUME TypeOK, [Next]_vars
  PROVE  turn' = turn
<1>1. CASE ~ \E c \in Call : Starts(c) \/ Ends(c)
  BY <1>1, OthersMoveNothing DEF callVars
<1>2. CASE \E c \in Call : Starts(c) \/ Ends(c)  BY <1>2, EngineMoves
<1>3. QED BY <1>1, <1>2

\* At most one call is asked about, and then none may start.
LEMMA OneIsAskedAbout ==
  ASSUME Queue, NEW c \in Call, stage[c] = "asking", NEW d \in Call, d # c
  PROVE  stage[d] # "asking" /\ ~MayStart(d)
<1>1. c \in Nat /\ d \in Nat  BY CallsAssumption DEF Call
<1>2. CASE d < c  BY <1>2 DEF Queue, InOrder, Over, MayStart
<1>3. CASE c < d
  <2>1. stage[d] = "todo" /\ ~Current(d)  BY <1>3 DEF Queue, InOrder, Over, Current
  <2>2. QED BY <2>1 DEF MayStart
<1>4. QED BY <1>1, <1>2, <1>3

\* What is decided to be asked about, or let run, may run in plan mode.
LEMMA DecidedMayRun ==
  ASSUME NEW c \in Call, Decided(c) # "deny"
  PROVE  ~PlanStops(planning, Cmd(c))
BY DEF Decided, Decision

\* The plan mode changes when a call runs.
LEMMA PlanningChanges ==
  ASSUME NEW c \in Call, Starts(c) \/ Ends(c), planning' # planning
  PROVE  stage[c] # "asking" => MayStart(c)
BY DEF Starts, Ends, GuardRefuses, RunsUnasked, Refuses, Asks, LetsThrough, IsDenied, PassesGuards,
       TakesAnswer, TimesOut, SeesCancel

LEMMA InitInQueue == Init => Queue
BY InitTyped DEF Init, Queue, InOrder, CancelEnds, AskedMayRun

LEMMA StepsInQueue == Queue /\ [Next]_vars => Queue'
<1> SUFFICES ASSUME Queue, [Next]_vars PROVE Queue'  OBVIOUS
<1> TypeOK /\ TypeOK'  BY NextTyped DEF Queue
<1>1. CASE ~ \E c \in Call : Starts(c) \/ Ends(c)
  <2>1. UNCHANGED callVars /\ (cancelled => cancelled')  BY <1>1, OthersMoveNothing
  <2>2. InOrder'  BY <2>1 DEF callVars, Queue, InOrder
  <2>3. CancelEnds'  BY <2>1 DEF callVars, Queue, CancelEnds
  <2>4. AskedMayRun'  BY <2>1 DEF callVars, Queue, AskedMayRun, Cmd
  <2>5. QED BY <2>2, <2>3, <2>4 DEF Queue
<1>2. ASSUME NEW c \in Call, Starts(c) \/ Ends(c) PROVE Queue'
  <2>1. /\ Starts(c) => MayStart(c)
        /\ Ends(c) => stage[c] = "asking" /\ stage'[c] \in Over
        /\ stage'[c] \in {"asking"} \cup Over
        /\ \A d \in Call : d # c => stage'[d] = stage[d]
        /\ UNCHANGED <<turn, cancelled>>
    BY <1>2, EngineMoves
  <2>2. InOrder'
    <3> SUFFICES ASSUME NEW a \in Call, NEW d \in Call, d < a, stage'[a] # "todo"
                 PROVE  stage'[d] \in Over
      BY DEF InOrder
    <3>1. a # d  BY CallsAssumption DEF Call
    <3>2. CASE a = c
      <4>1. stage[d] \in Over
        BY <1>2, <2>1, <3>2 DEF MayStart, Current, Queue, InOrder
      <4>2. QED BY <2>1, <3>1, <3>2, <4>1
    <3>3. CASE a # c
      <4>1. stage[d] \in Over  BY <2>1, <3>3 DEF Queue, InOrder
      <4>2. d # c  BY <1>2, <2>1, <4>1 DEF MayStart, Over
      <4>3. QED BY <2>1, <4>1, <4>2
    <3>4. QED BY <3>2, <3>3
  <2>3. CancelEnds'
    <3> SUFFICES ASSUME NEW a \in Call, NEW d \in Call, stage'[d] = "cancelled"
                 PROVE  cancelled' /\ stage'[a] # "asking"
      BY DEF CancelEnds
    <3>1. CASE d # c
      <4>1. cancelled /\ \A e \in Call : stage[e] # "asking"
        BY <2>1, <3>1 DEF Queue, CancelEnds
      <4>2. ~MayStart(c)  BY <4>1 DEF MayStart
      <4>3. QED BY <1>2, <2>1, <4>1, <4>2
    <3>2. CASE d = c
      <4>1. SeesCancel(c)
        BY <1>2, <2>1, <3>2, BecomesTyped
           DEF Starts, Ends, GuardRefuses, RunsUnasked, Refuses, Asks, LetsThrough, IsDenied,
               TimesOut, Over
      <4>2. cancelled /\ stage[c] = "asking"  BY <4>1 DEF SeesCancel
      <4>3. a # c => stage[a] # "asking"  BY <4>2, OneIsAskedAbout
      <4>4. QED BY <2>1, <3>2, <4>2, <4>3
    <3>3. QED BY <3>1, <3>2
  <2>4. AskedMayRun'
    <3> SUFFICES ASSUME NEW a \in Call, stage'[a] = "asking"
                 PROVE  ~PlanStops(planning', Cmd(a)')
      BY DEF AskedMayRun
    <3>0. Cmd(a)' = Cmd(a)  BY <2>1 DEF Cmd
    <3>1. CASE a = c
      <4>1. Asks(c)
        BY <1>2, <2>1, <3>1, BecomesTyped
           DEF Starts, GuardRefuses, RunsUnasked, Refuses, Over
      <4>2. Decided(c) = "confirm" /\ planning' = planning  BY <4>1 DEF Asks
      <4>3. ~PlanStops(planning, Cmd(c))  BY <4>2, DecidedMayRun
      <4>4. QED BY <3>0, <3>1, <4>2, <4>3
    <3>2. CASE a # c
      <4>1. stage[a] = "asking"  BY <2>1, <3>2
      <4>2. planning' = planning
        BY <1>2, <3>2, <4>1, OneIsAskedAbout, PlanningChanges
      <4>3. QED BY <3>0, <4>1, <4>2 DEF Queue, AskedMayRun
    <3>3. QED BY <3>1, <3>2
  <2>5. QED BY <2>2, <2>3, <2>4 DEF Queue
<1>3. QED BY <1>1, <1>2

LEMMA QueueHolds == Spec => []Queue
BY InitInQueue, StepsInQueue, PTL DEF Spec

\* Once the turn is cancelled no further call is taken up, however many there
\* are and whatever the channel holds.
THEOREM QueueStops == Spec => CancelStopsTheQueue
<1>1. Queue /\ [Next]_vars =>
        [\A c \in Call : cancelled /\ stage[c] = "todo" => stage'[c] = "todo"]_vars
  <2> SUFFICES ASSUME Queue, [Next]_vars, NEW c \in Call, cancelled, stage[c] = "todo"
               PROVE  stage'[c] = "todo"
    OBVIOUS
  <2>1. CASE ~ \E d \in Call : Starts(d) \/ Ends(d)
    BY <2>1, OthersMoveNothing DEF callVars
  <2>2. ASSUME NEW d \in Call, Starts(d) \/ Ends(d) PROVE stage'[c] = "todo"
    BY <2>2, EngineMoves DEF Queue, MayStart
  <2>3. QED BY <2>1, <2>2
<1>2. QED BY <1>1, QueueHolds, PTL DEF Spec, CancelStopsTheQueue

\* While the engine plans, nothing runs but what reads and the way out of it,
\* whatever was answered and when: what is asked about was asked in this mode.
THEOREM PlanningIsKept == Spec => PlanningChangesNothing
<1>1. Queue /\ [Next]_vars =>
        [\A c \in Call :
           planning /\ stage[c] # "ran" /\ stage'[c] = "ran" =>
             \/ Capabilities[ToolOf[Cmd(c)]].readOnly
             \/ ToolOf[Cmd(c)] = "exit_plan_mode"]_vars
  <2> SUFFICES ASSUME Queue, [Next]_vars, NEW c \in Call, planning,
                      stage[c] # "ran", stage'[c] = "ran"
               PROVE  ~PlanStops(planning, Cmd(c))
    BY DEF PlanStops
  <2>1. PICK d \in Call : Starts(d) \/ Ends(d)
    BY OthersMoveNothing DEF callVars
  <2>2. d = c  BY <2>1, EngineMoves DEF Queue
  <2>3. CASE stage[c] = "asking"  BY <2>3 DEF Queue, AskedMayRun
  <2>4. CASE stage[c] # "asking"
    <3>1. Starts(c)  BY <2>1, <2>2, <2>4, EngineMoves DEF Queue
    <3>2. ASSUME NEW s \in {"blocked", "refused", "asking"}, Becomes(c, s) PROVE FALSE
      <4>1. stage'[c] = s  BY <3>2, BecomesTyped DEF Queue, Over
      <4>2. QED BY <4>1
    <3>3. RunsUnasked(c)  BY <3>1, <3>2 DEF Starts, GuardRefuses, Refuses, Asks
    <3>4. QED BY <3>3, DecidedMayRun DEF RunsUnasked
  <2>5. QED BY <2>3, <2>4
<1>2. QED BY <1>1, QueueHolds, PTL DEF Spec, PlanningChangesNothing

-----------------------------------------------------------------------------
(* Answers and the calls they are for. *)

Elements(s) == {s[i] : i \in 1 .. Len(s)}

\* A call that was asked about: it is waiting, was given up, or has its answer.
WasAsked(c) == stage[c] \in {"asking", "timed_out", "cancelled"} \/ by[c] # NoAnswer

\* Cards are shown for calls that were asked about.
CardsWereAsked == \A c \in Elements(requests) \cup Elements(cards) : WasAsked(c)

\* An answer is consumed once, by a call that is over then.
AnsweredIsOver == \A c \in Call : by[c] # NoAnswer => stage[c] \in {"ran", "denied"}

\* No card was answered twice, and no confirmation timed out.
Orderly == \A c \in Call : replied[c] <= 1 /\ stage[c] # "timed_out"

\* What a call consumed is its own; what is in the channel is for a call that
\* has no answer, and it is the only one for it.
Matched ==
  /\ \A c \in Call : by[c] # NoAnswer => by[c].card = c /\ replied[c] >= 1
  /\ \A i \in 1 .. Len(answers) :
       /\ by[answers[i].card] = NoAnswer
       /\ stage[answers[i].card] \in {"asking", "cancelled"}
       /\ replied[answers[i].card] >= 1
  /\ \A i, j \in 1 .. Len(answers) : answers[i].card = answers[j].card => i = j

Channel == Queue /\ CardsWereAsked /\ AnsweredIsOver /\ (Orderly => Matched)

\* What is in a sequence when an element is added, and when the first is taken.
LEMMA AppendElements ==
  ASSUME NEW S, NEW s \in Seq(S), NEW e \in S
  PROVE  Elements(Append(s, e)) = Elements(s) \cup {e}
<1>1. /\ Len(s) \in Nat /\ Len(Append(s, e)) = Len(s) + 1
      /\ Append(s, e)[Len(s) + 1] = e
      /\ \A i \in 1 .. Len(s) : Append(s, e)[i] = s[i]
  OBVIOUS
<1>2. \A i : i \in 1 .. Len(s) + 1 <=> i \in 1 .. Len(s) \/ i = Len(s) + 1  BY <1>1
<1>3. QED BY <1>1, <1>2 DEF Elements

LEMMA TailIndex ==
  ASSUME NEW S, NEW s \in Seq(S), s # <<>>
  PROVE  /\ Len(s) \in Nat /\ Len(Tail(s)) = Len(s) - 1
         /\ 1 \in 1 .. Len(s) /\ Head(s) = s[1]
         /\ \A i \in 1 .. Len(Tail(s)) :
              i + 1 \in 1 .. Len(s) /\ i + 1 # 1 /\ Tail(s)[i] = s[i + 1]
<1>1. Len(s) \in Nat /\ Len(s) # 0  BY EmptySeq, LenProperties
<1>2. Len(Tail(s)) = Len(s) - 1 /\ Head(s) = s[1]  BY HeadTailProperties
<1>3. ASSUME NEW i \in 1 .. Len(Tail(s)) PROVE Tail(s)[i] = s[i + 1]
  BY <1>1, <1>2
<1>4. QED BY <1>1, <1>2, <1>3

LEMMA TailElements ==
  ASSUME NEW S, NEW s \in Seq(S), s # <<>>
  PROVE  Elements(Tail(s)) \cup {Head(s)} \subseteq Elements(s)
BY TailIndex DEF Elements

LEMMA SelectedElements ==
  ASSUME NEW S, NEW s \in Seq(S), NEW W
  PROVE  Elements(SelectIn(s, W)) \subseteq Elements(s)
<1> SUFFICES ASSUME NEW x, x \in Elements(SelectIn(s, W)) PROVE x \in Elements(s)
  OBVIOUS
<1> DEFINE q == SelectIn(s, W)
<1>1. \E j \in 1 .. Len(q) : q[j] = x  BY DEF Elements
<1>2. (\E j \in 1 .. Len(q) : q[j] = x) <=> x \in W /\ \E i \in 1 .. Len(s) : s[i] = x
  <2>1. s \in Seq(S) /\ q = SelectIn(s, W)  OBVIOUS
  <2> HIDE DEF q
  <2>2. QED BY <2>1, SelectElements
<1> HIDE DEF q
<1>3. QED BY <1>1, <1>2 DEF Elements

\* The last card is one of the cards.
LEMMA LastIsElement ==
  ASSUME NEW S, NEW s \in Seq(S), s # <<>>
  PROVE  Last(s) \in Elements(s)
<1>1. Len(s) \in 1 .. Len(s)  BY EmptySeq, LenProperties
<1>2. QED BY <1>1 DEF Last, Elements

\* What a step of the engine does to answers and questions.
LEMMA EngineAnswers ==
  ASSUME TypeOK, NEW c \in Call, Starts(c) \/ Ends(c)
  PROVE  /\ UNCHANGED <<cards, replied, responding>>
         /\ Asks(c) => requests' = Append(requests, c) /\ stage'[c] = "asking"
         /\ ~Asks(c) => UNCHANGED requests
         /\ LetsThrough(c) \/ IsDenied(c) =>
              /\ TakesAnswer(c)
              /\ stage'[c] \in {"ran", "denied"}
         /\ ~(LetsThrough(c) \/ IsDenied(c)) => UNCHANGED <<by, answers>>
         /\ TimesOut(c) => stage'[c] = "timed_out"
         /\ SeesCancel(c) => stage'[c] = "cancelled"
<1>1. UNCHANGED <<cards, replied, responding>>
  BY DEF Starts, Ends, GuardRefuses, RunsUnasked, Refuses, Asks, LetsThrough, IsDenied,
         TakesAnswer, TimesOut, SeesCancel, screenVars
<1>2. Asks(c) => requests' = Append(requests, c) /\ stage'[c] = "asking"
  BY BecomesTyped DEF Asks
<1>3. ~Asks(c) => UNCHANGED requests
  BY DEF Starts, Ends, GuardRefuses, RunsUnasked, Refuses, LetsThrough, IsDenied,
         TakesAnswer, TimesOut, SeesCancel
<1>4. LetsThrough(c) \/ IsDenied(c) => TakesAnswer(c) /\ stage'[c] \in {"ran", "denied"}
  BY BecomesTyped DEF LetsThrough, IsDenied, Over
<1>5. ~(LetsThrough(c) \/ IsDenied(c)) => UNCHANGED <<by, answers>>
  BY DEF Starts, Ends, GuardRefuses, RunsUnasked, Refuses, Asks, TimesOut, SeesCancel
<1>6. /\ TimesOut(c) => stage'[c] = "timed_out"
      /\ SeesCancel(c) => stage'[c] = "cancelled"
  BY BecomesTyped DEF TimesOut, SeesCancel, Over
<1>7. QED BY <1>1, <1>2, <1>3, <1>4, <1>5, <1>6

\* The call that takes an answer has it, and the others have what they had.
LEMMA TakenAnswer ==
  ASSUME TypeOK, NEW c \in Call, TakesAnswer(c)
  PROVE  /\ by'[c] = Head(answers) /\ Head(answers) \in Answer
         /\ \A d \in Call : d # c => by'[d] = by[d]
         /\ answers' = Tail(answers) /\ answers # <<>>
<1>1. Head(answers) \in Answer  BY Answers DEF TakesAnswer
<1>2. QED BY <1>1 DEF TakesAnswer, TypeOK

LEMMA AskedStaysAsked ==
  ASSUME Queue, AnsweredIsOver, [Next]_vars, NEW c \in Call, WasAsked(c)
  PROVE  WasAsked(c)'
<1> TypeOK  BY DEF Queue
<1>1. CASE ~ \E d \in Call : Starts(d) \/ Ends(d)
  BY <1>1, OthersMoveNothing DEF callVars, WasAsked
<1>2. ASSUME NEW d \in Call, Starts(d) \/ Ends(d) PROVE WasAsked(c)'
  <2>1. CASE LetsThrough(d) \/ IsDenied(d)
    <3>1. TakesAnswer(d)  BY <1>2, <2>1, EngineAnswers
    <3>2. by'[d] \in Answer /\ \A e \in Call : e # d => by'[e] = by[e]
      BY <3>1, TakenAnswer
    <3>3. by'[d] # NoAnswer
      <4>1. \A a \in Answer : a.card # NoCall  BY CallsAssumption DEF Answer, Call, NoCall
      <4>2. QED BY <3>2, <4>1 DEF NoAnswer
    <3>4. d # c => stage'[c] = stage[c] /\ by'[c] = by[c]  BY <1>2, <3>2, EngineMoves
    <3>5. QED BY <3>3, <3>4 DEF WasAsked
  <2>2. CASE ~(LetsThrough(d) \/ IsDenied(d))
    <3>1. by' = by  BY <1>2, <2>2, EngineAnswers
    <3>2. CASE d # c  BY <1>2, <3>1, <3>2, EngineMoves DEF WasAsked
    <3>3. CASE d = c /\ by[c] # NoAnswer  BY <3>1, <3>3 DEF WasAsked
    <3>4. CASE d = c /\ by[c] = NoAnswer
      <4>1. ~MayStart(c)  BY <3>4 DEF WasAsked, MayStart
      <4>2. TimesOut(c) \/ SeesCancel(c)  BY <1>2, <2>2, <3>4, <4>1, EngineMoves DEF Ends
      <4>3. QED BY <1>2, <3>4, <4>2, EngineAnswers DEF WasAsked
    <3>5. QED BY <3>2, <3>3, <3>4
  <2>3. QED BY <2>1, <2>2
<1>3. QED BY <1>1, <1>2

\* Cards and requests are always of calls that were asked about.
LEMMA CardsStep ==
  ASSUME Channel, [Next]_vars
  PROVE  CardsWereAsked'
<1> Queue /\ TypeOK /\ AnsweredIsOver /\ CardsWereAsked  BY DEF Channel, Queue
<1>1. requests \in Seq(Call) /\ cards \in Seq(Call)  BY DEF TypeOK
<1>2. Elements(requests) \cup Elements(cards) \subseteq Call
  BY <1>1, ElementOfSeq DEF Elements
<1>3. \A c \in Elements(requests) \cup Elements(cards) : WasAsked(c)'
  BY <1>2, AskedStaysAsked DEF CardsWereAsked
<1> SUFFICES ASSUME NEW c \in (Elements(requests) \cup Elements(cards))',
                    c \notin Elements(requests) \cup Elements(cards)
             PROVE  WasAsked(c)'
  BY <1>3 DEF CardsWereAsked, Elements
<1>4. CASE ~ \E d \in Call : Starts(d) \/ Ends(d)
  <2>1. CASE UNCHANGED vars  BY <2>1 DEF vars, screenVars, Elements
  <2>2. CASE ShowsCard
    <3>1. Elements(requests') \cup {Head(requests)} \subseteq Elements(requests)
      BY <1>1, <2>2, TailElements DEF ShowsCard
    <3>2. Head(requests) \in Call  BY <1>2, <3>1
    <3>3. Elements(cards') = Elements(cards) \cup {Head(requests)}
      BY <1>1, <2>2, <3>2, AppendElements DEF ShowsCard
    <3>4. QED BY <3>1, <3>3 DEF Elements
  <2>3. CASE \E r \in Reply : SendsReply(r)  BY <2>3 DEF SendsReply, Elements
  <2>4. ASSUME NEW answer \in responding, FinishesReply(answer) PROVE FALSE
    <3>1. requests' = requests /\ cards' = SelectIn(cards, Call \ {answer.card})
      BY <2>4 DEF FinishesReply
    <3>2. Elements(cards') \subseteq Elements(cards)  BY <1>1, <3>1, SelectedElements
    <3>3. QED BY <3>1, <3>2 DEF Elements
  <2>5. CASE Cancels  BY <2>5 DEF Cancels, screenVars, Elements
  <2>6. CASE HalfAnHourPasses  BY <2>6 DEF HalfAnHourPasses, screenVars, Elements
  <2>7. QED BY <1>4, <2>1, <2>2, <2>3, <2>4, <2>5, <2>6 DEF Next, EngineStep, Starts, Ends
<1>5. ASSUME NEW d \in Call, Starts(d) \/ Ends(d) PROVE WasAsked(c)'
  <2>1. cards' = cards  BY <1>5, EngineAnswers
  <2>2. Asks(d)  BY <1>5, <2>1, EngineAnswers DEF Elements
  <2>3. requests' = Append(requests, d) /\ stage'[d] = "asking"  BY <1>5, <2>2, EngineAnswers
  <2>4. Elements(requests') = Elements(requests) \cup {d}  BY <1>1, <2>3, AppendElements
  <2>5. c = d  BY <2>1, <2>4 DEF Elements
  <2>6. QED BY <2>3, <2>5 DEF WasAsked
<1>6. QED BY <1>4, <1>5

LEMMA AnsweredStep ==
  ASSUME Channel, [Next]_vars
  PROVE  AnsweredIsOver'
<1> Queue /\ TypeOK /\ AnsweredIsOver  BY DEF Channel, Queue
<1>1. CASE ~ \E d \in Call : Starts(d) \/ Ends(d)
  BY <1>1, OthersMoveNothing DEF callVars, AnsweredIsOver
<1>2. ASSUME NEW d \in Call, Starts(d) \/ Ends(d), NEW c \in Call, by'[c] # NoAnswer
      PROVE  stage'[c] \in {"ran", "denied"}
  <2>1. CASE by[c] # NoAnswer
    <3>1. stage[c] \in {"ran", "denied"}  BY <2>1 DEF AnsweredIsOver
    <3>2. d # c  BY <1>2, <3>1, EngineMoves DEF MayStart
    <3>3. QED BY <1>2, <3>1, <3>2, EngineMoves
  <2>2. CASE by[c] = NoAnswer
    <3>1. LetsThrough(d) \/ IsDenied(d)  BY <1>2, <2>2, EngineAnswers
    <3>2. TakesAnswer(d)  BY <1>2, <3>1, EngineAnswers
    <3>3. d = c  BY <1>2, <2>2, <3>2, TakenAnswer
    <3>4. QED BY <1>2, <3>1, <3>3, EngineAnswers
  <2>3. QED BY <2>1, <2>2
<1>3. QED BY <1>1, <1>2 DEF AnsweredIsOver

\* Answers are counted, and a confirmation that timed out stays so: what is
\* orderly now was so before.
LEMMA WasOrderly ==
  ASSUME TypeOK, TypeOK', [Next]_vars, Orderly'
  PROVE  Orderly
<1> SUFFICES ASSUME NEW c \in Call PROVE replied[c] <= 1 /\ stage[c] # "timed_out"
  BY DEF Orderly
<1>1. replied'[c] <= 1 /\ stage'[c] # "timed_out"  BY DEF Orderly
<1>2. replied[c] <= replied'[c]
  <2>0. replied[c] \in Nat /\ replied \in [Call -> Nat]  BY DEF TypeOK
  <2>1. CASE \E r \in Reply : SendsReply(r)
    <3> DEFINE k == Last(cards)
    <3>1. replied' = [replied EXCEPT ![k] = @ + 1]  BY <2>1 DEF SendsReply
    <3> HIDE DEF k
    <3>2. replied'[c] = replied[c] \/ replied'[c] = replied[c] + 1  BY <2>0, <3>1
    <3>3. PICK x \in Nat : x = replied[c]  BY <2>0
    <3>4. x <= replied'[c]  BY <3>2, <3>3
    <3>5. QED BY <3>3, <3>4
  <2>2. CASE ~ \E r \in Reply : SendsReply(r)
    <3>1. replied' = replied
      <4>1. CASE UNCHANGED vars  BY <4>1 DEF vars, screenVars
      <4>2. CASE \E d \in Call : Starts(d) \/ Ends(d)  BY <4>2, EngineAnswers
      <4>3. CASE ShowsCard \/ Cancels \/ HalfAnHourPasses
        BY <4>3 DEF ShowsCard, Cancels, HalfAnHourPasses, screenVars
      <4>4. CASE \E answer \in responding : FinishesReply(answer)  BY <4>4 DEF FinishesReply
      <4>5. QED BY <2>2, <4>1, <4>2, <4>3, <4>4 DEF Next, EngineStep, Starts, Ends
    <3>2. QED BY <2>0, <3>1
  <2>3. QED BY <2>1, <2>2
<1>3. stage[c] # "timed_out"
  <2>1. CASE ~ \E d \in Call : Starts(d) \/ Ends(d)
    BY <1>1, <2>1, OthersMoveNothing DEF callVars
  <2>2. ASSUME NEW d \in Call, Starts(d) \/ Ends(d) PROVE stage[c] # "timed_out"
    BY <1>1, <2>2, EngineMoves DEF MayStart
  <2>3. QED BY <2>1, <2>2
<1>4. replied[c] \in Nat /\ replied'[c] \in Nat  BY DEF TypeOK
<1>5. QED BY <1>1, <1>2, <1>3, <1>4

\* What is in the channel is for calls of the turn.
LEMMA AnswersAreForCalls ==
  ASSUME TypeOK, NEW i \in 1 .. Len(answers)
  PROVE  answers[i] \in Answer /\ answers[i].card \in Call
<1>1. answers[i] \in Answer  BY ElementOfSeq DEF TypeOK
<1>2. QED BY <1>1 DEF Answer

\* The answer a call takes is its own: it is the only call that can be meant.
LEMMA TakenIsOwn ==
  ASSUME Queue, Matched, NEW c \in Call, TakesAnswer(c)
  PROVE  /\ Head(answers).card = c
         /\ replied[c] >= 1
         /\ \A i \in 1 .. Len(Tail(answers)) : Tail(answers)[i].card # c
<1> TypeOK  BY DEF Queue
<1>1. answers \in Seq(Answer) /\ answers # <<>> /\ stage[c] = "asking"
  BY DEF TypeOK, TakesAnswer
<1>2. /\ 1 \in 1 .. Len(answers) /\ Head(answers) = answers[1]
      /\ \A i \in 1 .. Len(Tail(answers)) :
           i + 1 \in 1 .. Len(answers) /\ i + 1 # 1 /\ Tail(answers)[i] = answers[i + 1]
  BY <1>1, TailIndex
<1> DEFINE d == answers[1].card
<1>3. d \in Call  BY <1>2, AnswersAreForCalls
<1>4. stage[d] \in {"asking", "cancelled"} /\ replied[d] >= 1  BY <1>2 DEF Matched
<1>5. d = c
  <2> HIDE DEF d
  <2>1. stage[d] # "cancelled"  BY <1>1, <1>3 DEF Queue, CancelEnds
  <2>2. QED BY <1>1, <1>3, <1>4, <2>1, OneIsAskedAbout
<1>6. \A i \in 1 .. Len(answers) : answers[i].card = c => i = 1
  BY <1>2, <1>5 DEF Matched
<1>7. QED BY <1>2, <1>4, <1>5, <1>6

\* A card that may be answered has no answer yet, nor has its call.
LEMMA AnsweredOnce ==
  ASSUME Channel, Orderly, NEW k \in Call, k \in Elements(cards), replied[k] = 0
  PROVE  /\ by[k] = NoAnswer
         /\ stage[k] \in {"asking", "cancelled"}
         /\ \A i \in 1 .. Len(answers) : answers[i].card # k
<1>1. Matched /\ WasAsked(k)  BY DEF Channel, CardsWereAsked
<1>2. by[k] = NoAnswer  BY <1>1 DEF Matched
<1>3. QED BY <1>1, <1>2 DEF WasAsked, Orderly, Matched

LEMMA MatchedAtEngine ==
  ASSUME Channel, Orderly, Orderly', NEW d \in Call, Starts(d) \/ Ends(d)
  PROVE  Matched'
<1> Queue /\ TypeOK /\ Matched  BY DEF Channel, Queue
<1>1. /\ Starts(d) => MayStart(d)
      /\ Ends(d) => stage[d] = "asking"
      /\ \A e \in Call : e # d => stage'[e] = stage[e]
  BY EngineMoves
<1>2. replied' = replied  BY EngineAnswers
<1>3. ASSUME NEW i \in 1 .. Len(answers)
      PROVE  /\ answers[i].card \in Call
             /\ by[answers[i].card] = NoAnswer
             /\ stage[answers[i].card] \in {"asking", "cancelled"}
             /\ replied[answers[i].card] >= 1
  BY <1>3, AnswersAreForCalls DEF Matched
<1>4. CASE LetsThrough(d) \/ IsDenied(d)
  <2>1. TakesAnswer(d)  BY <1>4, EngineAnswers
  <2>2. /\ Head(answers).card = d /\ replied[d] >= 1
        /\ \A i \in 1 .. Len(Tail(answers)) : Tail(answers)[i].card # d
    BY <2>1, TakenIsOwn
  <2>3. /\ by'[d] = Head(answers)
        /\ \A e \in Call : e # d => by'[e] = by[e]
        /\ answers' = Tail(answers) /\ answers # <<>>
    BY <2>1, TakenAnswer
  <2>4. \A i \in 1 .. Len(answers') :
          i + 1 \in 1 .. Len(answers) /\ answers'[i] = answers[i + 1]
    <3>1. answers \in Seq(Answer)  BY DEF TypeOK
    <3>2. QED BY <2>3, <3>1, TailIndex
  <2>5. ASSUME NEW c \in Call, by'[c] # NoAnswer
        PROVE  by'[c].card = c /\ replied'[c] >= 1
    <3>1. CASE c = d  BY <1>2, <2>2, <2>3, <3>1
    <3>2. CASE c # d  BY <1>2, <2>3, <2>5, <3>2 DEF Matched
    <3>3. QED BY <3>1, <3>2
  <2>6. ASSUME NEW i \in 1 .. Len(answers')
        PROVE  /\ by'[answers'[i].card] = NoAnswer
               /\ stage'[answers'[i].card] \in {"asking", "cancelled"}
               /\ replied'[answers'[i].card] >= 1
    <3>1. i + 1 \in 1 .. Len(answers) /\ answers'[i] = answers[i + 1]  BY <2>4
    <3>2. PICK e \in Call : e = answers[i + 1].card  BY <3>1, <1>3
    <3>3. e # d  BY <2>2, <2>3, <3>1, <3>2
    <3>4. by[e] = NoAnswer /\ stage[e] \in {"asking", "cancelled"} /\ replied[e] >= 1
      BY <3>1, <3>2, <1>3
    <3>5. QED BY <1>1, <1>2, <2>3, <3>1, <3>2, <3>3, <3>4
  <2>7. ASSUME NEW i \in 1 .. Len(answers'), NEW j \in 1 .. Len(answers'),
               answers'[i].card = answers'[j].card
        PROVE  i = j
    <3>1. i + 1 = j + 1  BY <2>4, <2>7 DEF Matched
    <3>2. QED BY <3>1
  <2>8. QED BY <2>5, <2>6, <2>7 DEF Matched
<1>5. CASE ~(LetsThrough(d) \/ IsDenied(d))
  <2>1. UNCHANGED <<by, answers>>  BY <1>5, EngineAnswers
  <2>2. ASSUME NEW i \in 1 .. Len(answers)
        PROVE  stage'[answers[i].card] \in {"asking", "cancelled"}
    <3>1. PICK e \in Call : e = answers[i].card  BY <1>3
    <3>2. stage[e] \in {"asking", "cancelled"}  BY <1>3, <3>1
    <3>3. CASE e # d  BY <1>1, <3>1, <3>2, <3>3
    <3>4. CASE e = d
      <4>1. TimesOut(d) \/ SeesCancel(d)  BY <1>1, <1>5, <3>2, <3>4 DEF MayStart, Ends
      <4>2. ~TimesOut(d)
        <5>1. stage'[d] # "timed_out"  BY DEF Orderly
        <5>2. QED BY <5>1, EngineAnswers
      <4>3. QED BY <3>1, <3>4, <4>1, <4>2, EngineAnswers
    <3>5. QED BY <3>3, <3>4
  <2>3. QED BY <1>2, <2>1, <2>2 DEF Matched
<1>6. QED BY <1>4, <1>5

LEMMA MatchedAtReply ==
  ASSUME Channel, Orderly, Orderly', NEW r \in Reply, SendsReply(r)
  PROVE  Matched'
<1> Queue /\ TypeOK /\ Matched  BY DEF Channel, Queue
<1> DEFINE k == Last(cards)
<1> DEFINE a == [card |-> k, rank |-> replied[k] + 1, reply |-> r]
<1>1. k \in Elements(cards) /\ k \in Call
  <2>1. cards \in Seq(Call) /\ cards # <<>>  BY DEF TypeOK, SendsReply
  <2>2. k \in Elements(cards)  BY <2>1, LastIsElement
  <2>3. QED BY <2>1, <2>2, ElementOfSeq DEF Elements
<1>2. /\ replied' = [replied EXCEPT ![k] = @ + 1]
      /\ answers' = Append(answers, a)
      /\ UNCHANGED <<by, stage>>
  BY DEF SendsReply, engineVars
<1>3. a.card = k  OBVIOUS
<1>4. a \in Answer
  <2>1. replied[k] + 1 \in Nat  BY <1>1 DEF TypeOK
  <2>2. QED BY <1>1, <2>1 DEF Answer
<1> HIDE DEF k, a
<1>5. replied[k] \in Nat /\ replied'[k] = replied[k] + 1
      /\ \A c \in Call : c # k => replied'[c] = replied[c]
  BY <1>1, <1>2 DEF TypeOK
<1>6. replied[k] = 0 /\ replied'[k] = 1
  <2>1. replied'[k] <= 1  BY <1>1 DEF Orderly
  <2>2. PICK x \in Nat : x = replied[k]  BY <1>5
  <2>3. x + 1 <= 1  BY <1>5, <2>1, <2>2
  <2>4. x = 0  BY <2>3
  <2>5. QED BY <1>5, <2>2, <2>4
<1>7. /\ by[k] = NoAnswer
      /\ stage[k] \in {"asking", "cancelled"}
      /\ \A i \in 1 .. Len(answers) : answers[i].card # k
  BY <1>1, <1>6, AnsweredOnce
<1>8. /\ Len(answers) \in Nat /\ Len(answers') = Len(answers) + 1
      /\ answers'[Len(answers) + 1] = a
      /\ \A i \in 1 .. Len(answers) : answers'[i] = answers[i]
      /\ \A i \in 1 .. Len(answers') : i \in 1 .. Len(answers) \/ i = Len(answers) + 1
  <2>1. answers \in Seq(Answer)  BY DEF TypeOK
  <2>2. QED BY <1>2, <1>4, <2>1
<1>9. \A c \in Call : replied[c] >= 1 => replied'[c] >= 1
  BY <1>5, <1>6
<1>10. ASSUME NEW c \in Call, by'[c] # NoAnswer
       PROVE  by'[c].card = c /\ replied'[c] >= 1
  BY <1>2, <1>9, <1>10 DEF Matched
<1>11. ASSUME NEW i \in 1 .. Len(answers')
       PROVE  /\ by'[answers'[i].card] = NoAnswer
              /\ stage'[answers'[i].card] \in {"asking", "cancelled"}
              /\ replied'[answers'[i].card] >= 1
  <2>1. CASE i \in 1 .. Len(answers)
    <3>1. PICK e \in Call : e = answers[i].card  BY <2>1, AnswersAreForCalls
    <3>2. by[e] = NoAnswer /\ stage[e] \in {"asking", "cancelled"} /\ replied[e] >= 1
      BY <2>1, <3>1 DEF Matched
    <3>3. answers'[i].card = e /\ replied'[e] >= 1  BY <1>8, <1>9, <2>1, <3>1, <3>2
    <3>4. QED BY <1>2, <3>2, <3>3
  <2>2. CASE i = Len(answers) + 1
    <3>1. answers'[i].card = k  BY <1>3, <1>8, <2>2
    <3>2. replied'[k] >= 1  BY <1>6
    <3>3. QED BY <1>2, <1>7, <3>1, <3>2
  <2>3. QED BY <1>8, <2>1, <2>2
<1>12. ASSUME NEW i \in 1 .. Len(answers'), NEW j \in 1 .. Len(answers'),
              answers'[i].card = answers'[j].card
       PROVE  i = j
  <2>1. CASE i \in 1 .. Len(answers) /\ j \in 1 .. Len(answers)
    BY <1>8, <1>12, <2>1 DEF Matched
  <2>2. CASE i \in 1 .. Len(answers) /\ j = Len(answers) + 1
    BY <1>3, <1>7, <1>8, <1>12, <2>2
  <2>3. CASE j \in 1 .. Len(answers) /\ i = Len(answers) + 1
    BY <1>3, <1>7, <1>8, <1>12, <2>3
  <2>4. CASE i = Len(answers) + 1 /\ j = Len(answers) + 1  BY <2>4
  <2>5. QED BY <1>8, <2>1, <2>2, <2>3, <2>4
<1>13. QED BY <1>10, <1>11, <1>12 DEF Matched

LEMMA ChannelStep == Channel /\ [Next]_vars => Channel'
<1> SUFFICES ASSUME Channel, [Next]_vars PROVE Channel'  OBVIOUS
<1>1. Queue' /\ CardsWereAsked' /\ AnsweredIsOver'
  BY StepsInQueue, CardsStep, AnsweredStep DEF Channel
<1>2. ASSUME Orderly' PROVE Matched'
  <2>1. Orderly  BY <1>1, <1>2, WasOrderly DEF Channel, Queue
  <2>2. CASE \E d \in Call : Starts(d) \/ Ends(d)  BY <1>2, <2>1, <2>2, MatchedAtEngine
  <2>3. CASE \E r \in Reply : SendsReply(r)  BY <1>2, <2>1, <2>3, MatchedAtReply
  <2>4. CASE UNCHANGED <<stage, by, answers, replied>>
    BY <2>1, <2>4 DEF Channel, Matched
  <2>5. CASE \/ ShowsCard \/ Cancels \/ HalfAnHourPasses
             \/ \E answer \in responding : FinishesReply(answer)
    <3>1. UNCHANGED <<stage, by, answers, replied>>
      BY <2>5 DEF ShowsCard, Cancels, HalfAnHourPasses, FinishesReply, engineVars, screenVars
    <3>2. QED BY <2>4, <3>1
  <2>6. CASE UNCHANGED vars
    <3>1. UNCHANGED <<stage, by, answers, replied>>
      BY <2>6 DEF vars, engineVars, screenVars
    <3>2. QED BY <2>4, <3>1
  <2>7. QED BY <2>2, <2>3, <2>5, <2>6 DEF Next, EngineStep, Starts, Ends
<1>3. QED BY <1>1, <1>2 DEF Channel

LEMMA InitChannel == Init => Channel
<1> SUFFICES ASSUME Init PROVE Channel  OBVIOUS
<1>1. Queue  BY InitInQueue
<1>2. Len(requests) = 0 /\ Len(cards) = 0 /\ Len(answers) = 0  BY EmptySeq DEF Init
<1>3. \A i : i \notin 1 .. 0  OBVIOUS
<1>4. Elements(requests) = {} /\ Elements(cards) = {}  BY <1>2, <1>3 DEF Elements
<1>5. \A c \in Call : by[c] = NoAnswer  BY DEF Init
<1>6. Matched  BY <1>2, <1>3, <1>5 DEF Matched
<1>7. QED BY <1>1, <1>4, <1>5, <1>6 DEF Channel, CardsWereAsked, AnsweredIsOver

LEMMA ChannelHolds == Spec => []Channel
BY InitChannel, ChannelStep, PTL DEF Spec

\* As long as no card is answered twice and no confirmation times out, each call
\* consumes the answer of its own card, though the channel names neither.
THEOREM AnswersAreOwn == Spec => []AnswersReachTheirRequest
<1>1. Channel => AnswersReachTheirRequest
  BY DEF Channel, Orderly, Matched, AnswersReachTheirRequest, OwnAnswer
<1>2. QED BY <1>1, ChannelHolds, PTL

-----------------------------------------------------------------------------
(* Lists of rules, and the one that decides. *)

AnyRule ==
  [source : 0 .. 4, behavior : {"allow", "ask", "deny"}, covers : SUBSET Commands]

LEMMA RuleTyped ==
  ASSUME NEW source \in 0 .. 4, NEW behavior \in {"allow", "ask", "deny"},
         NEW covers \in SUBSET Commands
  PROVE  /\ Rule(source, behavior, covers) \in AnyRule
         /\ Rule(source, behavior, covers).source = source
         /\ Rule(source, behavior, covers).behavior = behavior
         /\ Rule(source, behavior, covers).covers = covers
BY DEF Rule, AnyRule

LEMMA LayerRulesTyped ==
  ASSUME NEW source \in 0 .. 4, NEW layer \in Layer
  PROVE  LayerRules(source, layer) \in Seq(AnyRule)
<1>1. /\ layer.allow \in SUBSET Commands /\ layer.ask \in SUBSET Commands
      /\ layer.deny \in SUBSET Commands
  BY DEF Layer
<1>2. /\ Rule(source, "allow", layer.allow) \in AnyRule
      /\ Rule(source, "ask", layer.ask) \in AnyRule
      /\ Rule(source, "deny", layer.deny) \in AnyRule
  BY <1>1, RuleTyped
<1>3. QED BY <1>2 DEF LayerRules

LEMMA TighteningTyped ==
  ASSUME NEW layer \in Layer
  PROVE  Tightening(layer) \in Layer
BY DEF Tightening, Layer

LEMMA ConfigTyped ==
  ASSUME NEW config \in Turn
  PROVE  ConfigRules(config) \in Seq(AnyRule)
<1>1. /\ config.listed \in SUBSET Commands
      /\ config.user \in Layer /\ config.managed \in Layer
      /\ config.project \in Layer /\ config.local \in Layer
  BY DEF Turn
<1>2. <<Rule(User, "ask", config.listed)>> \in Seq(AnyRule)
  <2>1. Rule(User, "ask", config.listed) \in AnyRule  BY <1>1, RuleTyped DEF User
  <2>2. QED BY <2>1
<1>3. /\ LayerRules(User, config.user) \in Seq(AnyRule)
      /\ LayerRules(Managed, config.managed) \in Seq(AnyRule)
      /\ LayerRules(Project, Tightening(config.project)) \in Seq(AnyRule)
      /\ LayerRules(Local, Tightening(config.local)) \in Seq(AnyRule)
  <2>1. User \in 0 .. 4 /\ Managed \in 0 .. 4 /\ Project \in 0 .. 4 /\ Local \in 0 .. 4
    BY DEF User, Managed, Project, Local
  <2>2. Tightening(config.project) \in Layer /\ Tightening(config.local) \in Layer
    BY <1>1, TighteningTyped
  <2>3. QED BY <1>1, <2>1, <2>2, LayerRulesTyped
<1>4. QED BY <1>2, <1>3, ConcatProperties DEF ConfigRules

\* Among rules there is one that is ahead of all others, and only one.
LEMMA FirstIsOne ==
  ASSUME NEW s \in Seq(AnyRule), NEW X \in SUBSET DOMAIN s, X # {}
  PROVE  \E i \in X : Foremost(s, X) = {i} /\ FirstOf(s, X) = s[i]
<1>1. \A i \in X : i \in Nat /\ s[i].source \in 0 .. 4
  <2>1. \A i \in X : i \in Nat /\ s[i] \in AnyRule  BY ElementOfSeq
  <2>2. QED BY <2>1 DEF AnyRule
<1> DEFINE Depths == {4 - s[i].source : i \in X}
<1>2. PICK m \in Depths : \A n \in Depths : m <= n
  <2>1. Depths \in SUBSET Nat /\ Depths # {}  BY <1>1
  <2> HIDE DEF Depths
  <2>2. QED BY <2>1, Least
<1>3. PICK k \in X : m = 4 - s[k].source  BY <1>2
<1> DEFINE Top == {i \in X : s[i].source = s[k].source}
<1>4. PICK i \in Top : \A j \in Top : i <= j
  <2>1. Top \in SUBSET Nat /\ Top # {}  BY <1>1
  <2> HIDE DEF Top
  <2>2. QED BY <2>1, Least
<1>5. ASSUME NEW j \in X PROVE Ahead(s, i, j)
  <2>1. m <= 4 - s[j].source  BY <1>2
  <2>2. s[i].source = s[k].source /\ i \in X  BY <1>4
  <2>3. s[i].source >= s[j].source  BY <1>1, <1>3, <2>1, <2>2
  <2>4. s[i].source = s[j].source => i <= j  BY <1>4, <2>2
  <2>5. QED BY <1>1, <2>2, <2>3, <2>4 DEF Ahead
<1>6. ASSUME NEW j \in X, Ahead(s, j, i) PROVE j = i
  <2>1. Ahead(s, i, j) /\ i \in X  BY <1>4, <1>5
  <2>2. QED BY <1>1, <1>6, <2>1 DEF Ahead
<1>7. Foremost(s, X) = {i}  BY <1>4, <1>5, <1>6 DEF Foremost
<1>8. FirstOf(s, X) = s[i]  BY <1>7 DEF FirstOf
<1>9. QED BY <1>4, <1>7, <1>8

\* Two lists that differ in what their rules cover, but not in where they are
\* from and what they say.
Alike(s, r) ==
  /\ s \in Seq(AnyRule) /\ r \in Seq(AnyRule)
  /\ DOMAIN s = DOMAIN r
  /\ \A i \in DOMAIN s : s[i].source = r[i].source /\ s[i].behavior = r[i].behavior

\* Of the same rules, the same one is first.
LEMMA SameFirst ==
  ASSUME NEW s, NEW r, Alike(s, r), NEW X \in SUBSET DOMAIN s, X # {}
  PROVE  ByRule(FirstOf(s, X)) = ByRule(FirstOf(r, X))
<1>1. X \subseteq DOMAIN s /\ X \subseteq DOMAIN r  BY DEF Alike
<1>2. Foremost(s, X) = Foremost(r, X)  BY <1>1 DEF Alike, Foremost, Ahead
<1>3. PICK i \in X : Foremost(s, X) = {i} /\ FirstOf(s, X) = s[i]
  BY <1>1, FirstIsOne DEF Alike
<1>4. FirstOf(r, X) = r[i]  BY <1>2, <1>3 DEF FirstOf
<1>5. s[i].behavior = r[i].behavior  BY <1>1, <1>3 DEF Alike
<1>6. QED BY <1>3, <1>4, <1>5 DEF ByRule, Verdict

\* The rules of an engine: those of its configuration, and the session's.
LEMMA ManagerRules ==
  ASSUME NEW config \in Turn, NEW granted \in SUBSET Commands, NEW counts
  PROVE  LET s == Manager(config, granted, counts).rules
             r == ConfigRules(config)
         IN  /\ s \in Seq(AnyRule)
             /\ Len(r) \in Nat /\ DOMAIN r = 1 .. Len(r) /\ DOMAIN s = 1 .. Len(r) + 1
             /\ \A i \in DOMAIN r : s[i] = r[i]
             /\ s[Len(r) + 1] = Rule(Session, "allow", Allowed(config.kept, granted))
             /\ s[Len(r) + 1].source = Session /\ s[Len(r) + 1].behavior = "allow"
             /\ s[Len(r) + 1].covers = Allowed(config.kept, granted)
<1> DEFINE last == Rule(Session, "allow", Allowed(config.kept, granted))
<1> DEFINE r == ConfigRules(config)
<1>1. Allowed(config.kept, granted) \in SUBSET Commands
  <2>1. \A cmd : SameTool(cmd) \subseteq Commands  BY DEF SameTool
  <2>2. \A cmd : Granted(cmd) \subseteq Commands  BY <2>1 DEF Granted
  <2>3. \A cmd : Remembered(cmd) \subseteq Commands  BY <2>1 DEF Remembered
  <2> HIDE DEF r
  <2>4. ASSUME NEW x, x \in Allowed(config.kept, granted) PROVE x \in Commands
    <3>1. (\E cmd : x \in Remembered(cmd)) \/ (\E cmd : x \in Granted(cmd))
      <4> DEFINE K == {Remembered(cmd) : cmd \in config.kept}
      <4> DEFINE G == {Granted(cmd) : cmd \in granted}
      <4>1. x \in UNION K \/ x \in UNION G  BY <2>4 DEF Allowed
      <4>2. CASE x \in UNION K
        <5>1. PICK S \in K : x \in S  BY <4>2
        <5>2. QED BY <5>1
      <4>3. CASE x \in UNION G
        <5>1. PICK S \in G : x \in S  BY <4>3
        <5>2. QED BY <5>1
      <4>4. QED BY <4>1, <4>2, <4>3
    <3>2. QED BY <2>2, <2>3, <3>1
  <2>5. QED BY <2>4
<1>2. /\ last \in AnyRule /\ last.source = Session /\ last.behavior = "allow"
      /\ last.covers = Allowed(config.kept, granted)
  BY <1>1, RuleTyped DEF Session
<1>3. r \in Seq(AnyRule)  BY ConfigTyped
<1>4. Manager(config, granted, counts).rules = Append(r, last)  BY DEF Manager
<1> HIDE DEF last, r
<1>5. /\ Append(r, last) \in Seq(AnyRule)
      /\ Len(r) \in Nat /\ DOMAIN r = 1 .. Len(r) /\ DOMAIN Append(r, last) = 1 .. Len(r) + 1
      /\ \A i \in DOMAIN r : Append(r, last)[i] = r[i]
      /\ Append(r, last)[Len(r) + 1] = last
  BY <1>2, <1>3
<1>6. QED BY <1>2, <1>4, <1>5 DEF last, r

-----------------------------------------------------------------------------
(* What is decided. *)

\* What an engine has been told does not change its managed rules, nor which of
\* them decides.
LEMMA ManagedAreOfConfig ==
  ASSUME NEW config \in Turn, NEW granted \in SUBSET Commands, NEW counts, NEW cmd
  PROVE  LET s == Manager(config, granted, counts).rules
             r == ConfigRules(config)
         IN  /\ ManagedRules(s, cmd) = ManagedRules(r, cmd)
             /\ ManagedRules(r, cmd) # {} =>
                  FirstOf(s, ManagedRules(s, cmd)) = FirstOf(r, ManagedRules(r, cmd))
<1> DEFINE s == Manager(config, granted, counts).rules
<1> DEFINE r == ConfigRules(config)
<1> DEFINE X == ManagedRules(r, cmd)
<1>1. r \in Seq(AnyRule)  BY ConfigTyped
<1>2. /\ s \in Seq(AnyRule)
      /\ Len(r) \in Nat /\ DOMAIN r = 1 .. Len(r) /\ DOMAIN s = 1 .. Len(r) + 1
      /\ \A i \in DOMAIN r : s[i] = r[i]
      /\ s[Len(r) + 1].source = Session
  BY ManagerRules
<1> HIDE DEF s, r
<1>3. \A i : i \in DOMAIN s <=> i \in DOMAIN r \/ i = Len(r) + 1  BY <1>2
<1>4. \A i : i \in ManagedRules(s, cmd) <=> i \in ManagedRules(r, cmd)
  BY <1>2, <1>3 DEF ManagedRules, Matching, Managed, Session
<1>5. ManagedRules(s, cmd) = X  BY <1>4 DEF ManagedRules, Matching
<1>6. ASSUME X # {} PROVE FirstOf(s, X) = FirstOf(r, X)
  <2>1. X \subseteq DOMAIN r /\ X \subseteq DOMAIN s
    BY <1>3 DEF ManagedRules, Matching
  <2>2. Foremost(s, X) = Foremost(r, X)  BY <1>2, <2>1 DEF Foremost, Ahead
  <2>3. PICK i \in X : Foremost(r, X) = {i} /\ FirstOf(r, X) = r[i]
    BY <1>1, <1>6, <2>1, FirstIsOne
  <2>4. FirstOf(s, X) = s[i]  BY <2>2, <2>3 DEF FirstOf
  <2>5. QED BY <1>2, <2>1, <2>3, <2>4
<1>7. QED BY <1>5, <1>6 DEF s, r

\* Where a managed rule matches, it decides, or plan mode refuses.
LEMMA ManagedDecides ==
  ASSUME NEW config \in Turn, NEW granted \in SUBSET Commands, NEW counts,
         NEW plan, NEW cmd, ManagedRules(ConfigRules(config), cmd) # {}
  PROVE  Decision(Manager(config, granted, counts), plan, cmd) \in
           {"deny", Verdict(FirstOf(ConfigRules(config), ManagedRules(ConfigRules(config), cmd)))}
<1> DEFINE m == Manager(config, granted, counts)
<1> DEFINE rule == FirstOf(ConfigRules(config), ManagedRules(ConfigRules(config), cmd))
<1>1. ManagedRules(m.rules, cmd) # {} /\ FirstOf(m.rules, ManagedRules(m.rules, cmd)) = rule
  BY ManagedAreOfConfig
<1> HIDE DEF m, rule
<1>2. Explain(m, cmd) = ByRule(rule)  BY <1>1 DEF Explain
<1>3. Explain(m, cmd).matched = TRUE /\ Explain(m, cmd).action = Verdict(rule)
  BY <1>2 DEF ByRule
<1>4. ~FloorAsks(m.mode, Explain(m, cmd), cmd)  BY <1>3 DEF FloorAsks
<1>5. Decision(m, plan, cmd) \in {"deny", Verdict(rule)}  BY <1>3, <1>4 DEF Decision
<1>6. QED BY <1>5 DEF m, rule

LEMMA TurnTyped ==
  ASSUME TypeOK
  PROVE  turn \in Turn /\ rules \in SUBSET Commands
BY TurnsAssumption DEF TypeOK

LEMMA InitManaged == Init => ManagedRulesHold
BY DEF Init, ManagedRulesHold

LEMMA StepManaged ==
  ASSUME TypeOK, ManagedRulesHold, [Next]_vars
  PROVE  ManagedRulesHold'
<1>1. CASE ~ \E d \in Call : Starts(d) \/ Ends(d)
  BY <1>1, OthersMoveNothing DEF callVars, ManagedRulesHold, Cmd
<1>2. ASSUME NEW d \in Call, Starts(d) \/ Ends(d), NEW c \in Call
      PROVE  LET managed == ManagedRules(ConfigRules(turn), Cmd(c))
                 verdict == Verdict(FirstOf(ConfigRules(turn), managed))
             IN  managed # {} =>
                   /\ verdict = "deny" => stage'[c] \in {"todo", "blocked", "refused"}
                   /\ verdict = "confirm" /\ stage'[c] = "ran" => by'[c] # NoAnswer
                   /\ verdict = "allow" => by'[c] = NoAnswer /\ stage'[c] # "asking"
  <2> DEFINE managed == ManagedRules(ConfigRules(turn), Cmd(c))
  <2> DEFINE verdict == Verdict(FirstOf(ConfigRules(turn), managed))
  <2> SUFFICES ASSUME managed # {}
               PROVE  /\ verdict = "deny" => stage'[c] \in {"todo", "blocked", "refused"}
                      /\ verdict = "confirm" /\ stage'[c] = "ran" => by'[c] # NoAnswer
                      /\ verdict = "allow" => by'[c] = NoAnswer /\ stage'[c] # "asking"
    OBVIOUS
  <2>1. Decided(c) \in {"deny", verdict}
    BY TurnTyped, ManagedDecides DEF Decided
  <2>2. /\ verdict = "deny" => stage[c] \in {"todo", "blocked", "refused"}
        /\ verdict = "confirm" /\ stage[c] = "ran" => by[c] # NoAnswer
        /\ verdict = "allow" => by[c] = NoAnswer /\ stage[c] # "asking"
    BY DEF ManagedRulesHold
  <2> HIDE DEF managed, verdict
  <2>3. CASE LetsThrough(d) \/ IsDenied(d)
    <3>1. TakesAnswer(d)  BY <1>2, <2>3, EngineAnswers
    <3>2. by'[d] \in Answer /\ \A e \in Call : e # d => by'[e] = by[e]
      BY <3>1, TakenAnswer
    <3>3. by'[d] # NoAnswer
      <4>1. \A a \in Answer : a.card # NoCall  BY CallsAssumption DEF Answer, Call, NoCall
      <4>2. QED BY <3>2, <4>1 DEF NoAnswer
    <3>4. c # d => stage'[c] = stage[c] /\ by'[c] = by[c]  BY <1>2, <3>2, EngineMoves
    <3>5. stage[d] = "asking"  BY <3>1 DEF TakesAnswer
    <3>6. CASE c = d  BY <2>2, <3>3, <3>5, <3>6
    <3>7. CASE c # d  BY <2>2, <3>4, <3>7
    <3>8. QED BY <3>6, <3>7
  <2>4. CASE ~(LetsThrough(d) \/ IsDenied(d))
    <3>1. by' = by  BY <1>2, <2>4, EngineAnswers
    <3>2. CASE c # d
      <4>1. stage'[c] = stage[c]  BY <1>2, <3>2, EngineMoves
      <4>2. QED BY <2>2, <3>1, <4>1
    <3>3. CASE c = d /\ Ends(d)
      <4>1. TimesOut(c) \/ SeesCancel(c)  BY <2>4, <3>3 DEF Ends
      <4>2. stage[c] = "asking" /\ stage'[c] \in {"timed_out", "cancelled"}
        BY <1>2, <3>3, <4>1, EngineAnswers, EngineMoves
      <4>3. QED BY <2>2, <3>1, <4>2
    <3>4. CASE c = d /\ Starts(d)
      <4>1. stage[c] = "todo"  BY <3>4, EngineMoves DEF MayStart
      <4>2. CASE GuardRefuses(c)
        <5>1. stage'[c] = "blocked"  BY <4>2, BecomesTyped DEF GuardRefuses, Over
        <5>2. QED BY <2>2, <3>1, <5>1
      <4>3. CASE RunsUnasked(c)
        <5>1. stage'[c] = "ran" /\ Decided(c) = "allow"
          BY <4>3, BecomesTyped DEF RunsUnasked, Over
        <5>2. QED BY <2>1, <2>2, <3>1, <5>1
      <4>4. CASE Refuses(c)
        <5>1. stage'[c] = "refused"  BY <4>4, BecomesTyped DEF Refuses, Over
        <5>2. QED BY <2>2, <3>1, <5>1
      <4>5. CASE Asks(c)
        <5>1. stage'[c] = "asking" /\ Decided(c) = "confirm"
          BY <4>5, BecomesTyped DEF Asks, Over
        <5>2. QED BY <2>1, <2>2, <3>1, <5>1
      <4>6. QED BY <3>4, <4>2, <4>3, <4>4, <4>5 DEF Starts
    <3>5. QED BY <1>2, <3>2, <3>3, <3>4
  <2>5. QED BY <2>3, <2>4
<1>3. ASSUME NEW d \in Call, Starts(d) \/ Ends(d) PROVE ManagedRulesHold'
  <2>1. turn' = turn  BY <1>3, EngineMoves
  <2>2. \A c \in Call :
          LET managed == ManagedRules(ConfigRules(turn), Cmd(c))
              verdict == Verdict(FirstOf(ConfigRules(turn), managed))
          IN  managed # {} =>
                /\ verdict = "deny" => stage'[c] \in {"todo", "blocked", "refused"}
                /\ verdict = "confirm" /\ stage'[c] = "ran" => by'[c] # NoAnswer
                /\ verdict = "allow" => by'[c] = NoAnswer /\ stage'[c] # "asking"
    BY <1>2, <1>3
  <2>3. QED BY <2>1, <2>2 DEF ManagedRulesHold, Cmd
<1>4. QED BY <1>1, <1>3

\* What a managed rule decides stands, whatever mode, plan mode, rules, answers
\* and denials there are.
THEOREM ManagedRulesDecide == Spec => []ManagedRulesHold
BY InitTyped, NextTyped, InitManaged, StepManaged, PTL DEF Spec

-----------------------------------------------------------------------------
(* Rules that answers made. *)

\* A command that no answer of this turn covers matches the same rules as before
\* the first answer, and they say the same.
LEMMA GrantsApart ==
  ASSUME NEW config \in Turn, NEW granted \in SUBSET Commands, NEW counts, NEW others, NEW cmd,
         \A d \in granted : cmd \notin Granted(d)
  PROVE  LET s == Manager(config, granted, counts).rules
             r == Manager(config, {}, others).rules
         IN  Alike(s, r) /\ Matching(s, cmd) = Matching(r, cmd)
<1> DEFINE s == Manager(config, granted, counts).rules
<1> DEFINE r == Manager(config, {}, others).rules
<1> DEFINE C == ConfigRules(config)
<1> DEFINE A == Allowed(config.kept, granted)
<1> DEFINE B == Allowed(config.kept, {})
<1>1. /\ s \in Seq(AnyRule) /\ Len(C) \in Nat /\ DOMAIN C = 1 .. Len(C)
      /\ DOMAIN s = 1 .. Len(C) + 1
      /\ \A i \in DOMAIN C : s[i] = C[i]
      /\ s[Len(C) + 1].source = Session /\ s[Len(C) + 1].behavior = "allow"
      /\ s[Len(C) + 1].covers = A
  BY ManagerRules
<1>2. /\ r \in Seq(AnyRule)
      /\ DOMAIN r = 1 .. Len(C) + 1
      /\ \A i \in DOMAIN C : r[i] = C[i]
      /\ r[Len(C) + 1].source = Session /\ r[Len(C) + 1].behavior = "allow"
      /\ r[Len(C) + 1].covers = B
  <2>1. {} \in SUBSET Commands  OBVIOUS
  <2>2. QED BY <2>1, ManagerRules
<1>3. cmd \in A <=> cmd \in B
  <2> DEFINE K == {Remembered(d) : d \in config.kept}
  <2> DEFINE G == {Granted(d) : d \in granted}
  <2> DEFINE N == {Granted(d) : d \in {}}
  <2>1. A = (UNION K) \cup (UNION G) /\ B = (UNION K) \cup (UNION N)  BY DEF Allowed
  <2>2. cmd \notin UNION G
    <3> SUFFICES ASSUME NEW S \in G, cmd \in S PROVE FALSE  OBVIOUS
    <3>1. PICK d \in granted : S = Granted(d)  OBVIOUS
    <3>2. QED BY <3>1
  <2>3. N = {}  OBVIOUS
  <2>4. cmd \notin UNION N  BY <2>3
  <2> HIDE DEF K, G, N, A, B
  <2>5. QED BY <2>1, <2>2, <2>4
<1> HIDE DEF s, r, C, A, B
<1>4. \A i \in DOMAIN s : i \in DOMAIN C \/ i = Len(C) + 1  BY <1>1
<1>5. \A i \in DOMAIN s : s[i].source = r[i].source /\ s[i].behavior = r[i].behavior
  BY <1>1, <1>2, <1>4
<1>6. \A i \in DOMAIN s : cmd \in s[i].covers <=> cmd \in r[i].covers
  BY <1>1, <1>2, <1>3, <1>4
<1>7. DOMAIN s = DOMAIN r  BY <1>1, <1>2
<1>8. Alike(s, r)  BY <1>1, <1>2, <1>5, <1>7 DEF Alike
<1>9. Matching(s, cmd) = Matching(r, cmd)  BY <1>6, <1>7 DEF Matching
<1>10. QED BY <1>8, <1>9 DEF s, r

\* Where the lists are alike, and the counts of denials do not refuse, the
\* manager says the same.
LEMMA SameExplained ==
  ASSUME NEW m, NEW n, NEW cmd, m.mode = n.mode,
         Alike(m.rules, n.rules), Matching(m.rules, cmd) = Matching(n.rules, cmd),
         ~ShouldAutoSkip(m, ToolOf[cmd]), ~ShouldAutoSkip(n, ToolOf[cmd])
  PROVE  Explain(m, cmd) = Explain(n, cmd)
<1> DEFINE s == m.rules
<1> DEFINE r == n.rules
<1> DEFINE X == Matching(s, cmd)
<1> DEFINE Y == ManagedRules(s, cmd)
<1>1. X \subseteq DOMAIN s /\ Y \subseteq DOMAIN s  BY DEF Matching, ManagedRules
<1>2. Matching(r, cmd) = X  OBVIOUS
<1>3. ManagedRules(r, cmd) = Y  BY <1>1, <1>2 DEF ManagedRules, Alike
<1>4. X # {} => ByRule(FirstOf(s, X)) = ByRule(FirstOf(r, X))  BY <1>1, SameFirst
<1>5. Y # {} => ByRule(FirstOf(s, Y)) = ByRule(FirstOf(r, Y))  BY <1>1, SameFirst
<1> HIDE DEF X, Y
<1>6. WithoutMode(m, cmd) = WithoutMode(n, cmd)
  BY <1>2, <1>4 DEF WithoutMode, X
<1>7. QED BY <1>3, <1>5, <1>6 DEF Explain, Y

\* Denials only ever refuse.
LEMMA SkippedIsNotAllowed ==
  ASSUME NEW m, NEW plan, NEW cmd, ShouldAutoSkip(m, ToolOf[cmd]),
         ManagedRules(m.rules, cmd) = {}, ModeSays(m.mode, cmd) = "none"
  PROVE  Decision(m, plan, cmd) = "deny"
<1>1. Explain(m, cmd) = NoRule("deny")  BY DEF Explain, WithoutMode
<1>2. Explain(m, cmd).action = "deny"  BY <1>1 DEF NoRule
<1>3. QED BY <1>2 DEF Decision, FloorAsks

\* What is allowed now, and was not when the turn began, was granted in between.
LEMMA AllowedIsGranted ==
  ASSUME TypeOK, NEW c \in Call, Decided(c) = "allow",
         Decision(Manager(turn, {}, [t \in Tools |-> 0]), FALSE, Cmd(c)) # "allow"
  PROVE  \E d \in rules : Cmd(c) \in Granted(d)
<1> SUFFICES ASSUME \A d \in rules : Cmd(c) \notin Granted(d) PROVE FALSE  OBVIOUS
<1> DEFINE cmd == Cmd(c)
<1> DEFINE m == Manager(turn, rules, denials)
<1> DEFINE n == Manager(turn, {}, [t \in Tools |-> 0])
<1>0. turn \in Turn /\ rules \in SUBSET Commands /\ ToolOf[cmd] \in Tools
  BY TurnTyped, CommandsTyped DEF TypeOK
<1>1. Alike(m.rules, n.rules) /\ Matching(m.rules, cmd) = Matching(n.rules, cmd)
  BY <1>0, GrantsApart
<1>2. m.mode = turn.mode /\ n.mode = turn.mode /\ n.denials = [t \in Tools |-> 0]
  BY DEF Manager
<1>3. ~ShouldAutoSkip(n, ToolOf[cmd])
  <2>1. n.denials[ToolOf[cmd]] = 0  BY <1>0, <1>2
  <2>2. Threshold[ToolOf[cmd]] \in Nat \ {0}  BY <1>0, ThresholdAssumption
  <2>3. PICK k \in Nat \ {0} : k = Threshold[ToolOf[cmd]]  BY <2>2
  <2>4. ~(0 >= k)  BY <2>3
  <2>5. QED BY <2>1, <2>3, <2>4 DEF ShouldAutoSkip
<1>4. Decision(m, planning, cmd) = "allow"  BY DEF Decided
<1>5. Decision(n, FALSE, cmd) # "allow"  OBVIOUS
<1> HIDE DEF m, n, cmd
<1>6. Explain(m, cmd) = Explain(n, cmd)
  <2>1. CASE ~ShouldAutoSkip(m, ToolOf[cmd])  BY <1>1, <1>2, <1>3, <2>1, SameExplained
  <2>2. CASE ShouldAutoSkip(m, ToolOf[cmd])
    <3> DEFINE Y == ManagedRules(m.rules, cmd)
    <3>1. ~(Y = {} /\ ModeSays(m.mode, cmd) = "none")
      BY <1>4, <2>2, SkippedIsNotAllowed
    <3>2. Y \subseteq DOMAIN m.rules /\ ManagedRules(n.rules, cmd) = Y
      BY <1>1 DEF ManagedRules, Matching, Alike
    <3>3. Y # {} => ByRule(FirstOf(m.rules, Y)) = ByRule(FirstOf(n.rules, Y))
      BY <1>1, <3>2, SameFirst
    <3> HIDE DEF Y
    <3>4. QED BY <1>2, <3>1, <3>2, <3>3 DEF Explain, Y
  <2>3. QED BY <2>1, <2>2
<1>7. Explain(m, cmd).action = "allow" /\ ~FloorAsks(m.mode, Explain(m, cmd), cmd)
  BY <1>4 DEF Decision
<1>8. ~PlanStops(FALSE, cmd)  BY DEF PlanStops
<1>9. Decision(n, FALSE, cmd) = "allow"  BY <1>2, <1>6, <1>7, <1>8 DEF Decision
<1>10. QED BY <1>5, <1>9

\* Every rule of this turn is that of a call that ran with an "always".
RulesAreAnswered ==
  \A cmd \in rules : \E d \in Call :
    Cmd(d) = cmd /\ stage[d] = "ran" /\ by[d].reply = "always"

RulesInv == RulesAreAnswered /\ RulesComeFromAnswers

\* What has run stays as it is.
LEMMA RanStays ==
  ASSUME TypeOK, [Next]_vars, NEW d \in Call, stage[d] = "ran"
  PROVE  stage'[d] = "ran" /\ by'[d] = by[d] /\ Cmd(d)' = Cmd(d)
<1>1. CASE ~ \E e \in Call : Starts(e) \/ Ends(e)
  BY <1>1, OthersMoveNothing DEF callVars, Cmd
<1>2. ASSUME NEW e \in Call, Starts(e) \/ Ends(e)
      PROVE  stage'[d] = "ran" /\ by'[d] = by[d] /\ Cmd(d)' = Cmd(d)
  <2>1. e # d /\ stage'[d] = stage[d] /\ turn' = turn  BY <1>2, EngineMoves DEF MayStart
  <2>2. by'[d] = by[d]
    <3>1. CASE LetsThrough(e) \/ IsDenied(e)
      <4>1. TakesAnswer(e)  BY <1>2, <3>1, EngineAnswers
      <4>2. QED BY <2>1, <4>1, TakenAnswer
    <3>2. CASE ~(LetsThrough(e) \/ IsDenied(e))  BY <1>2, <3>2, EngineAnswers
    <3>3. QED BY <3>1, <3>2
  <2>3. QED BY <2>1, <2>2 DEF Cmd
<1>3. QED BY <1>1, <1>2

LEMMA StepRulesAnswered ==
  ASSUME TypeOK, RulesAreAnswered, [Next]_vars
  PROVE  RulesAreAnswered'
<1>1. ASSUME NEW cmd \in rules PROVE \E d \in Call :
        Cmd(d)' = cmd /\ stage'[d] = "ran" /\ by'[d].reply = "always"
  <2>1. PICK d \in Call : Cmd(d) = cmd /\ stage[d] = "ran" /\ by[d].reply = "always"
    BY DEF RulesAreAnswered
  <2>2. QED BY <2>1, RanStays
<1>2. CASE rules' \subseteq rules  BY <1>1, <1>2 DEF RulesAreAnswered
<1>3. ASSUME NEW c \in Call, LetsThrough(c) PROVE RulesAreAnswered'
  <2>1. CASE ~Grants(Head(answers))  BY <1>2, <1>3, <2>1 DEF LetsThrough
  <2>2. CASE Grants(Head(answers))
    <3>1. TakesAnswer(c) /\ rules' = rules \cup {Cmd(c)}  BY <1>3, <2>2 DEF LetsThrough, RuleFor
    <3>2. by'[c].reply = "always"  BY <2>2, <3>1, TakenAnswer DEF Grants
    <3>3. stage'[c] = "ran"  BY <1>3, BecomesTyped DEF LetsThrough, Over
    <3>4. Cmd(c)' = Cmd(c)  BY <3>1 DEF TakesAnswer, Cmd
    <3>5. QED BY <1>1, <3>1, <3>2, <3>3, <3>4 DEF RulesAreAnswered
  <2>3. QED BY <2>1, <2>2
<1>4. CASE ~ \E c \in Call : LetsThrough(c)
  <2>1. rules' = rules
    <3>1. CASE ~ \E e \in Call : Starts(e) \/ Ends(e)
      BY <3>1, OthersMoveNothing DEF callVars
    <3>2. CASE \E e \in Call : Starts(e) \/ Ends(e)
      BY <1>4, <3>2 DEF Starts, Ends, GuardRefuses, RunsUnasked, Refuses, Asks, IsDenied,
                        TimesOut, SeesCancel
    <3>3. QED BY <3>1, <3>2
  <2>2. QED BY <1>2, <2>1
<1>5. QED BY <1>3, <1>4

\* d was let through by an "always" whose rule covers c.
Covers(d, c) ==
  /\ d < c /\ stage[d] = "ran" /\ by[d].reply = "always"
  /\ ToolOf[Cmd(d)] = ToolOf[Cmd(c)]
  /\ ToolOf[Cmd(d)] \in ShellTools => Cmd(c) \in Globs[Cmd(d)]

LEMMA CoversStays ==
  ASSUME TypeOK, [Next]_vars, NEW d \in Call, NEW c \in Call, Covers(d, c)
  PROVE  Covers(d, c)'
<1>1. stage[d] = "ran"  BY DEF Covers
<1>2. stage'[d] = "ran" /\ by'[d] = by[d] /\ Cmd(d)' = Cmd(d)  BY <1>1, RanStays
<1>3. turn' = turn  BY TurnStays
<1>4. Cmd(c)' = Cmd(c)  BY <1>3 DEF Cmd
<1>5. QED BY <1>2, <1>4 DEF Covers

\* A call that runs unasked where the turn would have asked has a rule.
LEMMA RunsCovered ==
  ASSUME Queue, RulesAreAnswered, NEW c \in Call, RunsUnasked(c),
         Decision(Manager(turn, {}, [t \in Tools |-> 0]), FALSE, Cmd(c)) # "allow"
  PROVE  \E d \in Call : Covers(d, c)
<1>1. PICK cmd \in rules : Cmd(c) \in Granted(cmd)
  BY AllowedIsGranted DEF RunsUnasked, Queue
<1>2. PICK d \in Call : Cmd(d) = cmd /\ stage[d] = "ran" /\ by[d].reply = "always"
  BY DEF RulesAreAnswered
<1>3. stage[c] = "todo"  BY DEF RunsUnasked, PassesGuards, MayStart
<1>4. d < c
  <2>1. c # d /\ c \in Int /\ d \in Int  BY <1>2, <1>3 DEF Call
  <2>2. ~(c < d)  BY <1>2, <1>3 DEF Queue, InOrder, Over
  <2>3. QED BY <2>1, <2>2
<1>5. ToolOf[Cmd(d)] = ToolOf[Cmd(c)]  BY <1>1, <1>2 DEF Granted, SameTool
<1>6. ToolOf[Cmd(d)] \in ShellTools => Cmd(c) \in Globs[Cmd(d)]  BY <1>1, <1>2 DEF Granted
<1>7. QED BY <1>2, <1>4, <1>5, <1>6 DEF Covers

LEMMA StepRulesCome ==
  ASSUME Queue, RulesAreAnswered, RulesComeFromAnswers, [Next]_vars
  PROVE  RulesComeFromAnswers'
<1> TypeOK  BY DEF Queue
<1>1. turn' = turn  BY TurnStays
<1>2. ASSUME NEW c \in Call, stage'[c] = "ran", by'[c] = NoAnswer,
             Decision(Manager(turn, {}, [t \in Tools |-> 0]), FALSE, Cmd(c)) # "allow"
      PROVE  \E d \in Call : Covers(d, c)'
  <2>1. CASE stage[c] = "ran"
    <3>1. by[c] = NoAnswer  BY <1>2, <2>1, RanStays
    <3>2. PICK d \in Call : Covers(d, c)
      BY <1>2, <2>1, <3>1 DEF RulesComeFromAnswers, Covers
    <3>3. QED BY <3>2, CoversStays
  <2>2. CASE stage[c] # "ran"
    <3>1. PICK e \in Call : Starts(e) \/ Ends(e)
      BY <1>2, <2>2, OthersMoveNothing DEF callVars
    <3>2. e = c  BY <1>2, <2>2, <3>1, EngineMoves
    <3>3. ~(LetsThrough(c) \/ IsDenied(c))
      <4>1. SUFFICES ASSUME TakesAnswer(c) PROVE FALSE  BY <3>1, <3>2, EngineAnswers
      <4>2. by'[c] \in Answer  BY <4>1, TakenAnswer
      <4>3. \A a \in Answer : a.card # NoCall  BY CallsAssumption DEF Answer, Call, NoCall
      <4>4. QED BY <1>2, <4>2, <4>3 DEF NoAnswer
    <3>4. ~TimesOut(c) /\ ~SeesCancel(c) /\ ~Asks(c)
      BY <1>2, <3>1, <3>2, EngineAnswers
    <3>5. ~GuardRefuses(c) /\ ~Refuses(c)
      BY <1>2, BecomesTyped DEF GuardRefuses, Refuses, Over
    <3>6. RunsUnasked(c)  BY <3>1, <3>2, <3>3, <3>4, <3>5 DEF Starts, Ends
    <3>7. PICK d \in Call : Covers(d, c)  BY <1>2, <3>6, RunsCovered
    <3>8. QED BY <3>7, CoversStays
  <2>3. QED BY <2>1, <2>2
<1>3. \A c \in Call :
        /\ stage'[c] = "ran" /\ by'[c] = NoAnswer
        /\ Decision(Manager(turn, {}, [t \in Tools |-> 0]), FALSE, Cmd(c)) # "allow"
        => \E d \in Call : Covers(d, c)'
  BY <1>2
<1>4. QED BY <1>1, <1>3 DEF RulesComeFromAnswers, Covers, Cmd

LEMMA InitRules == Init => RulesInv
BY DEF Init, RulesInv, RulesAreAnswered, RulesComeFromAnswers

\* A call that answers of this turn let run unasked is covered by the rule of a
\* call before it that an "always" let through, and by no wider one.
THEOREM RulesAreAnswers == Spec => []RulesComeFromAnswers
<1>1. Queue /\ RulesInv /\ [Next]_vars => RulesInv'
  BY StepRulesAnswered, StepRulesCome DEF RulesInv, Queue
<1>2. RulesInv => RulesComeFromAnswers  BY DEF RulesInv
<1>3. QED BY <1>1, <1>2, InitRules, QueueHolds, PTL DEF Spec

-----------------------------------------------------------------------------
(* What the files of a repository can do. *)

\* One rule in a repository with files, and in one without.
Tighter(a, b) ==
  /\ a.source = b.source /\ a.behavior = b.behavior
  /\ b.covers \subseteq a.covers
  /\ a.covers # b.covers => a.behavior = "deny" /\ a.source # Managed

TighterList(s, r) ==
  /\ s \in Seq(AnyRule) /\ r \in Seq(AnyRule) /\ Len(s) = Len(r)
  /\ \A i \in 1 .. Len(s) : Tighter(s[i], r[i])

LEMMA TighterItself ==
  ASSUME NEW s \in Seq(AnyRule)
  PROVE  TighterList(s, s)
BY DEF TighterList, Tighter

LEMMA TighterConcat ==
  ASSUME NEW s, NEW r, NEW u, NEW v, TighterList(s, r), TighterList(u, v)
  PROVE  TighterList(s \o u, r \o v)
<1>1. /\ s \in Seq(AnyRule) /\ r \in Seq(AnyRule) /\ u \in Seq(AnyRule) /\ v \in Seq(AnyRule)
      /\ Len(s) = Len(r) /\ Len(u) = Len(v)
      /\ Len(s) \in Nat /\ Len(u) \in Nat
  BY LenProperties DEF TighterList
<1>2. /\ s \o u \in Seq(AnyRule) /\ r \o v \in Seq(AnyRule)
      /\ Len(s \o u) = Len(s) + Len(u) /\ Len(r \o v) = Len(s) + Len(u)
      /\ \A i \in 1 .. Len(s) + Len(u) :
           /\ (s \o u)[i] = IF i <= Len(s) THEN s[i] ELSE u[i - Len(s)]
           /\ (r \o v)[i] = IF i <= Len(s) THEN r[i] ELSE v[i - Len(s)]
  <2>1. /\ s \o u \in Seq(AnyRule) /\ Len(s \o u) = Len(s) + Len(u)
        /\ \A i \in 1 .. Len(s) + Len(u) :
             (s \o u)[i] = IF i <= Len(s) THEN s[i] ELSE u[i - Len(s)]
    BY <1>1, ConcatProperties
  <2>2. /\ r \o v \in Seq(AnyRule) /\ Len(r \o v) = Len(r) + Len(v)
        /\ \A i \in 1 .. Len(r) + Len(v) :
             (r \o v)[i] = IF i <= Len(r) THEN r[i] ELSE v[i - Len(r)]
    BY <1>1, ConcatProperties
  <2>3. QED BY <1>1, <2>1, <2>2
<1>3. ASSUME NEW i \in 1 .. Len(s) + Len(u) PROVE Tighter((s \o u)[i], (r \o v)[i])
  <2>1. CASE i <= Len(s)
    <3>1. i \in 1 .. Len(s)  BY <1>1, <2>1
    <3>2. QED BY <1>2, <2>1, <3>1 DEF TighterList
  <2>2. CASE ~(i <= Len(s))
    <3>1. i - Len(s) \in 1 .. Len(u)  BY <1>1, <2>2
    <3>2. QED BY <1>2, <2>2, <3>1 DEF TighterList
  <2>3. QED BY <2>1, <2>2
<1>4. QED BY <1>2, <1>3 DEF TighterList

Nothing == [allow |-> {}, ask |-> {}, deny |-> {}]

\* The rules of a repository's file against none.
LEMMA TighterLayer ==
  ASSUME NEW source \in {Project, Local}, NEW layer \in Layer
  PROVE  TighterList(LayerRules(source, Tightening(layer)), LayerRules(source, Tightening(Nothing)))
<1> DEFINE s == LayerRules(source, Tightening(layer))
<1> DEFINE r == LayerRules(source, Tightening(Nothing))
<1>1. source \in 0 .. 4 /\ source # Managed  BY DEF Project, Local, Managed
<1>2. Nothing \in Layer  BY DEF Nothing, Layer
<1>3. s \in Seq(AnyRule) /\ r \in Seq(AnyRule)
  BY <1>1, <1>2, TighteningTyped, LayerRulesTyped
<1>4. layer.deny \in SUBSET Commands  BY DEF Layer
<1>5. /\ s = <<Rule(source, "allow", {}), Rule(source, "ask", {}), Rule(source, "deny", layer.deny)>>
      /\ r = <<Rule(source, "allow", {}), Rule(source, "ask", {}), Rule(source, "deny", {})>>
  BY DEF LayerRules, Tightening, Nothing
<1> HIDE DEF s, r
<1>6. /\ Tighter(Rule(source, "allow", {}), Rule(source, "allow", {}))
      /\ Tighter(Rule(source, "ask", {}), Rule(source, "ask", {}))
      /\ Tighter(Rule(source, "deny", layer.deny), Rule(source, "deny", {}))
  BY <1>1, <1>4, RuleTyped DEF Tighter
<1>7. Len(s) = 3 /\ Len(r) = 3  BY <1>5
<1>8. ASSUME NEW i \in 1 .. 3 PROVE Tighter(s[i], r[i])
  <2>1. i = 1 \/ i = 2 \/ i = 3  OBVIOUS
  <2>2. /\ s[1] = Rule(source, "allow", {}) /\ r[1] = Rule(source, "allow", {})
        /\ s[2] = Rule(source, "ask", {}) /\ r[2] = Rule(source, "ask", {})
        /\ s[3] = Rule(source, "deny", layer.deny) /\ r[3] = Rule(source, "deny", {})
    BY <1>5
  <2>3. QED BY <1>6, <2>1, <2>2
<1>9. QED BY <1>3, <1>7, <1>8 DEF TighterList, s, r

LEMMA ElsewhereTyped ==
  ASSUME turn \in Turn
  PROVE  /\ Elsewhere \in Turn
         /\ Elsewhere.mode = turn.mode /\ Elsewhere.listed = turn.listed
         /\ Elsewhere.user = turn.user /\ Elsewhere.managed = turn.managed
         /\ Elsewhere.kept = turn.kept
         /\ Elsewhere.project = Nothing /\ Elsewhere.local = Nothing
BY DEF Elsewhere, Turn, Layer, Nothing

LEMMA TighterManager ==
  ASSUME TypeOK
  PROVE  TighterList(Manager(turn, rules, denials).rules, Manager(Elsewhere, rules, denials).rules)
<1> DEFINE C == ConfigRules(turn)
<1> DEFINE D == ConfigRules(Elsewhere)
<1> DEFINE s == Manager(turn, rules, denials).rules
<1> DEFINE r == Manager(Elsewhere, rules, denials).rules
<1>1. /\ turn \in Turn /\ rules \in SUBSET Commands /\ Elsewhere \in Turn
      /\ Elsewhere.listed = turn.listed /\ Elsewhere.user = turn.user
      /\ Elsewhere.managed = turn.managed /\ Elsewhere.kept = turn.kept
      /\ Elsewhere.project = Nothing /\ Elsewhere.local = Nothing
  BY TurnTyped, ElsewhereTyped
<1>2. TighterList(C, D)
  <2> DEFINE a == <<Rule(User, "ask", turn.listed)>>
  <2> DEFINE b == LayerRules(User, turn.user)
  <2> DEFINE c == LayerRules(Managed, turn.managed)
  <2> DEFINE p == LayerRules(Project, Tightening(turn.project))
  <2> DEFINE q == LayerRules(Project, Tightening(Nothing))
  <2> DEFINE l == LayerRules(Local, Tightening(turn.local))
  <2> DEFINE n == LayerRules(Local, Tightening(Nothing))
  <2>1. C = a \o b \o c \o p \o l /\ D = a \o b \o c \o q \o n  BY <1>1 DEF ConfigRules
  <2>2. /\ turn.listed \in SUBSET Commands
        /\ turn.user \in Layer /\ turn.managed \in Layer
        /\ turn.project \in Layer /\ turn.local \in Layer
    BY <1>1 DEF Turn
  <2>3. User \in 0 .. 4 /\ Managed \in 0 .. 4  BY DEF User, Managed
  <2>4. a \in Seq(AnyRule)
    <3>1. Rule(User, "ask", turn.listed) \in AnyRule  BY <2>2, <2>3, RuleTyped
    <3>2. QED BY <3>1
  <2>5. b \in Seq(AnyRule) /\ c \in Seq(AnyRule)  BY <2>2, <2>3, LayerRulesTyped
  <2>6. TighterList(a, a) /\ TighterList(b, b) /\ TighterList(c, c)
    BY <2>4, <2>5, TighterItself
  <2>7. TighterList(p, q) /\ TighterList(l, n)  BY <2>2, TighterLayer
  <2> HIDE DEF C, D, a, b, c, p, q, l, n
  <2>8. TighterList(a \o b, a \o b)  BY <2>6, TighterConcat
  <2>9. TighterList(a \o b \o c, a \o b \o c)  BY <2>6, <2>8, TighterConcat
  <2>10. TighterList(a \o b \o c \o p, a \o b \o c \o q)  BY <2>7, <2>9, TighterConcat
  <2>11. TighterList(a \o b \o c \o p \o l, a \o b \o c \o q \o n)
    BY <2>7, <2>10, TighterConcat
  <2>12. QED BY <2>1, <2>11
<1>3. /\ s \in Seq(AnyRule) /\ Len(C) \in Nat /\ DOMAIN C = 1 .. Len(C)
      /\ DOMAIN s = 1 .. Len(C) + 1
      /\ \A i \in DOMAIN C : s[i] = C[i]
      /\ s[Len(C) + 1] = Rule(Session, "allow", Allowed(turn.kept, rules))
  BY <1>1, ManagerRules
<1>4. /\ r \in Seq(AnyRule) /\ DOMAIN D = 1 .. Len(D)
      /\ DOMAIN r = 1 .. Len(D) + 1
      /\ \A i \in DOMAIN D : r[i] = D[i]
      /\ r[Len(D) + 1] = Rule(Session, "allow", Allowed(turn.kept, rules))
  BY <1>1, ManagerRules
<1> HIDE DEF C, D, s, r
<1>5. Len(C) = Len(D)  BY <1>2 DEF TighterList
<1>6. Len(s) = Len(C) + 1 /\ Len(r) = Len(C) + 1
  <2>1. DOMAIN s = 1 .. Len(s) /\ Len(s) \in Nat /\ DOMAIN r = 1 .. Len(r) /\ Len(r) \in Nat
    BY <1>3, <1>4, LenProperties
  <2>2. QED BY <1>3, <1>4, <1>5, <2>1
<1>7. ASSUME NEW i \in 1 .. Len(C) + 1 PROVE Tighter(s[i], r[i])
  <2>1. CASE i = Len(C) + 1  BY <1>3, <1>4, <1>5, <2>1 DEF Tighter
  <2>2. CASE i # Len(C) + 1
    <3>1. i \in 1 .. Len(C)  BY <1>3, <2>2
    <3>2. s[i] = C[i] /\ r[i] = D[i]  BY <1>3, <1>4, <1>5, <3>1
    <3>3. QED BY <1>2, <3>1, <3>2 DEF TighterList
  <2>3. QED BY <2>1, <2>2
<1>8. TighterList(s, r)  BY <1>3, <1>4, <1>6, <1>7 DEF TighterList
<1>9. QED BY <1>8 DEF s, r

\* With the tighter list the manager says the same, or denies.
LEMMA TighterExplained ==
  ASSUME NEW m, NEW n, NEW cmd, m.mode = n.mode, m.denials = n.denials,
         TighterList(m.rules, n.rules)
  PROVE  Explain(m, cmd) = Explain(n, cmd) \/ Explain(m, cmd).action = "deny"
<1> DEFINE s == m.rules
<1> DEFINE r == n.rules
<1> DEFINE X == Matching(s, cmd)
<1> DEFINE Z == Matching(r, cmd)
<1> DEFINE Y == ManagedRules(s, cmd)
<1>0. s \in Seq(AnyRule) /\ r \in Seq(AnyRule) /\ DOMAIN s = DOMAIN r /\ DOMAIN s = 1 .. Len(s)
  <2>1. s \in Seq(AnyRule) /\ r \in Seq(AnyRule) /\ Len(s) = Len(r)  BY DEF TighterList
  <2>2. DOMAIN s = 1 .. Len(s) /\ DOMAIN r = 1 .. Len(r)  BY <2>1, LenProperties
  <2>3. QED BY <2>1, <2>2
<1>1. /\ \A i \in DOMAIN s : s[i].source = r[i].source /\ s[i].behavior = r[i].behavior
      /\ \A i \in DOMAIN s : cmd \in r[i].covers => cmd \in s[i].covers
      /\ \A i \in DOMAIN s : cmd \in s[i].covers /\ cmd \notin r[i].covers =>
                              s[i].behavior = "deny" /\ s[i].source # Managed
  BY <1>0 DEF TighterList, Tighter
<1>2. Alike(s, r)  BY <1>0, <1>1 DEF Alike
<1>3. X \subseteq DOMAIN s /\ Y \subseteq DOMAIN s /\ Z \subseteq X
      /\ \A i \in X : i \notin Z => s[i].behavior = "deny"
  BY <1>0, <1>1 DEF Matching, ManagedRules
<1>4. ManagedRules(r, cmd) = Y  BY <1>0, <1>1 DEF Matching, ManagedRules
<1>5. Y # {} => ByRule(FirstOf(s, Y)) = ByRule(FirstOf(r, Y))  BY <1>2, <1>3, SameFirst
<1>6. ASSUME X # {}
      PROVE  \/ ByRule(FirstOf(s, X)).action = "deny"
             \/ Z # {} /\ ByRule(FirstOf(s, X)) = ByRule(FirstOf(r, Z))
  <2>1. PICK i \in X : Foremost(s, X) = {i} /\ FirstOf(s, X) = s[i]
    BY <1>0, <1>3, <1>6, FirstIsOne
  <2>2. CASE s[i].behavior = "deny"
    <3>1. Verdict(s[i]) = "deny"  BY <2>2 DEF Verdict
    <3>2. ByRule(s[i]).action = Verdict(s[i])  BY DEF ByRule
    <3>3. FirstOf(s, X) = s[i]  BY <2>1
    <3>4. QED BY <3>1, <3>2, <3>3
  <2>3. CASE s[i].behavior # "deny"
    <3>1. i \in Z  BY <1>3, <2>3
    <3>2. Z # {} /\ Z \subseteq DOMAIN r  BY <1>0, <1>3, <3>1
    <3>3. PICK j \in Z : Foremost(r, Z) = {j} /\ FirstOf(r, Z) = r[j]
      BY <1>0, <3>2, FirstIsOne
    <3>4. \A k \in X : Ahead(s, i, k)  BY <2>1 DEF Foremost
    <3>5. \A k \in Z : Ahead(r, i, k)  BY <1>1, <1>3, <3>1, <3>4 DEF Ahead
    <3>6. i \in Foremost(r, Z)  BY <3>1, <3>5 DEF Foremost
    <3>7. i = j  BY <3>3, <3>6
    <3>8. s[i].behavior = r[i].behavior  BY <1>1, <1>3
    <3>9. QED BY <2>1, <3>2, <3>3, <3>7, <3>8 DEF ByRule, Verdict
  <2>4. QED BY <2>2, <2>3
<1> HIDE DEF X, Y, Z
<1>7. ShouldAutoSkip(m, ToolOf[cmd]) <=> ShouldAutoSkip(n, ToolOf[cmd])  BY DEF ShouldAutoSkip
<1>8. WithoutMode(m, cmd) = WithoutMode(n, cmd) \/ WithoutMode(m, cmd).action = "deny"
  <2>1. CASE X = {}
    <3>1. Z = {}  BY <1>3, <2>1
    <3>2. QED BY <1>7, <2>1, <3>1 DEF WithoutMode, X, Z
  <2>2. CASE X # {}
    <3>1. CASE ShouldAutoSkip(m, ToolOf[cmd])  BY <1>7, <3>1 DEF WithoutMode
    <3>2. CASE ~ShouldAutoSkip(m, ToolOf[cmd])
      <4>1. WithoutMode(m, cmd) = ByRule(FirstOf(s, X))  BY <2>2, <3>2 DEF WithoutMode, X
      <4>2. Z # {} => WithoutMode(n, cmd) = ByRule(FirstOf(r, Z))
        BY <1>7, <3>2 DEF WithoutMode, Z
      <4>3. QED BY <1>6, <2>2, <4>1, <4>2
    <3>3. QED BY <3>1, <3>2
  <2>3. QED BY <2>1, <2>2
<1>9. QED BY <1>4, <1>5, <1>8 DEF Explain, Y

\* The manager allows, denies or asks.
LEMMA ExplainedTyped ==
  ASSUME NEW m, NEW cmd, m.rules \in Seq(AnyRule)
  PROVE  Explain(m, cmd).action \in {"allow", "confirm", "deny"}
<1> DEFINE s == m.rules
<1> DEFINE Said == {"allow", "confirm", "deny"}
<1>1. ASSUME NEW X \in SUBSET DOMAIN s, X # {} PROVE ByRule(FirstOf(s, X)).action \in Said
  <2>1. PICK i \in X : FirstOf(s, X) = s[i]  BY <1>1, FirstIsOne
  <2>2. s[i] \in AnyRule  BY ElementOfSeq
  <2>3. s[i].behavior \in {"allow", "ask", "deny"}  BY <2>2 DEF AnyRule
  <2>4. QED BY <2>1, <2>3 DEF ByRule, Verdict
<1>2. ModeSays(m.mode, cmd) # "none" => NoRule(ModeSays(m.mode, cmd)).action \in Said
  BY DEF ModeSays, NoRule, Classified
<1>3. Matching(s, cmd) \in SUBSET DOMAIN s /\ ManagedRules(s, cmd) \in SUBSET DOMAIN s
  BY DEF Matching, ManagedRules
<1>4. WithoutMode(m, cmd).action \in Said
  BY <1>1, <1>3 DEF WithoutMode, NoRule
<1>5. QED BY <1>1, <1>2, <1>3, <1>4 DEF Explain

\* Files in a repository only tighten what is decided, for any command and at any
\* moment of any turn.
THEOREM RepositoriesTighten == Spec => []RepositoryOnlyTightens
<1>1. TypeOK => RepositoryOnlyTightens
  <2> SUFFICES ASSUME TypeOK, NEW cmd \in Commands
               PROVE  Rank[Decision(Manager(turn, rules, denials), planning, cmd)]
                        <= Rank[Decision(Manager(Elsewhere, rules, denials), planning, cmd)]
    BY DEF RepositoryOnlyTightens
  <2> DEFINE m == Manager(turn, rules, denials)
  <2> DEFINE n == Manager(Elsewhere, rules, denials)
  <2>1. m.mode = n.mode /\ m.denials = n.denials
    BY TurnTyped, ElsewhereTyped DEF Manager
  <2>2. TighterList(m.rules, n.rules)  BY TighterManager
  <2>3. m.rules \in Seq(AnyRule) /\ n.rules \in Seq(AnyRule)  BY <2>2 DEF TighterList
  <2> HIDE DEF m, n
  <2>4. \/ Explain(m, cmd) = Explain(n, cmd)
        \/ Explain(m, cmd).action = "deny"
    BY <2>1, <2>2, TighterExplained
  <2>5. /\ Explain(m, cmd).action \in {"allow", "confirm", "deny"}
        /\ Explain(n, cmd).action \in {"allow", "confirm", "deny"}
    BY <2>3, ExplainedTyped
  <2>6. /\ Decision(m, planning, cmd) \in {"allow", "confirm", "deny"}
        /\ Decision(n, planning, cmd) \in {"allow", "confirm", "deny"}
    BY <2>5 DEF Decision
  <2>7. \/ Decision(m, planning, cmd) = Decision(n, planning, cmd)
        \/ Decision(m, planning, cmd) = "deny"
    BY <2>1, <2>4 DEF Decision, FloorAsks
  <2>8. Rank["deny"] = 0 /\ Rank["confirm"] = 1 /\ Rank["allow"] = 2  BY DEF Rank
  <2>9. Rank[Decision(m, planning, cmd)] <= Rank[Decision(n, planning, cmd)]
    BY <2>6, <2>7, <2>8
  <2>10. QED BY <2>9 DEF m, n
<1>2. QED BY <1>1, ConfirmationTypesHold, PTL

-----------------------------------------------------------------------------
(* Denials. *)

\* Where nothing decides before the denials are counted, a command is asked about
\* only if its tool has not been denied too often.
LEMMA AskedIsBelow ==
  ASSUME TypeOK, NEW c \in Call, Decided(c) = "confirm", ~DecidedBefore(Cmd(c))
  PROVE  ~(denials[ToolOf[Cmd(c)]] >= Threshold[ToolOf[Cmd(c)]])
<1> DEFINE cmd == Cmd(c)
<1> DEFINE m == Manager(turn, rules, denials)
<1>1. m.mode = turn.mode /\ m.denials = denials  BY DEF Manager
<1>2. ManagedRules(m.rules, cmd) = {}
  BY TurnTyped, ManagedAreOfConfig DEF DecidedBefore
<1>3. turn.mode \in {"default", "acceptedits"}  BY DEF DecidedBefore
<1>4. Decision(m, planning, cmd) = "confirm"  BY DEF Decided
<1> HIDE DEF m, cmd
<1>5. ModeSays(m.mode, cmd) \in {"none", "allow"}  BY <1>1, <1>3 DEF ModeSays
<1>6. ModeSays(m.mode, cmd) = "none"
  <2> SUFFICES ASSUME ModeSays(m.mode, cmd) = "allow" PROVE FALSE  BY <1>5
  <2>1. m.mode = "acceptedits"  BY <1>1, <1>3 DEF ModeSays
  <2>2. Explain(m, cmd) = NoRule("allow")  BY <1>2 DEF Explain
  <2>3. Explain(m, cmd).action = "allow"  BY <2>2 DEF NoRule
  <2>4. ~FloorAsks(m.mode, Explain(m, cmd), cmd)  BY <2>1 DEF FloorAsks
  <2>5. QED BY <1>4, <2>3, <2>4 DEF Decision
<1>7. ~ShouldAutoSkip(m, ToolOf[cmd])  BY <1>2, <1>4, <1>6, SkippedIsNotAllowed
<1>8. QED BY <1>1, <1>7 DEF ShouldAutoSkip, cmd

\* The recent denials of a tool, and those of them before a call.
Fresh(t) == {d \in DeniedCalls(t) : aged < d}

Before(c) == {d \in DeniedCalls(ToolOf[Cmd(c)]) : aged < d /\ d < c}

\* What a tool was denied recently is counted.
Counted == \A t \in Tools : Cardinality(Fresh(t)) <= denials[t]

\* A set of calls has a size, and its subsets have no greater one.
LEMMA CallsCounted ==
  ASSUME NEW A \in SUBSET Call, NEW B \in SUBSET A
  PROVE  /\ IsFiniteSet(A) /\ Cardinality(A) \in Nat /\ Cardinality(B) \in Nat
         /\ Cardinality(B) <= Cardinality(A)
<1>1. IsFiniteSet(1 .. Calls)  BY CallsAssumption, FS_Interval
<1>2. IsFiniteSet(A)  BY <1>1, FS_Subset DEF Call
<1>3. IsFiniteSet(B) /\ Cardinality(B) <= Cardinality(A)  BY <1>2, FS_Subset
<1>4. QED BY <1>2, <1>3, FS_CardinalityType

LEMMA OneCallMore ==
  ASSUME NEW A \in SUBSET Call, NEW d \in Call, NEW B \in SUBSET (A \cup {d}), NEW n \in Nat,
         Cardinality(A) <= n
  PROVE  Cardinality(B) <= n + 1
<1>1. IsFiniteSet(A)  BY CallsCounted
<1>2. Cardinality(A \cup {d}) = IF d \in A THEN Cardinality(A) ELSE Cardinality(A) + 1
  BY <1>1, FS_AddElement
<1>3. Cardinality(B) <= Cardinality(A \cup {d}) /\ Cardinality(B) \in Nat
      /\ Cardinality(A \cup {d}) \in Nat
  BY CallsCounted
<1>4. PICK x \in Nat : x = Cardinality(A)  BY CallsCounted
<1>5. PICK y \in Nat : y = Cardinality(B)  BY <1>3
<1>6. PICK z \in Nat : z = Cardinality(A \cup {d}) /\ (z = x \/ z = x + 1)  BY <1>2, <1>3, <1>4
<1>7. x <= n  BY <1>4
<1>8. y <= z  BY <1>3, <1>5, <1>6
<1>9. y <= n + 1  BY <1>6, <1>7, <1>8
<1>10. QED BY <1>5, <1>9

\* Time goes on.
LEMMA AgedGrows ==
  ASSUME TypeOK, TypeOK', [Next]_vars
  PROVE  \A d \in Call : aged' < d => aged < d
<1>1. aged' = aged \/ \E d \in Call : d > aged /\ aged' = d
  <2>1. CASE UNCHANGED vars  BY <2>1 DEF vars, engineVars
  <2>2. CASE EngineStep
    BY <2>2 DEF EngineStep, GuardRefuses, RunsUnasked, Refuses, Asks, LetsThrough, IsDenied,
                TakesAnswer, TimesOut, SeesCancel
  <2>3. CASE HalfAnHourPasses  BY <2>3 DEF HalfAnHourPasses
  <2>4. CASE ShowsCard  BY <2>4 DEF ShowsCard, engineVars
  <2>5. CASE \E r \in Reply : SendsReply(r)  BY <2>5 DEF SendsReply, engineVars
  <2>6. CASE \E answer \in responding : FinishesReply(answer)
    BY <2>6 DEF FinishesReply, engineVars
  <2>7. CASE Cancels  BY <2>7 DEF Cancels, engineVars
  <2>8. QED BY <2>1, <2>2, <2>3, <2>4, <2>5, <2>6, <2>7 DEF Next
<1>2. aged \in Nat /\ aged' \in Nat  BY CallsAssumption DEF TypeOK, Call, NoCall
<1>3. Call \subseteq Nat  BY CallsAssumption DEF Call
<1>4. QED BY <1>1, <1>2, <1>3

\* A call comes to be denied by its user only.
LEMMA DeniedByUser ==
  ASSUME TypeOK, [Next]_vars, NEW d \in Call, stage'[d] = "denied", stage[d] # "denied"
  PROVE  IsDenied(d)
<1>1. PICK e \in Call : Starts(e) \/ Ends(e)  BY OthersMoveNothing DEF callVars
<1>2. e = d  BY <1>1, EngineMoves
<1>3. QED
  BY <1>1, <1>2, BecomesTyped
     DEF Starts, Ends, GuardRefuses, RunsUnasked, Refuses, Asks, LetsThrough, TimesOut,
         SeesCancel, Over

\* What is recent was so before, but for the call that is being denied.
LEMMA FreshStep ==
  ASSUME TypeOK, TypeOK', [Next]_vars, NEW t, NEW d \in Fresh(t)'
  PROVE  d \in Fresh(t) \/ (IsDenied(d) /\ ToolOf[Cmd(d)] = t)
<1>1. turn' = turn  BY TurnStays
<1>2. d \in Call /\ stage'[d] = "denied" /\ ToolOf[Cmd(d)] = t /\ aged' < d
  BY <1>1 DEF Fresh, DeniedCalls, Cmd
<1>3. aged < d  BY <1>2, AgedGrows
<1>4. QED BY <1>2, <1>3, DeniedByUser DEF Fresh, DeniedCalls

\* What a step does to the count of a tool.
LEMMA CountStep ==
  ASSUME TypeOK, [Next]_vars, NEW t \in Tools
  PROVE  \/ \E d \in Call : /\ IsDenied(d) /\ ToolOf[Cmd(d)] = t
                            /\ denials'[t] = denials[t] + 1
         \/ /\ ~ \E d \in Call : IsDenied(d) /\ ToolOf[Cmd(d)] = t
            /\ denials'[t] = denials[t] \/ (t \in Expired /\ denials'[t] = 0)
<1>1. ASSUME NEW d \in Call, IsDenied(d)
      PROVE  IF ToolOf[Cmd(d)] = t THEN denials'[t] = denials[t] + 1
             ELSE denials'[t] = denials[t] \/ (t \in Expired /\ denials'[t] = 0)
  <2>1. denials' = AfterDenial(denials, ToolOf[Cmd(d)], Expired)  BY <1>1 DEF IsDenied
  <2>2. QED BY <2>1 DEF AfterDenial, Forgotten
<1>2. ASSUME NEW d \in Call, IsDenied(d), NEW e \in Call, IsDenied(e)
      PROVE  e = d
  <2>1. Ends(d) /\ Ends(e)  BY <1>2 DEF Ends
  <2>2. stage[e] = "asking" /\ stage'[e] \in Over  BY <2>1, EngineMoves
  <2>3. QED BY <2>1, <2>2, EngineMoves DEF Over
<1>3. ASSUME NEW c \in Call, Starts(c) \/ Ends(c), ~IsDenied(c)
      PROVE  denials'[t] = denials[t] \/ (t \in Expired /\ denials'[t] = 0)
  <2>1. \/ denials' = denials
        \/ denials' = AfterRefusal(denials, ToolOf[Cmd(c)], Expired)
    BY <1>3 DEF Starts, Ends, GuardRefuses, RunsUnasked, Refuses, Asks, LetsThrough, TimesOut,
                SeesCancel
  <2>2. QED BY <2>1 DEF AfterRefusal, Forgotten
<1>4. CASE ~ \E c \in Call : Starts(c) \/ Ends(c)
  <2>1. denials' = denials  BY <1>4, OthersMoveNothing DEF callVars
  <2>2. ~ \E d \in Call : IsDenied(d)  BY <1>4 DEF Ends
  <2>3. QED BY <2>1, <2>2
<1>5. CASE \E d \in Call : IsDenied(d)
  <2>1. PICK d \in Call : IsDenied(d)  BY <1>5
  <2>2. QED BY <1>1, <1>2, <2>1
<1>6. QED BY <1>3, <1>4, <1>5

LEMMA StepCounted ==
  ASSUME TypeOK, Counted, [Next]_vars
  PROVE  Counted'
<1> TypeOK'  BY NextTyped
<1> SUFFICES ASSUME NEW t \in Tools PROVE Cardinality(Fresh(t)') <= denials'[t]
  BY DEF Counted
<1>1. Fresh(t) \subseteq Call /\ Fresh(t)' \subseteq Call  BY DEF Fresh, DeniedCalls
<1>2. Cardinality(Fresh(t)) <= denials[t] /\ denials[t] \in Nat  BY DEF Counted, TypeOK
<1>3. ASSUME NEW d \in Call, IsDenied(d), ToolOf[Cmd(d)] = t, denials'[t] = denials[t] + 1
      PROVE  Cardinality(Fresh(t)') <= denials'[t]
  <2>1. ASSUME NEW e \in Call, IsDenied(e) PROVE e = d
    <3>1. Ends(d) /\ Ends(e)  BY <1>3, <2>1 DEF Ends
    <3>2. stage[e] = "asking" /\ stage'[e] \in Over  BY <3>1, EngineMoves
    <3>3. QED BY <3>1, <3>2, EngineMoves DEF Over
  <2>2. Fresh(t)' \subseteq Fresh(t) \cup {d}  BY <1>1, <2>1, FreshStep
  <2>3. Cardinality(Fresh(t)') <= denials[t] + 1  BY <1>1, <1>2, <2>2, OneCallMore
  <2>4. QED BY <1>3, <2>3
<1>4. CASE ~ \E d \in Call : IsDenied(d) /\ ToolOf[Cmd(d)] = t
  <2>1. Fresh(t)' \subseteq Fresh(t)  BY <1>1, <1>4, FreshStep
  <2>2. CASE denials'[t] = denials[t]
    <3>1. PICK x \in Nat : x = Cardinality(Fresh(t))  BY <1>1, CallsCounted
    <3>2. PICK y \in Nat : y = Cardinality(Fresh(t)') /\ y <= x
      BY <1>1, <2>1, <3>1, CallsCounted
    <3>3. QED BY <1>2, <2>2, <3>1, <3>2
  <2>3. CASE t \in Expired /\ denials'[t] = 0
    <3>1. \A d \in Call : aged \in Int /\ d \in Int
      BY CallsAssumption DEF TypeOK, Call, NoCall
    <3>2. Fresh(t) = {}  BY <2>3, <3>1 DEF Fresh, Expired, DeniedCalls
    <3>3. Cardinality(Fresh(t)') = 0  BY <2>1, <3>2, FS_EmptySet
    <3>4. QED BY <2>3, <3>3
  <2>4. QED BY <1>4, <2>2, <2>3, CountStep
<1>5. QED BY <1>3, <1>4, CountStep

DenialsInv == Counted /\ DenialsEndTheAsking

\* The property in terms of Before.
LEMMA EndIs ==
  DenialsEndTheAsking <=>
    \A c \in Call :
      (stage[c] = "asking" \/ by[c] # NoAnswer) /\ ~DecidedBefore(Cmd(c)) =>
        Cardinality(Before(c)) < Threshold[ToolOf[Cmd(c)]]
BY DEF DenialsEndTheAsking, Before

LEMMA EndIsNext ==
  DenialsEndTheAsking' <=>
    \A c \in Call :
      (stage'[c] = "asking" \/ by'[c] # NoAnswer) /\ ~DecidedBefore(Cmd(c))' =>
        Cardinality(Before(c)') < Threshold[ToolOf[Cmd(c)']]
BY DEF DenialsEndTheAsking, Before

\* No call before one that was taken up comes to be denied.
LEMMA BeforeShrinks ==
  ASSUME Queue, TypeOK', [Next]_vars, NEW c \in Call,
         stage[c] # "todo" \/ Asks(c)
  PROVE  Before(c)' \subseteq Before(c)
<1> TypeOK  BY DEF Queue
<1>1. turn' = turn  BY TurnStays
<1> SUFFICES ASSUME NEW d \in Before(c)' PROVE d \in Before(c)  OBVIOUS
<1>2. d \in Fresh(ToolOf[Cmd(c)])' /\ d < c /\ d \in Call
  BY DEF Before, Fresh, DeniedCalls
<1>3. ~IsDenied(d)
  <2> SUFFICES ASSUME IsDenied(d) PROVE FALSE  OBVIOUS
  <2>1. stage[d] = "asking" /\ d # c  BY <1>2 DEF IsDenied, TakesAnswer, Call
  <2>2. CASE stage[c] # "todo"  BY <1>2, <2>1, <2>2 DEF Queue, InOrder, Over
  <2>3. CASE Asks(c)
    <3>1. MayStart(c)  BY <2>3 DEF Asks, PassesGuards
    <3>2. QED BY <1>2, <2>1, <3>1, OneIsAskedAbout
  <2>4. QED BY <2>2, <2>3
<1>4. Cmd(c)' = Cmd(c)  BY <1>1 DEF Cmd
<1>5. d \in Fresh(ToolOf[Cmd(c)])
  <2>1. PICK t : t = ToolOf[Cmd(c)]  OBVIOUS
  <2>2. d \in Fresh(t)'  BY <1>2, <1>4, <2>1 DEF Fresh, DeniedCalls
  <2>3. d \in Fresh(t)  BY <1>3, <2>2, FreshStep
  <2>4. QED BY <2>1, <2>3
<1>6. QED BY <1>2, <1>5 DEF Before, Fresh

LEMMA StepDenialsEnd ==
  ASSUME Channel, DenialsInv, [Next]_vars
  PROVE  DenialsEndTheAsking'
<1> Queue /\ AnsweredIsOver /\ Counted /\ DenialsEndTheAsking /\ TypeOK
  BY DEF Channel, Queue, DenialsInv
<1> TypeOK'  BY NextTyped
<1>1. turn' = turn  BY TurnStays
<1>2. ASSUME NEW c \in Call, stage'[c] = "asking" \/ by'[c] # NoAnswer, ~DecidedBefore(Cmd(c))
      PROVE  Cardinality(Before(c)') < Threshold[ToolOf[Cmd(c)]]
  <2>1. Before(c) \subseteq Call /\ Before(c) \subseteq Fresh(ToolOf[Cmd(c)])
        /\ Fresh(ToolOf[Cmd(c)]) \subseteq Call
    BY DEF Before, Fresh, DeniedCalls
  <2>2. ToolOf[Cmd(c)] \in Tools  BY CommandsTyped DEF TypeOK
  <2>3. PICK z \in Nat : z = Threshold[ToolOf[Cmd(c)]]
    <3>1. Threshold[ToolOf[Cmd(c)]] \in Nat  BY <2>2, ThresholdAssumption
    <3>2. QED BY <3>1
  <2>4. PICK x \in Nat : x = Cardinality(Before(c))  BY <2>1, CallsCounted
  <2>5. CASE stage[c] = "asking" \/ by[c] # NoAnswer
    <3>1. stage[c] # "todo"  BY <2>5 DEF AnsweredIsOver
    <3>2. Before(c)' \subseteq Before(c)  BY <3>1, BeforeShrinks
    <3>3. PICK y \in Nat : y = Cardinality(Before(c)') /\ y <= x
      BY <2>1, <2>4, <3>2, CallsCounted
    <3>4. x < z  BY <1>2, <2>3, <2>4, <2>5, EndIs
    <3>5. y < z  BY <3>3, <3>4
    <3>6. QED BY <2>3, <3>3, <3>5
  <2>6. CASE stage[c] # "asking" /\ by[c] = NoAnswer
    <3>1. PICK e \in Call : Starts(e) \/ Ends(e)
      BY <1>2, <2>6, OthersMoveNothing DEF callVars
    <3>2. by'[c] = by[c]
      <4>1. CASE LetsThrough(e) \/ IsDenied(e)
        <5>1. TakesAnswer(e)  BY <3>1, <4>1, EngineAnswers
        <5>2. e # c  BY <2>6, <5>1 DEF TakesAnswer
        <5>3. QED BY <5>1, <5>2, TakenAnswer
      <4>2. CASE ~(LetsThrough(e) \/ IsDenied(e))  BY <3>1, <4>2, EngineAnswers
      <4>3. QED BY <4>1, <4>2
    <3>3. stage'[c] = "asking"  BY <1>2, <2>6, <3>2
    <3>4. e = c /\ ~Ends(c)  BY <2>6, <3>1, <3>3, EngineMoves DEF Over
    <3>5. Starts(c)  BY <3>1, <3>4
    <3>6. Asks(c)
      BY <3>3, <3>5, BecomesTyped DEF Starts, GuardRefuses, RunsUnasked, Refuses, Over
    <3>7. Decided(c) = "confirm"  BY <3>6 DEF Asks
    <3>8. ~(denials[ToolOf[Cmd(c)]] >= Threshold[ToolOf[Cmd(c)]])  BY <1>2, <3>7, AskedIsBelow
    <3>9. Cardinality(Fresh(ToolOf[Cmd(c)])) <= denials[ToolOf[Cmd(c)]]  BY <2>2 DEF Counted
    <3>10. PICK n \in Nat : n = denials[ToolOf[Cmd(c)]]  BY <2>2 DEF TypeOK
    <3>11. PICK f \in Nat : f = Cardinality(Fresh(ToolOf[Cmd(c)])) /\ x <= f
      BY <2>1, <2>4, CallsCounted
    <3>12. Before(c)' \subseteq Before(c)  BY <3>6, BeforeShrinks
    <3>13. PICK y \in Nat : y = Cardinality(Before(c)') /\ y <= x
      BY <2>1, <2>4, <3>12, CallsCounted
    <3>14. f <= n /\ ~(n >= z)  BY <2>3, <3>8, <3>9, <3>10, <3>11
    <3>15. y < z  BY <3>11, <3>13, <3>14
    <3>16. QED BY <2>3, <3>13, <3>15
  <2>7. QED BY <2>5, <2>6
<1>3. \A c \in Call : Cmd(c)' = Cmd(c) /\ (DecidedBefore(Cmd(c))' <=> DecidedBefore(Cmd(c)))
  BY <1>1 DEF Cmd, DecidedBefore
<1>4. QED BY <1>2, <1>3, EndIsNext

LEMMA InitDenials == Init => DenialsInv
<1> SUFFICES ASSUME Init PROVE Counted /\ DenialsEndTheAsking  BY DEF DenialsInv
<1>1. \A d \in Call : stage[d] = "todo" /\ by[d] = NoAnswer  BY DEF Init
<1>2. \A t \in Tools : Fresh(t) = {} /\ denials[t] = 0
  BY <1>1 DEF Init, Fresh, DeniedCalls
<1>3. Counted  BY <1>2, FS_EmptySet DEF Counted
<1>4. DenialsEndTheAsking  BY <1>1 DEF DenialsEndTheAsking
<1>5. QED BY <1>3, <1>4

\* A user who has denied a tool as often as its threshold within the last half
\* hour is not asked about it again, whatever happens in between and whatever is
\* forgotten, after a denial, a refusal or a command that a guard stops.
THEOREM DenialsEnd == Spec => []DenialsEndTheAsking
<1>1. Channel /\ DenialsInv /\ [Next]_vars => DenialsInv'
  BY StepCounted, StepDenialsEnd DEF DenialsInv, Channel, Queue
<1>2. DenialsInv => DenialsEndTheAsking  BY DEF DenialsInv
<1>3. QED BY <1>1, <1>2, InitDenials, ChannelHolds, PTL DEF Spec
===============================================================================

------------------------------ MODULE EngineTurn ------------------------------
(***************************************************************************)
(* The engine's side of a turn: AgentEngine::run_turn_streaming_with_      *)
(* images.  A turn is a loop of steps.  A step sends one request, receives *)
(* the model's answer as a stream, and ends in finalize_stream_turn, which *)
(* answers the user, runs the tool calls and goes round, or gives up.  The *)
(* model (what streams carry, how they fail), the tools, the hooks and the *)
(* user choose freely; the engine runs one turn after the other.           *)
(*                                                                         *)
(* A call is a tool and its arguments, in the form in which the engine     *)
(* compares it with its recent calls.  Text and calls of a stream go to    *)
(* different buffers, so a stream carries its text first.  "Text" includes *)
(* reasoning where both count.                                             *)
(***************************************************************************)
EXTENDS Integers, Sequences, SequencesExt, Selection, ToolRecovery

CONSTANTS
  Edits,         \* calls that change a file when they succeed
  Checks,        \* calls whose success is evidence of a verification
  Observers,     \* calls that may be repeated
  Parallel,      \* calls that only read and that no one needs to confirm
  Questions,     \* calls of ask_user
  MaxToolCalls,  \* budget of a turn: tool calls
  MaxSteps,      \* budget of a turn: requests, 0 for none
  MaxRetries,    \* retries after a failed request
  Window,        \* calls remembered to find duplicates
  MaxCalls,      \* bound: calls of one answer
  MaxTurns       \* bound: turns of the session

ASSUME KindsAssumption ==
  /\ Edits \subseteq Call /\ Checks \subseteq Call
  /\ Observers \subseteq Call /\ Parallel \subseteq Call
  /\ Questions \subseteq Call

ASSUME BudgetsAssumption ==
  /\ MaxToolCalls \in Nat \ {0} /\ MaxSteps \in Nat
  /\ MaxRetries \in Nat \ {0} /\ Window \in Nat \ {0}
  /\ MaxCalls \in Nat \ {0} /\ MaxTurns \in Nat

VARIABLES
  turn,      \* turns begun
  stage,     \* where the turn is
  token,     \* the cancel token
  said,      \* the last event of the turn: "none", "note", "done"
  why,       \* what explains the end of the turn, if this step is the last (ghost)
  step,      \* turn_step_count, where MaxSteps counts it
  buf,       \* StreamTurnBuffers
  attempt,   \* retries of this request
  par,       \* calls of the parallel batch without a result
  seq,       \* calls to handle one by one, the first being handled
  used,      \* tool_call_count
  rec,       \* error counts and recovery_state
  recent,    \* recent_tool_calls
  leaks,     \* violation_retries
  modified,  \* files_modified is not empty
  checked,   \* successful checks of the turn: they ran, or a hook deferred them
  marker,    \* the reminder of the verification gate is in the messages
  tried      \* what is done once per turn: a stop hook's wish, a strip, a compaction

streamVars == <<step, buf, attempt>>
callVars == <<par, seq, used, rec, recent>>
gateVars == <<modified, checked, marker>>
vars == <<turn, stage, token, said, why, streamVars, callVars, leaks, gateVars, tried>>

Stages == {"idle", "top", "stream", "backoff", "restream", "finish", "fallback",
           "calls", "batch", "results", "asking", "busy"}

\* A call as received: whole, or cut off in the middle of its arguments.
Received == [call : Call, whole : BOOLEAN]

Texts == {"", "said", "leak", "leaked call"}

Buffers == [text : Texts, calls : Seq(Received), done : BOOLEAN]

Empty == [text |-> "", calls |-> <<>>, done |-> FALSE]

Nothing(b) == b.text = "" /\ b.calls = <<>>

Tried == {"stop", "strip", "compact"}

Reasons == {"delivered", "told", "cancelled", "recovered", "cut"}

Init ==
  /\ turn = 0 /\ stage = "idle" /\ token = FALSE /\ said = "none" /\ why = {}
  /\ step = 0 /\ buf = Empty /\ attempt = 0
  /\ par = <<>> /\ seq = <<>> /\ used = 0 /\ rec = Calm /\ recent = <<>>
  /\ leaks = 0
  /\ modified = FALSE /\ checked = {} /\ marker = FALSE
  /\ tried = {}

-----------------------------------------------------------------------------
(* Beginning, cancelling and ending a turn. *)

\* The counts of errors and the state of recovery are those of the last turn.
BeginTurn ==
  /\ stage = "idle" /\ turn < MaxTurns
  /\ turn' = turn + 1
  /\ stage' = "top" /\ token' = FALSE /\ said' = "none" /\ why' = {}
  /\ step' = 0 /\ buf' = Empty /\ attempt' = 0
  /\ par' = <<>> /\ seq' = <<>> /\ used' = 0
  /\ rec' = NextTurn(rec)
  /\ recent' = <<>> /\ leaks' = 0
  /\ modified' = FALSE /\ checked' = {} /\ marker' = FALSE
  /\ tried' = {}

Cancel ==
  /\ stage # "idle" /\ ~token
  /\ token' = TRUE
  /\ UNCHANGED <<turn, stage, said, why, streamVars, callVars, leaks, gateVars, tried>>

\* Done, and the function returns.
Ends(reasons) ==
  /\ stage' = "idle" /\ said' = "done" /\ why' = why \cup reasons
  /\ buf' = Empty /\ attempt' = 0 /\ par' = <<>> /\ seq' = <<>>
  /\ UNCHANGED <<turn, token, step, used, rec, recent>>

GoesRound ==
  /\ stage' = "top" /\ said' = "note"
  /\ buf' = Empty /\ attempt' = 0
  /\ UNCHANGED <<turn, token, why, step, callVars>>

-----------------------------------------------------------------------------
(* The top of the loop. *)

\* Variant: the token is not looked at before the next request.
MayRequestAnyway == stage = "top"

MayRequest == stage = "top" /\ ~token

BudgetSpent == used >= MaxToolCalls \/ (MaxSteps > 0 /\ step + 1 >= MaxSteps)

SeesCancelAtTop ==
  /\ stage = "top" /\ token
  /\ Ends({"cancelled"})
  /\ UNCHANGED <<leaks, gateVars, tried>>

StopsAtBudget ==
  /\ MayRequest /\ BudgetSpent
  /\ Ends({"told"})
  /\ UNCHANGED <<leaks, gateVars, tried>>

SendsRequest ==
  /\ MayRequest /\ ~BudgetSpent
  /\ stage' = "stream" /\ said' = "note" /\ why' = {}
  /\ step' = IF MaxSteps > 0 THEN step + 1 ELSE 0
  /\ UNCHANGED <<turn, token, buf, attempt, callVars, leaks, gateVars, tried>>

-----------------------------------------------------------------------------
(* The stream, of the request and of its retries. *)

Streaming == stage \in {"stream", "restream"}

ReceivesText(text) ==
  /\ Streaming /\ Nothing(buf) /\ text # ""
  /\ buf' = [buf EXCEPT !.text = text]
  /\ said' = "note"
  /\ UNCHANGED <<turn, stage, token, why, step, attempt, callVars, leaks, gateVars, tried>>

\* The arguments follow in pieces; they are whole when another call begins or
\* the stream is done.  Beside a call, the text decides nothing and is forgotten.
AllWhole(calls) == [i \in DOMAIN calls |-> [calls[i] EXCEPT !.whole = TRUE]]

ReceivesCall(c) ==
  /\ Streaming /\ Len(buf.calls) < MaxCalls
  /\ buf' = [buf EXCEPT !.text = "",
                        !.calls = Append(AllWhole(@), [call |-> c, whole |-> FALSE])]
  /\ UNCHANGED <<turn, stage, token, said, why, step, attempt, callVars, leaks, gateVars,
                 tried>>

\* The final response: the usage is recorded and the context compacted, which
\* may take the reminder of the gate with it.
IsDone(calls) ==
  /\ stage' = "finish" /\ said' = "note"
  /\ buf' = [buf EXCEPT !.calls = calls, !.done = TRUE]
  /\ marker' \in {marker, FALSE}
  /\ UNCHANGED <<turn, token, why, step, attempt, callVars, leaks, modified, checked,
                 tried>>

\* The provider's own end of the message comes behind the last call, or where the
\* budget of tokens ran out, which may be within its arguments: Done says which,
\* and is sent either way.  The adapter for Anthropic also sends it when the
\* connection just ends; the others return an error (StreamFailsEmpty,
\* StreamFailsLater).
DoneWith(calls) == {AllWhole(calls), calls}

StreamFinishes == Streaming /\ \E calls \in DoneWith(buf.calls) : IsDone(calls)


SeesCancelInStream ==
  /\ Streaming /\ token
  /\ Ends({"cancelled"})
  /\ UNCHANGED <<leaks, gateVars, tried>>

\* No progress for two minutes, or ten minutes in all: the watchdog says so.
Stalls ==
  /\ stage = "stream"
  /\ Ends({"told"})
  /\ UNCHANGED <<leaks, gateVars, tried>>

\* Variant: an error after the first words is only logged.
SaysNothing == {}

SaysEndedEarly == {"told"}

StreamFailsFatally ==
  /\ stage = "stream" /\ Nothing(buf)
  /\ Ends({"told"})
  /\ UNCHANGED <<leaks, gateVars, tried>>

\* A request or a retry that brought nothing.
StreamFailsEmpty ==
  /\ Streaming /\ Nothing(buf) /\ attempt < MaxRetries
  /\ stage' = "backoff" /\ said' = "note" /\ attempt' = attempt + 1
  /\ UNCHANGED <<turn, token, why, step, buf, callVars, leaks, gateVars, tried>>

StreamFailsLater ==
  /\ stage = "stream" /\ ~Nothing(buf)
  /\ stage' = "finish" /\ said' = "note" /\ why' = why \cup SaysEndedEarly
  /\ UNCHANGED <<turn, token, streamVars, callVars, leaks, gateVars, tried>>

\* The token is looked at after every second of the delay and before the request.
SeesCancelInDelay ==
  /\ stage = "backoff" /\ token
  /\ Ends({"cancelled"})
  /\ UNCHANGED <<leaks, gateVars, tried>>

Retries ==
  /\ stage = "backoff" /\ ~token
  /\ stage' = "restream" /\ said' = "note"
  /\ UNCHANGED <<turn, token, why, streamVars, callVars, leaks, gateVars, tried>>

\* A retry that fails after its first words counts as a success, of which
\* nobody is told that it was cut.
RetryFailsLater ==
  /\ stage = "restream" /\ ~Nothing(buf)
  /\ stage' = "finish" /\ why' = why \cup {"cut"}
  /\ UNCHANGED <<turn, token, said, streamVars, callVars, leaks, gateVars, tried>>

\* The last retry has failed.  An error about the size of media or of the
\* prompt may still shrink the history, once a turn each; the turn then goes
\* on with what it received, which is nothing.
Exhausted == stage = "restream" /\ Nothing(buf) /\ attempt = MaxRetries

ShrinksHistory(way) ==
  /\ Exhausted
  /\ way \in {"strip", "compact"} \ tried
  /\ tried' = tried \cup {way}
  /\ marker' \in IF way = "compact" THEN {marker, FALSE} ELSE {marker}
  /\ stage' = "finish" /\ said' = "note" /\ why' = why \cup {"recovered"}
  /\ UNCHANGED <<turn, token, streamVars, callVars, leaks, modified, checked>>

GivesUpRetrying ==
  /\ Exhausted
  /\ tried' \in {tried, tried \cup {"compact"}}
  /\ Ends({"told"})
  /\ UNCHANGED <<leaks, gateVars>>

-----------------------------------------------------------------------------
(* finalize_stream_turn: what the step comes to. *)

\* A leak is text that imitates the protocol of tool calls.  From some a call
\* can be recovered, which then counts as one the stream carried.
LeakedOnly == stage = "finish" /\ buf.calls = <<>>

RepeatsLeak ==
  /\ LeakedOnly /\ buf.text = "leak" /\ leaks < 2
  /\ leaks' = leaks + 1
  /\ GoesRound
  /\ UNCHANGED <<gateVars, tried>>

AbortsLeaking ==
  /\ LeakedOnly /\ buf.text = "leak" /\ leaks >= 2
  /\ Ends({"told"})
  /\ UNCHANGED <<leaks, gateVars, tried>>

\* The calls of the step: those of the stream, or one that was leaked.
StepCalls ==
  IF LeakedOnly /\ buf.text = "leaked call"
  THEN {<<[call |-> c, whole |-> TRUE]>> : c \in Call}
  ELSE {buf.calls} \ {<<>>}

\* Variant: calls are run as they are, however the stream ended.
CommitsAnyway(b) == TRUE

Committed(b) == b.done

\* The commit gate: without a final response no call is run.
DiscardsCalls ==
  /\ stage = "finish" /\ StepCalls # {} /\ ~Committed(buf)
  /\ leaks' = 0
  /\ Ends({"told"})
  /\ UNCHANGED <<gateVars, tried>>

\* The calls of a kind, in their order.
Only(calls, kind) == SelectIn(calls, [call : kind, whole : BOOLEAN])

InParallel(calls) == IF rec.state = "Normal" THEN Only(calls, Parallel) ELSE <<>>

OneByOne(calls) == IF rec.state = "Normal" THEN Only(calls, Call \ Parallel) ELSE calls

CommitsCalls(calls) ==
  /\ stage = "finish" /\ calls \in StepCalls /\ Committed(buf)
  /\ leaks' = 0
  /\ stage' = "calls" /\ par' = InParallel(calls) /\ seq' = OneByOne(calls)
  /\ buf' = Empty
  /\ UNCHANGED <<turn, token, said, why, step, attempt, used, rec, recent, gateVars, tried>>

Plain == LeakedOnly /\ buf.text \in {"", "said"}

\* Neither a final response nor calls: whatever was said so far is not kept.
EndsUnfinished ==
  /\ Plain /\ ~buf.done
  /\ leaks' = 0
  /\ Ends({})
  /\ UNCHANGED <<gateVars, tried>>

\* Nothing at all was received, and not for want of tokens: ask again, without
\* streaming.
FallsBack ==
  /\ Plain /\ buf.done /\ buf.text = ""
  /\ leaks' = 0
  /\ stage' = "fallback" /\ attempt' = 1
  /\ UNCHANGED <<turn, token, said, why, step, buf, callVars, gateVars, tried>>

\* Variant: whoever was reminded once has verified.
VerifiedOnceAsked == ~modified \/ checked # {} \/ marker

Verified == ~modified \/ checked # {}

\* The verification gate, and the stop hooks behind it, which may ask for one
\* more step once in a turn.
GateReminds == ~Verified /\ ~marker /\ marker' = TRUE /\ GoesRound /\ UNCHANGED tried

GateBlocks == ~Verified /\ marker /\ Ends({"told"}) /\ UNCHANGED <<marker, tried>>

HookContinues ==
  /\ Verified /\ "stop" \notin tried
  /\ tried' = tried \cup {"stop"}
  /\ GoesRound
  /\ UNCHANGED marker

Delivers == Verified /\ Ends({"delivered"}) /\ UNCHANGED <<marker, tried>>

Answers ==
  /\ GateReminds \/ GateBlocks \/ HookContinues \/ Delivers
  /\ UNCHANGED <<modified, checked>>

\* Without a word, the answer is the warning that the tokens ran out.
AnswersFromStream ==
  /\ Plain /\ buf.done
  /\ leaks' = 0
  /\ Answers

AnswersFromFallback == stage = "fallback" /\ Answers /\ UNCHANGED leaks

\* An answer without streaming may bring calls; they are kept in the history
\* and never run, TurnComplete is sent, and the turn goes on.
FallbackBringsCalls ==
  /\ stage = "fallback"
  /\ GoesRound
  /\ UNCHANGED <<leaks, gateVars, tried>>

\* These retries do not look at the token.
FallbackFails ==
  /\ stage = "fallback" /\ attempt <= MaxRetries
  /\ attempt' = attempt + 1 /\ said' = "note"
  /\ UNCHANGED <<turn, stage, token, why, step, buf, callVars, leaks, gateVars, tried>>

FallbackGivesUp ==
  /\ stage = "fallback"
  /\ Ends({"told"})
  /\ UNCHANGED <<leaks, gateVars, tried>>

-----------------------------------------------------------------------------
(* The tool calls of a step. *)

\* Variant: the parallel calls have no place in the list of the last ones, and
\* the list is never cut.
RemembersAll(c) == Append(recent, c)

Remembers(c) ==
  LET longer == Append(recent, c)
  IN  IF Len(longer) > Window THEN Tail(longer) ELSE longer

Results == {"ok"} \cup ErrorType

\* record_completed_tool_outcome for call c: what the engine learns from the
\* result.  The way it came to it is "ran", or "refused" for a call that did not
\* run, or "deferred" for one that a hook puts off, which counts as a success.
Records(c, result, way) ==
  LET ok == result = "ok"
  IN  /\ used' = used + 1 /\ said' = "note"
      /\ rec' = IF ok THEN Succeeded(rec, c) ELSE Failed(rec, result)
      /\ leaks' = IF ok THEN 0 ELSE leaks
      /\ modified' = (modified \/ (ok /\ c \in Edits))
      /\ checked' = IF ok /\ c \in Checks THEN checked \cup {way} ELSE checked
      /\ UNCHANGED <<turn, token, why, step, buf, attempt, marker, tried>>

\* The call at the head has its result; behind the last one the loop goes round.
NextCall ==
  /\ par' = par /\ seq' = Tail(seq)
  /\ stage' = IF Len(seq) = 1 THEN "top" ELSE "calls"

HasResult(result, way) == Records(Head(seq).call, result, way) /\ NextCall

\* Done is said here and said again at the top of the loop; the calls that are
\* left stay in the history without a result.
SeesCancelBeforeCall ==
  /\ stage = "calls" /\ token
  /\ stage' = "top" /\ said' = "done" /\ par' = <<>> /\ seq' = <<>>
  /\ UNCHANGED <<turn, token, why, streamVars, used, rec, recent, leaks, gateVars, tried>>

StartsBatch ==
  /\ stage = "calls" /\ ~token /\ par # <<>>
  /\ stage' = "batch" /\ said' = "note"
  /\ UNCHANGED <<turn, token, why, streamVars, callVars, leaks, gateVars, tried>>

\* The results of a batch are recorded when all are there, in the order of the
\* calls, and before those of the other calls.  Neither the gates nor the list
\* of the last calls know of a batch.
BatchReturns ==
  /\ stage = "batch"
  /\ stage' = "results"
  /\ UNCHANGED <<turn, token, said, why, streamVars, callVars, leaks, gateVars, tried>>

RecordsBatch(result, way) ==
  /\ stage = "results"
  /\ Records(Head(par).call, result, way)
  /\ par' = Tail(par)
  /\ stage' = CASE Len(par) > 1              -> "results"
                [] Len(par) = 1 /\ seq # <<>> -> "calls"
                [] OTHER                     -> "top"
  /\ UNCHANGED <<seq, recent>>

\* The next call to be handled one by one.
Current == stage = "calls" /\ ~token /\ par = <<>>

\* The hook before a tool comes first: it may block the call, or defer it.
HookStopsCall ==
  /\ Current
  /\ HasResult("Other", "refused") \/ HasResult("ok", "deferred")
  /\ UNCHANGED recent

\* Then the gate of recovery, and the guards of paths, languages, unread files
\* and commands, and what the permissions deny.
RefusesCall ==
  /\ Current
  /\ \/ HasResult("Validation", "refused")
     \/ ~GateRefuses(rec, Head(seq).call) /\ HasResult("Other", "refused")
  /\ UNCHANGED recent

PassesGuards == Current /\ ~GateRefuses(rec, Head(seq).call)

\* An unknown tool fails before anything else.
UnknownTool ==
  /\ Current
  /\ HasResult("Untyped", "refused")
  /\ UNCHANGED recent

AsksUser ==
  /\ PassesGuards
  /\ stage' = "asking" /\ said' = "note"
  /\ UNCHANGED <<turn, token, why, streamVars, callVars, leaks, gateVars, tried>>

\* An hour without an answer, or the token, which is looked at twice a second.
ConfirmationEnds ==
  /\ stage = "asking"
  /\ HasResult("Timeout", "refused")
  /\ UNCHANGED recent

UserDenies ==
  /\ stage = "asking"
  /\ HasResult("Other", "refused")
  /\ UNCHANGED recent

\* A call that may run, by itself or by the user's answer.
Allowed == PassesGuards \/ stage = "asking"

IsDuplicate(c) == c \notin Observers /\ c \in ToSet(recent)

RefusesDuplicate ==
  /\ Allowed
  /\ \/ IsDuplicate(Head(seq).call)
     \/ Head(seq).call \notin Observers /\ MayRepeat(rec)
  /\ HasResult("Validation", "refused")
  /\ UNCHANGED recent

StartsCall ==
  /\ Allowed /\ ~IsDuplicate(Head(seq).call)
  /\ recent' = Remembers(Head(seq).call)
  /\ stage' = "busy" /\ said' = "note"
  /\ UNCHANGED <<turn, token, why, streamVars, par, seq, used, rec, leaks, gateVars, tried>>

\* The arguments of a call are checked against the tool's schema before it
\* runs; every tool but ask_user has five minutes, in a batch as well.
CallReturns(result) ==
  /\ stage = "busy"
  /\ HasResult(result, "ran")
  /\ UNCHANGED recent

\* ask_user waits for its answer without a limit and does not look at the token;
\* a batch waits for all of its calls.
AwaitsUser ==
  \/ stage = "busy" /\ Head(seq).call \in Questions
  \/ stage = "batch" /\ \E q \in ToSet(par) : q.call \in Questions

-----------------------------------------------------------------------------
Steps ==
  \/ SeesCancelAtTop \/ StopsAtBudget \/ SendsRequest
  \/ RepeatsLeak \/ AbortsLeaking \/ DiscardsCalls
  \/ \E calls \in StepCalls : CommitsCalls(calls)
  \/ EndsUnfinished \/ FallsBack \/ AnswersFromStream

Streams ==
  \/ \E text \in Texts : ReceivesText(text)
  \/ \E c \in Call : ReceivesCall(c)
  \/ StreamFinishes \/ Stalls
  \/ StreamFailsFatally \/ StreamFailsEmpty \/ StreamFailsLater
  \/ Retries \/ RetryFailsLater
  \/ \E way \in {"strip", "compact"} : ShrinksHistory(way)
  \/ GivesUpRetrying

SeesCancel == SeesCancelInStream \/ SeesCancelInDelay

Fallback ==
  AnswersFromFallback \/ FallbackBringsCalls \/ FallbackFails \/ FallbackGivesUp

Handles ==
  \/ SeesCancelBeforeCall \/ StartsBatch \/ BatchReturns
  \/ \E result \in Results : RecordsBatch(result, "ran")
  \/ RecordsBatch("ok", "deferred") \/ RecordsBatch("Other", "refused")
  \/ HookStopsCall \/ RefusesCall \/ UnknownTool \/ AsksUser
  \/ ConfirmationEnds \/ UserDenies \/ RefusesDuplicate \/ StartsCall
  \/ \E result \in Results : CallReturns(result)

Next == BeginTurn \/ Cancel \/ Steps \/ Streams \/ SeesCancel \/ Fallback \/ Handles

Spec == Init /\ [][Next]_vars

\* What the engine does by itself, what it hears of the token, and what a
\* timeout ends.  Nothing makes a stream go on, or a user answer a question.
\* Hooks are taken to end: they have a time limit, and are killed when it is
\* over, but one that ignores the signal is waited for all the same.
FairSpec ==
  /\ Spec
  /\ WF_vars(Steps) /\ WF_vars(SeesCancel) /\ WF_vars(Fallback)
  /\ WF_vars(~AwaitsUser /\ Handles)

-----------------------------------------------------------------------------
(* Properties. *)

\* Types of all the variables, with the limits of what they count.
TypeOK ==
  /\ turn \in 0 .. MaxTurns
  /\ stage \in Stages
  /\ token \in BOOLEAN
  /\ said \in {"none", "note", "done"}
  /\ why \subseteq Reasons
  /\ step \in 0 .. MaxSteps
  /\ buf \in Buffers
  /\ attempt \in 0 .. MaxRetries + 1
  /\ par \in Seq(Received) /\ seq \in Seq(Received)
  /\ used \in 0 .. MaxToolCalls + MaxCalls - 1
  /\ rec \in Recovery
  /\ recent \in Seq(Call) /\ Len(recent) <= Window
  /\ leaks \in 0 .. 2
  /\ modified \in BOOLEAN /\ marker \in BOOLEAN
  /\ checked \subseteq {"ran", "deferred"}
  /\ tried \subseteq Tried

\* A call whose arguments were cut off is never about to be run: what stands
\* behind the commit gate was received whole.  The code says so of its gate.
CutCallsNeverRun == \A q \in ToSet(par) \cup ToSet(seq) : q.whole

Handling == stage \in {"calls", "batch", "results", "asking", "busy"}

\* What the gate does: of an answer that broke off before its final response, in
\* the request or in a retry, with or without words of its own, no call is run.
BrokenAnswersRunNothing == Handling => why = {}

\* When a turn returns, the user has the answer, or was told in the last step
\* why there is none, or has cancelled.  Two ends are silent: the history was
\* shrunk after the last retry, and a retry was cut after its first words.
EndsAreExplained == stage = "idle" /\ turn > 0 => why # {}

\* The gate of recovery cannot lock an engine up, although the counts that close
\* it outlive the turn: a refusal that is not the turn's first failure in a row
\* opens it, so that it refuses two calls in a row at most.
GateGivesWay ==
  [][RefusesCall /\ GateRefuses(rec, Head(seq).call) /\ rec.fails >= 1 =>
       rec'.state # "ReanchorRequired"]_vars

\* A turn that changed files and delivers has a check that counted, however
\* many reminders, hooks, retries and compactions came between.
DeliveredAfterCheck ==
  stage = "idle" /\ "delivered" \in why /\ modified => checked # {}

Promise == INSTANCE EnginePromise WITH running <- stage # "idle", closed <- said = "done"

\* Done is the last event, it is never missing, and nothing follows it.
KeepsPromise == Promise!Spec

\* A cancelled turn returns, wherever the token finds it, unless a question to the
\* user is never answered: one that is answered later returns then.
CancelEnds == token ~> (stage = "idle" \/ []AwaitsUser)

===============================================================================

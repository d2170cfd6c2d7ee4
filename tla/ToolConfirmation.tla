--------------------------- MODULE ToolConfirmation ---------------------------
(***************************************************************************)
(* How the tool calls of one turn that are not run in parallel are allowed,*)
(* refused or asked about.  The engine handles them one after the other    *)
(* (handle_tool_call); the permission manager decides; for each call that  *)
(* needs a confirmation the event loop shows a card; the user answers the  *)
(* newest card, in a command of the desktop process (permission_respond);  *)
(* the answer travels in a channel that names neither the request nor the  *)
(* tool.                                                                   *)
(***************************************************************************)
EXTENDS PermissionManager, SequencesExt, FiniteSets, Selection

CONSTANTS
  Calls,        \* the number of sequential calls of the turn
  Turns,        \* what the turn may start with: calls, mode and rules
  MaxReplies    \* bound: answers the user sends in all

Call == 1 .. Calls

Layer == [allow : SUBSET Commands, ask : SUBSET Commands, deny : SUBSET Commands]

\* kept are the commands whose "always" of an earlier turn made a rule.
Turn ==
  [calls : [Call -> Commands], mode : Mode, planning : BOOLEAN,
   listed : SUBSET Commands, user : Layer, managed : Layer, project : Layer,
   local : Layer, kept : SUBSET Commands]

ASSUME CallsAssumption == Calls \in Nat \ {0} /\ MaxReplies \in Nat

ASSUME TurnsAssumption == Turns \subseteq Turn

Reply == {"allow", "always", "deny"}

NoCall == 0

\* An answer, with the card it was given on and its rank among that card's
\* answers (both known to nobody but us).
Answer == [card : Call, rank : Nat, reply : Reply]

NoAnswer == [card |-> NoCall, rank |-> 0, reply |-> "none"]

VARIABLES
  turn,          \* how the turn started: it keeps calls, mode and rules
  stage,         \* [Call -> stage of the call]
  by,            \* [Call -> the answer it consumed]
  denials,       \* [tool -> denials of the user that count]
  aged,          \* denials up to this call are more than half an hour old
  planning,      \* the plan mode of the engine
  requests,      \* ToolConfirmRequired events on their way to the loop
  answers,       \* the channel confirm_tx -> confirm_rx
  cards,         \* permission cards in the timeline, oldest first
  replied,       \* [Call -> answers sent from its card]
  responding,    \* permission_respond commands between send and remove
  pending,       \* pending_confirmations of the turn, or NoCall
  rules,         \* commands answered "always": rules of this engine
  sessionRules,  \* the same for session_permission_rules and the next turns
  cancelled      \* the cancel token

engineVars == <<turn, stage, by, rules, denials, aged, planning>>
screenVars == <<cards, replied>>
vars == <<engineVars, screenVars, requests, answers, responding, pending,
          sessionRules, cancelled>>

\* A call that ran was let through; what it does is not modelled here.
Over == {"ran", "blocked", "refused", "denied", "timed_out", "cancelled"}

Cmd(c) == turn.calls[c]

\* Variant: calls that need a confirmation are handled at the same time.
Concurrent(c) == TRUE

\* The engine comes to a call when it is through with those before it.
Current(c) == \A d \in Call : d < c => stage[d] \in Over

Init ==
  /\ turn \in Turns
  /\ stage = [c \in Call |-> "todo"]
  /\ by = [c \in Call |-> NoAnswer]
  /\ denials = [t \in Tools |-> 0]
  /\ aged = NoCall
  /\ planning = turn.planning
  /\ requests = <<>>
  /\ answers = <<>>
  /\ cards = <<>>
  /\ replied = [c \in Call |-> 0]
  /\ responding = {}
  /\ pending = NoCall
  /\ rules = {}
  /\ sessionRules = turn.kept
  /\ cancelled = FALSE

-----------------------------------------------------------------------------
(* The engine. *)

\* Variant: the token is not looked at between two calls.
MayStartAnyway(c) == stage[c] = "todo" /\ Current(c)

MayStart(c) == stage[c] = "todo" /\ Current(c) /\ ~cancelled

Grants(answer) == answer.reply = "always"

\* Variant: the rule names the call and not its command.
RuleForId(c) == c

RuleFor(c) == Cmd(c)

\* What the session's rules allow: those the turn started with, and this turn's.
Allowed(kept, granted) ==
  (UNION {Remembered(cmd) : cmd \in kept}) \cup (UNION {Granted(cmd) : cmd \in granted})

\* The manager of an engine that starts the turn with this configuration.
Manager(config, granted, counts) ==
  [mode |-> config.mode,
   rules |-> Append(ConfigRules(config),
                    Rule(Session, "allow", Allowed(config.kept, granted))),
   denials |-> counts]

Decided(c) == Decision(Manager(turn, rules, denials), planning, Cmd(c))

Becomes(c, new) == stage' = [stage EXCEPT ![c] = new]

\* Two tools change the plan mode of the engine.
PlanningAfter(cmd) ==
  CASE ToolOf[cmd] = "exit_plan_mode" -> FALSE
    [] ToolOf[cmd] = "enter_plan_mode" -> TRUE
    [] OTHER -> planning

\* The user's denials of a tool.
DeniedCalls(tool) == {d \in Call : stage[d] = "denied" /\ ToolOf[Cmd(d)] = tool}

\* Variant: the tools whose last denial is recent.
Recent == {t \in Tools : \E d \in DeniedCalls(t) : d > aged}

\* The tools whose last denial is more than half an hour old, if there is one.
Expired == {t \in Tools : \A d \in DeniedCalls(t) : d <= aged}

Destructive(cmd) == ToolOf[cmd] \in ShellTools /\ RiskOf[cmd] = "destructive"

\* The guards before the permission: hooks, the recovery gate, paths, project
\* and files; a destructive command never passes the last of them, which
\* records what it stops.
GuardRefuses(c) ==
  /\ MayStart(c)
  /\ Becomes(c, "blocked")
  /\ \/ UNCHANGED denials
     \/ /\ Destructive(Cmd(c))
        /\ denials' = AfterRefusal(denials, ToolOf[Cmd(c)], Expired)
  /\ UNCHANGED <<turn, by, rules, aged, planning, screenVars, requests, answers,
                 responding, pending, sessionRules, cancelled>>

PassesGuards(c) == MayStart(c) /\ ~Destructive(Cmd(c))

\* A call that needs no answer runs at once; the token is looked at before.
RunsUnasked(c) ==
  /\ PassesGuards(c)
  /\ Decided(c) = "allow"
  /\ Becomes(c, "ran")
  /\ planning' = PlanningAfter(Cmd(c))
  /\ UNCHANGED <<turn, by, rules, denials, aged, screenVars, requests, answers, responding,
                 pending, sessionRules, cancelled>>

\* A refusal does not count as a denial of the user, but it cleans up.
Refuses(c) ==
  /\ PassesGuards(c)
  /\ Decided(c) = "deny"
  /\ Becomes(c, "refused")
  /\ denials' = AfterRefusal(denials, ToolOf[Cmd(c)], Expired)
  /\ UNCHANGED <<turn, by, rules, aged, planning, screenVars, requests, answers, responding,
                 pending, sessionRules, cancelled>>

Asks(c) ==
  /\ PassesGuards(c)
  /\ Decided(c) = "confirm"
  /\ Becomes(c, "asking")
  /\ requests' = Append(requests, c)
  /\ UNCHANGED <<turn, by, rules, denials, aged, planning, screenVars, answers, responding,
                 pending, sessionRules, cancelled>>

\* recv() takes whatever answer is first; the token may be cancelled while it
\* waits, since it is only looked at before.
TakesAnswer(c) ==
  /\ stage[c] = "asking"
  /\ answers # <<>>
  /\ answers' = Tail(answers)
  /\ by' = [by EXCEPT ![c] = Head(answers)]
  /\ UNCHANGED <<turn, aged, screenVars, requests, responding, pending, sessionRules,
                 cancelled>>

LetsThrough(c) ==
  /\ TakesAnswer(c)
  /\ Head(answers).reply # "deny"
  /\ Becomes(c, "ran")
  /\ rules' = IF Grants(Head(answers)) THEN rules \cup {RuleFor(c)} ELSE rules
  /\ planning' = PlanningAfter(Cmd(c))
  /\ UNCHANGED denials

IsDenied(c) ==
  /\ TakesAnswer(c)
  /\ Head(answers).reply = "deny"
  /\ Becomes(c, "denied")
  /\ denials' = AfterDenial(denials, ToolOf[Cmd(c)], Expired)
  /\ UNCHANGED <<rules, planning>>

\* Variant: the clock starts again with every poll.
NeverTimesOut(c) == FALSE

\* An hour has passed.  The card stays where it is.
TimesOut(c) ==
  /\ stage[c] = "asking"
  /\ Becomes(c, "timed_out")
  /\ UNCHANGED <<turn, by, rules, denials, aged, planning, screenVars, requests, answers,
                 responding, pending, sessionRules, cancelled>>

SeesCancel(c) ==
  /\ stage[c] = "asking"
  /\ cancelled
  /\ Becomes(c, "cancelled")
  /\ UNCHANGED <<turn, by, rules, denials, aged, planning, screenVars, requests, answers,
                 responding, pending, sessionRules, cancelled>>

\* Time passes: a denial, and with it those before, gets older than half an hour.
HalfAnHourPasses ==
  /\ \E d \in Call : d > aged /\ stage[d] = "denied" /\ aged' = d
  /\ UNCHANGED <<turn, stage, by, rules, denials, planning, screenVars, requests, answers,
                 responding, pending, sessionRules, cancelled>>

-----------------------------------------------------------------------------
(* The event loop. *)

\* One pending confirmation per turn: a new one replaces the old one.
ShowsCard ==
  /\ requests # <<>>
  /\ pending' = Head(requests)
  /\ cards' = Append(cards, Head(requests))
  /\ requests' = Tail(requests)
  /\ UNCHANGED <<engineVars, replied, answers, responding, sessionRules, cancelled>>

-----------------------------------------------------------------------------
(* The user, and the command that carries an answer. *)

\* Otherwise the engine has returned, confirm_rx is gone and the command fails.
EngineListens ==
  \E c \in Call : stage[c] = "asking" \/ (stage[c] = "todo" /\ ~cancelled)

\* Bounded by MaxReplies.
RepliesSent == FoldFunction(+, 0, replied)

\* The newest card is the one on the screen, until its command has returned:
\* a key that is pressed again sends a second answer.
SendsReply(r) ==
  /\ cards # <<>>
  /\ EngineListens
  /\ LET card == Last(cards)
         answer == [card |-> card, rank |-> replied[card] + 1, reply |-> r]
     IN  /\ RepliesSent < MaxReplies
         /\ replied' = [replied EXCEPT ![card] = @ + 1]
         /\ answers' = Append(answers, answer)
         /\ responding' = responding \cup {answer}
  /\ UNCHANGED <<engineVars, cards, requests, pending, sessionRules, cancelled>>

\* The rest of the command: the pending confirmation is removed, and "always"
\* makes it a rule for the next turns; then the card goes.
FinishesReply(answer) ==
  /\ answer \in responding
  /\ responding' = responding \ {answer}
  /\ pending' = NoCall
  /\ sessionRules' = IF answer.reply = "always" /\ pending # NoCall
                     THEN sessionRules \cup {Cmd(pending)} ELSE sessionRules
  /\ cards' = SelectIn(cards, Call \ {answer.card})
  /\ UNCHANGED <<engineVars, replied, requests, answers, cancelled>>

Cancels ==
  /\ ~cancelled
  /\ cancelled' = TRUE
  /\ UNCHANGED <<engineVars, screenVars, requests, answers, responding, pending,
                 sessionRules>>

-----------------------------------------------------------------------------
EngineStep ==
  \E c \in Call :
    \/ GuardRefuses(c) \/ RunsUnasked(c) \/ Refuses(c) \/ Asks(c)
    \/ LetsThrough(c) \/ IsDenied(c) \/ TimesOut(c) \/ SeesCancel(c)

Next ==
  \/ EngineStep
  \/ HalfAnHourPasses
  \/ ShowsCard
  \/ \E r \in Reply : SendsReply(r)
  \/ \E answer \in responding : FinishesReply(answer)
  \/ Cancels

\* The engine polls twice a second and looks at the clock each time; nothing
\* makes the user answer.
Spec == Init /\ [][Next]_vars /\ WF_vars(EngineStep)

-----------------------------------------------------------------------------
(* Properties. *)

\* Types of all the variables.
TypeOK ==
  /\ turn \in Turns
  /\ stage \in [Call -> {"todo", "asking"} \cup Over]
  /\ by \in [Call -> Answer \cup {NoAnswer}]
  /\ requests \in Seq(Call) /\ cards \in Seq(Call) /\ answers \in Seq(Answer)
  /\ replied \in [Call -> Nat]
  /\ responding \subseteq Answer
  /\ pending \in Call \cup {NoCall}
  /\ rules \subseteq Commands /\ sessionRules \subseteq Commands
  /\ denials \in [Tools -> Nat] /\ aged \in Call \cup {NoCall}
  /\ planning \in BOOLEAN
  /\ cancelled \in BOOLEAN

\* The answer a call consumed was given on its own card...
OwnAnswer(c) == by[c] # NoAnswer => by[c].card = c

\* ... as long as no card was answered twice and no confirmation timed out:
\* the order of the channel is then the order of the requests, whatever the
\* interleaving of engine, loop, screen and cancellation.
AnswersReachTheirRequest ==
  (\A c \in Call : replied[c] <= 1 /\ stage[c] # "timed_out") =>
    \A c \in Call : OwnAnswer(c)

\* A call that this turn's answers let run without asking, where the turn as it
\* started would have asked or refused, is covered by the rule of a call before
\* it that was let through by an "always": rules come from no other answers, and
\* reach no further than the command that was on a card, read as a pattern.
RulesComeFromAnswers ==
  \A c \in Call :
    /\ stage[c] = "ran" /\ by[c] = NoAnswer
    /\ Decision(Manager(turn, {}, [t \in Tools |-> 0]), FALSE, Cmd(c)) # "allow"
    => \E d \in Call :
         /\ d < c /\ stage[d] = "ran" /\ by[d].reply = "always"
         /\ ToolOf[Cmd(d)] = ToolOf[Cmd(c)]
         /\ ToolOf[Cmd(d)] \in ShellTools => Cmd(c) \in Globs[Cmd(d)]

\* What a managed rule decides stands: no mode, no rule of another source, no
\* answer and no count of denials makes a call run that it denies, makes one run
\* unasked that it asks about, or has one asked about that it allows.
ManagedRulesHold ==
  \A c \in Call :
    LET managed == ManagedRules(ConfigRules(turn), Cmd(c))
        verdict == Verdict(FirstOf(ConfigRules(turn), managed))
    IN  managed # {} =>
          /\ verdict = "deny" => stage[c] \in {"todo", "blocked", "refused"}
          /\ verdict = "confirm" /\ stage[c] = "ran" => by[c] # NoAnswer
          /\ verdict = "allow" => by[c] = NoAnswer /\ stage[c] # "asking"

\* Commands that are decided before denials are counted.
DecidedBefore(cmd) ==
  \/ ManagedRules(ConfigRules(turn), cmd) # {}
  \/ turn.mode \notin {"default", "acceptedits"}

\* A user who has denied a tool so often within the last half hour is not asked
\* about it again, whatever came in between: an answer that was meant for an other
\* call, a rule that asks, a call that was let through, a refusal or a denial of
\* another tool after which older denials are forgotten.
DenialsEndTheAsking ==
  \A c \in Call :
    (stage[c] = "asking" \/ by[c] # NoAnswer) /\ ~DecidedBefore(Cmd(c)) =>
      Cardinality({d \in DeniedCalls(ToolOf[Cmd(c)]) : aged < d /\ d < c})
        < Threshold[ToolOf[Cmd(c)]]

Rank == [deny |-> 0, confirm |-> 1, allow |-> 2]

\* The same turn in a repository without configuration files.
Elsewhere == [turn EXCEPT !.project = [allow |-> {}, ask |-> {}, deny |-> {}],
                          !.local = [allow |-> {}, ask |-> {}, deny |-> {}]]

\* Files in a repository can only tighten what is decided, at any moment of the
\* turn and for any command, be it on the list of this turn or not.
RepositoryOnlyTightens ==
  \A cmd \in Commands :
    Rank[Decision(Manager(turn, rules, denials), planning, cmd)]
      <= Rank[Decision(Manager(Elsewhere, rules, denials), planning, cmd)]

\* While the engine plans, nothing runs but what reads and the way out of it,
\* also when the user has answered a card.
PlanningChangesNothing ==
  [][\A c \in Call :
       planning /\ stage[c] # "ran" /\ stage'[c] = "ran" =>
         \/ Capabilities[ToolOf[Cmd(c)]].readOnly
         \/ ToolOf[Cmd(c)] = "exit_plan_mode"]_vars

\* Once the turn is cancelled, only the call that is being confirmed can still
\* run (its answer may be in the channel); no call after it does.
CancelStopsTheQueue ==
  [][\A c \in Call : cancelled /\ stage[c] = "todo" => stage'[c] = "todo"]_vars

\* Nobody waits for a confirmation forever: again and again none is waited for.
\* (Each call is asked about once.)
ConfirmationsEnd == []<>(\A c \in Call : stage[c] # "asking")

-----------------------------------------------------------------------------
(* What the card says and the code does not do. *)

\* "Only allow this execution": an answer lets the call of its own card run,
\* and no other.
OnlyThisExecution == \A c \in Call : by[c].reply = "allow" => by[c].card = c
===============================================================================

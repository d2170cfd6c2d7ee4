# Yode in TLA+

Yode is a coding agent in Rust: a core engine that runs turns of a language model
with tools, a terminal program, and a desktop program (Tauri) in which several
sessions run side by side, and of which several processes may share one
database. This directory holds TLA+ models of its core logic, the TLC
configurations that check them, and proofs for TLAPS. `PROJECT.json` names, for
every definition, the lines it translates; this page says what the models are,
what was found, and what is left out.

1. [The system](#1-the-system)
2. [The modules](#2-the-modules)
3. [What is checked](#3-what-is-checked)
4. [What is proved](#4-what-is-proved)
5. [Where the code and its comments disagree](#5-where-the-code-and-its-comments-disagree)
6. [What is left out, and why](#6-what-is-left-out-and-why)
7. [Not modelled](#7-not-modelled)

Paths are relative to the repository; `desktop/` stands for
`src/apps/yode-desktop/src-tauri/src/`, `core/` for `src/crates/yode-core/src/`.

## 1. The system

### How the parts interact

```
   screen (TypeScript) --turn_send_message, turn_cancel, permission_respond-->  DesktopRuntime
      ^                                                                            |
      |  desktop events (seq per turn), replay from the journal                    | slot, file lock,
      |                                                                            | thread per turn
      +------------- event loop of the turn <--channels-- engine task <------------+
                          |                                  |
                          v                                  v
                 turns, turn_events            messages, artifacts, tasks
                          +------ one SQLite database -------+   (shared by all processes)
```

One call of `turn_send_message` takes the session's *slot* in its process, then
the session's *file lock*, writes the turn's row, loads the messages, and spawns
a thread. The thread spawns the engine as a task and runs an event loop that
numbers each event, writes it with the status it carries, and emits it to the
screen. A cancellation fires a token that engine and loop look at; the loop then
drains for ten seconds, aborts the task, joins it, and only then gives the slot
back. Commands on a session (clear, delete, compact, export) take the same two
locks.

### Inventory

| Component | State | Operations | Hard behaviour | What makes it correct | Module |
|---|---|---|---|---|---|
| Turn journal (`core/db/turns.rs`) | rows `turns`, `turn_events` | create, append event with state, update state, mark cancellation, mark interrupted, delete, prune | several writers, late and duplicated events, limits of pruning | a terminal status is final; events and row agree; pruning never loses the end of a turn | TurnJournal |
| Turn lifecycle (`desktop/runtime/turn_runtime.rs`, `turn_loop.rs`, `runtime.rs`) | cancel tokens, channels, thread, engine task | send, loop, cancel, drain, join, start of a process | abort is not the end of a task; failure between every two steps; crash; second process | nothing runs beside a turn; nothing leaks; a cancelled turn ends | TurnLifecycle |
| Session slots (`turn_runtime.rs`, `session_runtime.rs`) | map session to kind of operation | acquire, disarm, drop, release | release by kind and not by owner | only the owner's slot is freed | TurnLifecycle |
| Session file lock (`core/session_lock.rs`) | lock of the operating system | try_lock, drop | processes die | one holder over all processes | TurnLifecycle |
| Session commands (`session_runtime.rs`, `core/db/sessions.rs`) | sessions, messages | clear, delete, compact, export, rename, list | read first, write later | no write of a stale copy | TurnLifecycle |
| Streaming turn (`core/engine/streaming_turn_runtime`, `turn_setup_runtime.rs`) | buffers of a stream, budgets, queue of calls | request, receive, finalize, run calls, end | a connection that ends in the middle of a call; a dozen places that look at the token | nothing of a broken answer is run; every turn is closed once and explained | EngineTurn |
| Stall retries (`core/engine/stream_retry_runtime.rs`) | attempts, delays | retry, shrink the history, give up | cancellation in a delay; half an answer | bounded attempts; the user is told | EngineTurn |
| Recovery state (`core/engine/recovery_runtime.rs`, `intelligence_runtime.rs`) | counts of errors, gate | record a result, refuse | counts that outlive the turn | the gate gives way | ToolRecovery |
| Parallel tools (`parallel.rs`) | batch | partition, run, record | order of results | results match calls | EngineTurn |
| Permission manager (`core/permission`, `desktop/runtime/turn_permissions.rs`) | mode, rules by source, counts of denials | explain, add a rule, record a denial | precedence of sources, modes, denials and capabilities | a managed rule is never overruled; a repository only tightens | PermissionManager |
| Tool confirmation (`single_call/permissions.rs`, `turn_runtime.rs`, `PermissionActions.tsx`) | channel of answers, pending confirmation, rules, cards | ask, answer, time out, cancel | answers carry no id | an answer reaches its request; rules come from answers | ToolConfirmation |
| Runtime tasks (`src/crates/yode-tools/src/runtime_tasks`, `shell_runtime.rs`) | tasks, controls, inputs, notifications | create, mark, stop, prune | a stop races with the end, the start and the turn's end; results for items that an earlier turn queued | a task ends once and is announced once; a live one can be stopped; bounded | RuntimeTasks |
| Sub-agents, teams, coordinator (`subagent_runner.rs`, `team_runtime`, `coordinator`, `src/crates/yode-agent`) | members, phases, one mutex | start, launch, join, run ready members | a lock held over the run of those who need it; background members | dependencies return first; every call ends | AgentTeams |
| User questions (`src/crates/yode-tools/src/builtin/ask_user`) | channel of questions and answers | ask, answer | no timeout | a cancellation ends the wait | TurnLifecycle, EngineTurn (in part) |
| Compaction, hooks, memory (`core/engine`, `core/hooks`) | one engine's own | compact, run a hook | when they come in a turn | - | EngineTurn (their effect) |
| Multi-repository plans, worktrees (`multirepo.rs`, `worktree_coordinator.rs`) | steps, leases, branches | run batches, merge | one step of several fails; a merge is refused | no committed work is lost | - |
| Screen: timeline, replay, watchdog (`src/apps/yode-desktop/src/lib`) | tracks, status of each session | event, replay, poll | duplicated and missing events; reload | every event once, in order | - |
| Run controller, scheduler, tools, MCP, providers, language servers, configuration, index, terminal program | - | - | mostly I/O or sequential | - | - |

`PROJECT.json` lists them all with their sources, and the hazards of each at the
line where it bites.

## 2. The modules

```
TurnStates --------------------------- vocabulary; one operator per SQL transaction on a row
   |         \            \
TurnPromise   TurnJournal   TurnLifecycle          PermissionManager
 (abstract)      |              |    \                  |
              MCTurnJournal     |     MCTurnLifecycle   ToolConfirmation -- MCToolConfirmation
                                |                             |
                                |                       ToolConfirmation_proofs  ---  NatRecursion
TurnStates_proofs  ---  TurnLifecycle_proofs  ---  TurnExclusion_proofs
        \-------------  TurnJournal_proofs  ---  NatRecursion

ToolRecovery --\                          RuntimeTasks --\
Selection ------ EngineTurn                Selection ------ AgentTeams
EnginePromise -/    |                      TaskPromise --/     |
 (abstract)      MCEngineTurn               (abstract)      MCAgentTeams
                    |                                          |
                 EngineTurn_proofs  --- NatRecursion ---  AgentTeams_proofs
```

Three groups meet where the code meets: TurnLifecycle takes for granted of an
engine what EnginePromise says, and EngineTurn implements it; EngineTurn chooses
freely what the permission manager and the user say of a call (`Allowed`,
`UserDenies`, `ConfirmationEnds`), and ToolConfirmation says how they come to it;
a sub-agent of AgentTeams is an engine with turns of its own.

**TurnStates** has no variables. A row of `turns` is its status, its last
sequence number and its cancellation mark. `Created`, `Appended`, `Updated`,
`CancelMarked` and `Interrupted` say what `create_turn`,
`append_turn_event_with_state`, `update_turn_state`,
`mark_turn_cancellation_requested` and `mark_interrupted_turns` do to one row,
with their refusals; `StateOf` is `run_status_for_event_kind`. Event kinds with
the same status and the same treatment by pruning are one kind.

**TurnPromise** is the abstract specification: the status of each turn as an
automaton. A turn begins `starting`, moves one at a time while it is live, a
terminal status is final, a restart turns exactly the live ones into
`interrupted`, only a deletion forgets. Both modules below implement it.

**TurnJournal** is the database alone, under callers that may call anything in
any order: one action per method of `Database`. Pruning is written out: the walk
in `Kept` is that of `prune_turn_journals` from the newest event to the oldest,
with what essential events leave of both limits; `Kept` selects what the walk took
and all essential events. A payload has a size in characters, which the code adds up
(`Chars`: `length()` of a TEXT column), and one in bytes, in which the limit is
documented; a character has one to four.

**TurnLifecycle** is the composition: session table, rows, last writer of each
session's messages (`hist`), file locks (durable), slots (memory of each
process), and for each actor - a turn or a command - a stage, with the engine
task, its channels, the token and the next number of a turn. One action stands
for one step after which another actor may be seen to act: the check and the
write under one mutex are one action; the two locks, `create_turn`,
`load_messages`, disarm and spawn, each event, the request of a cancellation,
the drain, the join, the release, the last event and the end of the thread are
actions of their own. `Crash` may happen in every state and loses the memory of
one process; `Start` is `DesktopRuntime::new`. The engine is what the runtime
sees of it: it may send any event at any time until it says `done`, save
messages, return, fail, or do nothing. It need not look at the token.

| Code | Action |
|---|---|
| `turn_send_message`, session on the screen / new session | `SendToSession`, `FindSession` / `SendToNewSession`, `TakeNewSessionSlot` |
| its lock, `create_turn`, `load_messages`, failures, spawn | `LockSession`, `CreateTurn`, `LoadHistory`, `PrepareFails`, `SpawnThread` |
| thread of the turn | `ThreadFails`, `StartEngine`, `ThreadExits` |
| `run_desktop_turn_event_loop` | `TakeEvent`, `TakeQuestion`, `TakeCancel`, `Drained`, `DrainTimesOut` |
| `join_turn_then_release_occupancy`, last event | `JoinThenRelease`, `SayCancelled` |
| `turn_cancel` | `RequestCancel` |
| clear, delete, compact, export | `OpBegins`, `OpLocks`, `OpReads`, `OpApplies`, `OpEnds` |
| process | `Start`, `Crash` |

**PermissionManager** has no variables. A tool call is a value of `Commands`; its
tool, its risk for the classifier, the commands its text matches when it is read
as a pattern, and the capabilities its tool declares are constants. A rule is
its source, its behaviour and the commands it covers. `ConfigRules` is
`configure_desktop_permissions`, with files of a repository cut down to their
denials (`Tightening`); `Explain` is `explain_with_content`: managed rules,
mode, denials, other rules by source and age, default; `Decision` adds what
`handle_tool_call` makes of it (`PlanStops`, `FloorAsks`). `AfterDenial` is
`record_denial`, which forgets the old denials of other tools, and `AfterRefusal`
is `record_shell_prefix_denial`, whose clean-up forgets old denials of the tools
too, those of its own tool included.
`Granted` and `Remembered` are the rule of an "always" in the engine and in the
desktop program, which read the command out of a call with two functions that
differ (`shell_command`, `powershell`).

**ToolConfirmation** is one turn whose calls are handled one after the other,
from `handle_tool_call` to the answer of the user. The mode is the one the turn
started with, since `set_permission_mode` reaches only engines built after it.
The answers travel in a channel that names no request; the loop shows a card
and keeps one pending confirmation; the user may answer the newest card, twice
too, and `permission_respond` sends the answer first and looks at the pending
confirmation afterwards; a confirmation times out and leaves its card; the token
is looked at before each call and twice a second. The clock is `aged`, the last denial that is more than half an hour
old (`HalfAnHourPasses`): `Expired` are the tools all of whose denials are, and a
clean-up forgets exactly those.

| Code | Action |
|---|---|
| `run_pre_execution_guards`, the block of destructive commands | `GuardRefuses`; `PassesGuards` in those below |
| `handle_permission_action`: Allow, Deny, Confirm | `RunsUnasked`, `Refuses`, `Asks` |
| `await_tool_confirmation`: Allow and AllowAlways, Deny, timeout, token | `LetsThrough`, `IsDenied`, `TimesOut`, `SeesCancel` |
| event loop: `ToolConfirmRequired` | `ShowsCard` |
| `PermissionActions.tsx`, `permission_respond` | `SendsReply`, `FinishesReply` |
| `turn_cancel` | `Cancels` |
| the clock of `DenialTracker` | `HalfAnHourPasses` |

**EngineTurn** is `run_turn_streaming_with_images`: a loop of steps, each with one
request, its stream, and `finalize_stream_turn`. The model, the tools, the hooks
and the user choose freely; a call is a tool with its arguments, of kinds that
the engine tells apart (edits, checks, observers, parallel, questions). A call of a
stream is *whole* or cut off in the middle of its arguments. A stream that ends with
its final response may hold a cut call all the same (`DoneWith`): the Anthropic
adapter says Done when the connection just ends, and every adapter does when the
answer reaches its limit of tokens.

| Code | Action |
|---|---|
| top of the loop | `SeesCancelAtTop`, `StopsAtBudget`, `SendsRequest` |
| `run_stream_receive_loop` with its watchdog | `ReceivesText`, `ReceivesCall`, `StreamFinishes`, `Stalls`, `SeesCancelInStream` |
| `handle_stream_task_completion`, `retry_stream_after_error` | `StreamFailsFatally`, `StreamFailsEmpty`, `StreamFailsLater`, `Retries`, `RetryFailsLater`, `SeesCancelInDelay`, `ShrinksHistory`, `GivesUpRetrying` |
| `finalize_stream_turn`: leak of the protocol, commit gate, answer | `RepeatsLeak`, `AbortsLeaking`, `DiscardsCalls`, `CommitsCalls`, `EndsUnfinished`, `FallsBack`, `AnswersFromStream` |
| fallback without a stream | `AnswersFromFallback`, `FallbackBringsCalls`, `FallbackFails`, `FallbackGivesUp` |
| verification gate and stop hooks, in `Answers` | `GateReminds`, `GateBlocks`, `HookContinues`, `Delivers` |
| `execute_stream_tool_calls`, `handle_tool_call` | `SeesCancelBeforeCall`, `StartsBatch`, `BatchReturns`, `RecordsBatch`, `HookStopsCall`, `RefusesCall`, `UnknownTool`, `AsksUser`, `ConfirmationEnds`, `UserDenies`, `RefusesDuplicate`, `StartsCall`, `CallReturns` |

**ToolRecovery** is what the engine remembers of failures and the state it derives
(`inject_intelligence`, `update_recovery_state`), as operators on one record. The
last failed call is remembered by its arguments as the model wrote them, and compared
with those a call is run with, which hooks and normalisation may have changed: whether
a repeated failing call is recognised is therefore a choice (`MayRepeat`).
**EnginePromise** is the abstract specification of a turn of the engine: it says
once or twice that it is done, last, and never returns without.

**RuntimeTasks** is the store behind its mutex and the workers of commands and
sub-agents in the background: `Create`, `Mark` (announce, drop the control, prune)
and the stages of a worker, `Stop` by the tool `task_stop`, and `TurnEnds`, which
drops them all. A result for a remote task (`RemoteResult`) names its task by an id
that the queue keeps on disk: one of this turn, or one that an item of an earlier
turn kept (`items`), and then it marks whatever task has that id now. Ids sort as texts where a retry looks for its parent, as in the
code. **TaskPromise** is the abstract specification: a task is pending, runs, ends
once, is announced once, and is cancelled only if someone asked.

**AgentTeams** composes it with the tools `agent`, `coordinate`, `team_create`,
`team_delete` and `team_run_ready`, the manager of teams behind a mutex, and the
timeout of five minutes that these tools have. `Phase` and `Chunk` are the
coordinator's plan. A background sub-agent is launched in two steps, `RunMember` (its
task is created) and `SpawnMember` (its worker is, after a hook); a call that times
out in between leaves a pending task with a control and no worker (`Orphaned`).
`Locked` is the one lock that is held from one step to
another. **Selection** is the filter that these two, the confirmations and the
journal use, without recursion that the provers could not follow.

A definition that a comment introduces as a *variant* is a mistake one could
make in the definition below it. No specification uses one; `PROJECT.json`
("mutants") says which property fails when it takes that definition's place, so
that each property is known to be able to fail.

## 3. What is checked

| Run | Question | Instance | States |
|---|---|---|---|
| `journal` | Does the journal keep its promise whatever its callers do? | 2 turns in 2 sessions; numbers 0..2; note, error and done; payloads of 1 character and byte, and of 2 characters and 4 bytes; limits 2 events and 3 characters | 344,569 |
| `lifecycle` | Do the two locks, the thread, the loop and a crash exclude, lose and leak nothing? | 2 processes, 1 session, 2 turns, 1 command of any kind, 1 event per engine and its failure, 1 crash; symmetric in processes and turns | 2,514,200 |
| `cancel` | Does a cancelled turn, and each command, end? Is the proofs' invariant one? | 2 processes, 1 turn, 1 command, six kinds of event, 2 per engine, 1 crash; with fairness, without symmetry | 983,234 |
| `confirm` | Do answers find their requests, and do rules, modes, denials and plan mode keep their order? | 7 turns of 3 calls in five modes, 6 commands of 3 tools, every source of rules; thresholds 2 and 1; 3 answers in all; denials that age; with fairness | 854,214 |
| `engine` | Is every turn closed, explained and checked, and is nothing of a broken answer run, whatever model, tools, hooks and user do? | 2 turns; 4 calls (looks, edits, verifies, asks), 2 per answer; budget 2, 2 retries, window 2; with fairness | 1,875,081 |
| `agents` | Do tasks and teams keep their promise against stops, pruning, timeouts and the end of the turn? | 2 members, one depends on the other and comes first; 2 tasks, 1 finished kept, 1 command; a queue without items and one that names task 1; with fairness | 619,456 |
| `journal_bytes`, `hang`, `startup`, `stale_answer`, `truncated`, `team_deadlock` | see [section 5](#5-where-the-code-and-its-comments-disagree) | small | - |

Deadlock is not checked: all these systems may stop for good, when every actor
is done and the bounds on events, answers and crashes are used up.

**Properties of the journal.** `EventsMatchRow`: events have a row, their numbers
increase and stay below the row's last. `EndIsOnRecord`: the event that ended a
turn survives every pruning. `OnlyPlainEventsGo`: pruning touches nothing of a
live turn and no essential event. `PruningFits`: a turn that is pruned fits both
limits, in the unit the code measures (characters; up to four times as many bytes,
section 5), unless its essential events alone do not. `KeepsPromise`: refinement of
TurnPromise.

**Properties of the lifecycle.** `SessionExclusion`: one turn or command works on
a session at a time, over all processes. `EngineUndisturbed`: while an engine
task lives, aborted or not, its session and row are there and its process keeps
the slot. `NothingLeaks`: each taken slot, lock and token belongs to an actor
that will give it back, and no release by kind frees another's. `HistoryIsCurrent`:
who works from loaded messages is the only one to have written them since.
`SeqAhead`: no event of a loop can be refused as a duplicate. `TerminalIsEarned`:
`completed` and `cancelled` are never made up by a failure or a restart.
`KeepsPromise`, as above. `CancelEnds`, `CommandsEnd`: liveness.

**Properties of the confirmation.** `AnswersReachTheirRequest`: as long as no card
is answered twice and none times out, each answer is consumed by its own call,
whatever the interleaving of engine, loop, screen and cancellation.
`RulesComeFromAnswers`: what runs unasked because of this turn's answers is
covered by an "always" that let an earlier call of the same tool run, and for a
shell by its command. `ManagedRulesHold`: no mode, rule, answer or count overrules
a managed rule. `DenialsEndTheAsking`: who has denied a tool often enough
within half an hour is not asked again, whatever a denial, a refusal or a blocked
command made the engine forget in between; older denials may be forgotten, by the
tool's own refusals as well. `RepositoryOnlyTightens`:
at any moment, for any command, what is decided with a repository's files is at
most what is decided without. `PlanningChangesNothing`: in plan mode nothing runs
but what reads and the way out, also by an answer. `CancelStopsTheQueue`,
`ConfirmationsEnd`.

**Properties of the engine.** `BrokenAnswersRunNothing`: calls are handled only of an
answer that came with its final response, never of one that broke off, in the request
or in a retry, nor of a fallback. (That its calls are whole,
`CutCallsNeverRun`, is what the comment of the gate says and is not so: section 5.) `EndsAreExplained`: when a turn returns, the user has the
answer, was told in the last step why there is none, or has cancelled; two silent
ends are named (`recovered`, `cut`). `DeliveredAfterCheck`: a turn that changed
files and delivers has a check that counted, however many reminders, hooks,
retries and compactions came between. `GateGivesWay`: the recovery gate refuses
two calls in a row at most, although its counts outlive the turn. `KeepsPromise`:
refinement of EnginePromise. `CancelEnds`: a cancelled turn returns, unless the engine
waits for the answer to a question (`AwaitsUser`) that never comes.

**Properties of tasks and teams.** `StoppableWhileAlive`: as long as a worker works,
its task is live in the store with a control, whatever else ends and is pruned;
afterwards nobody can stop it. `KeepsFewFinished`: pruning keeps to its limit.
`KeepsPromise`: refinement of TaskPromise. Both, the first and the last, are about the
tasks whose id no item of an earlier turn's queue names; for the others the code does
not keep them (section 5). `DependenciesReturn`: a workstream is run only when the
calls for those it depends on have returned; one in the background has then been
launched, not finished (section 5). `StopEnds`: a worker that was told to stop does,
but for a command that the system does not end and a sub-agent that never began.
`CallsEnd`: every call ends.

### Bounds, and why they are enough

- *Two processes and one session* in TurnLifecycle: locks are per session, and
  no action reads two sessions. Two turns and one command give every pair of
  contenders (turn/turn, turn/command), in the same and in different processes.
- *Two turns in two sessions* in TurnJournal: deletion is the one operation that
  takes a session, and must leave the other alone.
- *Limits of 2 events and 3 characters, sizes 1 and 2, 3 numbers*: a turn may be over
  either limit, over both, have essential events over the limits alone, and have
  a newer event that does not fit beside an older one that does. A note carries no
  status, so it may also follow the end of its turn and compete with it for a
  place; kinds that move a live status are in `cancel`.
- *`MaxSent`*: engines send 1 or 2 events (and a failure). The loop handles an
  event without regard to the others, and the order of two events (an event
  after `done`, a question while an event waits) is in the instance. `Sent` has
  only `done` in `lifecycle`, whose properties do not depend on the other kinds;
  the `cancel` run has six.
- *One crash*: a crash loses the memory of one process and touches no other; the
  process may start again and meet what it left.
- *Three calls and three answers*: a surplus answer, the call that consumes it,
  and one more. The seven turns give every mode, every source of rules, a kept
  rule of an earlier turn, plan mode entered and left, denials of one tool in a row, and
  a destructive command; the thresholds of the code (five and three) are scaled to two and one, so
  that three calls reach them.
- *Two turns of the engine, four calls, answers of two calls, a budget of two*: a
  count that outlives its turn meets the next one; an answer may hold a batch and
  a queue, two of one kind, or pass the budget in the middle; two retries have a
  first and a last one. A failure counts to three and an error of a type to two,
  and the code looks no further (ToolRecovery).
- *Two members and two tasks, one of them kept when finished*: a phase, its
  successor and a chunk of one; a task that ends prunes another; one command
  beside the workstreams competes with them for the store. `Queues` has no item, or
  one that names the first task, so that the second is one of this turn's own and
  competes with a task that anyone may end. `Direct` and `Results` leave out only
  symmetric or equal cases (either member may be run by `agent`; a result is marked
  the same way whatever it says). `Endings` does so for commands; for a sub-agent,
  an end of its own differs from another only in what the team is told.

### Fairness, and why the code justifies it

TurnLifecycle: weak fairness of the code of a turn before its engine starts
(`Prepares`), of its loop and thread (`Loops`), of a command's code
(`Operates`): straight-line code on a thread that is scheduled. Weak fairness of
`TakeCancel` on its own: `select!` picks among the branches that are ready at
random, so the branch of a token that stays cancelled is not passed over
forever. Weak fairness of `EngineDropped`: an aborted task is dropped at its next
await, and the code of a turn awaits between any two pieces of work. Nothing makes
a user act, a process start, or an engine return by itself: the model provider
and the tools may take forever.

EngineTurn: weak fairness of `Steps` (what the engine does without waiting),
`SeesCancel` (it polls the token while it waits for a stream or a delay), `Fallback`
(a request without a stream, with a timeout of its own), and of `Handles` while it does
not wait for the user: confirmations and all tools have a timeout, alone and in a
batch, but `ask_user` (`single_call/execution.rs:118`, `parallel.rs:169`), which does
not look at the token either. Hooks are taken to end: they have a timeout too, but a
hook that ignores the signal to end is waited for all the same. Nothing makes a
stream go on, a model answer, a watchdog fire, or a user answer a question.

AgentTeams: weak fairness of the progress of a call, its timeout included, and of
what workers do without waiting (`Work`), which includes the return of a sub-agent
whose engine was cancelled. When a command or a model ends is its own affair, also
for a command that was told to: `kill_process_group`
(`src/crates/yode-tools/src/process_env.rs:83-95`) sends SIGTERM, waits without a
limit, and sends the SIGKILL its comment calls the fallback only afterwards
(`CommandStops` is not fair). Nothing makes anyone stop a task.

ToolConfirmation: weak fairness of the engine's step. It polls twice a second and
looks at the clock each time. Nothing makes the user answer or the loop show a
card.

## 4. What is proved

Everything is proved for all values of the constants, from the assumptions that
the modules name: `ActorsDistinct` (turn ids and command ids are different, and
neither is the value for nobody), `BoundsAssumption` (the bounds are numbers, the
kinds are kinds); `SessionOfTurn` and `LimitsAssumption` of the journal (a turn has
a session, the limits are numbers, a character has one to four bytes, and no payload
is empty: `turn_loop.rs:86` makes it of a JSON value. An empty one would still be kept
when the essential events exceed the limit of its size); `CallsAreCalls`,
`KindsAssumption`, `BudgetsAssumption` of the engine; `LimitsAssumption`, `PlanAssumption` of the tasks and teams;
`CallsAssumption`, `TurnsAssumption`, `ThresholdAssumption` of the confirmations
(there are calls, turns have the shape of turns, a threshold is not zero).

| Theorem | Module | States |
|---|---|---|
| `TypesAreKept` | TurnLifecycle_proofs | `TypeOK` with `Budget` and `EngineStages` |
| `SessionsAreExclusive` | TurnExclusion_proofs | `Spec => []SessionExclusion` |
| `InvariantHolds` | TurnExclusion_proofs | `Spec => []IInv` |
| `EnginesAreUndisturbed` | TurnExclusion_proofs | `Spec => []EngineUndisturbed` |
| `HistoriesAreCurrent` | TurnExclusion_proofs | `Spec => []HistoryIsCurrent` |
| `NumbersAreAhead` | TurnExclusion_proofs | `Spec => []SeqAhead` |
| `NothingIsLeftOver` | TurnExclusion_proofs | `Spec => []NothingLeaks` |
| `EndsAreEarned` | TurnExclusion_proofs | `Spec => []TerminalIsEarned` |
| `RuntimeKeepsPromise` | TurnLifecycle_proofs | TurnLifecycle implements TurnPromise |
| `JournalTypesHold` | TurnJournal_proofs | `Spec => []TypeOK` |
| `TablesAgree` | TurnJournal_proofs | `Spec => []EventsMatchRow` |
| `EndStaysOnRecord` | TurnJournal_proofs | `Spec => []EndIsOnRecord` |
| `OnlyPlainGo` | TurnJournal_proofs | `Spec => OnlyPlainEventsGo` |
| `PrunedTurnsFit` | TurnJournal_proofs | `Spec => PruningFits` |
| `JournalKeepsPromise` | TurnJournal_proofs | TurnJournal implements TurnPromise |
| `TypesHold` | EngineTurn_proofs | `Spec => []TypeOK` |
| `NoBrokenAnswerRuns` | EngineTurn_proofs | `Spec => []BrokenAnswersRunNothing` |
| `TurnsAreExplained` | EngineTurn_proofs | `Spec => []EndsAreExplained` |
| `DeliveriesAreChecked` | EngineTurn_proofs | `Spec => []DeliveredAfterCheck` |
| `RecoveryGateGivesWay` | EngineTurn_proofs | `Spec => GateGivesWay` |
| `EngineKeepsPromise` | EngineTurn_proofs | EngineTurn implements EnginePromise |
| `TeamTypesHold` | AgentTeams_proofs | `Spec => []TypeOK` |
| `WorkersCanBeStopped` | AgentTeams_proofs | `Spec => []StoppableWhileAlive` |
| `FewFinishedAreKept` | AgentTeams_proofs | `Spec => []KeepsFewFinished` |
| `TasksKeepPromise` | AgentTeams_proofs | RuntimeTasks, in AgentTeams, implements TaskPromise |
| `DependenciesComeFirst` | AgentTeams_proofs | `Spec => []DependenciesReturn` |
| `ConfirmationTypesHold` | ToolConfirmation_proofs | `Spec => []TypeOK` |
| `QueueStops` | ToolConfirmation_proofs | `Spec => CancelStopsTheQueue` |
| `PlanningIsKept` | ToolConfirmation_proofs | `Spec => PlanningChangesNothing` |
| `AnswersAreOwn` | ToolConfirmation_proofs | `Spec => []AnswersReachTheirRequest` |
| `ManagedRulesDecide` | ToolConfirmation_proofs | `Spec => []ManagedRulesHold` |
| `RulesAreAnswers` | ToolConfirmation_proofs | `Spec => []RulesComeFromAnswers` |
| `RepositoriesTighten` | ToolConfirmation_proofs | `Spec => []RepositoryOnlyTightens` |
| `DenialsEnd` | ToolConfirmation_proofs | `Spec => []DenialsEndTheAsking` |

### The lifecycle

The invariant `IInv` is the conjunction of

- `TypeOK` and `Budget`. The loop's number is bounded only because what it has
  numbered and what is on its way to it was sent, up to one failure and one
  cancellation; without `Budget`, `TypeOK` is not inductive.
- `EngineStages`: an engine lives only in the stages of its thread between start
  and join.
- `LockOwned`: who is in a stage that holds the file lock is its owner.
  `SessionExclusion` follows at once, since a lock has one owner.
- `SlotOwned`: who is in a stage that holds the slot finds its own kind there and
  shares it with nobody of its process. This is what makes the release by kind
  safe: without the second part, a turn could free the slot of the next turn.
- `Recorded`: from the creation of its row to the end of its thread, a turn has
  its row and its session. A deletion needs the lock, which `LockOwned` gives to
  the turn.
- `Numbered`: `SeqAhead` carried back to the stages before the row exists.
- `HistoryIsCurrent` itself, inductive with `LockOwned`: only the holder of the
  lock writes.
- `NothingLeaks` and `Registered`. `LockOwned` and `SlotOwned` go from the stage to
  the maps; these go back: what is taken in a map (`SlotsHeld`, `LocksHeld` in the
  proof) is held by an actor in a stage that gives it back. The converse needs
  `SlotOwned`: the entry a release frees is that of the actor who releases, so
  nobody else's hold is left without an entry. `Registered` ties tokens to stages.
- `TerminalIsEarned` and `Witnessed`. A "done" in the channel was sent by an engine
  that is closing, a turn that drains, joins or has been released has the request
  in its row, and after the join its engine has ended. That the mark stays is where
  `Recorded` comes in: a row that is deleted and created anew would lose it.

The proof is layered the same way. `TurnStates_proofs` has the lemmas on rows
(`AppendedRow`, `InterruptedRow`, ...) and on where a status may go: `MayMove` is one
step of TurnPromise for one turn, or none, and `AppendedMoves`, `UpdatedMoves`,
`CancelMarkedMoves`, `InterruptedMoves` and `CreatedMoves` say that each transaction
makes at most one. `TurnLifecycle_proofs` shows that types, budget and stages are
kept, group of actions by group of actions, and from the types and those lemmas that
the rows keep TurnPromise; TurnJournal_proofs uses the same lemmas.
`TurnExclusion_proofs` takes this as given and shows ownership, then records,
then numbers, then histories, then what is held and how turns end, each layer using
the earlier ones; lemmas such as `MoveOwned`, `AbandonOwned`, `MoveHeld` and
`KeepEarned` are about the operators many actions share.
`IInv` is also an invariant of the run `cancel`, where TLC agreed before the
proof was tried.

### The journal

The callers are free, so what is proved holds for any of them, and for any limits
of pruning. `StepOfTurn` says what a step may do to one turn: append an event,
delete the turn, prune it, or write its row only; the properties then follow case
by case. An append is accepted with a number above the last one, so it goes to the
end of an increasing list (`AppendIncreasing`). Pruning is a selection that takes all
essential events (`KeptSelects`), and a selection keeps the order (`SelectOrdered`),
the bounds and what is to be kept (`SelectElements`). No caller asks for a status
that ends a turn by an event (`WrittenRow`), and each event that ends one is
essential. `EventsMatchRow` and `EndIsOnRecord` are inductive with the types; the
refinement needs no more than the types.

`PruningFits` is about a walk along a list, proved by induction over its steps
(`AccountedStep`): the events that would be selected after n steps and the places
left are together as many as the essential events and the places they left, and so
for the characters. A step that takes an event takes its number, and since numbers
increase (`TablesAgree`) that selects one event more (`OneMoreSelected`). Where the
essential events leave no place, or no character, the walk takes nothing.

### The engine

`IInv` of EngineTurn_proofs is `Sound /\ Spoken /\ Explained /\ Committable`.

- `Sound` is `TypeOK` with `Placed` (in which stage there may be calls, and how
  many a buffer holds) and `Counted` (the budget is looked at before a request, so
  calls used and calls still to be handled exceed it by less than one answer).
  None of the three is inductive alone.
- `Spoken`: `said = "done"` only when the turn has returned, or at the top of the
  loop with the token set, where it is said again; and always when it has
  returned. This is all the refinement of EnginePromise needs.
- `Explained`: a stream that failed has its reason before it is finalized;
  "delivered" is a reason of a turn that has returned; and the two properties.
- `Committable`: in a stream and in the waits between its retries nothing has gone
  wrong yet (`why` is empty), and a final response is there only in a step in which
  nothing had when it came. `BrokenAnswersRunNothing` follows: the handling of calls
  begins at the commit gate, with a final response. Nothing in it speaks of the calls' arguments, which
  may be cut (section 5).

`GateGivesWay` is an action property: it follows from the types and the table of
`StateFor` alone.

### Tasks and teams

`TInv` is about the store: types; the two properties; and, for every task, its
attempts (at most its number), nothing of it before its number is given, an
outcome as long as one is to be marked, and an announcement of its last status
exactly when it has ended. What it says of workers and announcements it says of the
tasks that no item of an earlier turn names (`Own`): no result of such an item can mark
them. That pruning leaves no more than the limit is a fact on the cardinality of
what `Mark` leaves. `TeamInv` adds the calls: a member of a phase has returned, waits, or is of the batch under way, the members of earlier
phases and chunks have returned, and nobody of a later phase has begun. The
predecessors of a workstream are in earlier phases because `Placed` grows, which
is an induction over the number of the phase.

### Confirmation

All safety properties of ToolConfirmation are proved, for any number of calls,
any set of turns and any tables of tools, risks and patterns.

- `Queue` is the order of the calls: one is taken up when those before it are over
  (`InOrder`), so that at most one is asked about; when a call has seen the
  cancellation none is asked about any more (`CancelEnds`); and what is asked
  about may run in the plan mode of the moment (`AskedMayRun`): the mode changes
  when a call runs, and no other call runs while one is asked about.
- `Channel` adds that cards are shown for calls that were asked about and, as long
  as no card is answered twice and none times out (`Orderly`), that what is in the
  channel is for calls that have no answer, one for each (`Matched`). The call
  that takes an answer is then the only one it can be for: the others that were
  asked about have an answer, or have seen a cancellation that stops the asking.
  `Orderly` is needed: the run `stale_answer` has an answer that reaches another call.
- `RulesInv`: every rule of the turn is that of a call that ran with an "always".
  What is allowed now and was not at the start must be covered by one of them,
  since the two lists of rules otherwise match and say the same.
- `Counted`: the recent denials of a tool are at most its count. A clean-up, of a
  denial or of a refusal, of this tool or another, forgets only counts of tools that
  have no recent denial; one that gets old stays counted until then.

Underneath are lemmas on lists of rules: among rules that match there is exactly
one that is first (`FirstIsOne`, with `Least` for the rank and then for the age);
what the engine was told does not change which managed rule decides
(`ManagedAreOfConfig`); and a list with the denials of a repository says the same
as one without, or denies (`TighterExplained`).

### Induction

Induction over data is done with **NatRecursion**. The library's theorem takes an
operator as a parameter; here a property is a subset of the numbers: every
non-empty one has a least element (from the well-foundedness of the proper
subset on finite intervals), hence induction, and `Recursion`. What `SelectIn`
selects is proved from it: the elements are those of the sequence that are in
the set, they keep their order, two complementary selections have the length of
the whole, and a selection of everything is the whole. `RecursionUpTo` gives the
same for a function on 0 .. n, which the sum of the characters and the walk of the
pruning are (`TotalsExist`, `WalkExists`).

### What is only model-checked

Every invariant and action property of the runs that pass, and every refinement,
is proved. Liveness (`CancelEnds` twice, `CommandsEnd`, `ConfirmationsEnd`,
`StopEnds`, `CallsEnd`) is not: it needs ENABLED, which is out of the prover's reach.
The properties of section 5 are there to be violated.

## 5. Where the code and its comments disagree

Each is the counterexample of one run.

- **`journal_bytes`** (`PruningBoundsBytes`). The comment at
  `core/db/turns.rs:419` says that nothing needs pruning when neither the number
  of events nor their bytes are over the limit, and `:88` that the limit is one of
  bytes. The guard under it only looks at the last number, and a turn with fewer than
  500 events keeps any number of bytes. What is added up then is
  `length(payload_json)` (`:424`), which counts the characters of a text: a turn that
  is pruned may keep four times the limit.
- **`hang`** (`RunningIsNotForever`). The comment of `release_turn_occupancy`
  (`desktop/runtime/turn_runtime.rs:704-706`) says that no path leaves a session
  taken for running forever. The branch of the token in the loop's `select!` has
  no pattern that could disable it, so `else => break` (`turn_loop.rs:291`) is
  unreachable: when the engine has returned, the loop waits until someone cancels.
- **`startup`** (`InterruptsLeftovers`). The comment at
  `desktop/runtime.rs:146-149` says that a start interrupts what the last run
  left, and not running turns. It interrupts every live row, those of another
  process that runs included.
- **`stale_answer`** (`OnlyThisExecution`). The card says that it allows this
  execution only. An answer has no id, and a second answer on one card, or one
  on the card of a request that has timed out, is consumed by the next request.
- **`truncated`** (`CutCallsNeverRun`). The comment of the commit gate
  (`core/engine/streaming_turn_runtime/finalization.rs:156-158`) says that calls
  are run only after Done has proved the stream complete, and that arguments that
  were cut off are never executed. `finalize_stream` of the Anthropic adapter
  (`src/crates/yode-llm/src/providers/anthropic/streaming_support.rs:203-244`)
  sends Done whenever the bytes end, with or without `message_stop`. With every
  adapter an answer that reaches its limit of tokens is a final response with the
  reason `MaxTokens` (`src/crates/yode-llm/src/providers/openai/streaming_support.rs:160-174`),
  to which `finalization.rs:99-109` adds a warning before the gate lets its calls
  through, the last one cut. Arguments that do not parse become an empty object
  (`single_call/mod.rs:86-87`).
- **`team_deadlock`** (`ReadyStepsRun`). `team_run_ready` describes itself as running
  ready steps (`src/crates/yode-tools/src/builtin/team_runtime/mod.rs:1062-1064`). It
  holds the lock of the manager while its sub-agents run (`:1124-1131`), and each
  of them takes that lock before it starts (`core/engine/subagent_runner.rs:629`):
  nothing runs until the tool times out after five minutes.

Three more are spelled out in the properties, which leave out what the code does
not keep, and have no run of their own:

- *Dependencies.* The schema of `coordinate` says of `depends_on` that these workstreams
  "must finish before this workstream runs"
  (`src/crates/yode-tools/src/builtin/coordinator/mod.rs:138`). Workstreams run in the
  background unless told otherwise (`:438`), and the next phase begins when the calls
  of the phase have returned: a workstream that was only launched, or has failed,
  is enough. `DependenciesReturn` says what holds.
- *The remote queue.* It is on disk and keeps the ids of tasks, which each turn's
  engine counts from 1. A result for an item of an earlier turn marks whatever task
  has its id now (`src/crates/yode-tools/src/builtin/remote_runtime/mod.rs:396-407`),
  a command or a sub-agent that runs included: it is announced as ended, loses its
  control, and its worker marks it again or finds it gone. `StoppableWhileAlive` and
  `KeepsPromise` of the tasks do not hold for such ids.
- *A command that ignores SIGTERM.* The comment of `kill_process_group` promises SIGKILL
  as the fallback (`src/crates/yode-tools/src/process_env.rs:87`), but the wait before it
  has no limit: `StopEnds` leaves out workers that wait there.

## 6. What is left out, and why

- *Contents.* Messages are their last writer, commands are model values, events
  are kinds. Timestamps, details, error codes, redaction and the size limit of a
  payload are read by no property.
- *`run_registry`*, a copy of the last status in memory: only `runs_list` reads it,
  for runs without a row.
- *The guard against sleep, logging, emission to the screen.*
- *Failures of the file system and of SQLite* other than the early returns the
  models name (`PrepareFails`, `ThreadFails`, refused transactions).
- *Code that cannot run*: the `else` of the loop's `select!` and the branch behind
  it for turns that were not cancelled (`turn_loop.rs:291`, `346-360`); the
  branch of a closed channel of answers (`permissions.rs:198`), whose sender
  lives until the engine is joined.
- *Compaction by the engine and by the local rule* are one kind of command: both
  read, then rewrite.
- *The journal's foreign key* to sessions is in TurnLifecycle (`CreateTurn`), where
  there is a table of sessions; TurnJournal's callers may create a row again
  after a deletion, which allows more than the code does.
- *The engine*: its budget of wall-clock time (a third way to `StopsAtBudget`), the
  chunks of a parallel batch (no result is recorded before the batch is
  complete), the texts of messages, usage and cost.
- *Tasks and teams*: the order of tasks that end within one second of each other
  (any may be pruned first); what the remote queue keeps but ids (an item that is
  sent again names its new task alone; in the model its old one may still get a
  result); messages between members, the files that mirror a team, worktrees.
- *Permissions*: rules of the command line (no program adds one), the counts by
  prefix of a shell command (shown, not decided with; the clean-up that comes with
  recording them is modelled), `record_success` (no
  callers: a success does not end a row of denials), the patterns' characters
  (`Globs` says which commands a text matches, and a text matches itself).
- *What the desktop keeps for the next turns* is a set of commands
  (`sessionRules`), an input of the next turn (`kept`); no property is about it.

## 7. Not modelled

- *The screen* (TypeScript: tracks, replay, watchdog). It keeps nothing the core
  relies on. One hazard of its replay is listed.
- *Multi-repository plans and worktrees.* Their state is that of git in other
  directories; the executor and the coordinator of worktrees are a library that
  no program of the repository calls. A hazard of the plans is listed.
- *MCP, language servers, providers, tools, terminal program*: input and output,
  with state of their own only in a library or another process. Of the providers,
  the end of a stream is modelled.
- *Configuration, trust, skills, plugins, code index, evaluations, scheduler, run
  controller, session memory*: sequential functions over files, without state that
  two actors share. Of the configuration, the layers of permissions are modelled.
- *ask_user*: the question and its effect on the turn are in TurnLifecycle, that it is
  waited for without a limit in EngineTurn; which
  question an answer reaches is the same channel without ids as in
  ToolConfirmation and is not modelled twice.

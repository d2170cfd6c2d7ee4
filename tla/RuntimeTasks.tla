---------------------------- MODULE RuntimeTasks ----------------------------
(***************************************************************************)
(* The background tasks of one engine (runtime_tasks/store.rs): the store  *)
(* behind its mutex, and the tasks of the async runtime that work for it,  *)
(* a command in the background (shell_runtime.rs) or a sub-agent           *)
(* (subagent_runner.rs).  A remote task has no worker: tools of the same   *)
(* turn start it and record its results (remote_runtime/mod.rs), by the id *)
(* that a queue on disk remembers.                                         *)
(*                                                                         *)
(* Every operation of the store runs under its lock and is one step.  Left *)
(* out are the texts of a task (progress, error, output file, transcript)  *)
(* and reads that change nothing (list, get, task_output, write_stdin).    *)
(***************************************************************************)
EXTENDS Integers, FiniteSets, Sequences

CONSTANTS
  Description,  \* what tasks are for, as far as a retry is recognised by it
  MaxFinished,  \* finished tasks the store keeps
  MaxTasks,     \* bound: tasks of the turn
  MaxNotes,     \* bound: announcements of one task
  Queues        \* bound: the sets of ids that items of earlier turns may name

ASSUME LimitsAssumption ==
  /\ MaxFinished \in Nat \ {0}
  /\ MaxTasks \in 1 .. 99
  /\ MaxNotes \in Nat \ {0}
  /\ Queues \subseteq SUBSET (1 .. MaxTasks)

VARIABLES
  tasks,     \* the tasks in the store, by id
  nextId,    \* the number of the next task
  controls,  \* ids whose worker can be told to stop
  asked,     \* ids whose worker has been told
  writers,   \* ids whose input can be written to
  notes,     \* the announcements of each task's end, never taken out
  worker,    \* where each task's worker is
  outcome,   \* how the command or the sub-agent ended, until its worker is gone
  items,     \* ids that the queue on disk names since an earlier turn
  over       \* the turn and its runtime are gone

taskVars ==
  <<tasks, nextId, controls, asked, writers, notes, worker, outcome, items, over>>

Id == 1 .. MaxTasks
None == 0

Finished == {"completed", "failed", "cancelled"}
Live == {"pending", "running"}
Kinds == {"shell", "agent", "remote"}

\* Where the worker of a command is, or that of a sub-agent: one that is created
\* has a task, but does not run yet.
ShellStages == {"forked", "opening", "executing", "killing", "exited"}
AgentStages == {"created", "called", "engine", "stopping", "answered", "reporting"}
Stages == {"idle", "gone"} \union ShellStages \union AgentStages

\* Those of a worker that has not marked its task running.
NotBegun == {"forked", "created", "called"}

Outcomes == {"none"} \union Finished

Init ==
  /\ tasks = <<>>
  /\ nextId = 1
  /\ controls = {}
  /\ asked = {}
  /\ writers = {}
  /\ notes = [i \in Id |-> <<>>]
  /\ worker = [i \in Id |-> "idle"]
  /\ outcome = [i \in Id |-> "none"]
  /\ items \in Queues
  /\ over = FALSE

-----------------------------------------------------------------------------
(***************************************************************************)
(* The operations of the store.                                            *)
(***************************************************************************)

\* How the text "task-i" sorts: digit by digit, a prefix first.
TextOrder(i) == IF i < 10 THEN 100 * i ELSE 10 * i + 1

\* The task a new one counts as a retry of: the last one, in the order of the
\* texts, that was for the same and did not complete.
RetryParent(kind, description) ==
  LET failed == {i \in DOMAIN tasks :
                   /\ tasks[i].kind = kind
                   /\ tasks[i].description = description
                   /\ tasks[i].status \in {"failed", "cancelled"}}
  IN  IF failed = {} THEN None
      ELSE CHOOSE i \in failed : \A j \in failed : TextOrder(j) <= TextOrder(i)

\* Variant: what is counted are the retries.
RetriesBefore(parent) == IF parent = None THEN 0 ELSE tasks[parent].attempt + 1

Attempt(parent) == IF parent = None THEN 1 ELSE tasks[parent].attempt + 1

NewTask(kind, description, status) ==
  LET parent == RetryParent(kind, description)
  IN  [kind |-> kind, description |-> description, status |-> status,
       attempt |-> Attempt(parent), retryOf |-> parent]

Create(kind, description, status) ==
  /\ nextId <= MaxTasks
  /\ tasks' = [i \in DOMAIN tasks \union {nextId} |->
                 IF i = nextId THEN NewTask(kind, description, status)
                 ELSE tasks[i]]
  /\ controls' = controls \union {nextId}
  /\ nextId' = nextId + 1

MarkRunning(id) ==
  tasks' = IF id \in DOMAIN tasks
           THEN [tasks EXCEPT ![id].status = "running"] ELSE tasks

\* Variant: every task counts for the limit.
Any(store) == DOMAIN store

Ended(store) == {i \in DOMAIN store : store[i].status \in Finished}

\* Variant: one too many is kept.
SurplusBarely(store) ==
  {R \in SUBSET Ended(store) :
     Cardinality(R) = IF Cardinality(Ended(store)) > MaxFinished + 1
                      THEN Cardinality(Ended(store)) - MaxFinished - 1 ELSE 0}

\* The finished tasks that have to go.  The oldest go first, but ages count in
\* seconds, so that of tasks that end together it may be any.
Surplus(store) ==
  {R \in SUBSET Ended(store) :
     Cardinality(R) = IF Cardinality(Ended(store)) > MaxFinished
                      THEN Cardinality(Ended(store)) - MaxFinished ELSE 0}

\* The end of a task, whatever its status is: announce it, drop its control
\* and its input, and prune.
Mark(id, status) ==
  LET marked == IF id \in DOMAIN tasks
                THEN [tasks EXCEPT ![id].status = status]
                ELSE tasks
  IN  \E R \in Surplus(marked) :
        /\ tasks' = [i \in DOMAIN marked \ R |-> marked[i]]
        /\ controls' = controls \ ({id} \union R)
        /\ writers' = writers \ {id}
        /\ notes' = IF id \in DOMAIN tasks
                    THEN [notes EXCEPT ![id] = Append(@, status)] ELSE notes

-----------------------------------------------------------------------------
(***************************************************************************)
(* The tools of the turn.                                                  *)
(***************************************************************************)

\* A task for a command, which then is on its way, or for a sub-agent.
Launch(kind, description) ==
  /\ ~over
  /\ Create(kind, description, "pending")
  /\ worker' = [worker EXCEPT ![nextId] = IF kind = "shell" THEN "forked" ELSE "created"]
  /\ UNCHANGED <<asked, writers, notes, outcome, items, over>>

\* A tool of the remote control starts a task and marks it running at once.
\* Nothing ends it but a result: a connection that fails leaves it running.
RemoteStarts(description) ==
  /\ ~over
  /\ Create("remote", description, "running")
  /\ UNCHANGED <<asked, writers, notes, worker, outcome, items, over>>

\* A result for the task that an item of the queue names, one of this turn or of
\* an earlier one, whose engine counted its tasks from 1 as well: it marks whatever
\* task has the id now.  There may be more than one.  (For a task that is not there
\* nothing changes.  An item that is sent again names its new task alone; here its
\* old one may still get a result.)
RemoteResult(id, status) ==
  /\ ~over
  /\ id \in items \/ worker[id] = "idle"
  /\ id \in DOMAIN tasks
  /\ Len(notes[id]) < MaxNotes
  /\ Mark(id, status)
  /\ UNCHANGED <<nextId, asked, worker, outcome, items, over>>

\* Variant: task_stop says itself that the task was cancelled.
StopMarks(id) ==
  /\ ~over
  /\ id \in DOMAIN tasks
  /\ tasks[id].status \in Live
  /\ id \in controls
  /\ asked' = asked \union {id}
  /\ Mark(id, "cancelled")
  /\ UNCHANGED <<nextId, worker, outcome, items, over>>

\* task_stop, for a task that is live and still has a control.
Stop(id) ==
  /\ ~over
  /\ id \in DOMAIN tasks
  /\ tasks[id].status \in Live
  /\ id \in controls
  /\ asked' = asked \union {id}
  /\ UNCHANGED <<tasks, nextId, controls, writers, notes, worker, outcome, items, over>>

\* The end of the turn drops the runtime with its workers, and the store; what
\* was announced is kept here for the promise.
TurnEnds ==
  /\ ~over
  /\ over' = TRUE
  /\ tasks' = <<>> /\ controls' = {} /\ writers' = {}
  /\ worker' = [i \in Id |-> IF worker[i] = "idle" THEN "idle" ELSE "gone"]
  /\ outcome' = [i \in Id |-> "none"]
  /\ UNCHANGED <<nextId, asked, notes, items>>

-----------------------------------------------------------------------------
(***************************************************************************)
(* The worker of a task.                                                   *)
(***************************************************************************)
At(id, stage) == ~over /\ worker[id] = stage
Goes(id, stage) == worker' = [worker EXCEPT ![id] = stage]

\* The task of the sub-agent is known to the hooks: now it runs by itself.
Spawned(id) ==
  /\ At(id, "created") /\ Goes(id, "called")
  /\ UNCHANGED <<tasks, nextId, controls, asked, writers, notes, outcome, items, over>>

Starts(id) ==
  /\ \/ At(id, "forked") /\ Goes(id, "opening")
     \/ At(id, "called") /\ Goes(id, "engine")
  /\ MarkRunning(id)
  /\ UNCHANGED <<nextId, controls, asked, writers, notes, outcome, items, over>>

\* The output file or the process cannot be made.
ShellFailsToStart(id) ==
  /\ At(id, "opening") /\ Goes(id, "gone")
  /\ Mark(id, "failed")
  /\ UNCHANGED <<nextId, asked, outcome, items, over>>

ShellRuns(id) ==
  /\ At(id, "opening") /\ Goes(id, "executing")
  /\ writers' = IF id \in DOMAIN tasks THEN writers \union {id} ELSE writers
  /\ UNCHANGED <<tasks, nextId, controls, asked, notes, outcome, items, over>>

\* The command, or the turn of the sub-agent's own engine, ends by itself.
WorkEnds(id, status) ==
  /\ \/ At(id, "executing") /\ Goes(id, "exited")
     \/ At(id, "engine") /\ Goes(id, "answered")
  /\ outcome' = [outcome EXCEPT ![id] = status]
  /\ UNCHANGED <<tasks, nextId, controls, asked, writers, notes, items, over>>

\* Variant: only commands can be stopped.
ShellSeesStop(id) ==
  /\ id \in asked
  /\ At(id, "executing") /\ Goes(id, "killing")
  /\ UNCHANGED <<tasks, nextId, controls, asked, writers, notes, outcome, items, over>>

SeesStop(id) ==
  /\ id \in asked
  /\ \/ At(id, "executing") /\ Goes(id, "killing")
     \/ At(id, "engine") /\ Goes(id, "stopping")
  /\ UNCHANGED <<tasks, nextId, controls, asked, writers, notes, outcome, items, over>>

\* The processes of the command have ended, or cannot be killed.  The signal to
\* end is followed by a wait without a limit, and only then by the one to kill.
CommandStops(id) ==
  /\ At(id, "killing") /\ Goes(id, "exited")
  /\ \E status \in {"cancelled", "failed"} : outcome' = [outcome EXCEPT ![id] = status]
  /\ UNCHANGED <<tasks, nextId, controls, asked, writers, notes, items, over>>

\* The cancelled turn of the sub-agent's engine returns.
AgentStops(id) ==
  /\ At(id, "stopping") /\ Goes(id, "answered")
  /\ outcome' = [outcome EXCEPT ![id] = "cancelled"]
  /\ UNCHANGED <<tasks, nextId, controls, asked, writers, notes, items, over>>

\* The worker marks its task; a sub-agent's then reports to its team.
MarksEnd(id) ==
  /\ \/ At(id, "exited") /\ Goes(id, "gone") /\ outcome' = [outcome EXCEPT ![id] = "none"]
     \/ At(id, "answered") /\ Goes(id, "reporting") /\ UNCHANGED outcome
  /\ Mark(id, outcome[id])
  /\ UNCHANGED <<nextId, asked, items, over>>

Reports(id) ==
  /\ At(id, "reporting") /\ Goes(id, "gone")
  /\ outcome' = [outcome EXCEPT ![id] = "none"]
  /\ UNCHANGED <<tasks, nextId, controls, asked, writers, notes, items, over>>

\* What a worker does without waiting for a command or a model.
Proceeds(id) ==
  Starts(id) \/ ShellFailsToStart(id) \/ ShellRuns(id) \/ SeesStop(id)
  \/ AgentStops(id) \/ MarksEnd(id)

-----------------------------------------------------------------------------
(* Properties. *)

TaskRecord ==
  [kind : Kinds, description : Description, status : Live \union Finished,
   attempt : 1 .. MaxTasks, retryOf : 0 .. MaxTasks]

\* Types of all the variables; a retry comes after the task it retries.
TasksTypeOK ==
  /\ DOMAIN tasks \subseteq 1 .. nextId - 1
  /\ \A i \in DOMAIN tasks : tasks[i] \in TaskRecord /\ tasks[i].retryOf < i
  /\ nextId \in 1 .. MaxTasks + 1
  /\ controls \subseteq Id /\ asked \subseteq Id /\ writers \subseteq Id
  /\ notes \in [Id -> Seq(Finished)]
  /\ worker \in [Id -> Stages]
  /\ outcome \in [Id -> Outcomes]
  /\ items \subseteq Id
  /\ over \in BOOLEAN

\* The tasks with a worker, and an id that no item of an earlier turn names.
Own == {i \in Id \ items : worker[i] # "idle"}

\* The worker of task i has not marked its end.
Unmarked(i) == worker[i] \notin {"idle", "reporting", "gone"}

\* As long as a command or a sub-agent works, its task is in the store, live and
\* with a control to stop it, whatever else ends and is pruned; once its end is
\* marked, nobody can stop it or write to it any more.  Not so for a task whose id
\* an item of an earlier turn names: a result for that item ends it while its
\* worker goes on without a control.
StoppableWhileAlive ==
  \A i \in Own :
    /\ Unmarked(i) => /\ i \in DOMAIN tasks /\ i \in controls
                      /\ tasks[i].status =
                           IF worker[i] \in NotBegun THEN "pending" ELSE "running"
    /\ ~Unmarked(i) /\ ~over => i \notin controls /\ i \notin writers

\* The store keeps no more finished tasks than its limit.
KeepsFewFinished == Cardinality(Ended(tasks)) <= MaxFinished

\* What the promise calls the life of a task: a task that was pruned is known by
\* the announcement of its end.
Life(i) ==
  IF i \notin Own THEN "absent"
  ELSE IF i \in DOMAIN tasks THEN tasks[i].status
  ELSE IF notes[i] # <<>> THEN notes[i][Len(notes[i])]
  ELSE "lost"

Promise == INSTANCE TaskPromise WITH
  Task <- Id,
  life <- [i \in Id |-> Life(i)],
  told <- [i \in Id |-> IF i \in Own THEN Len(notes[i]) ELSE 0],
  asked <- asked \intersect Own

\* The lives of the tasks are as TaskPromise has it, but for those whose id an item
\* of an earlier turn names: these may end twice, or before their worker does.
KeepsPromise == Promise!Spec

\* A worker that was told to stop does: again and again there is none that was
\* told and works on, but for a command that does not end when it is signalled, and
\* a sub-agent that never began to run.  (None that has stopped works again.)
StopEnds == []<>(\A i \in asked : Unmarked(i) => worker[i] \in {"created", "killing"})
=============================================================================

----------------------------- MODULE AgentTeams -----------------------------
(***************************************************************************)
(* Sub-agents and teams: the tools agent, coordinate, team_create,         *)
(* team_delete and team_run_ready of one engine, its AgentTeamManager      *)
(* behind a mutex, and the background tasks of RuntimeTasks, whose workers *)
(* report to the manager.  One team is enough: nothing in the manager      *)
(* relates two of them.  A sub-agent has an engine, a store and a manager  *)
(* of its own; of it, its start and its end are seen here.                 *)
(*                                                                         *)
(* The engine runs these tools one at a time and gives each five minutes.  *)
(* Hooks are taken to end.                                                 *)
(* Left out: the messages of a team, the task and the texts it shows of a  *)
(* member, the files that mirror it, a team that an earlier turn left in   *)
(* those files, and the worktrees of sub-agents.                           *)
(***************************************************************************)
EXTENDS RuntimeTasks, Selection

CONSTANTS
  Members,      \* the members of the team and the workstreams of a plan
  Workstreams,  \* the workstreams of coordinate, in their order
  DependsOn,    \* the workstreams that one depends on
  PlanDepends,  \* the steps of the team's plan that a member's step depends on
  MaxParallel,  \* workstreams of a phase that are run together
  Commands,     \* descriptions of commands and remote tasks
  MaxCommands,  \* bound: commands and remote tasks come last, and are this many
  Direct,       \* bound: the members that the tool agent is run for
  Results,      \* bound: what results for remote tasks say
  Endings       \* bound: how a task with a worker ends by itself

ASSUME PlanAssumption ==
  /\ Workstreams \in Seq(Members)
  /\ \A i, j \in DOMAIN Workstreams : Workstreams[i] = Workstreams[j] => i = j
  /\ DependsOn \in [Members -> SUBSET {Workstreams[i] : i \in DOMAIN Workstreams}]
  /\ PlanDepends \in [Members -> SUBSET Members]
  /\ MaxParallel \in Nat \ {0}
  /\ Members \union Commands \subseteq Description
  /\ MaxCommands \in 0 .. MaxTasks
  /\ Direct \subseteq Members
  /\ Results \union Endings \subseteq {"completed", "failed"}

VARIABLES
  team,    \* the members in the manager; the empty function without a team
  call,    \* the tool call under way
  stream,  \* where the call is with each member
  owner    \* the member that a task's worker reports for

teamVars == <<team, call, stream, owner>>
vars == <<taskVars, teamVars>>

Nobody == "nobody"
NoCall == [tool |-> "none", bg |-> {}, phase |-> 0, chunk |-> 0, batch |-> {}]
NoTeam == <<>>

\* The lock of the manager, where it is held from one step to another.
Locked == call.tool = "team_run_ready"

Streams ==
  {"waiting", "starting", "announcing", "foreground", "launched", "done", "failed"}
Statuses == {"planned", "running"} \union Finished

TeamInit ==
  /\ Init
  /\ team = NoTeam
  /\ call = NoCall
  /\ stream = [m \in Members |-> "waiting"]
  /\ owner = [i \in Id |-> Nobody]

\* No call is under way, so the engine may begin one.
Ready == ~over /\ call = NoCall

-----------------------------------------------------------------------------
(***************************************************************************)
(* The phases of coordinate: a workstream comes in the first phase whose   *)
(* predecessors hold all it depends on, and a phase is run in chunks.      *)
(***************************************************************************)
Placed[n \in Nat] ==
  IF n = 0 THEN {}
  ELSE {m \in Members : DependsOn[m] \subseteq Placed[n - 1]}

\* Variant: a workstream waits for no other.
PhaseAtOnce(n) == IF n = 1 THEN Workstreams ELSE <<>>

Phase(n) == SelectIn(Workstreams, Placed[n] \ Placed[n - 1])

Chunk(n, k) ==
  LET last == IF k * MaxParallel < Len(Phase(n)) THEN k * MaxParallel ELSE Len(Phase(n))
  IN  {Phase(n)[i] : i \in (k - 1) * MaxParallel + 1 .. last}

\* The chunk after this one, of this phase or the next one.
Following(c) ==
  LET next == IF Chunk(c.phase, c.chunk + 1) # {} THEN <<c.phase, c.chunk + 1>>
              ELSE <<c.phase + 1, 1>>
  IN  [c EXCEPT !.phase = next[1], !.chunk = next[2], !.batch = Chunk(next[1], next[2])]

-----------------------------------------------------------------------------
(***************************************************************************)
(* The manager: ensure_team and update_member.                             *)
(***************************************************************************)
Ensured(members, status) == [m \in members |-> status]

\* A member that the team does not have is an error that is only recorded.
Updated(t, m, status) == IF m \in DOMAIN t THEN [t EXCEPT ![m] = status] ELSE t

\* The steps of the plan that may run.
ReadyMembers ==
  {m \in DOMAIN team :
     /\ team[m] = "planned"
     /\ \A d \in PlanDepends[m] \intersect DOMAIN team : team[d] = "completed"}

-----------------------------------------------------------------------------
(* The tools. *)

\* With all the members; a team of one is made by agent (NewTeam).
TeamCreate ==
  /\ Ready
  /\ team' = Ensured(Members, "planned")
  /\ UNCHANGED <<taskVars, call, stream, owner>>

TeamDelete ==
  /\ Ready
  /\ team' = NoTeam
  /\ UNCHANGED <<taskVars, call, stream, owner>>

\* The bound on tasks leaves room for the background workstreams of a call.
HasRoom(bg) == nextId + Cardinality(bg) <= MaxTasks + 1

Begins(tool, bg, phase, chunk, batch) ==
  /\ Ready /\ HasRoom(bg)
  /\ call' = [tool |-> tool, bg |-> bg, phase |-> phase, chunk |-> chunk, batch |-> batch]
  /\ stream' = [m \in Members |-> IF m \in batch THEN "starting" ELSE "waiting"]

\* The tool agent, for a member or for nobody of a team (then m is just a name).
Agent(m, bg) ==
  /\ Begins("agent", IF bg THEN {m} ELSE {}, 0, 0, {m})
  /\ UNCHANGED <<taskVars, team, owner>>

Coordinate(bg) ==
  /\ Begins("coordinate", bg, 1, 1, Chunk(1, 1))
  /\ team' = Ensured({Workstreams[i] : i \in DOMAIN Workstreams}, "running")
  /\ UNCHANGED <<taskVars, owner>>

\* The lock is held to the end of the call.  Without a ready member
\* the call ends at once.
TeamRunReady(members, bg) ==
  /\ members \subseteq ReadyMembers /\ members # {} /\ bg \subseteq members
  /\ Begins("team_run_ready", bg, 0, 0, members)
  /\ team' = [m \in DOMAIN team |-> IF m \in members THEN "running" ELSE team[m]]
  /\ UNCHANGED <<taskVars, owner>>

\* run_sub_agent for a member: its messages are taken from the manager, which
\* needs the lock; then it is run, or its task is made and the hooks are told.
RunMember(m) ==
  /\ ~over /\ stream[m] = "starting" /\ ~Locked
  /\ IF m \in call.bg
     THEN /\ Launch("agent", m)
          /\ owner' = [owner EXCEPT ![nextId] = m]
          /\ stream' = [stream EXCEPT ![m] = "announcing"]
     ELSE /\ stream' = [stream EXCEPT ![m] = "foreground"]
          /\ UNCHANGED <<taskVars, owner>>
  /\ UNCHANGED <<team, call>>

\* The hooks have returned, and the sub-agent goes to the background.
SpawnMember(m) ==
  /\ ~over /\ stream[m] = "announcing"
  /\ \E id \in Id : owner[id] = m /\ Spawned(id)
  /\ stream' = [stream EXCEPT ![m] = "launched"]
  /\ UNCHANGED <<team, call, owner>>

\* A worktree, a directory or a file that cannot be made or is not there.  (The
\* directory is looked at before the messages; team_run_ready gives the session's
\* own, which is there.)
LaunchFails(m) ==
  /\ ~over /\ stream[m] = "starting" /\ ~Locked
  /\ stream' = [stream EXCEPT ![m] = "failed"]
  /\ UNCHANGED <<taskVars, team, call, owner>>

\* A sub-agent that is run ends; only a success is told to the team here.
ForegroundEnds(m, ok) ==
  /\ ~over /\ stream[m] = "foreground"
  /\ stream' = [stream EXCEPT ![m] = IF ok THEN "done" ELSE "failed"]
  /\ team' = IF ok THEN Updated(team, m, "completed") ELSE team
  /\ UNCHANGED <<taskVars, call, owner>>

Returned(m) == stream[m] \in {"launched", "done", "failed"}

\* What a batch is for the team: a member launched in the background is running,
\* even when its task has already ended.  The tool agent says nothing of a
\* failure, and makes a team of its member if there is none.
Joined(t) ==
  [m \in DOMAIN t |->
     IF m \notin call.batch THEN t[m]
     ELSE CASE stream[m] = "launched" -> "running"
            [] stream[m] = "done"     -> "completed"
            [] stream[m] = "failed"   -> IF call.tool = "agent" THEN t[m] ELSE "failed"]

NewTeam == [m \in {b \in call.batch : stream[b] # "failed"} |-> "running"]

EndsCall ==
  /\ call' = NoCall
  /\ stream' = [m \in Members |-> "waiting"]

\* All of a batch have returned: the team learns it, and the next batch begins.
BatchJoins ==
  /\ ~over /\ call # NoCall
  /\ \A m \in call.batch : Returned(m)
  /\ \/ /\ call.tool = "agent"
        /\ \/ team' = Joined(IF team = NoTeam THEN NewTeam ELSE team)
           \/ team' = team   \* the agent was not run for a team
        /\ EndsCall
     \/ /\ call.tool = "coordinate"
        /\ team' = Joined(team)
        /\ LET next == Following(call)
           IN  IF next.batch = {} THEN EndsCall
               ELSE /\ call' = next
                    /\ stream' = [m \in Members |->
                                    IF m \in next.batch THEN "starting" ELSE stream[m]]
  /\ UNCHANGED <<taskVars, owner>>

\* Those whose task waits for the hooks get no worker any more.
Orphaned == [i \in Id |-> IF worker[i] = "created" THEN Nobody ELSE owner[i]]

\* Variant: only the run of a sub-agent is under the timeout.
RunTimesOut ==
  /\ ~over /\ \E m \in call.batch : stream[m] = "foreground"
  /\ EndsCall
  /\ UNCHANGED <<taskVars, team, owner>>

\* Five minutes have passed: the call is dropped, and the lock with it.  A
\* sub-agent that the call was running goes on, and nobody hears of it; a task
\* that waited for the hooks stays pending, with a control and no worker.
CallTimesOut ==
  /\ ~over /\ \E m \in call.batch : stream[m] \in {"starting", "announcing", "foreground"}
  /\ EndsCall
  /\ owner' = Orphaned
  /\ UNCHANGED <<taskVars, team>>

-----------------------------------------------------------------------------
(* Tools and workers of RuntimeTasks. *)

MayCommand == Ready /\ nextId + MaxCommands > MaxTasks

Others ==
  /\ \/ MayCommand /\ \E d \in Commands : Launch("shell", d)
     \/ MayCommand /\ \E d \in Commands : RemoteStarts(d)
     \/ Ready /\ \E i \in Id, status \in Results : RemoteResult(i, status)
     \/ Ready /\ \E i \in Id : Stop(i)
  /\ UNCHANGED teamVars

\* With the turn, the manager goes as well.
Over ==
  /\ TurnEnds
  /\ team' = NoTeam /\ EndsCall
  /\ owner' = [i \in Id |-> Nobody]

Work(id) ==
  /\ UNCHANGED teamVars
  /\ Proceeds(id)

Waits(id) ==
  /\ CommandStops(id) \/ \E status \in Endings : WorkEnds(id, status)
  /\ UNCHANGED teamVars

\* A worker tells the member's team how the task ended.
TellsTeam(id) ==
  /\ Reports(id) /\ ~Locked
  /\ team' = IF owner[id] = Nobody THEN team ELSE Updated(team, owner[id], outcome[id])
  /\ owner' = [owner EXCEPT ![id] = Nobody]
  /\ UNCHANGED <<call, stream>>

-----------------------------------------------------------------------------
Begin ==
  \/ TeamCreate \/ TeamDelete
  \/ \E m \in Direct, bg \in BOOLEAN : Agent(m, bg)
  \/ \E bg \in SUBSET {Workstreams[i] : i \in DOMAIN Workstreams} : Coordinate(bg)
  \/ \E ms \in SUBSET ReadyMembers : \E bg \in SUBSET ms : TeamRunReady(ms, bg)

Starting(m) == RunMember(m) \/ SpawnMember(m) \/ LaunchFails(m)

Next ==
  \/ Begin
  \/ \E m \in Members : Starting(m)
  \/ \E m \in Members, ok \in BOOLEAN : ForegroundEnds(m, ok)
  \/ BatchJoins \/ CallTimesOut
  \/ Others \/ Over
  \/ \E id \in Id : Work(id) \/ Waits(id) \/ TellsTeam(id)

Spec == TeamInit /\ [][Next]_vars

\* A call goes on, and runs into its timeout at last; the workers go on.  When a
\* command or a model ends is its own affair, also when the command is signalled.
FairSpec ==
  /\ Spec
  /\ WF_vars((\E m \in Members : Starting(m)) \/ BatchJoins \/ CallTimesOut)
  /\ WF_vars(\E id \in Id : Work(id))

-----------------------------------------------------------------------------
(* Properties. *)

\* Types of all the variables, with those of the tasks.
TypeOK ==
  /\ TasksTypeOK
  /\ DOMAIN team \subseteq Members
  /\ \A m \in DOMAIN team : team[m] \in Statuses
  /\ call.tool \in {"none", "agent", "coordinate", "team_run_ready"}
  /\ call.bg \subseteq Members /\ call.batch \subseteq Members
  /\ stream \in [Members -> Streams]
  /\ owner \in [Id -> Members \union {Nobody}]

\* coordinate begins a workstream only when the calls for those it depends on have
\* returned: one that is run has ended, well or not, and one in the background was
\* launched and may still work.  (The tool's own words for depends_on are stronger:
\* "must finish before this workstream runs".)
DependenciesReturn ==
  call.tool = "coordinate" =>
    \A m \in Members : stream[m] # "waiting" =>
      \A d \in DependsOn[m] : stream[d] \in {"failed", IF d \in call.bg THEN "launched" ELSE "done"}

\* Every call ends, also when a sub-agent does not or the lock is never free: again
\* and again there is none.
CallsEnd == []<>(call = NoCall \/ over)

\* "Run ready agent-team plan steps through the configured sub-agent runner":
\* a member that team_run_ready takes on is run, or fails to.
ReadyStepsRun ==
  \A m \in Members :
    call.tool = "team_run_ready" /\ m \in call.batch ~>
      stream[m] \in {"foreground", "launched", "failed"} \/ over
=============================================================================

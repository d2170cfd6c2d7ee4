SPECIFICATION FairSpec
CONSTANTS
  a = a
  b = b
  cmd = cmd
  Members = {a, b}
  Commands = {cmd}
  Description = {a, b, cmd}
  Workstreams <- MCWorkstreams
  DependsOn <- MCDepends
  PlanDepends <- MCDepends
  MaxParallel = 1
  MaxFinished = 1
  MaxTasks = 2
  MaxNotes = 1
  Queues = {{}, {1}}
  MaxCommands = 1
  Direct = {a}
  Results = {"failed"}
  Endings = {"completed"}
INVARIANTS
  TypeOK
  StoppableWhileAlive
  KeepsFewFinished
  DependenciesReturn
PROPERTIES
  KeepsPromise
  StopEnds
  CallsEnd
CHECK_DEADLOCK FALSE

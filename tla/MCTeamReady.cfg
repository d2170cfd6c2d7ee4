SPECIFICATION FairSpec
CONSTANTS
  a = a
  b = b
  cmd = cmd
  Members = {a, b}
  Commands = {}
  Description = {a, b, cmd}
  Workstreams <- MCWorkstreams
  DependsOn <- MCDepends
  PlanDepends <- MCDepends
  MaxParallel = 1
  MaxFinished = 1
  MaxTasks = 1
  MaxNotes = 1
  Queues = {{}}
  MaxCommands = 0
  Direct = {a}
  Results = {"failed"}
  Endings = {"completed"}
PROPERTIES
  ReadyStepsRun
CHECK_DEADLOCK FALSE

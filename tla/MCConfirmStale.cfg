SPECIFICATION Spec
CONSTANTS
  list = list
  look = look
  remove = remove
  wipe = wipe
  edit = edit
  leave = leave
  Commands <- MCCommands
  ToolOf <- MCToolOf
  RiskOf <- MCRiskOf
  Globs <- MCGlobs
  Capabilities <- MCCapabilities
  Threshold <- MCThreshold
  Turns <- MCTurns
  Calls = 3
  MaxReplies = 2
INVARIANTS
  OnlyThisExecution
CHECK_DEADLOCK FALSE

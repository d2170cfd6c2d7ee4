SPECIFICATION FairSpec
CONSTANTS
  look = look
  edit = edit
  check = check
  ask = ask
  Call = {look, edit, check, ask}
  Discovery = {look}
  Observers = {look}
  Parallel = {look, ask}
  Edits = {edit}
  Checks = {check}
  Questions = {ask}
  MaxToolCalls = 2
  MaxSteps = 0
  MaxRetries = 2
  Window = 2
  MaxCalls = 2
  MaxTurns = 2
INVARIANTS
  TypeOK
  BrokenAnswersRunNothing
  EndsAreExplained
  DeliveredAfterCheck
PROPERTIES
  GateGivesWay
  KeepsPromise
  
CHECK_DEADLOCK FALSE

SPECIFICATION Spec
CONSTANTS
  look = look
  edit = edit
  check = check
  ask = ask
  Call = {look, edit, check, ask}
  Discovery = {look}
  Observers = {look}
  Parallel = {look, ask}
  Edits = {edit}
  Checks = {check}
  Questions = {ask}
  MaxToolCalls = 2
  MaxSteps = 0
  MaxRetries = 1
  Window = 2
  MaxCalls = 2
  MaxTurns = 1
INVARIANTS
  CutCallsNeverRun
CHECK_DEADLOCK FALSE

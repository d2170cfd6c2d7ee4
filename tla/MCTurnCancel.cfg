SPECIFICATION FairSpec
CONSTANTS
  Instance = {i1, i2}
  Session = {s1}
  Turn = {t1}
  Op = {o1}
  Nobody = Nobody
  Sent = {"progress", "note", "approval", "ask_user", "error", "done"}
  MaxSent = 2
  MaxCrashes = 1
INVARIANTS
  IInv
PROPERTIES
  CancelEnds
  CommandsEnd
CHECK_DEADLOCK FALSE

SPECIFICATION FairSpec
CONSTANTS
  Instance = {i1}
  Session = {s1}
  Turn = {t1}
  Op = {o1}
  Nobody = Nobody
  Sent = {"progress", "done"}
  MaxSent = 1
  MaxCrashes = 0
PROPERTIES
  RunningIsNotForever
CHECK_DEADLOCK FALSE

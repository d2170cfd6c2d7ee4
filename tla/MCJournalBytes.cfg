SPECIFICATION Spec
CONSTANTS
  t1 = t1
  t2 = t2
  s1 = s1
  s2 = s2
  Turn = {t1, t2}
  Session = {s1, s2}
  SessionOf <- MCSessionOf
  MaxTurnEvents = 2
  MaxTurnEventBytes = 3
  Kinds = {"progress", "error", "done"}
  Sizes <- MCSizes
  MaxSeq = 2
PROPERTIES
  PruningBoundsBytes
CHECK_DEADLOCK FALSE

SPECIFICATION Spec
CONSTANTS
  Instance = {i1, i2}
  Session = {s1}
  Turn = {t1, t2}
  Op = {o1}
  Nobody = Nobody
  Sent = {"done"}
  MaxSent = 1
  MaxCrashes = 1
INVARIANTS
  TypeOK
  SessionExclusion
  EngineUndisturbed
  NothingLeaks
  HistoryIsCurrent
  SeqAhead
  TerminalIsEarned
PROPERTIES
  KeepsPromise
SYMMETRY Symmetry
CHECK_DEADLOCK FALSE

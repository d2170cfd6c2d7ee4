SPECIFICATION Spec
CONSTANTS
  Instance = {i1, i2}
  Session = {s1}
  Turn = {t1}
  Op = {o1}
  Nobody = Nobody
  Sent = {"done"}
  MaxSent = 1
  MaxCrashes = 0
PROPERTIES
  InterruptsLeftovers
CHECK_DEADLOCK FALSE

SPECIFICATION Spec
CONSTANTS
  Files = {f1, f2}
  Stages = {s1}
  None = None
  MaxRuns = 1
  BtcInstalled = TRUE
  LateFailures = {"TimeoutError"}
CHECK_DEADLOCK FALSE
PROPERTIES
  CancelEnds

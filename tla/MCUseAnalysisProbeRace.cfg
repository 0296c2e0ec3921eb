SPECIFICATION Spec
CONSTANTS
  Files = {f1, f2}
  Stages = {s1}
  None = None
  MaxRuns = 2
  BtcInstalled = TRUE
  LateFailures = {"TimeoutError", "SpawnError", "CallbackError", "BunError"}
CHECK_DEADLOCK FALSE
INVARIANTS
  UpgradesWhenInstalled

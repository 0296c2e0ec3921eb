SPECIFICATION ScreenSpec
CONSTANTS
  Files = {f1, f2}
  Stages = {s1}
  None = None
  MaxRuns = 2
  BtcInstalled = TRUE
  LateFailures = {"TimeoutError", "SpawnError", "CallbackError", "BunError"}
  IsMock = TRUE
CHECK_DEADLOCK FALSE
INVARIANTS
  TypeOK
  ShownIsLive
  PhaseHonest
  SingleLiveRun
  QuitAborts
  NoSilentDowngrade
  TellsOneStory
PROPERTIES
  EscapeGetsOut
  LooksLikeOneRun

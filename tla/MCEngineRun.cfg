SPECIFICATION Spec
CONSTANTS
  StdoutCap = 1
  PipeCap = 1
  MaxChunks = 2
  MaxLines = 2
  CallbackMayThrow = TRUE
CHECK_DEADLOCK FALSE
INVARIANTS
  TypeOK
  NoOrphan
  SettledClean
  AbortPursued
  ResultIsComplete
PROPERTIES
  FirstReasonWins
  GraceRespected
  AbortReapsChild
  KeepsPromise

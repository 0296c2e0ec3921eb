SPECIFICATION Spec
CONSTANTS
  Named <- MCNamed
  LibrosaLabels = {"N", "C", "Cm"}
  BtcLabels = {"N", "X", "C"}
  LibrosaFrames = 7
  BtcFrames = 4
  Hop = 3
  MinRun = 3
  Unit = 7
  Milli = 3
  Timestep = 2
  Eps = 1
  None = None
CHECK_DEADLOCK FALSE
INVARIANTS
  ContractMet
  NoFlicker
  LinesAreTheAudio
  CellsTell

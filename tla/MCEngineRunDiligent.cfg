SPECIFICATION DiligentSpec
CONSTANTS
  StdoutCap = 1
  PipeCap = 1
  MaxChunks = 2
  MaxLines = 2
  CallbackMayThrow = TRUE
CHECK_DEADLOCK FALSE
PROPERTIES
  PipesDrained

SPECIFICATION Spec
CONSTANTS
  None = None
  Missing = Missing
  Json <- MCJson
  Chars <- MCChars
  MaxCalls = 2
  Outputs <- MCOutputs
  One = 2
  Eps = 2
  Depth = 6
  Notes <- MCNotes
  Capitals <- MCCapitals
  FlatTexts <- MCFlatTexts
  Tonics <- MCTonics
  Roots <- MCRoots
  Qualities <- MCQualities
CHECK_DEADLOCK FALSE
INVARIANTS
  EachLineOnce
  AgreeButForTolerance
  RoundTrip
  LabelsTell
  NumeralsTell

SPECIFICATION Spec
CONSTANTS
  Procs = {p1, p2}
  Files = {f1}
  Contents = {a, b}
  Engines = {"librosa", "btc"}
  MaxVersion <- MCMaxVersion
  EditDuringRun = FALSE
  None = None
  Torn = Torn
INVARIANTS
  TypeOK
  CacheHonest
  AnswersTheQuestion
PROPERTIES
  BypassLeavesCache
  LooksUncached
SYMMETRY Symmetry

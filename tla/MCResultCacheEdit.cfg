SPECIFICATION Spec
CONSTANTS
  Procs = {p1, p2}
  Files = {f1}
  Contents = {a, b}
  Engines = {"librosa", "btc"}
  MaxVersion <- MCMaxVersion
  EditDuringRun = TRUE
  None = None
  Torn = Torn
INVARIANTS
  CacheHonest
SYMMETRY Symmetry

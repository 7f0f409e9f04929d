SPECIFICATION Spec
CONSTANTS
  Procs = {p1, p2}
  NoProc = NoProc
  Contexts = {c1, c2}
  Hosts = {h1, h2}
  NoHost = NoHost
  Options <- AllOptions
  Serial = FALSE
  Faults = TRUE
  RemoveNeedsClose = TRUE
INVARIANTS TypeOK DamageExplained SavedContext TempRemoved
PROPERTIES MergeLosesOnlyUnseen
SYMMETRY Symmetry
CHECK_DEADLOCK FALSE

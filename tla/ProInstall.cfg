SPECIFICATION Spec
CONSTANTS
  good1 = good1
  good2 = good2
  bad = bad
  Procs = {p1, p2}
  Builds <- AllBuilds
  Broken <- BadBuilds
  Faults = TRUE
INVARIANTS DamageExplained InstalledAsAsked TempRemoved
PROPERTIES AllEnd
CHECK_DEADLOCK FALSE

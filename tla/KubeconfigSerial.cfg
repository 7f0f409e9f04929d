SPECIFICATION Spec
CONSTANTS
  Procs = {p1, p2}
  NoProc = NoProc
  Contexts = {c1, c2}
  Hosts = {h1, h2}
  NoHost = NoHost
  Options <- RemoteOptions
  Serial = TRUE
  Faults = FALSE
  RemoveNeedsClose = FALSE
PROPERTIES UpdatesAtOnce
SYMMETRY Symmetry
CHECK_DEADLOCK FALSE

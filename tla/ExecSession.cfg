SPECIFICATION Spec
CONSTANTS
  PipeCap = 1
  MaxOut = 2
  Streamed = TRUE
INVARIANTS CutExplained CodeIsGenuine
PROPERTIES Returns KeepsPromise
CHECK_DEADLOCK FALSE

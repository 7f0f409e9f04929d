SPECIFICATION FairSpec
CONSTANTS
  Window = 4
  AdjustSlack = 1
  PipeCap = 1
  MaxOut = 4
  Streamed = TRUE
INVARIANTS TypeOK WindowConserved WindowRecoverable CompleteOnSuccess
PROPERTIES NoLateOutput Returns KeepsPromise
CHECK_DEADLOCK FALSE

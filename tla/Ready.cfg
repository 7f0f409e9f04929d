SPECIFICATION Spec
CONSTANTS
  Nodes = {n1, n2}
  AttemptCounts <- MCAttemptCounts
INVARIANTS NilMeansReady ReadyInTimeConfirmed
PROPERTIES Returns
CHECK_DEADLOCK FALSE

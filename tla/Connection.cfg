SPECIFICATION Spec
INVARIANTS SignerReachable ClosedOnReturn OneConnectionAtATime
PROPERTIES Returns
CHECK_DEADLOCK FALSE

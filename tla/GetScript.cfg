SPECIFICATION ScriptSpec
INVARIANTS Survives ToldTheTruth
CHECK_DEADLOCK FALSE

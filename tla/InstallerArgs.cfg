SPECIFICATION Spec
CONSTANTS
  Extras <- SomeExtras
  Quoted <- EndsWord
  Unpaired <- WithoutEnd
INVARIANTS NodeAsAsked
CHECK_DEADLOCK FALSE

CONSTANTS
  i1 = i1
  i2 = i2
  i3 = i3
  Plans <- Raced
  Requests <- Three
CHECK_DEADLOCK FALSE
SYMMETRY Anonymous
SPECIFICATION Spec
INVARIANTS EveryStageAnswered ClosedHasAnswer
PROPERTIES StartsOnce

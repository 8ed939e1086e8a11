CONSTANTS
  i1 = i1
  i2 = i2
  i3 = i3
  Plans <- EveryMode
  Requests <- One
CHECK_DEADLOCK FALSE
SPECIFICATION FairSpec
INVARIANTS StagesInOrder
PROPERTIES DoneStays TasksEnd

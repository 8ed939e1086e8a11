SPECIFICATION Spec
CONSTANTS
    Timings <- Kinds
    MaxText = 6
    MaxWordText = 5
    MaxDelta = 3
    MaxMarks = 2
    Checkpoint = 2
CHECK_DEADLOCK FALSE
INVARIANTS TypeOK MarksLast

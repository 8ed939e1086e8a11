SPECIFICATION Spec
CONSTANTS
    Timings <- SlowWords
    MaxText = 5
    MaxWordText = 5
    MaxDelta = 3
    MaxMarks = 0
    Checkpoint = 2
INVARIANTS LettersInOrder
CHECK_DEADLOCK FALSE

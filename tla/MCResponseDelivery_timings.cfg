SPECIFICATION FairSpec
CONSTANTS
    Timings <- Kinds
    MaxText = 6
    MaxWordText = 5
    MaxDelta = 3
    MaxMarks = 2
    Checkpoint = 2
INVARIANTS TextInOrder SnapshotBehind CompletedIsWhole
PROPERTIES Settles
CHECK_DEADLOCK FALSE

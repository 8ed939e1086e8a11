SPECIFICATION Spec
CONSTANTS
    s1 = s1
    s2 = s2
    Slots <- MCSlots
    MaxEvents = 3
    PendingLimit = 1
    QueueLimit = 3
    BatchLimit = 3
    MaxAttempts = 2
    MaxStops = 0
    MaxFaults = 2
INVARIANTS SummaryAgrees
CHECK_DEADLOCK FALSE

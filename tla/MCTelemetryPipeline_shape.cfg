SPECIFICATION Spec
CONSTANTS
    s1 = s1
    s2 = s2
    Slots <- MCSlots
    MaxEvents = 3
    PendingLimit = 1
    QueueLimit = 2
    BatchLimit = 2
    MaxAttempts = 2
    MaxStops = 1
    MaxFaults = 1
CHECK_DEADLOCK FALSE
INVARIANTS TypeOK SizesKept NumberedInOrder

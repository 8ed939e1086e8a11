SPECIFICATION FairSpec
CONSTANTS
    first = first
    second = second
    a = a
    b = b
    r1 = r1
    r2 = r2
    Tasks = {first, second}
    Chats = {first}
    Servers = {a, b}
    Arrivals <- MCArrivals
    Requests = {r1, r2}
    Commands = {r1}
    Deployments <- BothWays
    MaxFaults = 1
INVARIANTS Reachable
PROPERTIES Stopped Forgotten
CHECK_DEADLOCK FALSE

SPECIFICATION Spec
CONSTANTS
    first = first
    second = second
    a = a
    b = b
    r1 = r1
    r2 = r2
    Tasks = {first, second}
    Chats = {first, second}
    Servers = {a, b}
    Arrivals <- MCArrivals
    Requests = {r1, r2}
    Commands = {r1}
    Deployments <- NoRedis
    MaxFaults = 0
INVARIANTS StopsAll
CHECK_DEADLOCK FALSE

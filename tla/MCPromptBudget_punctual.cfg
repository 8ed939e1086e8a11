CONSTANTS
  r1 = r1
  r2 = r2
  r3 = r3
  q1 = q1
  q2 = q2
  NoScope = NoScope
  Runs <- ThreeRuns
  Scopes <- OneScope
  Limit <- LimitTwo
  Lease = 4
  Heartbeat = 1
  Faults <- Punctual
SYMMETRY Anonymous
SPECIFICATION Spec
INVARIANTS LiveRunsHoldPlaces DeliveredWithinLimit

CONSTANTS
  r1 = r1
  r2 = r2
  r3 = r3
  r4 = r4
  m1 = m1
  m2 = m2
  i1 = i1
  i2 = i2
  NoMessage = NoMessage
  Requests <- FourRequests
  Messages = {m1, m2}
  Items = {i1, i2}
  NoItem = NoItem
  Sendings <- TwoMessages
  Places <- TwoTasks
  Rules <- SomeRules
  Draws <- SomeDraws
  Tries = 3
CHECK_DEADLOCK FALSE
SPECIFICATION NumberingSpec
INVARIANTS NumberingTypeOK PromptsWithoutGaps

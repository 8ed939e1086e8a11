CONSTANTS
  r1 = r1
  r2 = r2
  m1 = m1
  m2 = m2
  t1 = t1
  t2 = t2
  NoMessage = NoMessage
  Requests <- TwoPrompts
  Messages = {m1, m2}
  Items = {}
  NoItem = NoItem
  Sendings <- OnePromptEach
  Places <- NoPlaces
  Rules <- EveryRequest
  Draws <- Certain
  Tries = 3
  RowLocks = TRUE
  Tabs <- TwoTabs
  Cadences <- SomeWarnings
  OneChat = TRUE
  MaxReports = 2
  MaxTokens = 2
SYMMETRY Interchangeable
CHECK_DEADLOCK FALSE
SPECIFICATION Spec
INVARIANTS TypeOK

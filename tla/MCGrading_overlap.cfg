CONSTANTS
  q1 = q1
  q2 = q2
  w1 = w1
  w2 = w2
  Responses <- OneQuestion
  Gradings <- SingleLLM
  Forms <- OneForm
  Workers <- TwoWorkers
  MaxAttempts = 1
  Early = TRUE
  Overlap = TRUE
  Crashes = TRUE
CHECK_DEADLOCK FALSE
SPECIFICATION Spec
SYMMETRY Interchangeable
INVARIANTS FinalIsComplete

CONSTANTS
  q1 = q1
  q2 = q2
  w1 = w1
  w2 = w2
  Responses <- Questions
  Gradings <- Mixed
  Forms <- FullForms
  Workers <- TwoWorkers
  MaxAttempts = 2
  Early = FALSE
  Overlap = FALSE
  Crashes = TRUE
CHECK_DEADLOCK FALSE
SPECIFICATION Spec
INVARIANTS TypeOK GradedHasScore FinalIsComplete

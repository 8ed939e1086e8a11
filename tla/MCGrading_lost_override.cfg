CONSTANTS
  q1 = q1
  q2 = q2
  w1 = w1
  w2 = w2
  Responses <- OneQuestion
  Gradings <- SingleLLM
  Forms <- SingleForms
  Workers <- TwoWorkers
  MaxAttempts = 2
  Early = FALSE
  Overlap = TRUE
  Crashes = FALSE
CHECK_DEADLOCK FALSE
SPECIFICATION Spec
PROPERTIES GradeSparesOverride

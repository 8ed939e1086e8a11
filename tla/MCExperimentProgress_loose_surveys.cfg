CONSTANTS
  i1 = i1
  i2 = i2
  i3 = i3
  Plans <- LooseSurveys
  Requests <- One
CHECK_DEADLOCK FALSE
SPECIFICATION Spec
INVARIANTS RequiredSurveysAnswered

SPECIFICATION Spec
CONSTANTS
  Deadlines <- UpToQueryTimeout
  FirstCap = 15
  RecoverCap = 20
INVARIANTS SecondAttemptHasTime CachedAnswerSurvives AsksTheQuery
CHECK_DEADLOCK FALSE

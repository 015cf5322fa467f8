SPECIFICATION Spec
CONSTANTS
  r1 = r1
  r2 = r2
  s1 = s1
  s2 = s2
  Runs <- TwoRuns
  Steps <- OneStep
  MaxEvents = 4
  MaxBytes = 8
  MaxLines = 4
  Shared = FALSE
  MayFail = {}
INVARIANT PollMissesNothing
CONSTRAINT OneReader
CHECK_DEADLOCK FALSE

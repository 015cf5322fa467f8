SPECIFICATION Spec
CONSTANTS
  r1 = r1
  r2 = r2
  s1 = s1
  s2 = s2
  Runs <- TwoRuns
  Steps <- OneStep
  MaxEvents = 2
  MaxBytes = 4
  MaxLines = 4
  Shared = FALSE
  MayFail = {"message"}
INVARIANT SeqsIncrease
INVARIANT ClosedLogIsComplete
INVARIANT PageKeepsUp
INVARIANT CursorWithinLog
CHECK_DEADLOCK FALSE
CONSTRAINT OneReader
SYMMETRY RunSymmetry

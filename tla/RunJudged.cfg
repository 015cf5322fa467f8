SPECIFICATION FairSpec
CONSTANTS
  NumGates = 3
  ManualOnly <- SecondGate
  GateModes <- AutoOnly
  JudgeDeps = TRUE
  SummaryDeps = FALSE
  Faults <- AllFaults
INVARIANT AnsweredOnce
INVARIANT EveryAnswerRecorded
PROPERTY JudgedGateIsAttended
CHECK_DEADLOCK FALSE

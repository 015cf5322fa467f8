SPECIFICATION FairSpec
CONSTANTS
  NumGates = 2
  ManualOnly <- LastGate
  GateModes <- BothModes
  JudgeDeps = FALSE
  SummaryDeps = TRUE
  Faults <- NoFaults
INVARIANT RunningIsDriven
INVARIANT ObservedSettlementIsDurable
PROPERTY LifecycleSpec
PROPERTY RunSettles
PROPERTY EndedRunIsPublished
CHECK_DEADLOCK FALSE

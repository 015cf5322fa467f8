SPECIFICATION MaterialSpec
CONSTANTS
  opus = opus
  codex = codex
  sonnet = sonnet
  local = local
  t1 = t1
  t2 = t2
  Unknown = Unknown
  Shell = Shell
  None = None
  Entries <- Models
  Transport <- Kinds
  Entry0 = opus
  Fallback <- Chain
  Declarations <- SomeSteps
  Tools = {t1, t2}
  LoopConsecutive = 2
  LoopWindow = 3
  LoopDistinctMin = 3
  MaxCalls = 3
  i1 = i1
  i2 = i2
  pr = pr
  Label = {i1, i2, pr}
  Hub <- Kind
  Links <- Named
  Denied = {".env", ".key"}
  Subjects <- Asked
  MaxFetches = 2
INVARIANT MaterialIsHonest
PROPERTY ImplementsContract
PROPERTY CancelEndsTheChain
PROPERTY StepSettles
CHECK_DEADLOCK FALSE

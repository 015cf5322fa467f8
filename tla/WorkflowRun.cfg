SPECIFICATION Spec
CONSTANTS
  r1 = r1
  r2 = r2
  None = None
  Refused = Refused
  Run = {r1, r2}
  Name <- AnyName
  Plans <- ShippedPlans
  Starts <- Pairs
  MaxDirs = 2
INVARIANTS PromptsRender ExportIsApproved TicketIsWhole NothingOnBrokenTree
PROPERTY RunEnds
CHECK_DEADLOCK FALSE

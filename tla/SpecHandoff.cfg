SPECIFICATION Spec
CONSTANTS
  r1 = r1
  r2 = r2
  None = None
  Torn = Torn
  Run = {r1, r2}
  Anchor = {r1}
  Outcome = {"succeeded", "failed", "rejected"}
  Pipeline <- Shipped
  MaxCrashes = 0
  MaxFaults = 0
INVARIANT ApprovedSpecIsHandedOn
CHECK_DEADLOCK FALSE

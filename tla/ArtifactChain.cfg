SPECIFICATION Spec
CONSTANTS
  r1 = r1
  r2 = r2
  None = None
  Torn = Torn
  Run = {r1, r2}
  Anchor = {r1}
  Outcome = {"succeeded", "failed", "rejected"}
  Pipeline <- Shipped
  MaxCrashes = 1
  MaxFaults = 1
INVARIANTS CompletedIsTrue ManifestAgrees OwnRunIsRestored ReadersAgree
CHECK_DEADLOCK FALSE

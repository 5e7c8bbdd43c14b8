SPECIFICATION Spec
CONSTANTS
  NumItems = 2
  ItemId <- OwnIds
  Origin = "create"
  DurableSchema = TRUE
  UuidItems = FALSE
  HasMetrics = TRUE
  MaxAttempts = 3
  Slots = {s1}
  Cancellers = {}
  FaultKinds = {"db"}
  MaxFaults = 3
INVARIANT AllFailedMeansFailed

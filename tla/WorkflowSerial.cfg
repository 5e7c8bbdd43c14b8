SPECIFICATION Spec
CONSTANTS
  NumItems = 3
  ItemId <- OwnIds
  Origin = "create"
  DurableSchema = TRUE
  UuidItems = FALSE
  HasMetrics = TRUE
  MaxAttempts = 3
  Slots = {s1}
  Cancellers = {}
  FaultKinds = {"db", "crash", "metrics", "abort", "commit"}
  MaxFaults = 4
INVARIANT OutcomeRecorded
PROPERTY NoCallAfterRecord
PROPERTY ImplementsAggregate
INVARIANT ProgressNeverAhead

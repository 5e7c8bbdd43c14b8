SPECIFICATION Spec
CONSTANTS
  NumItems = 2
  ItemId <- OwnIds
  Origin = "create"
  DurableSchema = TRUE
  UuidItems = FALSE
  HasMetrics = TRUE
  MaxAttempts = 2
  Slots = {s1}
  Cancellers = {c1}
  FaultKinds = {}
  MaxFaults = 0
PROPERTY TerminalImmutable

SPECIFICATION Spec
CONSTANTS
  NumItems = 2
  ItemId <- OwnIds
  Origin = "create"
  DurableSchema = TRUE
  UuidItems = FALSE
  HasMetrics = TRUE
  MaxAttempts = 2
  Slots = {s1, s2}
  Cancellers = {c1}
  FaultKinds = {"db", "crash", "stall", "metrics", "abort", "commit", "signal"}
  MaxFaults = 2
SYMMETRY SlotSymmetry
INVARIANT TypeOK
INVARIANT FinalizedBeforeTerminal
PROPERTY CancelStopsNewItems
INVARIANT ProviderCallBound
INVARIANT SuccessRestsOnRecord

SPECIFICATION BackendSpec
CONSTANTS
  Handlers = {h1, h2}
  Events = {e1, e2}
  Unreadable = {e2}
  MaxPublished = 1
  BatchSize = 2
  MaxDeliveryCount = 2
  MaxBusFaults = 2
  MaxUnsubscribes = 1
  AgentCancels = {c1, c2}
  MaxAgentFaults = 2
  MaxOrchItems = 3
  MaxOrchExecutions = 3
  MaxSteps = 4
  MaxBatch = 3
  NumItems = 2
  ItemId <- SharedIds
  Origin = "create"
  DurableSchema = FALSE
  UuidItems = TRUE
  HasMetrics = TRUE
  MaxAttempts = 3
  Slots = {s1}
  Cancellers = {}
  FaultKinds = {"db", "metrics"}
  MaxFaults = 2
INVARIANT BackendTypeOK
INVARIANT RemovedIsAccounted
INVARIANT CopiesBounded
INVARIANT FailureReportNeedsStaleWrite
INVARIANT ExecutionsBounded
INVARIANT CompletedMeansAnswered
INVARIANT CancelHeeded
INVARIANT TrajectoryAgrees
PROPERTY StreamDrains
PROPERTY LoopEnds
PROPERTY WorkflowRunEnds
CHECK_DEADLOCK FALSE

SPECIFICATION Spec
CONSTANTS
  MaxRounds = 3
  MaxTokens = 3
  CallTokens <- SomeTokens
  DearestCall = 3
  MaxAttempts = 2
  Slots = {s1, s2}
  Requests = {q1, q2}
  RoundKinds = {"plain", "hit", "error"}
  FaultKinds = {"db", "crash", "stall", "setup", "judge", "abort", "schedule", "signal"}
  MaxFaults = 1
SYMMETRY SlotAndRequestSymmetry
INVARIANT TerminalNotReexecuted
INVARIANT ResultMeansTerminal
INVARIANT BudgetHeld
INVARIANT CountedOnce
INVARIANT ResultsHoldDurable
PROPERTY ResumeSkipsDurable

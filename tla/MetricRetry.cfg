SPECIFICATION Spec
CONSTANTS
  MaxRounds = 2
  MaxTokens = 2
  CallTokens <- SomeTokens
  DearestCall = 3
  MaxAttempts = 2
  Slots = {s1}
  Requests = {q1}
  RoundKinds = {"plain", "hit"}
  FaultKinds = {"db"}
  MaxFaults = 1
PROPERTY RetryInvokesNoProvider

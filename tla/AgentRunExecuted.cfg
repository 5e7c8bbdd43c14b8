SPECIFICATION AgentSpec
CONSTANTS
  AgentCancels = {}
  MaxAgentFaults = 0
INVARIANT CreatedRunIsExecuted
CHECK_DEADLOCK FALSE

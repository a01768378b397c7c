SPECIFICATION Spec
CONSTANTS
  Agents <- MCAgents
  Spans <- SlowSpans
  AgentOf <- SlowAgentOf
  StartOf <- SlowStartOf
  EndOf <- SlowEndOf
  Terminal = {}
  IdleGap = 1
  SeenCap = 3
  Attempts = 2
  MaxTime = 5
  MaxDeliveries = 2
  MaxStoreFailures = 0
  MaxCrashes = 0
INVARIANT GapOnlySplits
CHECK_DEADLOCK FALSE

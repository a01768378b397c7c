SPECIFICATION Spec
CONSTANTS
  Agents <- MCAgents
  Spans <- MCSpans
  AgentOf <- MCAgentOf
  StartOf <- MCStartOf
  EndOf <- MCEndOf
  Terminal <- MCTerminal
  IdleGap = 1
  SeenCap = 3
  Attempts = 2
  MaxTime = 3
  MaxDeliveries = 2
  MaxStoreFailures = 0
  MaxCrashes = 0
PROPERTY ClosedStaysClosed
CHECK_DEADLOCK FALSE

SPECIFICATION FairStorageSpec
CONSTANTS
  Agents <- MCAgents
  Spans <- MCSpans
  AgentOf <- MCAgentOf
  StartOf <- MCStartOf
  EndOf <- MCEndOf
  Terminal <- MCTerminal
  IdleGap = 1
  SeenCap = 2
  Attempts = 2
  MaxTime = 2
  MaxDeliveries = 2
  MaxStoreFailures = 2
  MaxCrashes = 0
  Keep = 1
  Watched = {}
PROPERTIES OpenedGetsClosed OldAgesOut
CHECK_DEADLOCK FALSE

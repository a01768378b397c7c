SPECIFICATION StorageSpec
ACTION_CONSTRAINT OneFault
CONSTANTS
  Agents <- MCAgents
  Spans <- MCSpans
  AgentOf <- MCAgentOf
  StartOf <- MCStartOf
  EndOf <- MCEndOf
  Terminal <- MCTerminal
  IdleGap = 1
  SeenCap = 2
  Attempts = 1
  MaxTime = 2
  MaxDeliveries = 2
  MaxStoreFailures = 1
  MaxCrashes = 1
  Keep = 1
  Watched <- MCWatched
INVARIANTS DetailsHaveSummary
PROPERTIES ClosedPageMissesOnlyLast
CHECK_DEADLOCK FALSE

SPECIFICATION Spec
CONSTANTS
  Agents <- MCAgents
  Spans <- MCSpans
  AgentOf <- MCAgentOf
  StartOf <- MCStartOf
  EndOf <- MCEndOf
  Terminal <- MCTerminal
  IdleGap = 1
  SeenCap = 1
  Attempts = 1
  MaxTime = 2
  MaxDeliveries = 3
  MaxStoreFailures = 1
  MaxCrashes = 1
INVARIANTS TypeOK AckedIsDurable AssembledOnce ClosedIsComplete DetailsUnderTheirTrace AssemblyInv
PROPERTY OnlySweptReopen
CHECK_DEADLOCK FALSE

SPECIFICATION Spec
CONSTANTS
  t1 = t1
  t2 = t2
  Traces = {t1, t2}
  Watched = t1
  Final = 2
  ChannelCap = 1
  MaxLoads = 3
  MaxFailures = 2
INVARIANTS
  EdgeInv
  StaleOnlyIfMissed
  ClosedPageIsLoaded
CHECK_DEADLOCK FALSE

SPECIFICATION FairSpec
CONSTANTS
  p1 = p1
  p2 = p2
  NoPod = NoPod
  Pods <- OnePod
  NumSlots = 1
  ApmSlots <- FirstSlot
  MaxIncarnation = 2
  NumSources = 1
  SteadySources <- FirstSlot
  MaxAttempts = 2
  BaseDelay = 1
  MaxDelay = 1
  ExecTimeout = 1
  MaxQueue = 2
  Sweeping = TRUE
  Reconfigurable = FALSE
PROPERTIES ImplementsInjection LeakReclaimed
CHECK_DEADLOCK FALSE

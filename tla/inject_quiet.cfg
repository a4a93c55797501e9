SPECIFICATION FairSpec
CONSTANTS
  p1 = p1
  p2 = p2
  NoPod = NoPod
  Pods <- OnePod
  NumSlots = 1
  ApmSlots <- FirstSlot
  MaxIncarnation = 2
  NumSources = 2
  SteadySources <- FirstSlot
  MaxAttempts = 3
  BaseDelay = 1
  MaxDelay = 2
  ExecTimeout = 3
  MaxQueue = 2
  Sweeping = FALSE
  Reconfigurable = TRUE
INVARIANTS MarkedIsProcessed LivePodsCached
PROPERTIES RetriedToTheEnd LockReleased
CHECK_DEADLOCK FALSE

SPECIFICATION Spec
CONSTANTS
  p1 = p1
  p2 = p2
  NoPod = NoPod
  Pods <- TwoPods
  NumSlots = 1
  ApmSlots <- FirstSlot
  MaxIncarnation = 1
  NumSources = 2
  SteadySources <- BothSlots
  MaxAttempts = 3
  BaseDelay = 1
  MaxDelay = 2
  ExecTimeout = 1
  MaxQueue = 2
  Sweeping = FALSE
  Reconfigurable = FALSE
INVARIANTS TypeOK PassBudget ProcessedIsMarked DeletedPodsForgotten
PROPERTIES ImplementsInjection NoReinjection
CHECK_DEADLOCK FALSE

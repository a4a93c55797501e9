SPECIFICATION Spec
CONSTANTS
  c1 = c1
  v1 = v1
  v2 = v2
  Walkers = {c1}
  Kinds <- AllKinds
  Values = {v1, v2}
  Null = Null
  Keys <- ThreeKeys
  MaxInt = 7
  Capacity = 1
  Limits = {0, 2}
  Copies = 2
INVARIANTS TableAndListAgree EnumerationFollowsOrder
PROPERTIES ImplementsOrderedMap
CHECK_DEADLOCK FALSE

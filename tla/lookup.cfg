SPECIFICATION FairSpec
CONSTANTS
  r1 = r1
  r2 = r2
  c1 = c1
  k8s = k8s
  moby = moby
  Requests = {r1, r2}
  Containers = {c1}
  Namespaces = {k8s, moby}
  NamespaceOf <- AllInK8s
  Runtimes <- AllRuntimes
  MaxPid = 1
  TTL = 1
  SweepInterval = 1
  MaxAge = 1
  MaxDelay = 1
INVARIANTS TypeOK FreshAnswers OneConnection
PROPERTIES DeadForgotten NamespacesLoaded
CHECK_DEADLOCK FALSE

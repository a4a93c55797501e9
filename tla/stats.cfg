SPECIFICATION Spec
CONSTANTS
  w1 = w1
  w2 = w2
  c1 = c1
  c2 = c2
  s1 = s1
  s2 = s2
  s3 = s3
  a1 = a1
  a2 = a2
  Workers = {w1, w2}
  Containers = {c1, c2}
  First = c1
  Pids = {p1, p2}
  Nodes <- MCNodes
  Versions = {"", "legacy"}
  Requests <- MCRequests
  Nobody = nobody
  MaxEnded = 1
  MaxFailures = 1
  MaxRequests = 1
  MaxReloads <- MCReloads
  Scanners = {s1, s2, s3}
  Serves <- MCServes
  Procs <- MCProcs
  Targets = {"java"}
  Steady <- MCSteady
  AtStart <- MCAtStart
  MaxClock = 2
  MaxScans <- MCScans
  MaxChanges = 2
  MaxBroken = 1
  Askers = {a1, a2}
  FirstMounts <- MCFirst
  LaterMounts <- MCLater
  SteadyMount <- MCData
  MaxAsked <- MCAsked
  MaxDiskEvents = 1
INVARIANTS
  TypeOK
  AnswerIsWhole
  NetworkIsItsOwn
  VersionKept
  LockIsReleased
  NoTickLost
  CountsBracketed
  DiskIsAnswered
  CacheIsTheFile
CHECK_DEADLOCK FALSE

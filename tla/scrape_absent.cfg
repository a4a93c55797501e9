SPECIFICATION Spec
CONSTANTS
  u1 = u1
  u2 = u2
  f1 = f1
  f2 = f2
  default = default
  kubernetes = kubernetes
  other = other
  Kinds <- SchedulerOnly
  Namespaces = {default}
  Names = {kubernetes, other}
  ApiServer <- TheApiServer
  Urls = {u1, u2}
  NoIp = NoIp
  Families = {f1, f2}
  MaxRound = 2
  MaxQueue = 1
INVARIANT AbsentMetricsServed
CHECK_DEADLOCK FALSE

\* One request at a time, whether or not the worker is busy; everything may fail.
SPECIFICATION Spec
CONSTANTS
  ip1 = ip1
  ip2 = ip2
  c1 = c1
  c2 = c2
  Ips = {ip1, ip2}
  Ranges <- BothIps
  Clients = {c1}
  Ops = {"start", "stop", "delete", "update"}
  Faults = {"crash", "db", "kube", "probe", "script"}
  QueueCap = 2
  MaxCalls = 3
  MaxBoots = 2
  MaxDisks = 1
  Patient = FALSE
  Envs = {"server"}
  BootFile = TRUE
SYMMETRY InterchangeableMachines
INVARIANTS AtMostOneMaster NoStrandedRequest
PROPERTIES RunningOnlyAfterInstall
CHECK_DEADLOCK FALSE

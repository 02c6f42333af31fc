\* Two requests at a time, any operation, any fault.
SPECIFICATION Spec
CONSTANTS
  ip1 = ip1
  ip2 = ip2
  c1 = c1
  c2 = c2
  Ips = {ip1, ip2}
  Ranges <- AnyRange
  Clients = {c1, c2}
  Ops = {"start", "stop", "delete", "update"}
  Faults = {"crash", "db", "probe", "script"}
  QueueCap = 1
  MaxCalls = 4
  MaxBoots = 2
  MaxDisks = 1
  Patient = FALSE
  Envs = {"server"}
  BootFile = TRUE
SYMMETRY Interchangeable
INVARIANTS TypeOK AtMostOneMaster NoStrandedRequest
PROPERTIES RunningOnlyAfterInstall 
CHECK_DEADLOCK FALSE

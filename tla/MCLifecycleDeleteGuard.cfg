\* Two requests at a time and nothing fails.
SPECIFICATION Spec
CONSTANTS
  ip1 = ip1
  ip2 = ip2
  c1 = c1
  c2 = c2
  Ips = {ip1, ip2}
  Ranges <- BothIps
  Clients = {c1, c2}
  Ops = {"start", "stop", "delete", "update"}
  Faults = {}
  QueueCap = 1
  MaxCalls = 4
  MaxBoots = 2
  MaxDisks = 1
  Patient = FALSE
  Envs = {"server"}
  BootFile = TRUE
SYMMETRY Interchangeable
PROPERTIES RunningIsNotDeleted
CHECK_DEADLOCK FALSE

\* One operator who waits for each operation; scripts and Kubernetes may fail.
SPECIFICATION FairSpec
CONSTANTS
  ip1 = ip1
  ip2 = ip2
  c1 = c1
  c2 = c2
  Ips = {ip1, ip2}
  Ranges <- BothIps
  Clients = {c1}
  Ops = {"start", "stop"}
  Faults = {"kube", "script"}
  QueueCap = 2
  MaxCalls = 5
  MaxBoots = 2
  MaxDisks = 1
  Patient = TRUE
  Envs = {"local", "server"}
  BootFile = TRUE

INVARIANTS JoinedMachinesAreRecorded StoppedMeansClean
PROPERTIES StopResetsMachines EventsAreHandled 
CHECK_DEADLOCK FALSE

SPECIFICATION OpsSpec
CONSTANTS
    Partitions = {"p1", "p2"}
    Routes = {"r"}
    Log <- RaceLog
    EsClient = TRUE
    MaxFaults = 2
    OneRoutes = {"r", "s"}
    OneLog <- SingleLog
    OneEs = TRUE
    MaxOneFaults = 3
    LogReplicas = {"q", "r"}
    LogDays <- TwoDays
    KeepLogDays = 1
    LogWindow = 3
    ReadKeys = {"a", "b"}
    PageSizes = {1, 2}
    MaxReadLines = 4
    MaxReadFaults = 0
    StartKeys = {"a"}
    StartSizes = {1}
    MaxStartLines = 1
    MaxStartFaults = 2
    Hosts = {"m1", "m2"}
    Chief = "m1"
    HostRole <- TwoRoles
    HostSays <- TwoUnames
    Shells = {"nodeinit.sh", "kubernetes-component.sh", "kubernetes-init.sh", "kubernetes-join.sh",
              "kubernetes-reset.sh", "systeminfo.sh", "kubeadm-catoken.sh"}
    Resources <- AllResources
    MaxHostJobs = 4
    MaxHostFaults = 2
    MaxHostCuts = 1
    MaxInstalls = 3
    MaxInstallFaults = 4
    MaxDownloads = 8
    MaxDownloadCuts = 4
    IpBase = 2
    IpRanges <- SmallRanges
    MaxRangeChanges = 3
INVARIANTS NothingSkipped CountsAreNotInvented LogsAreFound 
PROPERTIES ShownIsTrue
CHECK_DEADLOCK FALSE

SPECIFICATION AppsSpec
CONSTANTS
    AppVersions = {"v", "w"}
    AppCharts = {"f"}
    ReleaseClients = {"c", "d"}
    ReleaseNames = {"m", "n"}
    MaxCatalogRequests = 3
    MaxCatalogFaults = 1
    MaxReleasesInTurn = 7
    MaxFaultsInTurn = 2
    MaxReleasesAtOnce = 6
    MaxFaultsAtOnce = 1
    ServiceClients = {"q", "r"}
    ServiceNames = {"m", "n"}
    ServiceNamesAtOnce = {"n"}
    MaxServices = 2
    MaxServicesAtOnce = 1
    MaxWorkflows = 2
    MaxRuns = 2
    MaxCalls = 6
    MaxCallsAtOnce = 5
    MaxCallFaults = 1
    MaxCallFaultsAtOnce = 0
    MaxCrashes = 1
    MaxCrashesAtOnce = 0
    MaxFlips = 5
    TableClients = {"t", "u"}
    VolumeNames = {"m", "n"}
    VolumeNamesAtOnce = {"n"}
    MaxTransactions = 4
    MaxStatementFaults = 1
INVARIANTS   ReleasesHaveObjects
PROPERTIES ListsAreSaved
CHECK_DEADLOCK FALSE

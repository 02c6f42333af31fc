SPECIFICATION CloudsSpec
CONSTANTS
  PortRules = {"ssh", "https", "api"}
  PublicRules = {"https", "api"}
  RuleReleases = {{"ssh", "https"}, {"https", "api"}}
  MasterNames = {"m1", "m2"}
  GroupIds = {1, 2}
  MaxAccessPasses = 3
  MaxAccessFaults = 2
  MaxAccessCrashes = 1
  MaxStrays = 1
  
PROPERTIES MachinesAreKnown PlansFit
CHECK_DEADLOCK FALSE

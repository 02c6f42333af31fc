SPECIFICATION ServerSpec
CONSTANTS
    Clients = {a, b}
    Ids = {i}
    Life = 2
    MaxTime = 3
    MaxRequests = 3
    MaxDeletes = 1
    EmailsInTurn = {"e", "f"}
    EmailsAtOnce = {"e"}
    UserRoles = {"r", "s"}
    Keys = {"k", "l"}
    TenantNames = {"m", "n"}
    Pair = {"c", "d"}
    MaxUsersInTurn = 5
    MaxUsersAtOnce = 4
    MaxRoles = 4
    MaxTenantsInTurn = 4
    MaxTenantsAtOnce = 3
    MaxFailures = 1
INVARIANTS HandlersHaveAUser ContextIsThatOfTheMessage  ListsAreRead
 
CHECK_DEADLOCK FALSE

------------------------------- MODULE MCServer -------------------------------
(***************************************************************************)
(* What the server does with requests: the way in (Gateway), and behind it *)
(* the use cases of users, roles, workspaces, projects and lists, which    *)
(* share no row.  A behaviour is that of one of them: `part` says whose,   *)
(* and s1 .. s8 are its variables.                                         *)
(***************************************************************************)
EXTENDS Gateway

CONSTANTS
    EmailsInTurn, EmailsAtOnce, UserRoles,  \* of users
    Keys,                                   \* of permissions
    TenantNames,
    Pair,                                   \* the clients of parts that run at once
    MaxUsersInTurn, MaxUsersAtOnce, MaxRoles, MaxTenantsInTurn, MaxTenantsAtOnce,
    MaxFailures                             \* bounds: requests, and failures of each part

ASSUME RolesAssumption == IsFiniteSet(UserRoles)

VARIABLES part, s1, s2, s3, s4, s5, s6, s7, s8

\* Requests about users, one after another, and two at a time.
InTurn == INSTANCE Accounts WITH
    Clients <- {"c"}, Emails <- EmailsInTurn, Roles <- UserRoles, EditEmail <- FALSE,
    MaxActive <- 1, MaxReq <- MaxUsersInTurn, MaxFaults <- MaxFailures,
    users <- s1, wroles <- s2, req <- s3, count <- s4
AtOnce == INSTANCE Accounts WITH
    Clients <- Pair, Emails <- EmailsAtOnce, Roles <- UserRoles, EditEmail <- TRUE,
    MaxActive <- 2, MaxReq <- MaxUsersAtOnce, MaxFaults <- MaxFailures,
    users <- s1, wroles <- s2, req <- s3, count <- s4

R == INSTANCE RolePermissions WITH
    Clients <- {"c"}, MaxReq <- MaxRoles, MaxFaults <- MaxFailures,
    roles <- s1, perms <- s2, req <- s3, count <- s4

\* Requests about tenants, one after another, and two at a time with renames
\* and clusters that are listed twice.
Ordered == INSTANCE Tenancy WITH
    Clients <- {"c"}, Names <- TenantNames, Kinds <- {"workspace", "project", "cluster"},
    Rename <- FALSE, Twice <- FALSE, MaxReq <- MaxTenantsInTurn,
    recs <- s1, req <- s2, view <- s3, count <- s4
Racing == INSTANCE Tenancy WITH
    Clients <- Pair, Names <- TenantNames, Kinds <- {"workspace", "cluster"},
    Rename <- TRUE, Twice <- TRUE, MaxReq <- MaxTenantsAtOnce,
    recs <- s1, req <- s2, view <- s3, count <- s4

L == INSTANCE Pages WITH
    Lists <- {"services", "integrations", "deployments", "users", "roles", "apps",
              "clusters", "workspaces", "projects"},
    Named <- TRUE, Rows <- 3, Sizes <- {0, 1}, OtherPages <- {0, 1, 9},
    DefaultSize <- 2, Width <- 16, MaxWrites <- 2, MaxFaults <- 1,
    list <- s1, named <- s2, table <- s3, full <- s4, req <- s5, walk <- s6,
    writes <- s7, faults <- s8

Four == <<s1, s2, s3, s4>>
Rest == <<s5, s6, s7, s8>>
Unused == "unused"

ServerInit ==
    /\ Init
    /\ \/ part \in {"users", "users at once", "roles", "tenants", "tenants at once"}
          /\ \/ part = "users" /\ InTurn!Init
             \/ part = "users at once" /\ AtOnce!Init
             \/ part = "roles" /\ R!Init
             \/ part = "tenants" /\ Ordered!Init
             \/ part = "tenants at once" /\ Racing!Init
          /\ s5 = Unused /\ s6 = Unused /\ s7 = Unused /\ s8 = Unused
       \/ part = "lists" /\ L!Init
       \/ /\ part = "gateway"
          /\ s1 = Unused /\ s2 = Unused /\ s3 = Unused /\ s4 = Unused
          /\ s5 = Unused /\ s6 = Unused /\ s7 = Unused /\ s8 = Unused

Users == part = "users" /\ InTurn!Next /\ UNCHANGED <<part, Rest, vars>>
UsersAtOnce == part = "users at once" /\ AtOnce!Next /\ UNCHANGED <<part, Rest, vars>>
RolesOfUsers == part = "roles" /\ R!Next /\ UNCHANGED <<part, Rest, vars>>
Tenants == part = "tenants" /\ Ordered!Next /\ UNCHANGED <<part, Rest, vars>>
TenantsAtOnce == part = "tenants at once" /\ Racing!Next /\ UNCHANGED <<part, Rest, vars>>
Listing == part = "lists" /\ L!Next /\ UNCHANGED <<part, vars>>
Requests == part = "gateway" /\ Next /\ UNCHANGED <<part, Four, Rest>>

ServerNext ==
    Users \/ UsersAtOnce \/ RolesOfUsers \/ Tenants \/ TenantsAtOnce \/ Listing \/ Requests

ServerSpec == ServerInit /\ [][ServerNext]_<<part, Four, Rest, vars>>

-----------------------------------------------------------------------------
\* The rows of users, roles and permissions fit each other: one user of an
\* email, no role twice and none of a user that is gone, each permission once
\* and of a role that is there; rows of tenants are of their kind
\* (biz/user.go:308, data/user.go:184,237).
RolesBelongToUsers ==
    /\ part = "users" => InTurn!TypeOK /\ InTurn!EmailsAreUnique /\ InTurn!NoLooseRoles
    /\ part = "users at once" => AtOnce!TypeOK /\ AtOnce!RolesOnce
    /\ part = "roles" => R!TypeOK /\ R!PermissionsOnce
    /\ part = "tenants" => Ordered!TypeOK

\* A save that goes through leaves what it lists, and whatever is done to one
\* record leaves the others: the roles of a user, the permissions of a role,
\* the clusters of a workspace.  A name that is new is free
\* (data/workspace.go:50, interfaces/workspace.go:40).
SavesAreExact ==
    [][/\ part = "users" => InTurn!RolesAreListed
       /\ part = "roles" => R!PermissionsAreExact
       /\ part = "tenants" =>
            Ordered!NewNamesAreFree /\ Ordered!ClustersAreListed /\ Ordered!OthersStay
       /\ part = "tenants at once" => Racing!RowsStay /\ Racing!OthersStay
      ]_<<part, Four, Rest, vars>>

\* While others write, a client that goes through a list misses and repeats no
\* more rows than were taken out, put in or moved, is shown the page it asks
\* for, and takes no children from a row by saving it (data/service.go:251,489).
ListsAreRead ==
    part = "lists" =>
        L!TypeOK /\ L!MissesAreFew /\ L!RepeatsAreFew /\ L!PagesAreTheirs /\ L!ChildrenStay
=============================================================================

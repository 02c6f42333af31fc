---------------------------- MODULE MCApplications ----------------------------
(***************************************************************************)
(* The use cases of applications, services and workflows and the tables    *)
(* under them.  They meet only in rows that one of them writes, so that a  *)
(* behaviour is that of one: `part` says whose, s1 .. s9 are its variables. *)
(***************************************************************************)
EXTENDS Naturals, FiniteSets

CONSTANTS
    AppVersions, AppCharts,      \* that a client may name
    ReleaseClients, ReleaseNames,
    MaxCatalogRequests, MaxCatalogFaults, MaxReleasesInTurn, MaxFaultsInTurn,
    MaxReleasesAtOnce, MaxFaultsAtOnce,   \* bounds
    ServiceClients, ServiceNames, ServiceNamesAtOnce,
    MaxServices, MaxServicesAtOnce, MaxWorkflows, MaxRuns, MaxCalls, MaxCallsAtOnce,
    MaxCallFaults, MaxCallFaultsAtOnce, MaxCrashes, MaxCrashesAtOnce, MaxFlips,   \* bounds
    TableClients, VolumeNames, VolumeNamesAtOnce, MaxTransactions, MaxStatementFaults   \* bounds

\* No name is the mark for a row that is gone, and no chart that for a directory
\* that is not there.
ASSUME NamesAssumption ==
    /\ "none" \notin ServiceNames \cup ServiceNamesAtOnce \cup AppCharts /\ IsFiniteSet(ServiceClients)
    /\ IsFiniteSet(VolumeNames) /\ IsFiniteSet(VolumeNamesAtOnce)
    /\ {MaxServices, MaxServicesAtOnce, MaxWorkflows, MaxRuns} \subseteq Nat

VARIABLES part, s1, s2, s3, s4, s5, s6, s7, s8, s9

\* Requests about services, one at a time while calls fail, the process dies
\* and the cluster comes and goes; and two at a time about one service.
OneByOne == INSTANCE Services WITH
    Requests <- {"r"}, Names <- ServiceNames, MaxStarts <- MaxCalls, MaxFaults <- MaxCallFaults,
    services <- s1, workflows <- s2, builds <- s3, objects <- s4, runs <- s5, recorded <- s6,
    reachable <- s7, request <- s8, count <- s9
Together == INSTANCE Services WITH
    Requests <- ServiceClients, Names <- ServiceNamesAtOnce, MaxServices <- MaxServicesAtOnce,
    MaxStarts <- MaxCallsAtOnce, MaxFaults <- MaxCallFaultsAtOnce, MaxCrashes <- MaxCrashesAtOnce,
    services <- s1, workflows <- s2, builds <- s3, objects <- s4, runs <- s5, recorded <- s6,
    reachable <- s7, request <- s8, count <- s9

\* Transactions on the tables of services, one after another and two at a time.
Serial == INSTANCE ServiceTables WITH
    Tx <- {"t"}, Names <- VolumeNames, Twice <- FALSE, MaxStarts <- MaxTransactions,
    MaxFaults <- MaxStatementFaults,
    rows <- s1, tx <- s2, count <- s3
Locking == INSTANCE ServiceTables WITH
    Tx <- TableClients, Names <- VolumeNamesAtOnce, Twice <- FALSE, MaxStarts <- MaxTransactions,
    MaxFaults <- MaxStatementFaults,
    rows <- s1, tx <- s2, count <- s3

W == INSTANCE WorkflowSteps WITH
    Texts <- {"user", "template"}, MaxOrder <- 4, MaxEdits <- 3,
    wf <- s1, stage <- s2, build <- s3, at <- s4, visited <- s5, edits <- s6

C == INSTANCE AppCatalog WITH
    Clients <- {"c"}, Vers <- AppVersions, Charts <- AppCharts, Twice <- FALSE, MaxActive <- 1,
    MaxReq <- MaxCatalogRequests, MaxFaults <- MaxCatalogFaults,
    apps <- s1, versions <- s2, dir <- s3, req <- s4, view <- s5, answer <- s6, count <- s7

\* Releases, one request after another and two at a time.
Alone == INSTANCE AppReleases WITH
    Clients <- {"c"}, Names <- ReleaseNames, MaxReq <- MaxReleasesInTurn, MaxFaults <- MaxFaultsInTurn,
    rows <- s1, objs <- s2, req <- s3, count <- s4
Both == INSTANCE AppReleases WITH
    Clients <- ReleaseClients, Names <- ReleaseNames,
    MaxReq <- MaxReleasesAtOnce, MaxFaults <- MaxFaultsAtOnce,
    rows <- s1, objs <- s2, req <- s3, count <- s4

Unused == "unused"
All == <<s1, s2, s3, s4, s5, s6, s7, s8, s9>>

AppsInit ==
    \/ /\ \/ part = "services" /\ OneByOne!Init
          \/ part = "services at once" /\ Together!Init
    \/ /\ \/ part = "tables" /\ Serial!Init
          \/ part = "tables at once" /\ Locking!Init
       /\ s4 = Unused /\ s5 = Unused /\ s6 = Unused /\ s7 = Unused /\ s8 = Unused /\ s9 = Unused
    \/ part = "workflow" /\ W!Init /\ s7 = Unused /\ s8 = Unused /\ s9 = Unused
    \/ part = "catalog" /\ C!Init /\ s8 = Unused /\ s9 = Unused
    \/ /\ \/ part = "releases" /\ Alone!Init
          \/ part = "releases at once" /\ Both!Init
       /\ s5 = Unused /\ s6 = Unused /\ s7 = Unused /\ s8 = Unused /\ s9 = Unused

From4 == <<s4, s5, s6, s7, s8, s9>>
From5 == <<s5, s6, s7, s8, s9>>
From7 == <<s7, s8, s9>>

ServicesInTurn == part = "services" /\ OneByOne!Next /\ UNCHANGED part
ServicesAtOnce == part = "services at once" /\ Together!Next /\ UNCHANGED part
TablesInTurn == part = "tables" /\ Serial!Next /\ UNCHANGED <<part, From4>>
TablesAtOnce == part = "tables at once" /\ Locking!Next /\ UNCHANGED <<part, From4>>
Workflow == part = "workflow" /\ W!Next /\ UNCHANGED <<part, From7>>
Catalog == part = "catalog" /\ C!Next /\ UNCHANGED <<part, s8, s9>>
ReleasesInTurn == part = "releases" /\ Alone!Next /\ UNCHANGED <<part, From5>>
ReleasesAtOnce == part = "releases at once" /\ Both!Next /\ UNCHANGED <<part, From5>>

AppsNext ==
    \/ ServicesInTurn \/ ServicesAtOnce \/ TablesInTurn \/ TablesAtOnce
    \/ Workflow \/ Catalog \/ ReleasesInTurn \/ ReleasesAtOnce

AppsSpec == AppsInit /\ [][AppsNext]_<<part, All>>

-----------------------------------------------------------------------------
\* No row is without the one that it belongs to, but those of a request that
\* overlaps a delete; every build that was started is recorded, but for one
\* for each failure or crash (biz/service.go:515,571, data/service.go:313).
RowsAndRunsAgree ==
    /\ part = "services" => OneByOne!TypeOK /\ OneByOne!RowsHaveAService /\ OneByOne!RunsAreRecorded
    /\ part = "services at once" =>
         Together!TypeOK /\ Together!RowsHaveAService /\ Together!RunsAreRecorded
    /\ part = "tables" => Serial!TypeOK /\ Serial!NoOrphans
    /\ part = "tables at once" => Locking!TypeOK

\* A saved workflow has the steps, a saved service the volumes and a saved
\* application the versions that the request lists, and they keep their ids;
\* a service goes after its object, and a chart only with its version
\* (data/service.go:103,380, data/app.go:31, biz/app.go:293).
ListsAreSaved ==
    [][/\ part = "services" => OneByOne!ObjectsGoFirst
       /\ part = "tables" => Serial!WorkflowsAreExact /\ Serial!VolumesAreExact
       /\ part = "tables at once" => Locking!WorkflowsAreExact /\ Locking!VolumesAreExact
       /\ part = "catalog" => C!SavedIsListed /\ C!ChartsStay
      ]_<<part, All>>

\* The walk over a workflow comes by every task once, in the order of steps and
\* tasks, whatever a client has made of them, and a build with a commit or a
\* tag replaces the commands of the tasks that are fixed (biz/workflow.go:225,425).
WalkIsInOrder ==
    part = "workflow" => W!TypeOK /\ W!WalkIsComplete /\ W!WalkGoesOn /\ W!FixedTasksAreMade

\* Applications, versions and releases have the rows and the objects they need:
\* each failure leaves at most one release with only one of the two, and the
\* object of a repository is gone when its request is (data/app.go:131,
\* biz/app.go:381,396, runtime/common.go:116).
ReleasesHaveObjects ==
    /\ part = "catalog" => C!TypeOK /\ C!NoOrphans
    /\ part = "releases" =>
         Alone!TypeOK /\ Alone!RowsHaveObjects /\ Alone!OneLoosePerFault /\ Alone!RepoObjectsGo
    /\ part = "releases at once" => Both!TypeOK /\ Both!ObjectsHaveRows /\ Both!RepoObjectsGo
=============================================================================

------------------------------- MODULE MCClouds -------------------------------
(***************************************************************************)
(* The two cloud providers: the network of a cluster, the access to it,    *)
(* its machines, and the plans they follow (ranges, zones, types).  The    *)
(* parts share no state: `part` says whose behaviour it is, s1 .. s18 are  *)
(* its variables.                                                          *)
(***************************************************************************)
EXTENDS Naturals, FiniteSets, Sequences

CONSTANTS
    PortRules, PublicRules, RuleReleases,   \* of security groups
    MasterNames, GroupIds,
    MaxAccessPasses, MaxAccessFaults, MaxAccessCrashes, MaxStrays   \* bounds

\* 0 is no id, and what a release asks for are rules.
ASSUME AccessAssumption ==
    /\ GroupIds # {} /\ 0 \notin GroupIds
    /\ RuleReleases \subseteq SUBSET PortRules
    /\ MaxAccessPasses \in Nat

VARIABLES part, s1, s2, s3, s4, s5, s6, s7, s8, s9, s10, s11, s12, s13, s14, s15, s16, s17, s18

-----------------------------------------------------------------------------
\* Networks over two zones.

AliNet == INSTANCE AliNetwork WITH
    Zones <- {"a", "b"}, Ids <- 1 .. 18, MaxPasses <- 2, MaxFaults <- 2, MaxCrashes <- 1,
    cloud <- s1, record <- s2, saved <- s3, at <- s4, seen <- s5, last <- s6,
    passes <- s7, faults <- s8, crashes <- s9
AwsNet == INSTANCE AwsNetwork WITH
    Zones <- {"a", "b"}, Ids <- 1 .. 26, MaxPasses <- 3, MaxFaults <- 1, MaxCrashes <- 1,
    cloud <- s1, record <- s2, saved <- s3, at <- s4, seen <- s5, last <- s6,
    passes <- s7, faults <- s8, crashes <- s9

-----------------------------------------------------------------------------
\* Access to clusters of some masters, over releases with other ports.

AliAccess == INSTANCE AliBalancer WITH
    Rules <- PortRules, Public <- PublicRules, Releases <- RuleReleases,
    Masters <- MasterNames, Ids <- GroupIds,
    MaxPasses <- MaxAccessPasses, MaxFaults <- MaxAccessFaults, MaxCrashes <- MaxAccessCrashes,
    MaxStrays <- MaxStrays,
    sgs <- s1, rules <- s2, lbs <- s3, backends <- s4, vpc <- s5, record <- s6, saved <- s7,
    wanted <- s8, masters <- s9, at <- s10, stopping <- s11, todo <- s12, last <- s13,
    changed <- s14, passes <- s15, faults <- s16, crashes <- s17, strays <- s18
AwsAccess == INSTANCE AwsBalancer WITH
    Rules <- PortRules, Public <- PublicRules, Releases <- RuleReleases,
    Masters <- MasterNames, Ids <- GroupIds,
    MaxPasses <- MaxAccessPasses, MaxFaults <- MaxAccessFaults, MaxCrashes <- MaxAccessCrashes,
    MaxStrays <- MaxStrays,
    sgs <- s1, rules <- s2, lbs <- s3, backends <- s4, vpc <- s5, record <- s6, saved <- s7,
    wanted <- s8, masters <- s9, at <- s10, stopping <- s11, todo <- s12, last <- s13,
    changed <- s14, passes <- s15, faults <- s16, crashes <- s17, strays <- s18

-----------------------------------------------------------------------------
\* Machines of clusters of groups of two; at the second provider the program
\* does not run on the operator's machine.

Machines == {"i1", "i2", "i3", "i4", "i5", "i6", "i7"}

AliNodes == INSTANCE CloudNodes WITH
    Provider <- "ali", Env <- "local", Ids <- Machines, TargetSize <- 2,
    MaxStarts <- 2, MaxStops <- 1, MaxUpdates <- 1, MaxFaults <- 1, MaxCrashes <- 1,
    machines <- s1, cluster <- s2, saved <- s3, at <- s4, path <- s5, todo <- s6, seen <- s7,
    finish <- s8, ranOut <- s9, last <- s10, installers <- s11, lost <- s12,
    starts <- s13, stops <- s14, updates <- s15, faults <- s16, crashes <- s17
AwsNodes == INSTANCE CloudNodes WITH
    Provider <- "aws", Env <- "server", Ids <- Machines, TargetSize <- 2,
    MaxStarts <- 2, MaxStops <- 1, MaxUpdates <- 1, MaxFaults <- 1, MaxCrashes <- 1,
    machines <- s1, cluster <- s2, saved <- s3, at <- s4, path <- s5, todo <- s6, seen <- s7,
    finish <- s8, ranOut <- s9, last <- s10, installers <- s11, lost <- s12,
    starts <- s13, stops <- s14, updates <- s15, faults <- s16, crashes <- s17

-----------------------------------------------------------------------------
\* Ranges: every id of a cluster; a few networks with subnets of others, the
\* halves and a small one; and all ranges of addresses of four bits.

Slash(a, b, c, d, mask) == [ip |-> <<a, b, c, d>>, mask |-> mask]
NoOthers(i) == {}
Others(i) == {Slash(10, i, 0, 0, 17), Slash(10, i, 128, 0, 17), Slash(10, i, 0, 64, 26)}

EveryId == INSTANCE NetworkPlan WITH
    OctetBits <- 8, Ids <- 0 .. 257, Foreign <- NoOthers, MaxSubnets <- 1,
    id <- s1, vpc <- s2, pod <- s3, service <- s4, subnets <- s5, exits <- s6, refused <- s7, calls <- s8
Subnets == INSTANCE NetworkPlan WITH
    OctetBits <- 8, Ids <- {1, 96, 159}, Foreign <- Others, MaxSubnets <- 6,
    id <- s1, vpc <- s2, pod <- s3, service <- s4, subnets <- s5, exits <- s6, refused <- s7, calls <- s8
Ranges == INSTANCE NetworkPlan WITH
    OctetBits <- 1, Ids <- {}, Foreign <- NoOthers, MaxSubnets <- 0,
    id <- s1, vpc <- s2, pod <- s3, service <- s4, subnets <- s5, exits <- s6, refused <- s7, calls <- s8

NoRange == Ranges!Slash(0, 0, 0, 0, 0)
RangesInit == s1 \in Ranges!Range /\ s2 = NoRange
RangesNext == s2 = NoRange /\ s2' \in Ranges!Range /\ UNCHANGED s1

-----------------------------------------------------------------------------
\* Four zones of which one has no NAT gateways; starts of three machines reach
\* all levels and the gap between two.

ZoneLacks == [z \in {"a", "b", "c", "d"} |-> IF z = "d" THEN {"NatGateway"} ELSE {}]

Levels == INSTANCE CloudZones WITH
    AllZones <- {"a", "b", "c", "d"}, Lacks <- ZoneLacks, TargetSize <- 3,
    Basic <- 4, Advanced <- 7, Standard <- 12, MaxStarts <- 4, MaxFaults <- 1,
    provider <- s1, level <- s2, zones <- s3, nodes <- s4, at <- s5, offered <- s6, missed <- s7,
    starts <- s8, faults <- s9

-----------------------------------------------------------------------------
\* A few types of both clouds, with groups as the program makes them, and of
\* the other kinds that it lists.

T(p, f, n, c, m, a, k, u) ==
    [provider |-> p, family |-> f, size |-> n, cpu |-> c, mem |-> m, arch |-> a, gpus |-> k, gpu |-> u]
X(n) == [unit |-> "xlarge", n |-> n]
L == [unit |-> "large", n |-> 1]

Catalog == {
    T("ali", "g7", X(1), 4, 16, "amd64", 0, ""), T("ali", "g8i", X(1), 4, 16, "amd64", 0, ""),
    T("ali", "g6", X(1), 4, 15, "amd64", 0, ""), T("ali", "g8y", X(1), 4, 16, "arm64", 0, ""),
    T("ali", "g7", X(2), 8, 32, "amd64", 0, ""), T("ali", "gn6i", X(1), 4, 15, "amd64", 1, "T4"),
    T("ali", "gn7i", X(1), 4, 15, "amd64", 1, "A10"),
    T("aws", "m5", L, 2, 8, "amd64", 0, ""), T("aws", "m5", X(1), 4, 16, "amd64", 0, ""),
    T("aws", "m6g", X(1), 4, 16, "arm64", 0, ""), T("aws", "m7i", X(1), 4, 16, "amd64", 0, ""),
    T("aws", "m4", X(1), 4, 15, "amd64", 0, ""), T("aws", "m5", X(2), 8, 32, "amd64", 0, ""),
    T("aws", "g4dn", X(1), 4, 15, "amd64", 1, "T4"), T("aws", "g5", X(1), 4, 16, "amd64", 1, "A10"),
    T("aws", "g6", X(1), 4, 16, "amd64", 2, "L4")}

Images == {[provider |-> "ali", id |-> "image1", arch |-> "amd64", ubuntu |-> TRUE],
             [provider |-> "ali", id |-> "image2", arch |-> "arm64", ubuntu |-> FALSE],
             [provider |-> "aws", id |-> "image3", arch |-> "amd64", ubuntu |-> TRUE]}

G(t, a, c, k, s) == [type |-> t, arch |-> a, cpu |-> c, gpus |-> k, spec |-> s]

Groups == {G("NORMAL", "amd64", 4, 0, ""), G("NORMAL", "arm64", 4, 0, ""), G("NORMAL", "amd64", 6, 0, ""),
             G("GPU_ACCELERATERD", "amd64", 4, 1, "T4"), G("GPU_ACCELERATERD", "amd64", 4, 1, ""),
             G("GPU_ACCELERATERD", "amd64", 2, 1, "")}

Types == INSTANCE InstanceTypes WITH
    MaxPasses <- 2, MaxFaults <- 1,
    provider <- s1, group <- s2, nodes <- s3, at <- s4, g <- s5, image <- s6, found <- s7, left <- s8,
    passes <- s9, faults <- s10

-----------------------------------------------------------------------------
Unused == "unused"
From18 == <<s18>>
From11 == <<s11, s12, s13, s14, s15, s16, s17, s18>>
From10 == <<s10, From11>>
From9 == <<s9, From10>>
From3 == <<s3, s4, s5, s6, s7, s8, From9>>
All == <<s1, s2, From3>>

No11 == s11 = Unused /\ s12 = Unused /\ s13 = Unused /\ s14 = Unused /\ s15 = Unused /\ s16 = Unused
        /\ s17 = Unused /\ s18 = Unused
No10 == s10 = Unused /\ No11
No9 == s9 = Unused /\ No10
No3 == s3 = Unused /\ s4 = Unused /\ s5 = Unused /\ s6 = Unused /\ s7 = Unused /\ s8 = Unused /\ No9

CloudsInit ==
    \/ part = "ali network" /\ AliNet!Init /\ No10
    \/ part = "aws network" /\ AwsNet!Init /\ No10
    \/ part = "ali access" /\ AliAccess!Init
    \/ part = "aws access" /\ AwsAccess!Init
    \/ part = "ali nodes" /\ AliNodes!Init /\ s18 = Unused
    \/ part = "aws nodes" /\ AwsNodes!Init /\ s18 = Unused
    \/ part = "every id" /\ EveryId!Init /\ No9
    \/ part = "subnets" /\ Subnets!Init /\ No9
    \/ part = "ranges" /\ RangesInit /\ No3
    \/ part = "zones" /\ Levels!Init /\ No10
    \/ part = "types" /\ Types!Init /\ No11

AliNetworkPass == part = "ali network" /\ AliNet!Next /\ UNCHANGED <<part, From10>>
AwsNetworkPass == part = "aws network" /\ AwsNet!Next /\ UNCHANGED <<part, From10>>
AliAccessPass == part = "ali access" /\ AliAccess!Next /\ UNCHANGED part
AwsAccessPass == part = "aws access" /\ AwsAccess!Next /\ UNCHANGED part
AliMachines == part = "ali nodes" /\ AliNodes!Next /\ UNCHANGED <<part, From18>>
AwsMachines == part = "aws nodes" /\ AwsNodes!Next /\ UNCHANGED <<part, From18>>
PlanEveryId == part = "every id" /\ EveryId!Next /\ UNCHANGED <<part, From9>>
PlanSubnets == part = "subnets" /\ Subnets!Next /\ UNCHANGED <<part, From9>>
CompareRanges == part = "ranges" /\ RangesNext /\ UNCHANGED <<part, From3>>
TakeZones == part = "zones" /\ Levels!Next /\ UNCHANGED <<part, From10>>
FindTypes == part = "types" /\ Types!Next /\ UNCHANGED <<part, From11>>

CloudsNext ==
    \/ AliNetworkPass \/ AwsNetworkPass \/ AliAccessPass \/ AwsAccessPass \/ AliMachines \/ AwsMachines
    \/ PlanEveryId \/ PlanSubnets \/ CompareRanges \/ TakeZones \/ FindTypes

CloudsSpec == CloudsInit /\ [][CloudsNext]_<<part, All>>

-----------------------------------------------------------------------------
\* A pass that is repeated after a lost answer or a crash finds what was made
\* before: one network, a subnet for each zone, no address but one for each
\* zone; and a deletion that reports success has left nothing, at Alibaba
\* Cloud if no call failed (alicloud.go:883,1003, awscloud.go:1290).
NetworkIsMadeOnce ==
    /\ part = "ali network" =>
         AliNet!TypeOK /\ AliNet!OnePerZone /\ AliNet!NetworkMadeOnce /\ AliNet!EipsMadeOnce
         /\ AliNet!DeleteUndoesCreate
    /\ part = "aws network" =>
         AwsNet!TypeOK /\ AwsNet!OnePerZone /\ AwsNet!NetworkMadeOnce /\ AwsNet!DownMeansGone

\* Over changes of the masters and of the rules, failures and crashes, the
\* security group has the rules of the cluster, and the balancer leads to its
\* masters and to nothing else (alicloud.go:1395, awscloud.go:305,1440).
AccessIsExact ==
    /\ part = "ali access" =>
         AliAccess!TypeOK /\ AliAccess!RulesAreExact /\ AliAccess!MadeOnce
         /\ AliAccess!ReachableWhenDone /\ AliAccess!OnlyMastersServe
    /\ part = "aws access" =>
         AwsAccess!TypeOK /\ AwsAccess!RulesAreExact /\ AwsAccess!MadeOnce
         /\ AwsAccess!ReachableWhenDone /\ AwsAccess!OnlyPublicPortsListen

MachinesNow ==
    /\ part = "ali nodes" => AliNodes!TypeOK /\ AliNodes!MachinesAreRecorded /\ AliNodes!DownMeansNoMachine
                             /\ AliNodes!OneInstaller
    /\ part = "aws nodes" => AwsNodes!TypeOK /\ AwsNodes!MachinesAreRecorded /\ AwsNodes!DownMeansNoMachine
                             /\ AwsNodes!OneInstaller

MachineSteps ==
    /\ part = "ali nodes" => AliNodes!NoMachineWithoutNetwork
    /\ part = "aws nodes" => AwsNodes!NoMachineWithoutNetwork

\* Every machine is that of one node, the cluster is set up on one of them,
\* a stop that reports success has left none, and none is made where there is
\* no network (biz/cluster.go:1180, alicloud.go:409, awscloud.go:488).
MachinesAreKnown == []MachinesNow /\ [][MachineSteps]_<<part, All>>

PlansNow ==
    /\ part = "every id" => EveryId!TypeOK /\ EveryId!RangesAreApart /\ EveryId!PlannedSubnetsFit
    /\ part = "subnets" => Subnets!ExistingSubnetsAreApart
    /\ part = "ranges" => Ranges!OverlapIsIntersection(s1, s2) /\ Ranges!ApartIsDisjoint(s1, s2)
                           /\ Ranges!SubnetsDivideTheRange(s1) /\ Ranges!FreeSubnetIsFound(s1, s2)
    /\ part = "zones" => Levels!TypeOK /\ Levels!ZonesAreUsable /\ Levels!LevelHasItsZones
                          /\ Levels!NodesAreSpread
    /\ part = "types" => Types!TypeOK /\ Types!TypesFit /\ Types!BackupsAreOthers /\ Types!SizeIsLeast

PlanSteps ==
    /\ part = "subnets" => Subnets!RefusedOnlyWhenFull
    /\ part = "zones" => Levels!NodesStay /\ Levels!ZonesComeWithALevel
    /\ part = "types" => Types!AllPagesAreRead /\ Types!OthersStay

\* The ranges, zones and types that the providers work with fit: ranges share
\* no address and are refused only when there is none left (utils/cidr.go),
\* each level has its zones and no node moves (biz/cluster.go:1001,1098), and
\* no type of any page is lost or has less than the group asks for
\* (alicloud.go:593, awscloud.go:700).
PlansFit == []PlansNow /\ [][PlanSteps]_<<part, All>>
=============================================================================

------------------------------ MODULE CloudZones ------------------------------
(***************************************************************************)
(* The availability zones of a cluster at a cloud provider: the number of  *)
(* machines sets the level of the cluster, a change of the level takes in  *)
(* zones that the cloud offers, each with a subnet, and the machines are   *)
(* distributed over the subnets by their place in the list of nodes        *)
(* (internal/biz/cluster.go, GetAvailabilityZones of the two providers).   *)
(***************************************************************************)
EXTENDS Naturals, Sequences, FiniteSets, SequencesExt

CONSTANTS
    AllZones,
    Lacks,       \* what a zone does not offer: a function to sets of "AvailabilityZone", "VSwitch",
                 \* "IoOptimized", "Instance", "Disk", "DedicatedHost" and "NatGateway"
    TargetSize,  \* machines of a start, 3 in the code
    Basic, Advanced, Standard,  \* machines from which a level counts: 50, 100, 200
    MaxStarts,   \* bound: starts of the cluster
    MaxFaults    \* bound: calls of the cloud that fail

VARIABLES
    provider,  \* "ali" or "aws"
    level, zones,  \* Cluster.Level, the recorded zones
    nodes,     \* the zone of the subnet of each node, "" before it is created
    at,        \* where the handling is
    offered,   \* history: zones of the last list
    missed,    \* history: the list of a new level could not be had
    starts, faults

vars == <<provider, level, zones, nodes, at, offered, missed, starts, faults>>

Init ==
    /\ provider \in {"ali", "aws"} /\ level = "UNSPECIFIED" /\ zones = <<>> /\ nodes = <<>>
    /\ at = "idle" /\ offered = 0 /\ missed = FALSE /\ starts = 0 /\ faults = 0

(* InitCloudNodeAndNodeGroup: each start adds a group and its nodes.        *)
StartCluster ==
    /\ at = "idle" /\ starts < MaxStarts
    /\ nodes' = nodes \o [i \in 1 .. TargetSize |-> ""]
    /\ starts' = starts + 1 /\ at' = "level"
    /\ UNCHANGED <<provider, level, zones, offered, missed, faults>>

(* The operator hands the cluster over again.                               *)
Reconcile ==
    /\ at = "idle" /\ starts > 0 /\ at' = "level"
    /\ UNCHANGED <<provider, level, zones, nodes, offered, missed, starts, faults>>

(* From Advanced to Standard there is no level, and the one there is stays. *)
LevelOf(n) ==
    CASE n < Basic -> "BASIC"
      [] n >= Basic /\ n < Advanced -> "ADVANCED"
      [] n >= Standard -> "STANDARD"
      [] OTHER -> level

(* Zones are taken in only when the level changes.                          *)
SettingClusterLevelByNodeNumber ==
    /\ at = "level"
    /\ level' = LevelOf(TargetSize * starts)
    /\ at' = IF level' # level THEN "zones" ELSE "place"
    /\ UNCHANGED <<provider, zones, nodes, offered, missed, starts, faults>>

(* The zones that have all that a cluster needs, with NAT gateways.         *)
Needs == {"AvailabilityZone", "VSwitch", "IoOptimized", "Instance", "Disk", "DedicatedHost"}
AliZones(list) == SelectSeq(list, LAMBDA z : Lacks[z] \cap (Needs \cup {"NatGateway"}) = {})

(* AWS lists what is available.                                             *)
AwsZones(list) == list

(* The half of the zones, rounded up, for STANDARD.                         *)
Wanted(l, n) == CASE l = "BASIC" -> 1 [] l = "STANDARD" -> (n + 1) \div 2 [] OTHER -> n

(* The first of the list that are not recorded, as many as the level wants. *)
SetZoneByLevel(list) ==
    LET new == SelectSeq(list, LAMBDA z : z \notin ToSet(zones))
        need == Wanted(level, Len(list)) - Len(zones)
    IN IF Wanted(level, Len(list)) <= Len(zones) THEN <<>>
       ELSE SubSeq(new, 1, IF need < Len(new) THEN need ELSE Len(new))

(* "no availability zones found" is said of the list of the cloud, before   *)
(* the zones that lack something are left out.                              *)
GetZones == \E S \in SUBSET AllZones : \E list \in SetToSeqs(S) :
    /\ at = "zones" /\ S # {}
    /\ LET usable == IF provider = "ali" THEN AliZones(list) ELSE AwsZones(list)
       IN zones' = zones \o SetZoneByLevel(usable) /\ offered' = Len(usable)
    /\ at' = "place" /\ missed' = FALSE
    /\ UNCHANGED <<provider, level, nodes, starts, faults>>

(* The level is saved with the error, and is no new one the next time.      *)
GetZonesFails ==
    /\ at = "zones" /\ faults < MaxFaults
    /\ faults' = faults + 1 /\ at' = "idle" /\ missed' = TRUE
    /\ UNCHANGED <<provider, level, zones, nodes, offered, starts>>

(* The subnet, from 0, of node i, from 0, of n nodes over s subnets.        *)
SubnetOf(i, n, s) == IF n <= s THEN i % s ELSE (i \div (n \div s)) % s

(* The nodes without a machine get one in turn, until a call fails; without *)
(* a subnet none does.                                                      *)
DistributeNodePrivateSubnets == \E last \in 0 .. Len(nodes) :
    /\ at = "place" /\ at' = "idle"
    /\ IF zones = <<>> THEN last = 0 /\ UNCHANGED faults
       ELSE \/ last = Len(nodes) /\ UNCHANGED faults
            \/ last < Len(nodes) /\ faults < MaxFaults /\ faults' = faults + 1
    /\ nodes' = [i \in DOMAIN nodes |->
                   IF nodes[i] = "" /\ i <= last
                   THEN zones[SubnetOf(i - 1, Len(nodes), Len(zones)) + 1] ELSE nodes[i]]
    /\ UNCHANGED <<provider, level, zones, offered, missed, starts>>

Next ==
    \/ StartCluster \/ Reconcile \/ SettingClusterLevelByNodeNumber
    \/ GetZones \/ GetZonesFails \/ DistributeNodePrivateSubnets

Spec == Init /\ [][Next]_vars

-----------------------------------------------------------------------------
TypeOK ==
    /\ provider \in {"ali", "aws"}
    /\ level \in {"UNSPECIFIED", "BASIC", "ADVANCED", "STANDARD"}
    /\ zones \in Seq(AllZones) /\ nodes \in Seq(AllZones \cup {""})
    /\ at \in {"idle", "level", "zones", "place"} /\ offered \in Nat /\ missed \in BOOLEAN
    /\ starts \in 0 .. MaxStarts /\ faults \in 0 .. MaxFaults

(* A zone is recorded once, and at Alibaba Cloud only one that has all that *)
(* the network and the machines of a cluster need.                          *)
ZonesAreUsable ==
    /\ \A i, j \in DOMAIN zones : zones[i] = zones[j] => i = j
    /\ provider = "ali" => \A i \in DOMAIN zones : Lacks[zones[i]] = {}

(* Whatever zones the cloud listed and in whatever order, a cluster has the *)
(* zones of its level, out of those listed last: unless the list of a new   *)
(* level could not be had, or held no usable zone, which is not made up for.*)
LevelHasItsZones ==
    at \in {"idle", "place"} /\ level # "UNSPECIFIED" /\ ~missed /\ offered > 0 =>
        Len(zones) >= Wanted(level, offered)

(* A node is created in a zone of the cluster and stays there.              *)
NodesStay ==
    \A i \in DOMAIN nodes : \/ nodes'[i] = nodes[i]
                            \/ nodes[i] = "" /\ nodes'[i] \in ToSet(zones)

(* Distributed at once, every subnet gets a whole part of the nodes, and    *)
(* none more than two.                                                      *)
NodesAreSpread ==
    LET n == Len(nodes) s == Len(zones)
        On(k) == Cardinality({i \in 0 .. n - 1 : SubnetOf(i, n, s) = k})
    IN s > 0 /\ n >= s => \A k \in 0 .. s - 1 : n \div s <= On(k) /\ On(k) <= 2 * (n \div s)

(* Nothing but a new level takes in zones, however often the operator hands *)
(* the cluster over.                                                        *)
ZonesComeWithALevel ==
    zones' # zones => /\ SubSeq(zones', 1, Len(zones)) = zones
                      /\ Len(zones') = Wanted(level, offered')
=============================================================================

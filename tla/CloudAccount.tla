---------------------------- MODULE CloudAccount ----------------------------
(***************************************************************************)
(* What a cloud provider of the program works on: the resources that exist *)
(* in the account, the cluster's record of them (Cluster.CloudResources),  *)
(* and the copy of that record that HandleClusterEvent saves at its end.   *)
(* A pass is one call of the provider by HandleClusterEvent: it makes or   *)
(* deletes the network and the key pair.                                   *)
(***************************************************************************)
EXTENDS Naturals, FiniteSets

CONSTANTS
    Zones,      \* availability zones of the cluster
    Ids,        \* bound: ids the cloud gives to resources
    MaxPasses,  \* bound: passes in one behaviour
    MaxFaults,  \* bound: calls that fail
    MaxCrashes  \* bound: crashes of the process

AnyZone == "any zone"

Kinds == {"VPC", "INTERNET_GATEWAY", "SUBNET", "ELASTIC_IP", "NAT_GATEWAY", "ROUTE_TABLE",
          "SECURITY_GROUP", "LOAD_BALANCER", "KEY_PAIR"}

(* The kinds of which the program makes one for each zone.                  *)
PerZone == {"SUBNET", "ELASTIC_IP", "NAT_GATEWAY", "ROUTE_TABLE"}

VARIABLES
    cloud,    \* the resources that exist: kind, id, zone, the ids they use
    record,   \* Cluster.CloudResources: kind, ref, zone, value
    saved,    \* the record in the database
    at,       \* where the pass is
    seen,     \* what a describe call returned and is looked at later
    last,     \* how the last pass ended
    passes, faults, crashes

vars == <<cloud, record, saved, at, seen, last, passes, faults, crashes>>

Resource == [kind : Kinds, id : Ids, zone : Zones \cup {AnyZone}, uses : SUBSET Ids]
Entry == [kind : Kinds, ref : Ids, zone : Zones \cup {AnyZone}, value : Ids \cup {0}]

Existing(kind) == {x \in cloud : x.kind = kind}
Users(id) == {x \in cloud : id \in x.uses}

(* GetCloudResource and the lookups by reference and by tag.                *)
GetCloudResource(kind) == {r \in record : r.kind = kind}
GetCloudResourceByRefID(kind, ref) == {r \in GetCloudResource(kind) : r.ref = ref}
GetCloudResourceByTags(kind, zone) == {r \in GetCloudResource(kind) : r.zone = zone}
Refs(kind) == {r.ref : r \in GetCloudResource(kind)}

NewEntry(kind, ref, zone, value) == [kind |-> kind, ref |-> ref, zone |-> zone, value |-> value]
DeleteCloudResource(kind) == record \ GetCloudResource(kind)
DeleteCloudResourceByID(r) == record \ {r}
(* The record without the entries of a kind that a list does not show.      *)
Pruned(kind, listed) == {r \in record : r.kind = kind => \E x \in listed : x.id = r.ref}

(* An id is not given twice.                                                *)
Known == {x.id : x \in cloud} \cup UNION {x.uses : x \in cloud} \cup {r.ref : r \in record \cup saved}
Fresh == CHOOSE i \in Ids \ Known : \A j \in Ids \ Known : i <= j
New(kind, zone, uses) == [kind |-> kind, id |-> Fresh, zone |-> zone, uses |-> uses]
RoomForOne == Ids \ Known # {}

(* Rows that are no longer in the record are deleted, the others stored.    *)
SaveCloudResources == saved' = record'

(* The end of a pass: HandleClusterEvent saves the record, error or not.    *)
End(result) ==
    /\ at' = "idle" /\ last' = result /\ seen' = {}
    /\ SaveCloudResources

Fails == faults < MaxFaults /\ faults' = faults + 1 /\ End("failed")

(* A call that has no effect because it failed.                             *)
CallFails == UNCHANGED <<cloud, record, passes, crashes>> /\ Fails

GoTo(place) == at' = place /\ UNCHANGED <<saved, last>>
Counted == UNCHANGED <<passes, faults, crashes>>

InitAccount ==
    /\ cloud = {} /\ record = {} /\ saved = {} /\ seen = {}
    /\ at = "idle" /\ last = "none" /\ passes = 0 /\ faults = 0 /\ crashes = 0

BeginAt(place) ==
    /\ at = "idle" /\ passes < MaxPasses
    /\ at' = place /\ passes' = passes + 1 /\ last' = "none" /\ seen' = {}
    /\ UNCHANGED <<cloud, record, saved, faults, crashes>>

(* The process dies in the middle of a pass: the next one has the record    *)
(* that was saved last.                                                     *)
Crash ==
    /\ at # "idle" /\ crashes < MaxCrashes
    /\ crashes' = crashes + 1
    /\ record' = saved /\ at' = "idle" /\ last' = "failed" /\ seen' = {}
    /\ UNCHANGED <<cloud, saved, passes, faults>>

(* A call that the cloud refuses whenever it is made.                       *)
Refused == UNCHANGED <<cloud, record, passes, faults, crashes>> /\ End("failed")

GetSingleCloudResource(kind) == CHOOSE r \in GetCloudResource(kind) : TRUE
VpcRef == GetSingleCloudResource("VPC").ref
ZonesWithout(kind) == {z \in Zones : GetCloudResourceByTags(kind, z) = {}}
GetCloudResourceByTagsSingle(kind, z) == CHOOSE r \in GetCloudResourceByTags(kind, z) : TRUE
RefIn(kind, z) == GetCloudResourceByTagsSingle(kind, z).ref
With(x, ids) == (cloud \ {x}) \cup {[x EXCEPT !.uses = @ \cup ids]}
Freed(ids) == {[x EXCEPT !.uses = @ \ ids] : x \in cloud}

-----------------------------------------------------------------------------
(* What both providers do alike.                                            *)

(* A network that exists is adopted by its range, so a second one is made   *)
(* only if none exists.  A new one is recorded after it became available.   *)
AdoptOrMakeVPC(next) ==
    \/ /\ Existing("VPC") # {}
       /\ record' = IF \E x \in Existing("VPC") : x.id \in Refs("VPC") THEN record
                    ELSE DeleteCloudResource("VPC")
                         \cup {NewEntry("VPC", (CHOOSE x \in Existing("VPC") : TRUE).id, AnyZone, 0)}
       /\ GoTo(next) /\ Counted /\ UNCHANGED <<cloud, seen>>
    \/ /\ Existing("VPC") = {} /\ RoomForOne
       /\ cloud' = cloud \cup {New("VPC", AnyZone, {})}
       /\ \/ /\ record' = DeleteCloudResource("VPC") \cup {NewEntry("VPC", Fresh, AnyZone, 0)}
             /\ GoTo(next) /\ Counted /\ UNCHANGED seen
          \/ record' = DeleteCloudResource("VPC") /\ Fails /\ UNCHANGED <<passes, crashes>>
    \/ CallFails

ListedSubnets == {x \in Existing("SUBNET") : VpcRef \in x.uses}

(* Variant: a subnet that exists is never adopted.                          *)
AdoptSubnetsNever(kept, next) ==
    record' = kept /\ GoTo(next) /\ Counted /\ UNCHANGED <<cloud, seen>>

(* One subnet of each zone is adopted, unless it is recorded.               *)
AdoptSubnets(kept, next) ==
    \/ /\ LET firsts == {CHOOSE x \in ListedSubnets : x.zone = z : z \in {x.zone : x \in ListedSubnets}}
          IN  record' = kept \cup {NewEntry("SUBNET", x.id, x.zone, 0) :
                                   x \in {y \in firsts : \A r \in kept : r.ref # y.id}}
       /\ GoTo(next) /\ Counted /\ UNCHANGED <<cloud, seen>>
    \/ CallFails

(* Makes one more resource of a kind: it is recorded with the answer, or    *)
(* the answer is lost.                                                      *)
Made(kind, z, uses, value) ==
    /\ RoomForOne
    /\ cloud' = cloud \cup {New(kind, z, uses)}
    /\ \/ /\ record' = record \cup {NewEntry(kind, Fresh, z, value)}
          /\ UNCHANGED <<saved, at, last, seen>> /\ Counted
       \/ UNCHANGED record /\ Fails /\ UNCHANGED <<passes, crashes>>

NoneMissing(kind, next) ==
    /\ ZonesWithout(kind) = {}
    /\ GoTo(next) /\ Counted /\ seen' = {} /\ UNCHANGED <<cloud, record>>

(* The addresses of the account, and what is bound of them, are looked at   *)
(* once.                                                                    *)
LookUpEips(next) ==
    \/ /\ record' = Pruned("ELASTIC_IP", Existing("ELASTIC_IP"))
       /\ seen' = {x.id : x \in {y \in Existing("ELASTIC_IP") : Users(y.id) = {}}}
       /\ GoTo(next) /\ Counted /\ UNCHANGED cloud
    \/ CallFails

(* A zone without an address takes one that is not bound, else a new one.   *)
AdoptEip(z) ==
    /\ \E i \in seen \ Refs("ELASTIC_IP") :
          record' = record \cup {NewEntry("ELASTIC_IP", i, z, 0)}
    /\ UNCHANGED <<cloud, saved, at, last, seen>> /\ Counted

AllocateEip(z) ==
    /\ seen \subseteq Refs("ELASTIC_IP")
    /\ Made("ELASTIC_IP", z, {}, 0)

(* Variant: a gateway that exists is never adopted.                         *)
AdoptNatsNever(next) ==
    /\ record' = Pruned("NAT_GATEWAY", Existing("NAT_GATEWAY"))
    /\ GoTo(next) /\ Counted /\ UNCHANGED <<cloud, seen>>

(* A gateway is adopted if it stands in a recorded subnet and has a         *)
(* recorded address.                                                        *)
AdoptNats(next) ==
    \/ /\ LET listed == Existing("NAT_GATEWAY")
              kept == Pruned("NAT_GATEWAY", listed)
          IN  record' = kept \cup
                 {NewEntry("NAT_GATEWAY", x.id, x.zone, CHOOSE i \in x.uses : i \in Refs("ELASTIC_IP")) :
                     x \in {y \in listed : /\ \A r \in kept : r.ref # y.id
                                           /\ y.uses \cap Refs("SUBNET") # {}
                                           /\ y.uses \cap Refs("ELASTIC_IP") # {}}}
       /\ GoTo(next) /\ Counted /\ UNCHANGED <<cloud, seen>>
    \/ CallFails

(* The key pair has its name as id: it is recorded, adopted, or imported.   *)
RecordOrImportKeyPair(recorded) ==
    \/ /\ \/ recorded /\ UNCHANGED <<cloud, record>>
          \/ /\ ~recorded /\ UNCHANGED cloud
             /\ \E x \in Existing("KEY_PAIR") :
                   record' = record \cup {NewEntry("KEY_PAIR", x.id, AnyZone, 0)}
          \/ /\ ~recorded /\ Existing("KEY_PAIR") = {} /\ RoomForOne
             /\ cloud' = cloud \cup {New("KEY_PAIR", AnyZone, {})}
             /\ record' = record \cup {NewEntry("KEY_PAIR", Fresh, AnyZone, 0)}
       /\ End("up") /\ Counted
    \/ /\ ~recorded /\ Existing("KEY_PAIR") = {} /\ RoomForOne
       /\ cloud' = cloud \cup {New("KEY_PAIR", AnyZone, {})} /\ UNCHANGED record
       /\ Fails /\ UNCHANGED <<passes, crashes>>
    \/ CallFails

NoneLeft(kind, next) ==
    /\ GetCloudResource(kind) = {}
    /\ GoTo(next) /\ Counted /\ UNCHANGED <<cloud, record, seen>>

-----------------------------------------------------------------------------
TypeOK ==
    /\ cloud \subseteq Resource /\ record \subseteq Entry /\ saved \subseteq Entry
    /\ \A r \in record : r.kind \in PerZone <=> r.zone \in Zones
    /\ seen \subseteq Ids /\ (at = "idle" => seen = {} /\ (saved = record))
    /\ last \in {"none", "up", "down", "failed"}
    /\ passes <= MaxPasses /\ faults <= MaxFaults /\ crashes <= MaxCrashes

(* "One subnet for one available zone" (alicloud.go:883), "one zone one eip *)
(* for nat gateway" (:1003): the record never has two resources of a kind   *)
(* for one zone, although resources are adopted by properties other than    *)
(* the zone and an adopted one may be found again.                          *)
OnePerZone ==
    /\ \A kind \in PerZone, z \in Zones : Cardinality(GetCloudResourceByTags(kind, z)) <= 1
    /\ \A kind \in {"VPC", "KEY_PAIR"} : Cardinality(GetCloudResource(kind)) <= 1

(* A retry after a lost answer or a crash finds the network, the subnets    *)
(* and the key pair that were made before it: there is never a second one.  *)
NetworkMadeOnce ==
    /\ \A kind \in {"VPC", "KEY_PAIR"} : Cardinality(Existing(kind)) <= 1
    /\ \A z \in Zones : Cardinality({x \in Existing("SUBNET") : x.zone = z}) <= 1

(* As long as the process lives, a failed call leads to no address beyond   *)
(* one for each zone: an address whose answer was lost is adopted, since    *)
(* it is bound to nothing.                                                  *)
EipsMadeOnce == crashes = 0 => Cardinality(Existing("ELASTIC_IP")) <= Cardinality(Zones)

=============================================================================

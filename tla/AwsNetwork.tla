----------------------------- MODULE AwsNetwork -----------------------------
(***************************************************************************)
(* infrastructure/awscloud.go: CreateNetwork with ImportKeyPair, and       *)
(* DeleteNetwork with DeleteKeyPair.  Unlike the other provider it has an  *)
(* internet gateway, binds the address as it makes the gateway, and        *)
(* returns every error of a deletion with the record kept.                 *)
(* Balancers and security groups, which come before, are in AccessRules.   *)
(***************************************************************************)
EXTENDS CloudAccount

Init == InitAccount

Start == BeginAt("vpc")
Stop == BeginAt("findVpc")

CreateVPC == at = "vpc" /\ AdoptOrMakeVPC("internetGateway")

(* The gateway is looked for by its attachment: one that was made and not   *)
(* attached is not found again.                                             *)
CreateInternetGateway ==
    /\ at = "internetGateway"
    /\ LET listed == {x \in Existing("INTERNET_GATEWAY") : VpcRef \in x.uses}
           kept == Pruned("INTERNET_GATEWAY", listed)
       IN  \/ /\ listed # {}
              /\ record' = kept \cup {NewEntry("INTERNET_GATEWAY", x.id, AnyZone, 0) : x \in listed}
              /\ GoTo("subnets") /\ Counted /\ UNCHANGED <<cloud, seen>>
           \/ /\ listed = {} /\ RoomForOne
              /\ \/ /\ cloud' = cloud \cup {New("INTERNET_GATEWAY", AnyZone, {VpcRef})}
                    /\ record' = kept \cup {NewEntry("INTERNET_GATEWAY", Fresh, AnyZone, 0)}
                    /\ GoTo("subnets") /\ Counted /\ UNCHANGED seen
                 \/ /\ \E uses \in {{}, {VpcRef}} : cloud' = cloud \cup {New("INTERNET_GATEWAY", AnyZone, uses)}
                    /\ record' = kept /\ Fails /\ UNCHANGED <<passes, crashes>>
           \/ CallFails

(* A recorded subnet that is gone stays recorded: the entry is looked for   *)
(* under the wrong id.                                                      *)
ListSubnets == at = "subnets" /\ AdoptSubnets(record, "makeSubnets")

MakeSubnets ==
    /\ at = "makeSubnets"
    /\ \/ \E z \in ZonesWithout("SUBNET") : Made("SUBNET", z, {VpcRef}, 0)
       \/ NoneMissing("SUBNET", "eips")
       \/ ZonesWithout("SUBNET") # {} /\ CallFails

ListEips == at = "eips" /\ LookUpEips("makeEips")

MakeEips ==
    /\ at = "makeEips"
    /\ \/ \E z \in ZonesWithout("ELASTIC_IP") : AdoptEip(z) \/ AllocateEip(z)
       \/ NoneMissing("ELASTIC_IP", "nats")
       \/ ZonesWithout("ELASTIC_IP") # {} /\ CallFails

ListNats == at = "nats" /\ AdoptNats("makeNats")

Exists(id) == \E x \in cloud : x.id = id

(* The cloud needs the subnet and a free address.                           *)
MakeNats ==
    /\ at = "makeNats"
    /\ \/ \E z \in ZonesWithout("NAT_GATEWAY") :
             LET subnet == RefIn("SUBNET", z)
                 eip == RefIn("ELASTIC_IP", z)
             IN  IF Exists(subnet) /\ Users(eip) = {}
                 THEN Made("NAT_GATEWAY", z, {subnet, eip}, eip)
                 ELSE Refused
       \/ NoneMissing("NAT_GATEWAY", "tables")
       \/ CallFails

(* Only tables that are associated are listed, and what all of these route  *)
(* is looked at together.                                                   *)
ListRouteTables ==
    /\ at = "tables"
    /\ \/ /\ LET listed == {x \in Existing("ROUTE_TABLE") :
                               VpcRef \in x.uses /\ \E s \in Existing("SUBNET") : s.id \in x.uses}
             IN  /\ record' = Pruned("ROUTE_TABLE", listed)
                 /\ seen' = UNION {x.uses : x \in listed}
          /\ GoTo("makeTables") /\ Counted /\ UNCHANGED cloud
       \/ CallFails

MakeRouteTables ==
    /\ at = "makeTables"
    /\ \/ \E z \in ZonesWithout("ROUTE_TABLE") : Made("ROUTE_TABLE", z, {VpcRef}, 0)
       \/ /\ ZonesWithout("ROUTE_TABLE") = {}
          /\ GoTo("associate") /\ Counted /\ UNCHANGED <<cloud, record, seen>>
       \/ ZonesWithout("ROUTE_TABLE") # {} /\ CallFails

(* The recorded tables that still miss the resource of their zone, where no *)
(* listed table had it.                                                     *)
Missing(kind) ==
    {x \in Existing("ROUTE_TABLE") :
        \E r \in GetCloudResourceByRefID("ROUTE_TABLE", x.id) :
            RefIn(kind, r.zone) \notin x.uses \cup seen}

(* A table has one default route; it stays when its gateway is deleted.     *)
HasRoute(x) == \E i \in x.uses \ {VpcRef} : \A s \in Existing("SUBNET") : s.id # i

Connect(kind, next) ==
    \/ \E x \in Missing(kind) :
          /\ kind = "SUBNET" \/ ~HasRoute(x)
          /\ cloud' = With(x, {RefIn(kind, x.zone)})
          /\ \/ UNCHANGED <<record, saved, at, last, seen>> /\ Counted
             \/ UNCHANGED record /\ Fails /\ UNCHANGED <<passes, crashes>>
    \/ /\ Missing(kind) = {}
       /\ GoTo(next) /\ Counted /\ UNCHANGED <<cloud, record, seen>>
    \/ kind # "SUBNET" /\ (\E x \in Missing(kind) : HasRoute(x)) /\ Refused
    \/ Missing(kind) # {} /\ CallFails

Associate == at = "associate" /\ Connect("SUBNET", "route")

Route == at = "route" /\ Connect("NAT_GATEWAY", "key")

ImportKeyPair ==
    /\ at = "key"
    /\ RecordOrImportKeyPair(\E x \in Existing("KEY_PAIR") : x.id \in Refs("KEY_PAIR"))

Create == CreateVPC \/ CreateInternetGateway \/ ListSubnets \/ MakeSubnets \/ ListEips \/ MakeEips
          \/ ListNats \/ MakeNats \/ ListRouteTables \/ MakeRouteTables \/ Associate \/ Route \/ ImportKeyPair

-----------------------------------------------------------------------------
FindVpc ==
    /\ at = "findVpc"
    /\ \/ /\ GetCloudResource("VPC") # {}
          /\ GoTo("deleteNats") /\ Counted /\ UNCHANGED <<cloud, record, seen>>
       \/ GetCloudResource("VPC") = {} /\ Refused

(* Deletes one resource of a kind.  What is gone is dropped from the record,*)
(* and what the cloud refuses to delete (blocked), or does not answer for,   *)
(* stays.                                                                  *)
DeleteOne(kind, blocked) ==
    \E r \in GetCloudResource(kind) :
        LET found == {x \in cloud : x.id = r.ref}
        IN  \/ /\ found \cap blocked = {}
               /\ cloud' = IF kind = "SUBNET" THEN {[x EXCEPT !.uses = @ \ {r.ref}] : x \in cloud \ found}
                           ELSE cloud \ found
               /\ \/ /\ record' = DeleteCloudResourceByID(r)
                     /\ UNCHANGED <<saved, at, last, seen>> /\ Counted
                  \/ found # {} /\ UNCHANGED record /\ Fails /\ UNCHANGED <<passes, crashes>>
            \/ found \cap blocked # {} /\ Refused
            \/ CallFails

InUse == {x \in cloud : Users(x.id) # {}}
OfNat == {x \in cloud : \E y \in Existing("NAT_GATEWAY") : x.id \in y.uses}

DeleteNats ==
    /\ at = "deleteNats"
    /\ DeleteOne("NAT_GATEWAY", {}) \/ NoneLeft("NAT_GATEWAY", "deleteEips")

DeleteEips ==
    /\ at = "deleteEips"
    /\ \/ DeleteOne("ELASTIC_IP", OfNat)
       \/ NoneLeft("ELASTIC_IP", "deleteTables")

(* A table loses its subnets and its routes before it is deleted.           *)
DeleteRouteTables ==
    /\ at = "deleteTables"
    /\ \/ DeleteOne("ROUTE_TABLE", {})
       \/ \E x \in Existing("ROUTE_TABLE") :
             /\ x.id \in Refs("ROUTE_TABLE")
             /\ cloud' = (cloud \ {x}) \cup {[x EXCEPT !.uses = @ \cap {VpcRef}]}
             /\ UNCHANGED record /\ Fails /\ UNCHANGED <<passes, crashes>>
       \/ NoneLeft("ROUTE_TABLE", "deleteSubnets")

(* Its associations with tables end with a subnet.                          *)
DeleteSubnets ==
    /\ at = "deleteSubnets"
    /\ \/ DeleteOne("SUBNET", OfNat)
       \/ NoneLeft("SUBNET", "deleteInternetGateway")

(* A gateway can not be detached while an address of the network is in use. *)
DeleteInternetGateway ==
    /\ at = "deleteInternetGateway"
    /\ \/ /\ \A i \in Refs("INTERNET_GATEWAY") : Exists(i)
          /\ DeleteOne("INTERNET_GATEWAY", IF Existing("NAT_GATEWAY") = {} THEN {} ELSE cloud)
       \/ (\E i \in Refs("INTERNET_GATEWAY") : ~Exists(i)) /\ Refused
       \/ NoneLeft("INTERNET_GATEWAY", "deleteVpc")

(* The network that is asked for must exist.                                *)
DeleteVpc ==
    /\ at = "deleteVpc"
    /\ \/ (\A i \in Refs("VPC") : Exists(i)) /\ DeleteOne("VPC", InUse)
       \/ (\E i \in Refs("VPC") : ~Exists(i)) /\ Refused
       \/ NoneLeft("VPC", "deleteKey")

DeleteKeyPair ==
    /\ at = "deleteKey"
    /\ \/ /\ cloud' = {x \in cloud : x.kind = "KEY_PAIR" => x.id \notin Refs("KEY_PAIR")}
          /\ record' = DeleteCloudResource("KEY_PAIR")
          /\ End("down") /\ Counted
       \/ GetCloudResource("KEY_PAIR") # {} /\ CallFails

DeleteNetwork == FindVpc \/ DeleteNats \/ DeleteEips \/ DeleteRouteTables \/ DeleteSubnets
                 \/ DeleteInternetGateway \/ DeleteVpc \/ DeleteKeyPair

Next == Start \/ Stop \/ Create \/ DeleteNetwork \/ Crash

Spec == Init /\ [][Next]_vars

-----------------------------------------------------------------------------
(* A creation that reports success has left, in every zone, a subnet that   *)
(* an associated table routes to a gateway with an address, whatever call   *)
(* failed before.  (After a crash between association and route it may be   *)
(* false: the table that has the subnet is no longer recorded, and a second *)
(* one gets the route.)                                                     *)
WiredWhenDone ==
    last = "up" /\ crashes = 0 =>
        \A z \in Zones : \E s, e, n, t \in cloud :
            /\ s.kind = "SUBNET" /\ s.id \in Refs("SUBNET") /\ s.zone = z
            /\ e.kind = "ELASTIC_IP" /\ e.id \in Refs("ELASTIC_IP")
            /\ n.kind = "NAT_GATEWAY" /\ n.id \in Refs("NAT_GATEWAY") /\ {s.id, e.id} \subseteq n.uses
            /\ t.kind = "ROUTE_TABLE" /\ {s.id, n.id} \subseteq t.uses

(* A deletion that reports success has left no network, whatever failed and *)
(* whenever the process died: what is left in the network, recorded or not, *)
(* makes the cloud refuse the deletion.  Without failures nothing is left.  *)
DownMeansGone ==
    last = "down" =>
        /\ \A kind \in {"VPC", "SUBNET", "NAT_GATEWAY", "ROUTE_TABLE"} : Existing(kind) = {}
        /\ faults = 0 /\ crashes = 0 => cloud = {} /\ record = {}

(* After finitely many failed calls and crashes it comes to this.           *)
IsUp == last = "up"

=============================================================================

----------------------------- MODULE AliNetwork -----------------------------
(***************************************************************************)
(* infrastructure/alicloud.go: CreateNetwork with ImportKeyPair, and       *)
(* DeleteNetwork with DeleteKeyPair.  Each function describes what exists, *)
(* drops from the record what does not, adopts what fits, and then makes   *)
(* what is missing, one call at a time.  A call may fail before or after   *)
(* its effect, and the process may die between any two.                    *)
(***************************************************************************)
EXTENDS CloudAccount

Init == InitAccount

Start == BeginAt("vpc")
Stop == BeginAt("deleteEips")

CreateVPC == at = "vpc" /\ AdoptOrMakeVPC("subnets")

(* A recorded subnet that is gone is forgotten.                             *)
ListSubnets ==
    /\ at = "subnets"
    /\ AdoptSubnets(Pruned("SUBNET", ListedSubnets), "makeSubnets")

MakeSubnets ==
    /\ at = "makeSubnets"
    /\ \/ \E z \in ZonesWithout("SUBNET") : Made("SUBNET", z, {VpcRef}, 0)
       \/ NoneMissing("SUBNET", "eips")
       \/ ZonesWithout("SUBNET") # {} /\ CallFails

ListEips == at = "eips" /\ LookUpEips("makeEips")

MakeEips ==
    /\ at = "makeEips"
    /\ \/ \E z \in ZonesWithout("ELASTIC_IP") : AdoptEip(z) \/ AllocateEip(z)
       \/ NoneMissing("ELASTIC_IP", "nats")
       \/ CallFails

ListNats == at = "nats" /\ AdoptNats("makeNats")

(* The gateway is made and awaited, its address is bound, its translation   *)
(* is entered, and it is recorded.                                          *)
CreateNat(z) ==
    /\ RoomForOne
    /\ cloud' = cloud \cup {New("NAT_GATEWAY", z, {RefIn("SUBNET", z)})}
    /\ UNCHANGED record
    /\ \/ seen' = {Fresh} /\ GoTo("bindNat") /\ Counted
       \/ Fails /\ UNCHANGED <<passes, crashes>>

MakeNats ==
    /\ at = "makeNats"
    /\ \/ \E z \in ZonesWithout("NAT_GATEWAY") :
             GetCloudResourceByTags("ELASTIC_IP", z) # {} /\ CreateNat(z)
       \/ NoneMissing("NAT_GATEWAY", "tables")
       \/ ZonesWithout("NAT_GATEWAY") # {} /\ CallFails

(* The cloud binds an address to one gateway only.                          *)
BindNat ==
    /\ at = "bindNat"
    /\ \E x \in cloud :
          /\ x.id \in seen
          /\ LET eip == RefIn("ELASTIC_IP", x.zone)
             IN  \/ /\ Users(eip) = {}
                    /\ cloud' = With(x, {eip})
                    /\ \/ /\ record' = record \cup {NewEntry("NAT_GATEWAY", x.id, x.zone, eip)}
                          /\ seen' = {} /\ GoTo("makeNats") /\ Counted
                       \/ UNCHANGED record /\ Fails /\ UNCHANGED <<passes, crashes>>
                 \/ Users(eip) # {} /\ Refused
                 \/ CallFails

ListRouteTables ==
    /\ at = "tables"
    /\ \/ /\ record' = Pruned("ROUTE_TABLE", Existing("ROUTE_TABLE"))
          /\ GoTo("makeTables") /\ Counted /\ UNCHANGED <<cloud, seen>>
       \/ CallFails

(* A route table is recorded before it is available.                        *)
MakeRouteTables ==
    /\ at = "makeTables"
    /\ \/ /\ \E z \in ZonesWithout("ROUTE_TABLE") : Made("ROUTE_TABLE", z, {VpcRef}, 0)
       \/ NoneMissing("ROUTE_TABLE", "routes")
       \/ ZonesWithout("ROUTE_TABLE") # {} /\ CallFails

(* What a recorded table still misses: its subnet, then the gateway.        *)
Wanted(r) == {RefIn("SUBNET", r.zone), RefIn("NAT_GATEWAY", r.zone)}

Unrouted ==
    {x \in Existing("ROUTE_TABLE") :
        \E r \in GetCloudResourceByRefID("ROUTE_TABLE", x.id) : ~(Wanted(r) \subseteq x.uses)}

(* A subnet has one table; the table it had loses it.                       *)
Associate(x, subnet) ==
    {IF y = x THEN [x EXCEPT !.uses = @ \cup {subnet}]
     ELSE IF y.kind = "ROUTE_TABLE" THEN [y EXCEPT !.uses = @ \ {subnet}] ELSE y : y \in cloud}

Route ==
    /\ at = "routes"
    /\ \/ \E x \in Unrouted :
             \/ /\ cloud' = IF RefIn("SUBNET", x.zone) \in x.uses
                            THEN With(x, {RefIn("NAT_GATEWAY", x.zone)})
                            ELSE Associate(x, RefIn("SUBNET", x.zone))
                /\ UNCHANGED <<record, saved, at, last, seen>> /\ Counted
             \/ CallFails
       \/ /\ Unrouted = {}
          /\ GoTo("key") /\ Counted /\ UNCHANGED <<cloud, record, seen>>

ImportKeyPair == at = "key" /\ RecordOrImportKeyPair(GetCloudResource("KEY_PAIR") # {})

Create == CreateVPC \/ ListSubnets \/ MakeSubnets \/ ListEips \/ MakeEips \/ ListNats \/ MakeNats
          \/ BindNat \/ ListRouteTables \/ MakeRouteTables \/ Route \/ ImportKeyPair

-----------------------------------------------------------------------------
(* Each address is unbound, all are awaited, and they are released; an      *)
(* address whose release fails is dropped from the record like the others.  *)
DeleteEips ==
    /\ at = "deleteEips"
    /\ \/ /\ LET ids == Refs("ELASTIC_IP")
             IN  \/ cloud' = {x \in Freed(ids) : x.id \notin ids} /\ Counted
                 \/ /\ ids # {} /\ faults < MaxFaults /\ faults' = faults + 1
                    /\ \E kept \in SUBSET ids :
                          kept # {} /\ cloud' = {x \in Freed(ids) : x.id \notin ids \ kept}
                    /\ UNCHANGED <<passes, crashes>>
          /\ record' = DeleteCloudResource("ELASTIC_IP")
          /\ GoTo("deleteNats") /\ UNCHANGED seen
       \/ CallFails

(* Deletes one resource of a kind, and the routes to it; whether the cloud  *)
(* refuses, because it is in use, or the call fails, the entry is dropped.  *)
DeleteLogged(kind, blocks(_)) ==
    \E r \in GetCloudResource(kind) :
        /\ record' = DeleteCloudResourceByID(r)
        /\ LET x == {y \in cloud : y.id = r.ref}
           IN  \/ cloud' = (IF \A y \in x : Users(y.id) \cap {u \in cloud : blocks(u)} = {}
                            THEN {[y EXCEPT !.uses = @ \ {r.ref}] : y \in cloud \ x}
                            ELSE cloud) /\ Counted
               \/ /\ x # {} /\ faults < MaxFaults /\ faults' = faults + 1
                  /\ UNCHANGED <<cloud, passes, crashes>>
        /\ UNCHANGED <<saved, at, last, seen>>

(* Deleted by force, whatever routes to it.                                 *)
DeleteNats ==
    /\ at = "deleteNats"
    /\ DeleteLogged("NAT_GATEWAY", LAMBDA u : FALSE) \/ NoneLeft("NAT_GATEWAY", "deleteTables")

(* A table is taken from its subnets first, and that error ends the pass.   *)
DeleteRouteTables ==
    /\ at = "deleteTables"
    /\ \/ DeleteLogged("ROUTE_TABLE", LAMBDA u : TRUE)
       \/ NoneLeft("ROUTE_TABLE", "deleteSubnets")
       \/ GetCloudResource("ROUTE_TABLE") # {} /\ CallFails

DeleteSubnets ==
    /\ at = "deleteSubnets"
    /\ DeleteLogged("SUBNET", LAMBDA u : TRUE) \/ NoneLeft("SUBNET", "deleteVpc")

DeleteVpc ==
    /\ at = "deleteVpc"
    /\ DeleteLogged("VPC", LAMBDA u : TRUE) \/ NoneLeft("VPC", "deleteKey")

DeleteKeyPair ==
    /\ at = "deleteKey"
    /\ \/ /\ cloud' = IF GetCloudResource("KEY_PAIR") = {} THEN cloud ELSE cloud \ Existing("KEY_PAIR")
          /\ record' = DeleteCloudResource("KEY_PAIR")
          /\ End("down") /\ Counted
       \/ GetCloudResource("KEY_PAIR") # {} /\ CallFails

DeleteNetwork == DeleteEips \/ DeleteNats \/ DeleteRouteTables \/ DeleteSubnets \/ DeleteVpc \/ DeleteKeyPair

Next == Start \/ Stop \/ Create \/ DeleteNetwork \/ Crash

Spec == Init /\ [][Next]_vars

-----------------------------------------------------------------------------
(* A creation that reports success has left, in every zone, a subnet whose  *)
(* table routes to a gateway with an address, all recorded, whatever failed *)
(* before it in the creation.  (After a deletion that got as far as the     *)
(* addresses it may be false: the gateway is still recorded with an address *)
(* that was taken from it, and nothing binds it again.)                     *)
WiredWhenDone ==
    last = "up" =>
        \A z \in Zones : \E s, e, n, t \in cloud :
            /\ s.kind = "SUBNET" /\ s.id \in Refs("SUBNET") /\ s.zone = z
            /\ e.kind = "ELASTIC_IP" /\ e.id \in Refs("ELASTIC_IP")
            /\ n.kind = "NAT_GATEWAY" /\ n.id \in Refs("NAT_GATEWAY") /\ {s.id, e.id} \subseteq n.uses
            /\ t.kind = "ROUTE_TABLE" /\ t.id \in Refs("ROUTE_TABLE") /\ {s.id, n.id} \subseteq t.uses

(* A deletion in which every call succeeds undoes every creation before it. *)
(* A failed call is another matter: most deletions only log it and drop     *)
(* the resource from the record.                                            *)
DeleteUndoesCreate == last = "down" /\ faults = 0 /\ crashes = 0 => cloud = {} /\ record = {}

(* After finitely many failed calls and crashes it comes to this.           *)
IsUp == last = "up"

=============================================================================

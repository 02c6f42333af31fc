---------------------------- MODULE NetworkPlan ----------------------------
(***************************************************************************)
(* The address arithmetic of utils/cidr.go (ranges of IPv4 addresses,      *)
(* whether two overlap, and how a range is divided) and the ranges of a    *)
(* cluster: StartCluster plans them from its id, and the cloud providers   *)
(* take subnets of its network one after the other, next to those that the *)
(* cloud already has there.  An address is four octets of OctetBits bits:  *)
(* 8 in the program, fewer where all ranges are compared with sets of      *)
(* addresses.  A text that net.ParseCIDR refuses has an octet or a mask    *)
(* out of range.                                                           *)
(***************************************************************************)
EXTENDS Naturals, Sequences, FiniteSets

CONSTANTS
    OctetBits,  \* 8, or less in a small instance
    Ids,        \* ids of clusters
    Foreign(_), \* subnets somebody else may have made in the network of a cluster
    MaxSubnets  \* bound: subnets taken or released in one behaviour

Octets == 1 .. 4
Bits == 4 * OctetBits
Octet == 2 ^ OctetBits
Address == [Octets -> 0 .. Octet - 1]
Range == [ip : Address, mask : 0 .. Bits]

Slash(a, b, c, d, mask) == [ip |-> <<a, b, c, d>>, mask |-> mask]

Parses(r) == r.mask <= Bits /\ \A i \in Octets : r.ip[i] < Octet

(* How many bits of octet i belong to the prefix, and the octet with only   *)
(* its first k bits.                                                        *)
PrefixBits(mask, i) ==
    LET before == OctetBits * (i - 1)
    IN  IF mask <= before THEN 0 ELSE IF mask - before < OctetBits THEN mask - before ELSE OctetBits

Keep(x, k) == (x \div 2 ^ (OctetBits - k)) * 2 ^ (OctetBits - k)

(* net.ParseCIDR: the network of a range, its host bits cleared.            *)
Network(r) == [r EXCEPT !.ip = [i \in Octets |-> Keep(r.ip[i], PrefixBits(r.mask, i))]]

Contains(net, ip) == \A i \in Octets : Keep(ip[i], PrefixBits(net.mask, i)) = net.ip[i]

IsSubnetOverlap(r, s) ==
    IF ~Parses(r) \/ ~Parses(s) THEN "error"
    ELSE IF Contains(Network(r), Network(s).ip) \/ Contains(Network(s), Network(r).ip)
         THEN "yes" ELSE "no"

(* insertNumIntoIP: octet i of num shifted to the end of a prefix.          *)
Shifted(num, prefix, i) ==
    ((num * 2 ^ (Bits - prefix)) \div Octet ^ (4 - i)) % Octet

Subnet(base, newBits, num) ==
    [ip |-> [i \in Octets |-> base.ip[i] + Shifted(num, base.mask + newBits, i)],
     mask |-> base.mask + newBits]

(* math.Ceil(math.Log2(count)) for a positive count.                        *)
RequiredBits(count) == CHOOSE k \in 0 .. count : 2 ^ k >= count /\ (k = 0 \/ 2 ^ (k - 1) < count)

(* A sequence of ranges, or <<>> for the error.                             *)
GenerateSubnets(vpc, count) ==
    LET k == RequiredBits(count)
    IN  IF vpc.mask + k > Bits THEN <<>>
        ELSE [i \in 1 .. count |-> Subnet(Network(vpc), k, i - 1)]

(* The first subnet with a mask of three octets that overlaps none of those *)
(* that exist; an existing range that does not parse counts as overlapping. *)
SubnetMask == 3 * OctetBits

Candidates(vpc) ==
    IF vpc.mask > SubnetMask THEN {} ELSE 0 .. 2 ^ (SubnetMask - vpc.mask) - 1

Candidate(vpc, i) == Subnet(Network(vpc), SubnetMask - vpc.mask, i)

Free(vpc, existing) ==
    {i \in Candidates(vpc) : \A s \in existing : IsSubnetOverlap(Candidate(vpc, i), s) = "no"}

(* The set of the subnet it returns, empty for the error.                   *)
GenerateSubnet(vpc, existing) ==
    LET free == Free(vpc, existing)
    IN  {Candidate(vpc, i) : i \in {j \in free : \A k \in free : j <= k}}

-----------------------------------------------------------------------------
(* What the ranges mean: the addresses from the first to the last one, in   *)
(* the order of their octets.                                               *)
First(r) == Network(r).ip
Last(r) == [i \in Octets |-> Network(r).ip[i] + 2 ^ (OctetBits - PrefixBits(r.mask, i)) - 1]

NotAfter(a, b) ==
    \/ a = b
    \/ \E i \in Octets : a[i] < b[i] /\ \A j \in 1 .. i - 1 : a[j] = b[j]

Apart(r, s) == ~NotAfter(First(r), Last(s)) \/ ~NotAfter(First(s), Last(r))
Within(r, s) == NotAfter(First(s), First(r)) /\ NotAfter(Last(r), Last(s))

-----------------------------------------------------------------------------
(* What a range is for those who compare it with sets: its addresses.       *)
Value(ip) == ((ip[1] * Octet + ip[2]) * Octet + ip[3]) * Octet + ip[4]
Size(x) == 2 ^ (Bits - x.mask)
Start(x) == (Value(x.ip) \div Size(x)) * Size(x)
Members(x) == Start(x) .. Start(x) + Size(x) - 1

(* Two ranges overlap in the code exactly if they share an address          *)
(* (utils/cidr.go: IsSubnetOverlap).                                        *)
OverlapIsIntersection(r, s) ==
    (IsSubnetOverlap(r, s) = "yes") = (Members(r) \cap Members(s) # {})

(* The intervals that the plan is judged by are those sets.                 *)
ApartIsDisjoint(r, s) == Apart(r, s) = (Members(r) \cap Members(s) = {})

(* Any count of subnets lies in the range, is disjoint, and is refused only *)
(* where it does not fit (GenerateSubnets).                                 *)
SubnetsDivideTheRange(r) ==
    \A count \in 1 .. 5 :
        LET g == GenerateSubnets(r, count)
        IN  IF g = <<>> THEN \A k \in Nat \cap 0 .. Bits : 2 ^ k >= count => r.mask + k > Bits
            ELSE /\ \A i \in 1 .. count : Members(g[i]) \subseteq Members(r)
                 /\ \A i, j \in 1 .. count : i # j => Members(g[i]) \cap Members(g[j]) = {}

(* A subnet is found beside an existing one whenever there is room          *)
(* (GenerateSubnet).                                                        *)
FreeSubnetIsFound(r, s) ==
    LET g == GenerateSubnet(r, {s})
    IN  /\ \A x \in g : x.mask = SubnetMask /\ Members(x) \subseteq Members(r)
                         /\ Members(x) \cap Members(s) = {}
        /\ g = {} => \A x \in Range : x.mask = SubnetMask /\ Members(x) \subseteq Members(r)
                                       => Members(x) \cap Members(s) # {}

-----------------------------------------------------------------------------
(* The plan of a cluster.                                                  *)
None == Slash(0, 0, 0, 0, 0)

VARIABLES
    id,         \* the cluster
    vpc, pod, service,  \* Cluster.VpcCidr, PodCidr, ServiceCidr; None if empty
    subnets,    \* Cluster.SubnetCidrs
    exits,      \* the subnets that exist in the network
    refused,    \* whether the last GenerateSubnet found none
    calls

vars == <<id, vpc, pod, service, subnets, exits, refused, calls>>

(* GenerateClusterCIDR and GenerateKubernetesCIDRs.                         *)
IdAccepted(i) == i > 0 /\ i <= 255

ClusterCIDR(i) == Slash(10, i, 0, 0, 16)
PodCandidates(i) == <<Slash(172, i, 0, 0, 16), Slash(192, 168, i, 0, 24)>>
ServiceCandidates(i) == <<Slash(10, 96 + i, 0, 0, 16), Slash(10, 160 + i, 0, 0, 16)>>

(* The first candidate that overlaps none of the others, None without one.  *)
FirstApart(candidates, others) ==
    LET good == {n \in DOMAIN candidates :
                    \A o \in others : IsSubnetOverlap(candidates[n], o) = "no"}
    IN  IF good = {} THEN None ELSE candidates[CHOOSE n \in good : \A m \in good : n <= m]

PodCIDR(i, net) == FirstApart(PodCandidates(i), {net})

ServiceCIDR(i, net, podNet) == FirstApart(ServiceCandidates(i), {net, podNet})

Init ==
    /\ id \in Ids
    /\ vpc = None /\ pod = None /\ service = None /\ subnets = <<>>
    /\ exits = {} /\ refused = FALSE /\ calls = 0

(* SetCidr, whose error StartCluster ignores: it keeps what was set before. *)
SetCidr ==
    /\ calls = 0
    /\ calls' = 1
    /\ vpc' = IF IdAccepted(id) THEN ClusterCIDR(id) ELSE None
    /\ LET p == PodCIDR(id, ClusterCIDR(id))
           s == ServiceCIDR(id, ClusterCIDR(id), p)
       IN  IF IdAccepted(id) /\ p # None /\ s # None
           THEN /\ pod' = p /\ service' = s
                /\ subnets' = GenerateSubnets(ClusterCIDR(id), 10)
           ELSE UNCHANGED <<pod, service, subnets>>
    /\ UNCHANGED <<id, exits, refused>>

(* Somebody else makes a subnet of the network; the cloud refuses one that  *)
(* overlaps.                                                                *)
ForeignSubnet ==
    /\ vpc # None /\ calls < MaxSubnets
    /\ \E s \in Foreign(id) :
          /\ \A e \in exits : Apart(s, e)
          /\ exits' = exits \cup {s}
    /\ calls' = calls + 1
    /\ UNCHANGED <<id, vpc, pod, service, subnets, refused>>

(* createSubnets of a provider.                                             *)
TakeSubnet ==
    /\ vpc # None /\ calls < MaxSubnets
    /\ LET s == GenerateSubnet(vpc, exits)
       IN  exits' = exits \cup s /\ refused' = (s = {})
    /\ calls' = calls + 1
    /\ UNCHANGED <<id, vpc, pod, service, subnets>>

ReleaseSubnet ==
    /\ vpc # None /\ calls < MaxSubnets
    /\ \E s \in exits : exits' = exits \ {s}
    /\ calls' = calls + 1 /\ refused' = FALSE
    /\ UNCHANGED <<id, vpc, pod, service, subnets>>

Next == SetCidr \/ ForeignSubnet \/ TakeSubnet \/ ReleaseSubnet

Spec == Init /\ [][Next]_vars

-----------------------------------------------------------------------------
TypeOK ==
    /\ vpc \in Range /\ pod \in Range /\ service \in Range
    /\ \A i \in DOMAIN subnets : subnets[i] \in Range
    /\ exits \subseteq Range /\ refused \in BOOLEAN

(* The network of a cluster, its pods and its services share no address.    *)
RangesAreApart ==
    pod # None => Apart(pod, vpc) /\ Apart(service, vpc) /\ Apart(pod, service)

(* The ten planned subnets lie in the network, and no two share an address. *)
PlannedSubnetsFit ==
    /\ \A i \in DOMAIN subnets : Within(subnets[i], vpc)
    /\ \A i, j \in DOMAIN subnets : i # j => Apart(subnets[i], subnets[j])

(* The subnets that exist in the network never share an address, in         *)
(* whatever order they were taken, released and made by others.             *)
ExistingSubnetsAreApart ==
    /\ \A s \in exits : Within(s, vpc)
    /\ \A s, t \in exits : s # t => Apart(s, t)

(* No subnet is found only where each one of its size is in use.            *)
RefusedOnlyWhenFull ==
    refused' /\ ~refused => \A i \in Candidates(vpc) : \E s \in exits : ~Apart(Candidate(vpc, i), s)

=============================================================================

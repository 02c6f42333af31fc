------------------------------- MODULE NodeRange -------------------------------
(***************************************************************************)
(* The machines of a bare-metal cluster are given as a range of addresses. *)
(* Each start turns the range into a list of addresses (utils.RangeIps)    *)
(* and the list into nodes (Cluster.SetBareMetalNode); a save may change   *)
(* the range in between.  An address is a word of four digits to the base  *)
(* Base: 256 in the code.                                                  *)
(***************************************************************************)
EXTENDS Integers, Sequences

CONSTANTS Base,
          Ranges,     \* the pairs of words that are saved as the first and last address
          MaxChanges  \* saves of a range

VARIABLES range,  \* the first and last address of the cluster, as they were saved
          loop,   \* RangeIps: where it is
          nodes,  \* the nodes of the cluster, in the order they were added
          count   \* changes of the range

vars == <<range, loop, nodes, count>>

Weight == <<Base * Base * Base, Base * Base, Base, 1>>  \* of each digit
Size == Base * Base * Base * Base                        \* the number of addresses
Top == Size - 1
Idle == [at |-> "idle", i |-> 0, end |-> 0, ips |-> <<>>, next |-> 0]

Init == range \in Ranges /\ loop = Idle /\ nodes = <<>> /\ count = 1

\* A word that has not so many parts is 0, and a part that is no digit counts
\* as it is: the sum has the width of the address.
ip4ToUint32(word) ==
    IF Len(word) # 4 THEN 0
    ELSE (word[1] * Weight[1] + word[2] * Weight[2] + word[3] * Weight[3] + word[4]) % Size

uint32ToIp4(n) == [k \in 1 .. 4 |-> (n \div Weight[k]) % Base]

ChangeRange ==
    /\ loop.at = "idle" /\ count < MaxChanges
    /\ \E r \in Ranges \ {range} : range' = r
    /\ count' = count + 1 /\ UNCHANGED <<loop, nodes>>

RangeIps ==
    /\ loop.at = "idle"
    /\ LET start == ip4ToUint32(range.start)  end == ip4ToUint32(range.end)
       IN loop' = [at |-> IF start > end THEN "done" ELSE "loop", i |-> start, end |-> end,
                    ips |-> <<>>, next |-> 1]
    /\ UNCHANGED <<range, nodes, count>>

\* The counter has the width of the address: after the highest comes 0.  A
\* list that is longer than there are addresses is not looked at.
AppendIp ==
    /\ loop.at = "loop"
    /\ loop' = IF loop.i <= loop.end
               THEN [loop EXCEPT !.ips = IF Len(@) = Size THEN @ ELSE Append(@, uint32ToIp4(loop.i)),
                                 !.i = IF @ = Top THEN 0 ELSE @ + 1]
               ELSE [loop EXCEPT !.at = "done"]
    /\ UNCHANGED <<range, nodes, count>>

GetNodeByIp(ip) == {n \in DOMAIN nodes : nodes[n].ip = ip}

\* A node is named for its place in the range.
Node(n) == [name |-> n, ip |-> loop.ips[n], role |-> "worker", status |-> "finding", change |-> count]

AddNode ==
    /\ loop.at = "done" /\ loop.next <= Len(loop.ips)
    /\ loop' = [loop EXCEPT !.next = @ + 1]
    /\ nodes' = IF GetNodeByIp(loop.ips[loop.next]) = {} THEN Append(nodes, Node(loop.next)) ELSE nodes
    /\ UNCHANGED <<range, count>>

\* The first of all nodes is the master where there is none; those outside of
\* the range are to go.
SetBareMetalNode ==
    /\ loop.at = "done" /\ loop.next > Len(loop.ips) /\ loop' = Idle
    /\ LET hasMaster == \E n \in DOMAIN nodes : nodes[n].role = "master"
           inRange(n) == \E k \in DOMAIN loop.ips : loop.ips[k] = nodes[n].ip
       IN nodes' = [n \in DOMAIN nodes |->
            [nodes[n] EXCEPT !.role = IF ~hasMaster /\ n = 1 THEN "master" ELSE @,
                             !.status = IF inRange(n) THEN @ ELSE "deleting"]]
    /\ UNCHANGED <<range, count>>

Next == ChangeRange \/ RangeIps \/ AppendIp \/ AddNode \/ SetBareMetalNode

Spec == Init /\ [][Next]_vars

\* A loop that was begun is not left.
FairSpec == Spec /\ WF_vars(AppendIp)

-----------------------------------------------------------------------------
IsAddress(word) == Len(word) = 4 /\ \A k \in 1 .. 4 : word[k] \in 0 .. Base - 1

TypeOK ==
    /\ loop.at \in {"idle", "loop", "done"} /\ loop.i \in 0 .. Top
    /\ \A n \in DOMAIN nodes : IsAddress(nodes[n].ip) /\ nodes[n].name \in 1 .. Size

\* Of two words, the order of addresses (not of their numbers).
Before(v, w) == v = w \/ \E k \in 1 .. 4 : v[k] < w[k] /\ \A j \in 1 .. k - 1 : v[j] = w[j]

\* Between two addresses lie exactly those that are returned, each once and in
\* their order.
RangeIsExact ==
    loop.at = "done" /\ IsAddress(range.start) /\ IsAddress(range.end) =>
        /\ {loop.ips[k] : k \in DOMAIN loop.ips} =
             {w \in [1 .. 4 -> 0 .. Base - 1] : Before(range.start, w) /\ Before(w, range.end)}
        /\ \A j, k \in DOMAIN loop.ips : j < k => Before(loop.ips[j], loop.ips[k]) /\ loop.ips[j] # loop.ips[k]

\* However the range is changed, a machine is one node.
OneNodePerMachine == \A j, k \in DOMAIN nodes : nodes[j].ip = nodes[k].ip => j = k

\* Two nodes have one name, and their machines one host name, only when the
\* range was changed between them.
NamesRepeatOverChanges ==
    \A j, k \in DOMAIN nodes : j # k /\ nodes[j].name = nodes[k].name => nodes[j].change # nodes[k].change

\* A walk over a range below the highest address.
Walking == loop.at = "loop" /\ loop.end < Top

=============================================================================

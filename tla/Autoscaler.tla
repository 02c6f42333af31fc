------------------------------ MODULE Autoscaler ------------------------------
(***************************************************************************)
(* The provider that the cluster autoscaler of Kubernetes calls            *)
(* (internal/interfaces/autoscaler.go).  Every call asks for the current   *)
(* cluster, hands it to a function of the use case and forgets it with the *)
(* answer: a handler is a function from a cluster and a call to an answer  *)
(* and to what has become of the cluster it was given.  One call is made   *)
(* of a cluster that one or two starts have built.                         *)
(***************************************************************************)
EXTENDS Integers, Sequences, FiniteSets, SequencesExt

CONSTANTS
    TargetSize,  \* nodes of a start, 3 in the code
    Gpu,         \* the model of GPU of a group, or "": one for each start
    Deltas       \* sizes that the autoscaler asks for

VARIABLES
    given,   \* the cluster of the object in Kubernetes
    call,    \* the call: op, group, delta, names
    result,  \* what a handler makes of the cluster that it is given
    answer   \* what the autoscaler is answered

vars == <<given, call, result, answer>>

Node(id, name, group, status) == [id |-> id, name |-> name, group |-> group, status |-> status]

(* A group with its nodes, "node1" and so on in every group.                *)
Started(k, ran) ==
    [groups |-> [g \in 1 .. k |-> [id |-> g, target |-> TargetSize, min |-> TargetSize, max |-> 100, gpu |-> Gpu[g]]],
     nodes |-> [i \in 1 .. k * TargetSize |->
                  Node(i, ((i - 1) % TargetSize) + 1, ((i - 1) \div TargetSize) + 1,
                       IF i <= ran THEN "RUNNING" ELSE "PENDING")]]

Ops == {"NodeGroups", "NodeGroupForNode", "PricingNodePrice", "GPULabel", "GetAvailableGPUTypes", "Refresh",
        "NodeGroupTargetSize", "NodeGroupIncreaseSize", "NodeGroupDeleteNodes",
        "NodeGroupDecreaseTargetSize", "NodeGroupNodes", "NodeGroupTemplateNodeInfo", "NodeGroupGetOptions"}
Calls == [op : Ops, group : 1 .. 3, delta : Deltas, names : SUBSET (1 .. TargetSize)]

None == [ok |-> FALSE]
Init ==
    /\ given \in {Started(k, r) : k \in {1, 2}, r \in {0, 1, TargetSize, TargetSize + 1}}
    /\ call \in Calls /\ result = None /\ answer = None

-----------------------------------------------------------------------------
Answer(c, value) == [ok |-> TRUE, cluster |-> c, value |-> value]

getNodeByName(name, c) ==
    LET S == {i \in DOMAIN c.nodes : c.nodes[i].name = name}
    IN {c.nodes[i] : i \in {j \in S : \A k \in S : j <= k}}
getNodeGroupByID(id, c) == {c.groups[i] : i \in {j \in DOMAIN c.groups : c.groups[j].id = id}}
getNodesByNGIDAndName(id, name, c) == {n \in ToSet(c.nodes) : n.group = id /\ n.name = name}
GpuTypes(c) == {g.gpu : g \in {h \in ToSet(c.groups) : h.gpu # "" /\ \E n \in ToSet(c.nodes) : n.group = h.id}}

(* What only reads: "node not found", "node group not found".               *)
NodeGroupForNode(c, name) ==
    IF getNodeByName(name, c) = {} THEN None
    ELSE LET n == CHOOSE x \in getNodeByName(name, c) : TRUE
         IN Answer(c, n.group)
NodeGroupNodes(c, id) ==
    IF getNodeGroupByID(id, c) = {} THEN None ELSE Answer(c, {n.id : n \in {m \in ToSet(c.nodes) : m.group = id}})
NodeGroupTargetSize(c, id) ==
    IF getNodeGroupByID(id, c) = {} THEN None
    ELSE Answer(c, (CHOOSE g \in getNodeGroupByID(id, c) : TRUE).target)
NodeGroupTemplateNodeInfo(c, id) ==
    IF getNodeGroupByID(id, c) = {} THEN None ELSE Answer(c, Node(0, "new", id, "CREATING"))

(* New nodes; the target of the group stays.                                *)
NodeGroupIncreaseSize(c, id, delta) ==
    IF getNodeGroupByID(id, c) = {} THEN None
    ELSE Answer([c EXCEPT !.nodes = @ \o [i \in 1 .. delta |-> Node(0, "new", id, "CREATING")]], delta)

(* The nodes of the group with these names, or none if one is not found; the*)
(* target of the group stays.                                               *)
NodeGroupDeleteNodes(c, id, names) ==
    IF getNodeGroupByID(id, c) = {} \/ \E m \in names : getNodesByNGIDAndName(id, m, c) = {} THEN None
    ELSE LET gone == UNION {getNodesByNGIDAndName(id, m, c) : m \in names}
         IN Answer([c EXCEPT !.nodes = SelectSeq(@, LAMBDA n : n \notin gone)], 0)

Resized(c, id, delta) ==
    [i \in DOMAIN c.groups |->
        IF c.groups[i].id = id THEN [c.groups[i] EXCEPT !.target = @ + delta] ELSE c.groups[i]]

(* "delta must be negative", "new target size must be non-negative": how    *)
(* many nodes there are is not asked.                                       *)
NodeGroupDecreaseTargetSize(c, id, delta) ==
    IF delta >= 0 \/ getNodeGroupByID(id, c) = {}
       \/ NodeGroupTargetSize(c, id).value + delta < 0 THEN None
    ELSE Answer([c EXCEPT !.groups = Resized(c, id, delta)], 0)

(* A handler, given a cluster.                                              *)
Handle(c, q) ==
    LET name == CHOOSE n \in q.names \cup {1} : TRUE
    IN CASE q.op = "NodeGroups" -> Answer(c, ToSet(c.groups))
         [] q.op \in {"NodeGroupForNode", "PricingNodePrice"} -> NodeGroupForNode(c, name)
         [] q.op \in {"GPULabel", "GetAvailableGPUTypes"} -> Answer(c, GpuTypes(c))
         [] q.op = "NodeGroupTargetSize" -> NodeGroupTargetSize(c, q.group)
         [] q.op = "NodeGroupIncreaseSize" -> NodeGroupIncreaseSize(c, q.group, IF q.delta > 0 THEN q.delta ELSE 0)
         [] q.op = "NodeGroupDeleteNodes" -> NodeGroupDeleteNodes(c, q.group, q.names)
         [] q.op = "NodeGroupDecreaseTargetSize" -> NodeGroupDecreaseTargetSize(c, q.group, q.delta)
         [] q.op = "NodeGroupNodes" -> NodeGroupNodes(c, q.group)
         [] q.op = "NodeGroupTemplateNodeInfo" -> NodeGroupTemplateNodeInfo(c, q.group)
         [] OTHER -> Answer(c, 0)

(* CurrentCluster refuses the cluster that GetCurrentCluster hands it, which*)
(* is new and has no name: "cluster name is empty".                         *)
GetCurrentCluster == None

(* A call ends with the error of GetCurrentCluster, unless it asks for none;*)
(* what the handler would make of the cluster is in "result".               *)
Call ==
    /\ result = None /\ answer = None /\ result' = Handle(given, call)
    /\ answer' = IF call.op = "NodeGroupGetOptions" THEN [ok |-> TRUE]
                 ELSE IF GetCurrentCluster.ok THEN Handle(GetCurrentCluster.cluster, call) ELSE None
    /\ UNCHANGED <<given, call>>

Next == Call

Spec == Init /\ [][Next]_vars

-----------------------------------------------------------------------------
TypeOK ==
    /\ call \in Calls
    /\ result.ok => \A g \in ToSet(result.cluster.groups) : g.target >= 0 /\ g.min <= g.max

Is(op) == call.op = op /\ result.ok
Of(c, id) == {i \in DOMAIN c.nodes : c.nodes[i].group = id}

(* An increase leaves every node and adds as many as it is asked for, all   *)
(* to its group.                                                            *)
IncreaseAddsToTheGroup ==
    Is("NodeGroupIncreaseSize") =>
        /\ SubSeq(result.cluster.nodes, 1, Len(given.nodes)) = given.nodes
        /\ Cardinality(Of(result.cluster, call.group)) = Cardinality(Of(given, call.group)) + result.value

(* The nodes that are deleted are those of the group with the names of the  *)
(* call, though other groups have nodes of the same names; a name that is   *)
(* not found keeps all.                                                     *)
DeleteTakesTheNamed ==
    Is("NodeGroupDeleteNodes") =>
        ToSet(given.nodes) \ ToSet(result.cluster.nodes) =
            {n \in ToSet(given.nodes) : n.group = call.group /\ n.name \in call.names}

=============================================================================

------------------------------ MODULE CloudNodes ------------------------------
(***************************************************************************)
(* The machines of a cluster at a cloud provider: the operator starts,     *)
(* stops and updates the cluster, HandleClusterEvent handles the event, and*)
(* ManageInstance of either provider deletes, creates and waits for        *)
(* machines.  The resources that ManageInstance needs (network, security   *)
(* group, key pair) are one flag here; AliNetwork, AwsNetwork and          *)
(* AccessRules have their details.  The operator waits for an event to be  *)
(* handled before the next request; ClusterLifecycle has the races.        *)
(***************************************************************************)
EXTENDS Naturals, Sequences, FiniteSets, SequencesExt

CONSTANTS
    Provider,    \* "ali" or "aws"
    Env,         \* server.env, "local" or another
    Ids,         \* bound: machines the cloud makes
    TargetSize,  \* machines of one group, 3 in the code
    MaxStarts, MaxStops, MaxUpdates,  \* bounds: requests
    MaxFaults,   \* bound: calls that fail
    MaxCrashes   \* bound: crashes of the process

VARIABLES
    machines,  \* the machines of the cloud: "stopped", "starting", "running" or "none"
    cluster,   \* the cluster the handler works on
    saved,     \* the cluster in the database
    at, path,  \* where the handling is, and on which path of the handler
    todo,      \* indices of nodes, or machines, still to be looked at
    seen,      \* machines seen running
    finish,    \* finishNumber
    ranOut,    \* whether the loop that waits ran out of time
    last,      \* how the last handling ended
    installers,\* history: machines made with the install script
    lost,      \* history: an answer was lost, or the rows of the nodes
    starts, stops, updates, faults, crashes

counters == <<starts, stops, updates, faults, crashes>>
local == <<todo, seen, finish, ranOut>>
history == <<installers, lost>>
vars == <<machines, cluster, saved, at, path, local, last, history, counters>>

NodeStatus == {"FINDING", "CREATING", "PENDING", "RUNNING", "DELETING", "DELETED"}
Node == [status : NodeStatus, inst : Ids \cup {"", "type"}, master : BOOLEAN,
         error : {"", "INSUFFICIENT INVENTORY", "CREATE FAILURE", "START TIMEOUT"}, ip : BOOLEAN]
NewNode == [status |-> "FINDING", inst |-> "", master |-> FALSE, error |-> "", ip |-> FALSE]
Cluster == [status : {"CREATING", "STARTING", "RUNNING", "STOPPING", "ERROR"},
            level : {"UNSPECIFIED", "BASIC", "ADVANCED", "STANDARD"},
            groups : 0 .. MaxStarts, net : BOOLEAN, nodes : Seq(Node)]

(* A cluster of the API has a level, one of the boot file has none.         *)
Fresh(level) ==
    [status |-> "CREATING", level |-> level, groups |-> 0, net |-> FALSE, nodes |-> <<>>]

Indices(status) == {n \in DOMAIN cluster.nodes : cluster.nodes[n].status = status}
Listed == {i \in Ids : machines[i] # "none"}

(* Each start appends a group and its nodes, but makes the first node of    *)
(* the cluster the master, whatever start it came from.                     *)
InitCloudNodeAndNodeGroup(c) ==
    LET grown == c.nodes \o [n \in 1 .. TargetSize |-> NewNode]
    IN  [c EXCEPT !.groups = @ + 1, !.nodes = [grown EXCEPT ![1].master = TRUE]]

SetNodeStatusFromTo(c, from, to) ==
    [c EXCEPT !.nodes = [n \in DOMAIN @ |-> IF @[n].status = from THEN [@[n] EXCEPT !.status = to] ELSE @[n]]]

(* The level of a number of nodes; none between 100 and 199.                *)
LevelOf(number) ==
    IF number < 50 THEN "BASIC" ELSE IF number < 100 THEN "ADVANCED"
    ELSE IF number >= 200 THEN "STANDARD" ELSE "UNSPECIFIED"

(* Variant: true whenever there is a level.                                 *)
LevelChangesAlways(c) == LevelOf(c.groups * TargetSize) # "UNSPECIFIED"

(* SettingClusterLevelByNodeNumber                                          *)
LevelChanges(c) == LevelOf(c.groups * TargetSize) \notin {c.level, "UNSPECIFIED"}

-----------------------------------------------------------------------------
Init ==
    /\ machines = [i \in Ids |-> "none"]
    /\ \E level \in {"UNSPECIFIED", "BASIC"} : cluster = Fresh(level) /\ saved = Fresh(level)
    /\ at = "idle" /\ path = "none" /\ last = "none"
    /\ todo = {} /\ seen = {} /\ finish = 0 /\ ranOut = FALSE
    /\ installers = {} /\ lost = FALSE
    /\ starts = 0 /\ stops = 0 /\ updates = 0 /\ faults = 0 /\ crashes = 0

Request(c) ==
    /\ cluster' = c /\ saved' = c
    /\ last' = "none"
    /\ UNCHANGED <<machines, path, local, installers, faults, crashes>>

StartCluster ==
    /\ at = "idle" /\ starts < MaxStarts
    /\ Request([InitCloudNodeAndNodeGroup(saved) EXCEPT !.status = "STARTING"])
    /\ starts' = starts + 1 /\ at' = "handle" /\ UNCHANGED <<stops, updates, lost>>

StopCluster ==
    /\ at = "idle" /\ stops < MaxStops
    /\ Request([saved EXCEPT !.status = "STOPPING"])
    /\ stops' = stops + 1 /\ at' = "handle" /\ UNCHANGED <<starts, updates, lost>>

(* Save with an id stores a fresh cluster: its groups, nodes and cloud      *)
(* resources are deleted from the database.                                 *)
Update ==
    /\ at = "idle" /\ updates < MaxUpdates
    /\ Request(Fresh("BASIC"))
    /\ lost' = (lost \/ Listed # {})
    /\ updates' = updates + 1 /\ UNCHANGED <<at, starts, stops>>

Requests == StartCluster \/ StopCluster \/ Update

-----------------------------------------------------------------------------
(* The handler.                                                             *)

(* The deferred save: with an error the status is ERROR.                    *)
EndWith(result, c) ==
    LET e == IF result = "failed" THEN [c EXCEPT !.status = "ERROR"] ELSE c
    IN  /\ cluster' = e /\ saved' = e
        /\ at' = "idle" /\ path' = "none" /\ last' = result
        /\ todo' = {} /\ seen' = {} /\ finish' = 0 /\ ranOut' = FALSE

Counted == UNCHANGED counters
Fault == faults < MaxFaults /\ faults' = faults + 1 /\ UNCHANGED <<starts, stops, updates, crashes>>
Refused(c) == EndWith("failed", c) /\ UNCHANGED <<machines, history>> /\ Counted
Fails(c) == EndWith("failed", c) /\ Fault
GoTo(place) == at' = place /\ UNCHANGED <<saved, last>>

(* The nodes are to go, the scripts that reset them run before the machines *)
(* are deleted.                                                             *)
BeginStop ==
    /\ at = "handle" /\ cluster.status = "STOPPING"
    /\ LET c == [cluster EXCEPT !.nodes =
                   [n \in DOMAIN @ |-> IF @[n].status = "DELETED" THEN @[n] ELSE [@[n] EXCEPT !.status = "DELETING"]]]
       IN  \/ cluster' = c /\ path' = "stop" /\ GoTo("list") /\ Counted /\ UNCHANGED <<machines, local, history>>
           \/ Fails(c) /\ UNCHANGED <<machines, history>>

(* The network is made only when the level changes.                         *)
BeginStart ==
    /\ at = "handle" /\ cluster.status = "STARTING"
    /\ LET c == IF LevelChanges(cluster)
                THEN [cluster EXCEPT !.level = LevelOf(cluster.groups * TargetSize)] ELSE cluster
       IN  \/ /\ cluster' = [c EXCEPT !.net = @ \/ LevelChanges(cluster)]
              /\ \E p \in {"scale", IF Env = "local" THEN "local" ELSE "install"} : path' = p
              /\ GoTo("info") /\ Counted /\ UNCHANGED <<machines, local, history>>
           \/ LevelChanges(cluster) /\ Fails(c) /\ UNCHANGED <<machines, history>>

(* GetNodesSystemInfo gives the nodes that are being found their image and  *)
(* type; where nodes are scaled, Kubernetes gets the cluster.               *)
Info ==
    /\ at = "info"
    /\ LET c == SetNodeStatusFromTo(cluster, "FINDING", "CREATING")
       IN  \/ /\ cluster' = c /\ GoTo(IF path = "install" THEN "install" ELSE "list")
              /\ Counted /\ UNCHANGED <<machines, path, local, history>>
           \/ \E d \in {cluster} \cup (IF path = "scale" THEN {c} ELSE {}) :
                 Fails(d) /\ UNCHANGED <<machines, history>>

(* In the cluster itself no machine is made: the master and the others must *)
(* have got theirs before.                                                  *)
Install ==
    /\ at = "install"
    /\ LET c == SetNodeStatusFromTo(cluster, "CREATING", "PENDING")
           master == c.nodes[1]
       IN  \/ ~master.ip /\ Refused(c)
           \/ /\ master.ip
              /\ EndWith("up", [SetNodeStatusFromTo(c, "PENDING", "RUNNING") EXCEPT !.status = "RUNNING"])
              /\ UNCHANGED <<machines, history>> /\ Counted
           \/ /\ master.ip
              /\ \E d \in {c, SetNodeStatusFromTo(c, "PENDING", "RUNNING")} : Fails(d)
              /\ UNCHANGED <<machines, history>>

-----------------------------------------------------------------------------
(* ManageInstance.                                                          *)

(* Machines are made in a network, with a security group and a key pair.    *)
Supplied(c) == c.net

(* Nodes whose machine does not exist any more forget it.                   *)
Forgets(node) == node.status \in {"RUNNING", "PENDING"} /\ node.inst \notin Listed
History(c) ==
    [c EXCEPT !.nodes = [n \in DOMAIN @ |-> IF Forgets(@[n]) THEN [@[n] EXCEPT !.inst = ""] ELSE @[n]]]

ToDelete == {i \in Listed : \E n \in Indices("DELETING") : cluster.nodes[n].inst = i}

ListInstances ==
    /\ at = "list"
    /\ \/ ~Supplied(cluster) /\ Refused(cluster)
       \/ /\ Supplied(cluster)
          /\ cluster' = History(cluster) /\ todo' = ToDelete
          /\ GoTo("delete") /\ Counted /\ UNCHANGED <<machines, path, seen, finish, ranOut, history>>
       \/ Supplied(cluster) /\ Fails(cluster) /\ UNCHANGED <<machines, history>>

Missing(nodes) == {n \in DOMAIN nodes : nodes[n].status = "CREATING" /\ nodes[n].inst = ""}

(* One provider waits until the machines are gone and clears their nodes.   *)
DeleteInstances ==
    /\ at = "delete"
    /\ LET gone == [i \in Ids |-> IF i \in todo THEN "none" ELSE machines[i]]
           c == IF Provider = "ali" THEN cluster
                ELSE [cluster EXCEPT !.nodes = [n \in DOMAIN @ |->
                        IF @[n].inst \in todo THEN [@[n] EXCEPT !.inst = ""] ELSE @[n]]]
       IN  \/ /\ machines' = gone /\ cluster' = c /\ todo' = Missing(c.nodes)
              /\ GoTo("create") /\ Counted /\ UNCHANGED <<path, seen, finish, ranOut, history>>
           \/ /\ todo # {} /\ Fails(cluster) /\ machines' \in {machines, gone} /\ UNCHANGED history

SetNode(n, f) == [cluster EXCEPT !.nodes[n] = f]
NextNode == CHOOSE n \in todo : \A k \in todo : n <= k

(* Neither the type of the node nor a second choice is in stock: the next   *)
(* node is looked at.                                                       *)
OutOfStock(node) == [node EXCEPT !.error = "INSUFFICIENT INVENTORY"]
NoStock ==
    /\ at = "create" /\ todo # {}
    /\ cluster' = SetNode(NextNode, OutOfStock(cluster.nodes[NextNode]))
    /\ todo' = todo \ {NextNode}
    /\ UNCHANGED <<machines, saved, at, path, seen, finish, ranOut, last, history>> /\ Counted

(* The cloud does not give the id of a machine twice.                       *)
Unused == Ids \ (Listed \cup installers \cup {saved.nodes[n].inst : n \in DOMAIN saved.nodes}
                        \cup {cluster.nodes[n].inst : n \in DOMAIN cluster.nodes})

(* What an order makes: a machine that has to be started and is asked for   *)
(* its address later, or one that starts by itself and has an address.      *)
CreateInstance(node, i) == [node |-> [node EXCEPT !.inst = i], state |-> "stopped", await |-> {}]
RunInstances(node, i) ==
    [node |-> [node EXCEPT !.inst = i, !.ip = TRUE], state |-> "starting", await |-> {i}]

Ordered(node, i) == IF Provider = "ali" THEN CreateInstance(node, i) ELSE RunInstances(node, i)
NotOrdered(node) == IF Provider = "ali" THEN [node EXCEPT !.error = "CREATE FAILURE"] ELSE node

(* A second choice is kept in the field of the machine, and the type of the *)
(* node is ordered all the same.                                            *)
Order ==
    /\ at = "create" /\ todo # {}
    /\ Unused # {}
    /\ \E inst \in {"", "type"} :
          LET i == CHOOSE x \in Unused : TRUE
              node == [cluster.nodes[NextNode] EXCEPT !.inst = inst]
              order == Ordered(node, i)
              made == [machines EXCEPT ![i] = order.state]
              shell == IF cluster.status = "STARTING" /\ node.master THEN {i} ELSE {}
          IN  \/ /\ machines' = made /\ cluster' = SetNode(NextNode, order.node)
                 /\ todo' = todo \ {NextNode} /\ seen' = seen \cup order.await
                 /\ installers' = installers \cup shell
                 /\ UNCHANGED <<saved, at, path, finish, ranOut, last, lost>> /\ Counted
              \/ /\ UNCHANGED <<machines, history>> /\ Fails(SetNode(NextNode, NotOrdered(node)))
              \/ /\ machines' = made /\ lost' = TRUE /\ installers' = installers \cup shell
                 /\ Fails(SetNode(NextNode, NotOrdered(node)))

(* What is waited for: one provider waits for each node that has something  *)
(* in the field, the other for what it has just made, kept in seen.         *)
Created ==
    /\ at = "create" /\ todo = {}
    /\ todo' = IF Provider = "aws" THEN seen
               ELSE {cluster.nodes[n].inst : n \in Indices("CREATING")} \ {""}
    /\ seen' = {} /\ GoTo("wait") /\ Counted
    /\ UNCHANGED <<machines, cluster, path, finish, ranOut, history>>

Running(S) == {i \in S \cap Ids : machines[i] = "running"}

(* Each poll counts every running machine again.                            *)
Poll ==
    /\ at = "wait" /\ Provider = "ali" /\ finish < Cardinality(todo) /\ ~ranOut
    /\ finish' = finish + Cardinality(Running(todo)) /\ seen' = seen \cup Running(todo)
    /\ machines' = [i \in Ids |-> IF i \in todo /\ machines[i] = "stopped" THEN "starting" ELSE machines[i]]
    /\ Counted /\ UNCHANGED <<cluster, saved, at, path, todo, ranOut, last, history>>

PollFails == at = "wait" /\ todo # {} /\ Fails(cluster) /\ UNCHANGED <<machines, history>>

RunsOut ==
    /\ at = "wait" /\ todo # {} /\ ~ranOut
    /\ ranOut' = TRUE
    /\ Counted /\ UNCHANGED <<machines, cluster, saved, at, path, todo, seen, finish, last, history>>

(* The loop ends when enough was counted or time ran out; what was not seen *)
(* running gets an error, the others their address.                         *)
WaitedAli ==
    /\ at = "wait" /\ Provider = "ali" /\ (finish >= Cardinality(todo) \/ ranOut)
    /\ LET c == [cluster EXCEPT !.nodes = [n \in DOMAIN @ |->
                   IF @[n].status # "CREATING" \/ @[n].inst = "" THEN @[n]
                   ELSE IF @[n].inst \in seen THEN [@[n] EXCEPT !.ip = TRUE]
                   ELSE [@[n] EXCEPT !.error = "START TIMEOUT"]]]
       IN  \/ /\ cluster' = c /\ GoTo("after") /\ Counted
              /\ UNCHANGED <<machines, path, local, history>>
           \/ seen # {} /\ Fails(cluster) /\ UNCHANGED <<machines, history>>

WaitedAws ==
    /\ at = "wait" /\ Provider = "aws"
    /\ \/ /\ todo = Running(todo) /\ GoTo("after") /\ Counted
          /\ UNCHANGED <<machines, cluster, path, local, history>>
       \/ ranOut /\ Refused(cluster)

-----------------------------------------------------------------------------
(* After ManageInstance comes the load balancer, and then what the path has *)
(* left: a stop deletes the network, which the cloud refuses as long as a   *)
(* machine is in it.                                                        *)
AllDeleted(c) == [c EXCEPT !.nodes = [n \in DOMAIN @ |-> [@[n] EXCEPT !.status = "DELETED"]]]

AfterStop ==
    /\ at = "after" /\ path = "stop"
    /\ \/ /\ Listed = {} /\ EndWith("down", [AllDeleted(cluster) EXCEPT !.net = FALSE])
          /\ UNCHANGED <<machines, history>> /\ Counted
       \/ Listed # {} /\ Refused(cluster)
       \/ /\ \E net \in {cluster.net, cluster.net /\ Listed # {}} : Fails([cluster EXCEPT !.net = net])
          /\ UNCHANGED <<machines, history>>

AfterLocal ==
    /\ at = "after" /\ path = "local"
    /\ \/ EndWith("handed over", cluster) /\ Counted
       \/ Fails(cluster)
    /\ UNCHANGED <<machines, history>>

AfterScale ==
    /\ at = "after" /\ path = "scale"
    /\ LET pending == SetNodeStatusFromTo(cluster, "CREATING", "PENDING")
           running == SetNodeStatusFromTo(pending, "PENDING", "RUNNING")
       IN  \/ EndWith("scaled", SetNodeStatusFromTo(running, "DELETING", "DELETED")) /\ Counted
           \/ \E c \in {cluster, pending} : Fails(c)
    /\ UNCHANGED <<machines, history>>

Handle == BeginStop \/ BeginStart \/ Info \/ Install \/ ListInstances \/ DeleteInstances \/ NoStock
          \/ Order \/ Created \/ Poll \/ PollFails \/ WaitedAli \/ WaitedAws
          \/ AfterStop \/ AfterLocal \/ AfterScale

(* A machine that was started runs at some time; one may break.             *)
Boots(i) ==
    /\ machines[i] = "starting" /\ machines' = [machines EXCEPT ![i] = "running"]
    /\ UNCHANGED <<cluster, saved, at, path, local, last, history, counters>>

Breaks(i) ==
    /\ machines[i] = "running" /\ machines' = [machines EXCEPT ![i] = "none"] /\ Fault
    /\ UNCHANGED <<cluster, saved, at, path, local, last, history>>

Crash ==
    /\ at # "idle" /\ crashes < MaxCrashes
    /\ crashes' = crashes + 1
    /\ cluster' = saved /\ at' = "idle" /\ path' = "none" /\ last' = "failed"
    /\ todo' = {} /\ seen' = {} /\ finish' = 0 /\ ranOut' = FALSE
    /\ lost' = TRUE
    /\ UNCHANGED <<machines, saved, installers, starts, stops, updates, faults>>

Next == Requests \/ Handle \/ RunsOut \/ Crash \/ \E i \in Ids : Boots(i) \/ Breaks(i)

Spec == Init /\ [][Next]_vars

(* The worker goes on, and time passes.                                     *)
FairSpec == Spec /\ WF_vars(Handle) /\ WF_vars(RunsOut)

-----------------------------------------------------------------------------
TypeOK ==
    /\ machines \in [Ids -> {"none", "stopped", "starting", "running"}]
    /\ cluster \in Cluster /\ saved \in Cluster
    /\ at \in {"idle", "handle", "info", "install", "list", "delete", "create", "wait", "after"}
    /\ (at = "idle" => cluster = saved /\ todo = {}) /\ (at = "idle" <=> path = "none" /\ at # "handle")
    /\ seen \subseteq Ids /\ installers \subseteq Ids

(* As long as no answer of the cloud and no row was lost, every machine is  *)
(* that of exactly one node that is not deleted: failed passes, restarts    *)
(* and stops neither forget a machine nor share it.                         *)
MachinesAreRecorded ==
    ~lost => \A i \in Listed :
        Cardinality({n \in DOMAIN cluster.nodes :
                        cluster.nodes[n].inst = i /\ cluster.nodes[n].status # "DELETED"}) = 1

(* A stop that reports success has left no machine, not even one that no    *)
(* row knows of after a crash: it makes the deletion of the network fail.   *)
DownMeansNoMachine == last = "down" => Listed = {}

(* Only the first master gets the install script, and as long as no answer  *)
(* was lost it gets it once: two machines do not both set up a cluster,     *)
(* however often it is started.                                             *)
OneInstaller == ~lost => Cardinality(installers) <= 1

(* The network is made only by a start that changes the level.  Once the    *)
(* level is stored and there is no network - the cluster was saved over the *)
(* API, its network could not be made, or it was stopped - no start makes a *)
(* machine again.                                                           *)
NoMachineWithoutNetwork ==
    saved.level = "BASIC" /\ ~saved.net =>
          \A i \in Ids : machines[i] = "none" => machines'[i] = "none"

(* An event that is handled, even if a machine never runs.                  *)
Handling == at # "idle"

=============================================================================

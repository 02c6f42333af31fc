-------------------------- MODULE ClusterLifecycle --------------------------
(***************************************************************************)
(* The life of one bare-metal cluster: the API calls that create, update,  *)
(* start, stop and delete it, the rows they read and write, the event      *)
(* queue of the data layer, the single worker that handles the events, and *)
(* the machines its remote scripts join to the cluster and reset.          *)
(*                                                                         *)
(* Requests run concurrently with each other and with the worker; nothing  *)
(* but the database row orders them.  A request and the handler work on a  *)
(* private copy of the cluster (a snapshot) and write it back whole.       *)
(*                                                                         *)
(* Abstracted: names, keys and versions; the order of the node rows, which *)
(* the database does not define, so that "the first node" and "the last    *)
(* node" of the code are any node here; disks, of which only their number  *)
(* matters, 2 standing for two or more.                                    *)
(***************************************************************************)
EXTENDS Naturals, Sequences, FiniteSets

CONSTANTS
    Ips,        \* the machines
    Ranges,     \* the ranges NodeStartIp..NodeEndIp an operator may type
    Clients,    \* concurrent API requests
    Ops,        \* the operations they may call
    Faults,     \* what may go wrong: see AllFaults
    QueueCap,   \* capacity of the event channel
    MaxCalls,   \* bound: API calls
    MaxBoots,   \* bound: starts of the process
    MaxDisks,   \* bound: unpartitioned disks one probe reports, over all nodes
    Patient,    \* whether an operator waits for the worker before each request
    Envs,       \* configuration: the values of server.env, "local" or another
    BootFile    \* configuration: infrastructure.cluster names this cluster

AllOps == {"start", "stop", "delete", "update"}
AllFaults == {"crash", "db", "kube", "probe", "script"}

ASSUME MachineAssumption == IsFiniteSet(Ips) /\ Ranges \subseteq (SUBSET Ips) \ {{}}
ASSUME BoundAssumption ==
    /\ QueueCap \in Nat \ {0}
    /\ MaxCalls \in Nat
    /\ MaxBoots \in Nat
    /\ MaxDisks \in 0..2
ASSUME ConfigAssumption ==
    /\ Ops \subseteq AllOps
    /\ Faults \subseteq AllFaults
    /\ Patient \in BOOLEAN
    /\ Envs \subseteq {"local", "server"}
    /\ BootFile \in BOOLEAN

VARIABLES
    db,       \* the rows of the cluster
    queue,    \* ClusterRepo.eventChan
    client,   \* the API requests in progress
    worker,   \* the goroutine of ClusterRepo.Start
    machine,  \* what the scripts made of each machine
    kube,     \* whether the Kubernetes API the process knows answers
    up,       \* whether the process runs
    env,      \* server.env, which never changes
    calls, boots,
    last      \* history: who wrote the row last, or that the write's event is lost

vars == <<db, queue, client, worker, machine, kube, up, env, calls, boots, last>>

-----------------------------------------------------------------------------
(* Values.                                                                  *)

NodeStatus == {"none", "FINDING", "CREATING", "PENDING", "RUNNING", "DELETING", "DELETED"}
Node == [status : NodeStatus, master : BOOLEAN, grouped : BOOLEAN]
NoNode == [status |-> "none", master |-> FALSE, grouped |-> FALSE]
NewNode == [status |-> "FINDING", master |-> FALSE, grouped |-> FALSE]

ClusterStatus == {"UNSPECIFIED", "CREATING", "STARTING", "RUNNING", "STOPPING", "ERROR"}
Snapshot == [status : ClusterStatus, range : SUBSET Ips, addr : BOOLEAN,
             nodes : [Ips -> Node], disks : 0..2]
NoNodes == [ip \in Ips |-> NoNode]
Nothing == [status |-> "UNSPECIFIED", range |-> {}, addr |-> FALSE,
            nodes |-> NoNodes, disks |-> 0]

Rows == [row : {"none", "live", "deleted"}, val : Snapshot]

Present(nodes) == {ip \in Ips : nodes[ip].status # "none"}
InStatus(nodes, s) == {ip \in Ips : nodes[ip].status = s}
Masters(nodes) == {ip \in Ips : nodes[ip].master}

SetNodeStatusFromTo(nodes, from, to) ==
    [ip \in Ips |-> IF nodes[ip].status = from
                    THEN [nodes[ip] EXCEPT !.status = to] ELSE nodes[ip]]

SetNodeStatus(nodes, S, to) ==
    [ip \in Ips |-> IF ip \in S THEN [nodes[ip] EXCEPT !.status = to] ELSE nodes[ip]]

(* Variant: promotes a first node without looking for a master.             *)
SetBareMetalNodePromotes(s) ==
    LET grown == [ip \in Ips |-> IF ip \in s.range \ Present(s.nodes)
                                 THEN NewNode ELSE s.nodes[ip]]
    IN  {[s EXCEPT !.nodes = [grown EXCEPT ![m].master = TRUE]] : m \in Present(grown)}

(* The nodes of the range that are not known yet join as workers; without a *)
(* master the first node becomes one; nodes outside the range are to go.    *)
SetBareMetalNode(s) ==
    LET grown  == [ip \in Ips |-> IF ip \in s.range \ Present(s.nodes)
                                  THEN NewNode ELSE s.nodes[ip]]
        firsts == IF Present(s.nodes) # {} THEN Present(s.nodes) ELSE s.range
        chosen == IF Masters(grown) # {} THEN {grown}
                  ELSE {[grown EXCEPT ![m].master = TRUE] : m \in firsts}
    IN  {[s EXCEPT !.nodes = SetNodeStatus(n, Present(n) \ s.range, "DELETING")] : n \in chosen}

(* An operation of the outside world: it may fail only where the fault is on. *)
Outcome(fault) == IF fault \in Faults THEN BOOLEAN ELSE {TRUE}

-----------------------------------------------------------------------------
(* The database.  Save is one transaction, ordered against the others by    *)
(* the lock on the cluster row that its first statement takes.              *)

(* Disks carry no id, so each is inserted with the empty primary key: a     *)
(* second one, or one whose row is already there, fails the transaction.    *)
SaveOK(d, s) == s.disks = 0 \/ (s.disks = 1 /\ d.val.disks = 0)

(* Variant: inserts the row when the update finds none.                     *)
SavedUpserts(d, s) == [row |-> "live", val |-> [s EXCEPT !.addr = d.val.addr \/ s.addr]]

(* Updates writes the non-zero columns of an existing row and never inserts *)
(* it; the rows of nodes and disks become exactly those of the snapshot.    *)
Saved(d, s) ==
    IF d.row = "live"
    THEN [d EXCEPT !.val = [s EXCEPT !.addr = d.val.addr \/ s.addr]]
    ELSE [d EXCEPT !.val.nodes = s.nodes, !.val.disks = s.disks]

-----------------------------------------------------------------------------
(* The API requests.                                                        *)

Idle == [pc |-> "idle", op |-> "none", snap |-> Nothing]

(* Save without an id: the row, with no nodes, in status CREATING.          *)
Create(c) ==
    /\ up /\ client[c].pc = "idle" /\ calls < MaxCalls
    /\ db.row = "none"
    /\ \E r \in Ranges :
         db' = [row |-> "live", val |-> [Nothing EXCEPT !.status = "CREATING", !.range = r]]
    /\ calls' = calls + 1
    /\ last' = "none"
    /\ UNCHANGED <<queue, client, worker, machine, kube, up, env, boots>>

(* The first query of a call; Delete stops here when the cluster runs.      *)
ReadRow(c, op) ==
    /\ up /\ client[c].pc = "idle" /\ calls < MaxCalls
    /\ op \in Ops /\ db.row = "live"
    /\ Patient => queue = <<>> /\ worker.pc = "idle"
    /\ op = "delete" => db.val.status # "RUNNING"
    /\ client' = [client EXCEPT ![c] =
         [pc   |-> IF op \in {"start", "stop"} THEN "readNodes" ELSE op,
          op   |-> op,
          snap |-> IF op \in {"start", "stop"}
                   THEN [db.val EXCEPT !.nodes = NoNodes, !.disks = 0] ELSE Nothing]]
    /\ calls' = calls + 1
    /\ UNCHANGED <<db, queue, worker, machine, kube, up, env, boots, last>>

(* What StartCluster and StopCluster make of the cluster they read.         *)
Requested(op, s) ==
    IF op = "start" THEN {[t EXCEPT !.status = "STARTING"] : t \in SetBareMetalNode(s)}
                    ELSE {[s EXCEPT !.status = "STOPPING"]}

(* The remaining queries of Get, then the changes of the request.           *)
ReadNodes(c) ==
    /\ up /\ client[c].pc = "readNodes"
    /\ LET s == [client[c].snap EXCEPT !.nodes = db.val.nodes, !.disks = db.val.disks]
       IN  \E t \in Requested(client[c].op, s) :
             client' = [client EXCEPT ![c].pc = "save", ![c].snap = t]
    /\ UNCHANGED <<db, queue, worker, machine, kube, up, env, calls, boots, last>>

(* Variant: stores the cluster row and leaves the nodes to the handler.     *)
ClientSaveRowOnly(c) ==
    /\ up /\ client[c].pc = "save"
    /\ db' = Saved(db, [client[c].snap EXCEPT !.nodes = db.val.nodes, !.disks = db.val.disks])
    /\ client' = [client EXCEPT ![c].pc = "apply"]
    /\ last' = "request"
    /\ UNCHANGED <<queue, worker, machine, kube, up, env, calls, boots>>

(* Variant: a request for the status that is stored already sends no event. *)
ClientSaveOnce(c) ==
    /\ up /\ client[c].pc = "save"
    /\ IF SaveOK(db, client[c].snap)
       THEN /\ db' = Saved(db, client[c].snap)
            /\ client' = IF db.val.status = client[c].snap.status
                         THEN [client EXCEPT ![c] = Idle] ELSE [client EXCEPT ![c].pc = "apply"]
            /\ last' = "request"
       ELSE /\ client' = [client EXCEPT ![c] = Idle]
            /\ UNCHANGED <<db, last>>
    /\ UNCHANGED <<queue, worker, machine, kube, up, env, calls, boots>>

ClientSave(c) ==
    /\ up /\ client[c].pc = "save"
    /\ IF SaveOK(db, client[c].snap)
       THEN /\ db' = Saved(db, client[c].snap)
            /\ client' = [client EXCEPT ![c].pc = "apply"]
            /\ last' = "request"
       ELSE /\ client' = [client EXCEPT ![c] = Idle]
            /\ UNCHANGED <<db, last>>
    /\ UNCHANGED <<queue, worker, machine, kube, up, env, calls, boots>>

(* Variant: the channel takes one event too many.                           *)
ApplyOverflows(c) ==
    /\ up /\ client[c].pc = "apply"
    /\ IF Len(queue) <= QueueCap
       THEN queue' = Append(queue, client[c].snap) /\ UNCHANGED last
       ELSE last' = "lost" /\ UNCHANGED queue
    /\ client' = [client EXCEPT ![c] = Idle]
    /\ UNCHANGED <<db, worker, machine, kube, up, env, calls, boots>>

(* A send that does not block: a full channel refuses the event.            *)
Apply(c) ==
    /\ up /\ client[c].pc = "apply"
    /\ IF Len(queue) < QueueCap
       THEN queue' = Append(queue, client[c].snap) /\ UNCHANGED last
       ELSE last' = "lost" /\ UNCHANGED queue
    /\ client' = [client EXCEPT ![c] = Idle]
    /\ UNCHANGED <<db, worker, machine, kube, up, env, calls, boots>>

Delete(c) ==
    /\ up /\ client[c].pc = "delete"
    /\ db' = [row |-> "deleted", val |-> Nothing]
    /\ client' = [client EXCEPT ![c] = Idle]
    /\ UNCHANGED <<queue, worker, machine, kube, up, env, calls, boots, last>>

(* Save with an id: a fresh cluster value, so CREATING and without nodes.   *)
Update(c) ==
    /\ up /\ client[c].pc = "update"
    /\ \E r \in Ranges :
         db' = Saved(db, [Nothing EXCEPT !.status = "CREATING", !.range = r])
    /\ client' = [client EXCEPT ![c] = Idle]
    /\ last' = "none"
    /\ UNCHANGED <<queue, worker, machine, kube, up, env, calls, boots>>

(* A query or a transaction fails and the request returns its error.        *)
GiveUp(c) ==
    /\ "db" \in Faults
    /\ up /\ client[c].pc \in {"readNodes", "save", "delete", "update"}
    /\ client' = [client EXCEPT ![c] = Idle]
    /\ UNCHANGED <<db, queue, worker, machine, kube, up, env, calls, boots, last>>

Request(c) ==
    \/ Create(c)
    \/ \E op \in AllOps : ReadRow(c, op)
    \/ ReadNodes(c) \/ ClientSave(c) \/ Apply(c)
    \/ Delete(c) \/ Update(c) \/ GiveUp(c)

-----------------------------------------------------------------------------
(* The worker: HandleClusterEvent, one step per call it makes outside.  err *)
(* is what the handler is about to return, "panic" a nil dereference.       *)

Resting == [pc |-> "idle", ev |-> Nothing, todo |-> {}, err |-> "none"]

WorkerPC == {"idle", "stopping", "handlerNodes", "unInstall", "check", "notInstalled",
             "local", "scale", "reload", "install", "join", "runtime", "save", "failed"}

(* The steps below leave all but worker and machine alone.                  *)
Handling(pc) ==
    /\ up /\ worker.pc = pc
    /\ UNCHANGED <<db, queue, client, kube, up, env, calls, boots, last>>

Return(err) == worker' = [worker EXCEPT !.pc = "save", !.todo = {}, !.err = err]
Goto(pc, nodes, todo) == worker' = [worker EXCEPT !.pc = pc, !.ev.nodes = nodes, !.todo = todo]

Receive ==
    /\ up /\ worker.pc = "idle" /\ queue # <<>>
    /\ worker' = [Resting EXCEPT !.ev = Head(queue),
                    !.pc = IF Head(queue).status = "STOPPING" THEN "stopping" ELSE "check"]
    /\ queue' = Tail(queue)
    /\ UNCHANGED <<db, client, machine, kube, up, env, calls, boots, last>>

(* Stop: every node of the cluster is to go; ReloadCluster needs Kubernetes. *)
StopReload ==
    /\ Handling("stopping")
    /\ LET nodes == SetNodeStatus(worker.ev.nodes,
                       {ip \in Present(worker.ev.nodes) :
                          worker.ev.nodes[ip].status # "DELETED"}, "DELETING")
       IN  \E ok \in Outcome("script") :
             IF ok /\ kube
             THEN Goto("handlerNodes", nodes, InStatus(nodes, "DELETING"))
             ELSE worker' = [worker EXCEPT !.pc = "save", !.ev.nodes = nodes, !.err = "error"]
    /\ UNCHANGED machine

(* Variant: the result of a script is not looked at.                        *)
ScriptUnchecked(ip, effect) ==
    /\ \E ok \in Outcome("script") :
         machine' = IF ok THEN [machine EXCEPT ![ip] = effect] ELSE machine
    /\ worker' = [worker EXCEPT !.todo = @ \ {ip}]

(* Runs a script on one machine of todo.  A script that fails may have done *)
(* its work or not; the handler returns at the first failure.               *)
Script(ip, effect) ==
    \E ok \in Outcome("script") :
       IF ok THEN /\ machine' = [machine EXCEPT ![ip] = effect]
                  /\ worker' = [worker EXCEPT !.todo = @ \ {ip}]
             ELSE /\ machine' \in {machine, [machine EXCEPT ![ip] = effect]}
                  /\ Return("error")

(* A node joins through the master, whose absence is a nil dereference.     *)
HandlerNode(ip) ==
    /\ Handling("handlerNodes") /\ ip \in worker.todo
    /\ IF worker.ev.nodes[ip].status # "PENDING" THEN Script(ip, "clean")
       ELSE IF Masters(worker.ev.nodes) # {} THEN Script(ip, "joined")
       ELSE /\ \E ok \in Outcome("script") : Return(IF ok THEN "panic" ELSE "error")
            /\ UNCHANGED machine

(* Variant: a stop skips UnInstall, as each node being deleted is reset.    *)
HandlerNodesDoneStops ==
    /\ Handling("handlerNodes") /\ worker.todo = {}
    /\ IF worker.ev.status = "STOPPING"
       THEN Goto("unInstall", worker.ev.nodes, {})
       ELSE worker' = [worker EXCEPT !.pc = "save", !.ev.nodes =
              SetNodeStatusFromTo(SetNodeStatusFromTo(@, "PENDING", "RUNNING"),
                                  "DELETING", "DELETED")]
    /\ UNCHANGED machine

(* HandlerNodes is done: on to UnInstall when stopping, else to the end.    *)
HandlerNodesDone ==
    /\ Handling("handlerNodes") /\ worker.todo = {}
    /\ IF worker.ev.status = "STOPPING"
       THEN Goto("unInstall", worker.ev.nodes, Present(worker.ev.nodes))
       ELSE worker' = [worker EXCEPT !.pc = "save", !.ev.nodes =
              SetNodeStatusFromTo(SetNodeStatusFromTo(@, "PENDING", "RUNNING"),
                                  "DELETING", "DELETED")]
    /\ UNCHANGED machine

UnInstall(ip) ==
    /\ Handling("unInstall") /\ ip \in worker.todo
    /\ Script(ip, "clean")

UnInstallDone ==
    /\ Handling("unInstall") /\ worker.todo = {}
    /\ worker' = [worker EXCEPT !.pc = "save", !.ev.nodes =
                    SetNodeStatus(@, Present(@), "DELETED")]
    /\ UNCHANGED machine

(* Where Kubernetes answers the cluster is taken as not installed, else its *)
(* nodes are brought in line with the range.                                *)
ClusterIsExist ==
    /\ Handling("check")
    /\ IF kube
       THEN IF worker.ev.status = "STARTING"
            THEN worker' = [worker EXCEPT !.pc = "notInstalled"] ELSE Return("none")
       ELSE \E s \in SetBareMetalNode([worker.ev EXCEPT !.status = "STARTING"]) :
              worker' = [worker EXCEPT !.pc = "scale", !.ev = s]
    /\ UNCHANGED machine

(* GetNodesSystemInfo: the nodes a probe reached get a node group.          *)
Probed(nodes, reached) ==
    [ip \in Ips |-> IF ip \in reached THEN [nodes[ip] EXCEPT !.grouped = TRUE] ELSE nodes[ip]]
Ungrouped(nodes) == {ip \in Present(nodes) : ~nodes[ip].grouped}
Without(nodes, gone) == [ip \in Ips |-> IF ip \in gone THEN NoNode ELSE nodes[ip]]

(* What a probe of the nodes being found may return: who answered, and how  *)
(* many disks they reported.                                                *)
Findings(nodes) ==
    LET asked == InStatus(nodes, "FINDING")
    IN  {f \in [reached : IF "probe" \in Faults THEN SUBSET asked ELSE {asked},
                found : 0..MaxDisks] : f.reached = {} => f.found = 0}

AfterProbe(f, gone) ==
    [worker.ev EXCEPT !.nodes = Without(Probed(@, f.reached), gone),
                      !.disks = IF @ + f.found > 2 THEN 2 ELSE @ + f.found]

(* Removing the nodes without a group while ranging over them works when    *)
(* the only such node is the last one ...                                   *)
Probe ==
    /\ \E pc \in {"notInstalled", "scale"} : Handling(pc)
    /\ \E f \in Findings(worker.ev.nodes) :
         LET gone == Ungrouped(Probed(worker.ev.nodes, f.reached))
             s    == AfterProbe(f, gone)
             seen == SetNodeStatusFromTo(s.nodes, "FINDING", "CREATING")
         IN  /\ Cardinality(gone) <= 1
             /\ worker' = [worker EXCEPT
                  !.ev = [s EXCEPT !.nodes = IF worker.pc = "notInstalled" /\ env # "local"
                            THEN SetNodeStatusFromTo(seen, "CREATING", "PENDING") ELSE seen],
                  !.pc = IF worker.pc = "scale" THEN "reload"
                         ELSE IF Present(s.nodes) = {} THEN "save"
                         ELSE IF env = "local" THEN "local" ELSE "install"]
    /\ UNCHANGED machine

(* ... and otherwise ends on a node that the removal has set to nil.        *)
ProbePanics ==
    /\ \E pc \in {"notInstalled", "scale"} : Handling(pc)
    /\ \E f \in Findings(worker.ev.nodes) :
         \E gone \in (SUBSET Ungrouped(Probed(worker.ev.nodes, f.reached))) \ {{}} :
           /\ gone # Present(worker.ev.nodes)
           /\ worker' = [worker EXCEPT !.pc = "save", !.ev = AfterProbe(f, gone),
                                       !.err = "panic"]
    /\ UNCHANGED machine

(* env local: PreInstall hands the cluster to the program on the master.    *)
LocalInstall ==
    /\ Handling("local")
    /\ \E ok \in Outcome("script") : Return(IF ok THEN "none" ELSE "error")
    /\ UNCHANGED machine

(* ReloadCluster and PreInstall on the path that changes the node set.      *)
Reload ==
    /\ Handling("reload")
    /\ LET nodes == SetNodeStatusFromTo(worker.ev.nodes, "CREATING", "PENDING")
       IN  \E ok \in Outcome("script") :
             IF ok /\ kube
             THEN Goto("handlerNodes", nodes,
                       InStatus(nodes, "PENDING") \cup InStatus(nodes, "DELETING"))
             ELSE Return("error")
    /\ UNCHANGED machine

(* Variant: the master is set up and nobody joins it.                       *)
InstallMasterOnly ==
    /\ Handling("install")
    /\ \E m \in Masters(worker.ev.nodes) :
         /\ machine' = [machine EXCEPT ![m] = "joined"]
         /\ worker' = [worker EXCEPT !.ev.addr = TRUE, !.pc = "join", !.todo = {}]

(* The address of the API server is the master's; one of an earlier install *)
(* is kept when there is no master, and then the master is dereferenced.    *)
Install ==
    /\ Handling("install")
    /\ IF Masters(worker.ev.nodes) = {}
       THEN /\ Return(IF worker.ev.addr THEN "panic" ELSE "error")
            /\ UNCHANGED machine
       ELSE \E m \in Masters(worker.ev.nodes), ok \in Outcome("script") :
              /\ machine' \in {[machine EXCEPT ![m] = "joined"]}
                             \cup (IF ok THEN {} ELSE {machine})
              /\ worker' = [worker EXCEPT !.ev.addr = TRUE,
                   !.pc = IF ok THEN "join" ELSE "save",
                   !.todo = IF ok THEN Present(worker.ev.nodes) \ {m} ELSE {},
                   !.err = IF ok THEN "none" ELSE "error"]

JoinCluster(ip) ==
    /\ Handling("join") /\ ip \in worker.todo
    /\ Script(ip, "joined")

JoinDone ==
    /\ Handling("join") /\ worker.todo = {}
    /\ Goto("runtime", SetNodeStatusFromTo(worker.ev.nodes, "PENDING", "RUNNING"), {})
    /\ UNCHANGED machine

(* Variant: the status is not set at the end.                               *)
RuntimeInstallOnly ==
    /\ Handling("runtime")
    /\ \E ok \in Outcome("script") : Return(IF ok /\ kube THEN "none" ELSE "error")
    /\ UNCHANGED machine

(* Variant: waits for Kubernetes, without a limit.                          *)
RuntimeInstallWaits ==
    /\ Handling("runtime") /\ kube
    /\ \E ok \in Outcome("script") :
         IF ok THEN worker' = [worker EXCEPT !.pc = "save", !.ev.status = "RUNNING"]
         ELSE Return("error")
    /\ UNCHANGED machine

RuntimeInstall ==
    /\ Handling("runtime")
    /\ \E ok \in Outcome("script") :
         IF ok /\ kube
         THEN worker' = [worker EXCEPT !.pc = "save", !.ev.status = "RUNNING"]
         ELSE Return("error")
    /\ UNCHANGED machine

-----------------------------------------------------------------------------
(* The process.                                                             *)

Ends ==
    /\ up' = FALSE /\ queue' = <<>> /\ worker' = Resting /\ last' = "lost"
    /\ client' = [c \in Clients |-> Idle]

(* Variant: only an error is stored, not the result of an event.            *)
WorkerSaveOnError ==
    /\ up /\ worker.pc = "save"
    /\ IF worker.err = "panic" THEN Ends /\ UNCHANGED db
       ELSE /\ worker' = [Resting EXCEPT !.pc = IF worker.err = "error" THEN "failed" ELSE "idle"]
            /\ IF worker.err = "error" /\ SaveOK(db, worker.ev)
               THEN db' = Saved(db, [worker.ev EXCEPT !.status = "ERROR"]) /\ last' = "worker"
               ELSE UNCHANGED <<db, last>>
            /\ UNCHANGED <<queue, client, up>>
    /\ UNCHANGED <<machine, kube, env, calls, boots>>

(* The deferred save of HandleClusterEvent, whose own error nobody sees.    *)
(* An error ends the worker, a panic the process.                           *)
WorkerSave ==
    /\ up /\ worker.pc = "save"
    /\ LET s == IF worker.err = "error" THEN [worker.ev EXCEPT !.status = "ERROR"] ELSE worker.ev
       IN  \E ok \in Outcome("db") :
             LET done == ok /\ SaveOK(db, s)
             IN  /\ db' = IF done THEN Saved(db, s) ELSE db
                 /\ IF worker.err = "panic" THEN Ends
                    ELSE /\ worker' = [Resting EXCEPT !.pc =
                                         IF worker.err = "error" THEN "failed" ELSE "idle"]
                         /\ last' = IF done THEN "worker" ELSE "lost"
                         /\ UNCHANGED <<queue, client, up>>
    /\ UNCHANGED <<machine, kube, env, calls, boots>>

(* The error of the worker makes the application stop its servers and exit. *)
Shutdown ==
    /\ up /\ worker.pc = "failed"
    /\ Ends
    /\ UNCHANGED <<db, machine, kube, env, calls, boots>>

Crash ==
    /\ "crash" \in Faults /\ up
    /\ Ends
    /\ UNCHANGED <<db, machine, kube, env, calls, boots>>

(* NewClusterUseCase: with a cluster file and no Kubernetes the cluster of  *)
(* the file is created if need be and started before any request is served. *)
Boot ==
    /\ ~up /\ boots < MaxBoots
    /\ boots' = boots + 1
    /\ IF BootFile /\ ~kube /\ db.row # "deleted"
       THEN \E s \in (IF db.row = "live" THEN {db.val}
                       ELSE {[Nothing EXCEPT !.range = r] : r \in Ranges}) :
              IF SaveOK(db, s)
              THEN \E t \in Requested("start", s) :
                     /\ db' = Saved([row |-> "live", val |-> s], t)
                     /\ queue' = <<t>> /\ up' = TRUE /\ last' = "request"
              ELSE UNCHANGED <<db, queue, up, last>>
       ELSE up' = TRUE /\ UNCHANGED <<db, queue, last>>
    /\ UNCHANGED <<client, worker, machine, kube, env, calls>>

KubeChange ==
    /\ "kube" \in Faults
    /\ kube' = ~kube
    /\ UNCHANGED <<db, queue, client, worker, machine, up, env, calls, boots, last>>

Handler ==
    \/ StopReload \/ HandlerNodesDone \/ UnInstallDone
    \/ ClusterIsExist \/ Probe \/ ProbePanics \/ LocalInstall \/ Reload
    \/ Install \/ JoinDone \/ RuntimeInstall \/ WorkerSave
    \/ \E ip \in Ips : HandlerNode(ip) \/ UnInstall(ip) \/ JoinCluster(ip)

Init ==
    /\ db = [row |-> "none", val |-> Nothing]
    /\ queue = <<>> /\ worker = Resting
    /\ client = [c \in Clients |-> Idle]
    /\ machine = [ip \in Ips |-> "clean"]
    /\ kube \in IF "kube" \in Faults THEN BOOLEAN ELSE {TRUE}
    /\ env \in Envs
    /\ up = FALSE /\ calls = 0 /\ boots = 0 /\ last = "none"

Next ==
    \/ \E c \in Clients : Request(c)
    \/ Receive \/ Handler
    \/ Shutdown \/ Crash \/ Boot \/ KubeChange

Spec == Init /\ [][Next]_vars

(* The Go runtime runs the worker and the requests, remote scripts return   *)
(* and a failed worker ends the process; nobody has to call the API, and    *)
(* nothing restarts the process.                                            *)
Fairness ==
    /\ WF_vars(Receive) /\ WF_vars(Handler) /\ WF_vars(Shutdown)
    /\ \A c \in Clients : WF_vars(ReadNodes(c) \/ ClientSave(c) \/ Apply(c))

FairSpec == Spec /\ Fairness

-----------------------------------------------------------------------------
(* Properties.                                                              *)

Requests == [pc : {"idle", "readNodes", "save", "apply", "delete", "update"},
             op : AllOps \cup {"none"}, snap : Snapshot]
Handlers == [pc : WorkerPC, ev : Snapshot, todo : SUBSET Ips,
             err : {"none", "error", "panic"}]

(* Every variable holds a value of its kind, the event channel stays within *)
(* its capacity (data/cluster.go:36), and a process that is down holds no   *)
(* request, event or handler.                                               *)
TypeOK ==
    /\ db \in Rows
    /\ queue \in Seq(Snapshot) /\ Len(queue) <= QueueCap
    /\ client \in [Clients -> Requests]
    /\ worker \in Handlers
    /\ machine \in [Ips -> {"clean", "joined"}]
    /\ kube \in BOOLEAN /\ up \in BOOLEAN /\ env \in Envs
    /\ calls \in Nat /\ boots \in Nat
    /\ last \in {"none", "request", "worker", "lost"}
    /\ ~up => queue = <<>> /\ worker = Resting /\ client = [c \in Clients |-> Idle]

(* GetSingleMasterNode takes the first master it meets, and the machine it  *)
(* takes is the one KubernetesInit runs on: no copy of the cluster, stored, *)
(* queued or in somebody's hands, ever has two.                             *)
OneMaster(s) == \A i, j \in Masters(s.nodes) : i = j

AtMostOneMaster ==
    /\ OneMaster(db.val) /\ OneMaster(worker.ev)
    /\ \A i \in DOMAIN queue : OneMaster(queue[i])
    /\ \A c \in Clients : OneMaster(client[c].snap)

(* The row turns RUNNING only at the end of an event whose installation has *)
(* joined every machine of the row, a master among them, whatever requests, *)
(* failures and restarts came in between.                                   *)
RunningOnlyAfterInstall ==
    [][(db'.val.status = "RUNNING" /\ db.val.status # "RUNNING")
         => /\ worker.pc = "save" /\ worker.err = "none"
            /\ Masters(db'.val.nodes) # {}
            /\ \A ip \in Present(db'.val.nodes) : machine[ip] = "joined"]_vars

(* When the worker stores the end of a stop, each machine of the row is     *)
(* reset: also those that joined although their node was already DELETED,   *)
(* as the second start of a stopped cluster makes them.                     *)
StopResetsMachines ==
    [][(worker.pc = "save" /\ worker'.pc # "save" /\ worker.err = "none" /\ worker.ev.status = "STOPPING"
          /\ last' = "worker")
         => \A ip \in Present(db'.val.nodes) :
              machine[ip] = "clean" /\ db'.val.nodes[ip].status = "DELETED"]_vars

(* Save of a snapshot that outlived the cluster (an event still queued, a   *)
(* handler still busy) never brings the deleted row back.                   *)
NoResurrection == [][db.row = "deleted" => db'.row = "deleted"]_vars

Quiescent == queue = <<>> /\ worker.pc = "idle" /\ \A c \in Clients : client[c].pc = "idle"

(* A start or stop is stored before it is queued, and the handler stores    *)
(* its result last: once everything is at rest the row is never the request *)
(* of a call that nobody acts on, unless an event was refused or lost.      *)
NoStrandedRequest == up /\ Quiescent /\ db.row = "live" => last # "request"

(* Used by one operator who waits for each operation to settle, every       *)
(* machine in a Kubernetes cluster is a node of the stored cluster, so that *)
(* a later stop will reach it, whatever script, probe or call of Kubernetes *)
(* fails on the way.  This takes saves that succeed, a process that is not  *)
(* killed and machines of one disk: a save that is lost, or fails as a      *)
(* second disk makes it fail, may forget a machine that has joined.         *)
JoinedMachinesAreRecorded ==
    \A ip \in Ips : machine[ip] = "joined" => ip \in Present(db.val.nodes)

(* Used the same way, a cluster at rest that the worker left in STOPPING    *)
(* has no machine in a Kubernetes cluster any more.                         *)
StoppedMeansClean ==
    up /\ Quiescent /\ last = "worker" /\ db.val.status = "STOPPING"
      => \A ip \in Ips : machine[ip] = "clean"

(* The single worker gets through the queue: each event is handled, or the  *)
(* process ends and the event is lost with it.                              *)
EventsAreHandled ==
    (queue # <<>> \/ worker.pc \notin {"idle", "failed"})
      ~> (queue = <<>> /\ worker.pc = "idle") \/ ~up

(* Used by one operator who waits, outside env local and where Kubernetes   *)
(* answers throughout, a started cluster does not stay in STARTING: it is   *)
(* installed, or the failure shows as another status or ends the process.   *)
StartSettles ==
    (env # "local" /\ []kube)
      => ((db.row = "live" /\ db.val.status = "STARTING")
            ~> (db.row # "live" \/ db.val.status # "STARTING" \/ ~up))

(* The error of Delete says "cluster is running" (biz/cluster.go:1536): a   *)
(* row is not deleted while it says RUNNING.                                *)
RunningIsNotDeleted ==
    [][(db.row = "live" /\ db'.row = "deleted") => db.val.status # "RUNNING"]_vars

(* The comment on ClusterStatus_RUNNING says the network, the storage and   *)
(* the rest are ready: the machines of such a cluster are in Kubernetes.    *)
RunningMeansReady ==
    (db.row = "live" /\ db.val.status = "RUNNING")
      => \A ip \in Present(db.val.nodes) : machine[ip] = "joined"

=============================================================================

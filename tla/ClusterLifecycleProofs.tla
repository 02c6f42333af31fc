----------------------- MODULE ClusterLifecycleProofs -----------------------
(***************************************************************************)
(* Theorems about ClusterLifecycle, for every set of machines, ranges,     *)
(* requests and faults.  The lemmas of the first part say what the         *)
(* operators on nodes and snapshots return; the second part has one        *)
(* inductive argument per theorem; the third is about one operator who     *)
(* uses the cluster with care: every machine that joined a Kubernetes      *)
(* cluster is a node of the stored cluster, and a stop that was stored has *)
(* left no machine in one.  Its invariant follows the one copy of the      *)
(* cluster that is current from hand to hand: from the row to the request, *)
(* the queue, the handler and back.                                        *)
(***************************************************************************)
EXTENDS ClusterLifecycle, SequenceTheorems, TLAPS

NodesT == [Ips -> Node]

(* Changing the status of the nodes in one status.                          *)
LEMMA FromToType ==
    ASSUME NEW n \in NodesT, NEW from, NEW to \in NodeStatus
    PROVE  SetNodeStatusFromTo(n, from, to) \in NodesT
BY DEF SetNodeStatusFromTo, NodesT, Node

(* Changing the status of a set of nodes.                                   *)
LEMMA SetStatusType ==
    ASSUME NEW n \in NodesT, NEW S, NEW to \in NodeStatus
    PROVE  SetNodeStatus(n, S, to) \in NodesT
BY DEF SetNodeStatus, NodesT, Node

(* Making one node a master.                                                *)
LEMMA PromoteType ==
    ASSUME NEW n \in NodesT, NEW m \in Ips
    PROVE  [n EXCEPT ![m].master = TRUE] \in NodesT
BY DEF NodesT, Node

(* The empty cluster is a cluster.                                          *)
LEMMA NothingType == Nothing \in Snapshot /\ NoNodes \in NodesT
BY DEF Nothing, Snapshot, ClusterStatus, NoNodes, NoNode, Node, NodeStatus, NodesT

(* Replacing the nodes of a cluster.                                        *)
LEMMA WithNodesType ==
    ASSUME NEW s \in Snapshot, NEW n \in NodesT
    PROVE  [s EXCEPT !.nodes = n] \in Snapshot
BY DEF Snapshot, NodesT

(* Replacing the status of a cluster.                                       *)
LEMMA WithStatusType ==
    ASSUME NEW s \in Snapshot, NEW st \in ClusterStatus
    PROVE  [s EXCEPT !.status = st] \in Snapshot
BY DEF Snapshot

(* Adding the nodes of the range.                                           *)
LEMMA GrownType ==
    ASSUME NEW s \in Snapshot
    PROVE  [ip \in Ips |-> IF ip \in s.range \ Present(s.nodes)
                           THEN NewNode ELSE s.nodes[ip]] \in NodesT
BY DEF Snapshot, NodesT, Node, NewNode, NodeStatus

(* SetBareMetalNode returns clusters.                                       *)
LEMMA BareMetalType ==
    ASSUME NEW s \in Snapshot, NEW t \in SetBareMetalNode(s)
    PROVE  t \in Snapshot
<1> DEFINE grown  == [ip \in Ips |-> IF ip \in s.range \ Present(s.nodes)
                                     THEN NewNode ELSE s.nodes[ip]]
           firsts == IF Present(s.nodes) # {} THEN Present(s.nodes) ELSE s.range
           chosen == IF Masters(grown) # {} THEN {grown}
                     ELSE {[grown EXCEPT ![m].master = TRUE] : m \in firsts}
<1>1. grown \in NodesT
  BY GrownType
<1>2. firsts \subseteq Ips
  BY DEF Snapshot, Present
<1> HIDE DEF grown
<1>3. \A n \in chosen : n \in NodesT
  BY <1>1, <1>2, PromoteType
<1> HIDE DEF chosen
<1>4. \A n \in chosen : SetNodeStatus(n, Present(n) \ s.range, "DELETING") \in NodesT
  BY <1>3, SetStatusType DEF NodeStatus
<1>5. PICK n \in chosen :
        t = [s EXCEPT !.nodes = SetNodeStatus(n, Present(n) \ s.range, "DELETING")]
  BY DEF SetBareMetalNode, chosen, grown
<1>6. QED
  BY <1>4, <1>5, WithNodesType

(* What a start or a stop makes of a cluster is one that is to start or     *)
(* stop.                                                                    *)
LEMMA RequestedType ==
    ASSUME NEW s \in Snapshot, NEW op, NEW t \in Requested(op, s)
    PROVE  t \in Snapshot /\ t.status \in {"STARTING", "STOPPING"}
<1>1. CASE op = "start"
  <2>1. PICK u \in SetBareMetalNode(s) : t = [u EXCEPT !.status = "STARTING"]
    BY <1>1 DEF Requested
  <2>2. u \in Snapshot
    BY BareMetalType
  <2>3. QED
    BY <2>1, <2>2 DEF Snapshot, ClusterStatus
<1>2. CASE op # "start"
  BY <1>2 DEF Requested, Snapshot, ClusterStatus
<1>3. QED
  BY <1>1, <1>2

(* What Save leaves in the database.                                        *)
LEMMA SavedType ==
    ASSUME NEW d \in Rows, NEW s \in Snapshot
    PROVE  /\ Saved(d, s) \in Rows
           /\ Saved(d, s).row = d.row
           /\ d.row = "live" => /\ Saved(d, s).val.status = s.status
                                /\ Saved(d, s).val.nodes = s.nodes
           /\ d.row # "live" => Saved(d, s).val.status = d.val.status
           /\ Saved(d, s).val.nodes = s.nodes
BY DEF Saved, Rows, Snapshot

(* The cluster after a probe of its nodes.                                  *)
LEMMA AfterProbeType ==
    ASSUME worker \in Handlers, NEW f \in Findings(worker.ev.nodes), NEW gone
    PROVE  AfterProbe(f, gone) \in Snapshot
<1>1. f.found \in 0..2
  BY BoundAssumption DEF Findings
<1>2. \A n \in NodesT : Without(n, gone) \in NodesT
  BY DEF Without, NodesT, NoNode, Node, NodeStatus
<1>3. \A n \in NodesT : Probed(n, f.reached) \in NodesT
  BY DEF Probed, NodesT, Node
<1>4. worker.ev \in Snapshot /\ worker.ev.nodes \in NodesT /\ worker.ev.disks \in 0..2
  BY DEF Handlers, Snapshot, NodesT
<1> DEFINE n == Without(Probed(worker.ev.nodes, f.reached), gone)
           k == IF worker.ev.disks + f.found > 2 THEN 2 ELSE worker.ev.disks + f.found
<1>5. n \in NodesT /\ k \in 0..2
  BY <1>1, <1>2, <1>3, <1>4
<1>6. AfterProbe(f, gone) = [worker.ev EXCEPT !.nodes = n, !.disks = k]
  BY DEF AfterProbe
<1> HIDE DEF n, k
<1>7. QED
  BY <1>4, <1>5, <1>6 DEF Snapshot, NodesT

(* The parts of a handler's state.                                          *)
LEMMA FieldsType ==
    ASSUME NEW w \in Handlers
    PROVE  /\ w.pc \in WorkerPC /\ w.ev \in Snapshot /\ w.ev.nodes \in NodesT
           /\ w.todo \in SUBSET Ips /\ w.err \in {"none", "error", "panic"}
           /\ [w.ev EXCEPT !.addr = TRUE] \in Snapshot
BY DEF Handlers, Snapshot, NodesT

-----------------------------------------------------------------------------
(* Type correctness.                                                        *)

(* At the start everything has its type.                                   *)
LEMMA InitType == Init => TypeOK
<1> SUFFICES ASSUME Init PROVE TypeOK
  OBVIOUS
<1>1. Nothing \in Snapshot
  BY NothingType
<1>2. Idle \in Requests /\ Resting \in Handlers
  BY <1>1 DEF Idle, Requests, Resting, Handlers, WorkerPC
<1>3. queue \in Seq(Snapshot) /\ Len(queue) <= QueueCap
  BY BoundAssumption DEF Init
<1>4. client \in [Clients -> Requests] /\ db \in Rows
  BY <1>1, <1>2 DEF Init, Rows
<1>5. kube \in BOOLEAN
  BY DEF Init
<1>6. QED
  BY <1>2, <1>3, <1>4, <1>5 DEF Init, TypeOK

(* The process down, whatever it was doing.                                 *)
LEMMA EndsType == TypeOK /\ Ends =>
    /\ queue' \in Seq(Snapshot) /\ Len(queue') <= QueueCap
    /\ client' \in [Clients -> Requests] /\ worker' \in Handlers
    /\ up' \in BOOLEAN /\ last' = "lost"
    /\ queue' = <<>> /\ worker' = Resting /\ client' = [c \in Clients |-> Idle]
<1>1. Idle \in Requests /\ Resting \in Handlers
  BY NothingType DEF Idle, Requests, Resting, Handlers, WorkerPC
<1>2. Len(<<>>) <= QueueCap /\ <<>> \in Seq(Snapshot)
  BY BoundAssumption
<1>3. QED
  BY <1>1, <1>2 DEF Ends

(* A request leaves the worker and the machines alone.                      *)
LEMMA RequestType == ASSUME TypeOK, NEW c \in Clients, Request(c) PROVE TypeOK'
<1>1. /\ up /\ client[c] \in Requests /\ client[c].snap \in Snapshot
      /\ db \in Rows /\ db.val \in Snapshot
  BY DEF TypeOK, Request, Create, ReadRow, ReadNodes, ClientSave, Apply, Delete, Update,
         GiveUp, Requests, Rows
<1>2. Idle \in Requests
  BY NothingType DEF Idle, Requests
<1>3. Nothing \in Snapshot
  BY NothingType
<1>4. CASE Create(c)
  <2>1. PICK r \in Ranges : db' = [row |-> "live", val |->
                  [Nothing EXCEPT !.status = "CREATING", !.range = r]]
    BY <1>4 DEF Create
  <2>2. [Nothing EXCEPT !.status = "CREATING", !.range = r] \in Snapshot
    BY <1>3, MachineAssumption DEF Snapshot, ClusterStatus
  <2>3. db' \in Rows
    BY <2>1, <2>2 DEF Rows
  <2>4. QED
    BY <1>4, <1>1, <2>3 DEF Create, TypeOK
<1>5. ASSUME NEW op \in AllOps, ReadRow(c, op) PROVE TypeOK'
  <2>1. [db.val EXCEPT !.nodes = NoNodes, !.disks = 0] \in Snapshot
    <3>1. NoNodes \in [Ips -> Node] /\ 0 \in 0..2
      BY NothingType DEF NodesT
    <3>2. QED
      BY <1>1, <3>1 DEF Snapshot
  <2>2. client' \in [Clients -> Requests]
    BY <1>5, <1>3, <2>1 DEF ReadRow, TypeOK, Requests, AllOps
  <2>3. QED
    BY <1>5, <1>1, <2>2 DEF ReadRow, TypeOK
<1>6. CASE ReadNodes(c)
  <2> DEFINE s == [client[c].snap EXCEPT !.nodes = db.val.nodes, !.disks = db.val.disks]
  <2>1. s \in Snapshot
    BY <1>1 DEF Snapshot
  <2>2. PICK t \in Requested(client[c].op, s) :
          client' = [client EXCEPT ![c].pc = "save", ![c].snap = t]
    BY <1>6 DEF ReadNodes
  <2> HIDE DEF s
  <2>3. t \in Snapshot
    BY <2>1, RequestedType
  <2>4. client' \in [Clients -> Requests]
    BY <1>1, <2>2, <2>3 DEF TypeOK, Requests
  <2>5. QED
    BY <1>6, <1>1, <2>4 DEF ReadNodes, TypeOK
<1>7. CASE ClientSave(c)
  <2>1. db' \in Rows
    BY <1>7, <1>1, SavedType DEF ClientSave
  <2>2. client' \in [Clients -> Requests]
    BY <1>7, <1>1, <1>2 DEF ClientSave, TypeOK, Requests
  <2>3. QED
    BY <1>7, <1>1, <2>1, <2>2 DEF ClientSave, TypeOK
<1>8. CASE Apply(c)
  <2>1. queue' \in Seq(Snapshot) /\ Len(queue') <= QueueCap
    BY <1>8, <1>1, BoundAssumption DEF Apply, TypeOK
  <2>2. QED
    BY <1>8, <1>1, <1>2, <2>1 DEF Apply, TypeOK
<1>9. CASE Delete(c)
  <2>1. db' \in Rows
    BY <1>9, <1>3 DEF Delete, Rows
  <2>2. QED
    BY <1>9, <1>1, <1>2, <2>1 DEF Delete, TypeOK
<1>10. CASE Update(c)
  <2>1. PICK r \in Ranges :
          db' = Saved(db, [Nothing EXCEPT !.status = "CREATING", !.range = r])
    BY <1>10 DEF Update
  <2>2. [Nothing EXCEPT !.status = "CREATING", !.range = r] \in Snapshot
    BY <1>3, MachineAssumption DEF Snapshot, ClusterStatus
  <2>3. db' \in Rows
    BY <1>1, <2>1, <2>2, SavedType
  <2>4. QED
    BY <1>10, <1>1, <1>2, <2>3 DEF Update, TypeOK
<1>11. CASE GiveUp(c)
  BY <1>11, <1>1, <1>2 DEF GiveUp, TypeOK
<1>12. QED
  BY <1>4, <1>5, <1>6, <1>7, <1>8, <1>9, <1>10, <1>11 DEF Request

Machines == [Ips -> {"clean", "joined"}]

(* A script on one machine leaves a handler and machines.                   *)
LEMMA ScriptType ==
    ASSUME TypeOK, NEW ip \in Ips, NEW effect \in {"clean", "joined"}, Script(ip, effect)
    PROVE  worker' \in Handlers /\ machine' \in Machines
<1>1. worker \in Handlers /\ machine \in Machines
  BY DEF TypeOK, Machines
<1>2. [machine EXCEPT ![ip] = effect] \in Machines
  BY <1>1 DEF Machines
<1>3. machine' \in Machines
  BY <1>1, <1>2 DEF Script
<1>4. CASE worker' = [worker EXCEPT !.todo = @ \ {ip}]
  BY <1>1, <1>3, <1>4 DEF Handlers
<1>5. CASE Return("error")
  BY <1>1, <1>3, <1>5 DEF Return, Handlers, WorkerPC
<1>6. QED
  BY <1>4, <1>5 DEF Script

(* Going on to the next call leaves a handler.                              *)
LEMMA GotoType ==
    ASSUME TypeOK, NEW pc \in WorkerPC, NEW n \in NodesT, NEW todo \in SUBSET Ips,
           Goto(pc, n, todo)
    PROVE  worker' \in Handlers
BY DEF Goto, TypeOK, Handlers, Snapshot, NodesT

(* Returning leaves a handler.                                              *)
LEMMA ReturnType ==
    ASSUME TypeOK, NEW err \in {"none", "error", "panic"}, Return(err)
    PROVE  worker' \in Handlers
BY DEF Return, TypeOK, Handlers, WorkerPC

(* Handling leaves the rest of the state alone.                             *)
LEMMA HandlingType ==
    ASSUME TypeOK, NEW pc, Handling(pc), worker' \in Handlers, machine' \in Machines
    PROVE  TypeOK'
BY DEF Handling, TypeOK, Machines

(* Every step of the handler but the final save.                            *)
LEMMA HandlerStepType == ASSUME TypeOK, Handler, ~WorkerSave PROVE TypeOK'
<1> DEFINE Good == worker' \in Handlers /\ machine' \in Machines
<1>1. worker \in Handlers /\ machine \in Machines /\ worker.ev \in Snapshot
      /\ worker.ev.nodes \in NodesT /\ worker.todo \in SUBSET Ips
  BY DEF TypeOK, Handlers, Machines, Snapshot, NodesT
<1>2. Present(worker.ev.nodes) \subseteq Ips /\ Masters(worker.ev.nodes) \subseteq Ips
      /\ \A n, st : InStatus(n, st) \subseteq Ips
  BY DEF Present, Masters, InStatus
<1>3. ASSUME NEW pc, Handling(pc), Good PROVE TypeOK'
  BY <1>3, HandlingType
<1>4. CASE StopReload
  <2> DEFINE nodes == SetNodeStatus(worker.ev.nodes,
                       {ip \in Present(worker.ev.nodes) :
                          worker.ev.nodes[ip].status # "DELETED"}, "DELETING")
  <2>1. nodes \in NodesT
    BY <1>1, SetStatusType DEF NodeStatus
  <2> HIDE DEF nodes
  <2>2. \/ Goto("handlerNodes", nodes, InStatus(nodes, "DELETING"))
        \/ worker' = [worker EXCEPT !.pc = "save", !.ev.nodes = nodes, !.err = "error"]
    BY <1>4 DEF StopReload, nodes
  <2>3. Goto("handlerNodes", nodes, InStatus(nodes, "DELETING")) => worker' \in Handlers
    BY <2>1, <1>2, GotoType DEF WorkerPC
  <2>4. worker' = [worker EXCEPT !.pc = "save", !.ev.nodes = nodes, !.err = "error"]
          => worker' \in Handlers
    <3> SUFFICES ASSUME worker' = [worker EXCEPT !.pc = "save", !.ev.nodes = nodes,
                                                 !.err = "error"]
                 PROVE  worker' \in Handlers
      OBVIOUS
    <3>1. [worker.ev EXCEPT !.nodes = nodes] \in Snapshot
      BY <1>1, <2>1, WithNodesType
    <3>2. worker' = [pc |-> "save", ev |-> [worker.ev EXCEPT !.nodes = nodes],
                     todo |-> worker.todo, err |-> "error"]
      BY <1>1 DEF Handlers
    <3>3. QED
      BY <1>1, <3>1, <3>2 DEF Handlers, WorkerPC
  <2>5. QED
    BY <2>2, <2>3, <2>4, <1>1, <1>3, <1>4 DEF StopReload
<1>5. ASSUME NEW ip \in Ips, HandlerNode(ip) PROVE TypeOK'
  <2>1. CASE Script(ip, "clean") \/ Script(ip, "joined")
    BY <2>1, <1>3, <1>5, ScriptType DEF HandlerNode
  <2>2. CASE (Return("panic") \/ Return("error")) /\ UNCHANGED machine
    BY <2>2, <1>1, <1>3, <1>5, ReturnType DEF HandlerNode
  <2>3. QED
    BY <1>5, <2>1, <2>2 DEF HandlerNode
<1>6. CASE HandlerNodesDone
  <2>1. CASE worker.ev.status = "STOPPING"
    BY <1>1, <1>2, <1>3, <1>6, <2>1, GotoType DEF HandlerNodesDone, WorkerPC
  <2>2. CASE worker.ev.status # "STOPPING"
    <3> DEFINE n == SetNodeStatusFromTo(SetNodeStatusFromTo(worker.ev.nodes,
                      "PENDING", "RUNNING"), "DELETING", "DELETED")
    <3>1. n \in NodesT
      BY <1>1, FromToType DEF NodeStatus
    <3>2. worker' = [worker EXCEPT !.pc = "save", !.ev.nodes = n]
      BY <1>6, <2>2 DEF HandlerNodesDone
    <3> HIDE DEF n
    <3>3. worker' \in Handlers
      BY <1>1, <3>1, <3>2 DEF Handlers, Snapshot, WorkerPC, NodesT
    <3>4. QED
      BY <1>1, <1>3, <1>6, <3>3 DEF HandlerNodesDone
  <2>3. QED
    BY <2>1, <2>2
<1>7. ASSUME NEW ip \in Ips, UnInstall(ip) PROVE TypeOK'
  BY <1>3, <1>7, ScriptType DEF UnInstall
<1>8. CASE UnInstallDone
  <2> DEFINE n == SetNodeStatus(worker.ev.nodes, Present(worker.ev.nodes), "DELETED")
  <2>1. n \in NodesT
    BY <1>1, SetStatusType DEF NodeStatus
  <2>2. worker' = [worker EXCEPT !.pc = "save", !.ev.nodes = n]
    BY <1>8 DEF UnInstallDone
  <2> HIDE DEF n
  <2>3. worker' \in Handlers
    BY <1>1, <2>1, <2>2 DEF Handlers, Snapshot, WorkerPC, NodesT
  <2>4. QED
    BY <1>1, <1>3, <1>8, <2>3 DEF UnInstallDone
<1>9. CASE ClusterIsExist
  <2> DEFINE s == [worker.ev EXCEPT !.status = "STARTING"]
  <2>1. s \in Snapshot
    BY <1>1, WithStatusType DEF ClusterStatus
  <2>2. \A t \in SetBareMetalNode(s) : t \in Snapshot
    BY <2>1, BareMetalType
  <2>3. \/ worker' = [worker EXCEPT !.pc = "notInstalled"]
        \/ Return("none")
        \/ \E t \in SetBareMetalNode(s) : worker' = [worker EXCEPT !.pc = "scale", !.ev = t]
    BY <1>9 DEF ClusterIsExist
  <2> HIDE DEF s
  <2>4. worker' \in Handlers
    BY <1>1, <2>2, <2>3 DEF Handlers, WorkerPC, Return
  <2>5. QED
    BY <1>1, <1>3, <1>9, <2>4 DEF ClusterIsExist
<1>10. CASE Probe
  <2>1. PICK f \in Findings(worker.ev.nodes) :
          LET gone == Ungrouped(Probed(worker.ev.nodes, f.reached))
              s    == AfterProbe(f, gone)
              seen == SetNodeStatusFromTo(s.nodes, "FINDING", "CREATING")
          IN  \E n \in {seen, SetNodeStatusFromTo(seen, "CREATING", "PENDING")},
                 pc \in {"reload", "save", "local", "install"} :
                worker' = [worker EXCEPT !.ev = [s EXCEPT !.nodes = n], !.pc = pc]
    BY <1>10 DEF Probe
  <2> DEFINE s    == AfterProbe(f, Ungrouped(Probed(worker.ev.nodes, f.reached)))
             seen == SetNodeStatusFromTo(s.nodes, "FINDING", "CREATING")
  <2>2. s \in Snapshot /\ s.nodes \in NodesT
    BY <1>1, AfterProbeType DEF Snapshot, NodesT
  <2> HIDE DEF s
  <2>3. seen \in NodesT
    BY <2>2, FromToType DEF NodeStatus
  <2> HIDE DEF seen
  <2>4. SetNodeStatusFromTo(seen, "CREATING", "PENDING") \in NodesT
    BY <2>3, FromToType DEF NodeStatus
  <2>5. \E n \in NodesT, pc \in {"reload", "save", "local", "install"} :
          worker' = [worker EXCEPT !.ev = [s EXCEPT !.nodes = n], !.pc = pc]
    BY <2>1, <2>3, <2>4 DEF s, seen
  <2>6. worker' \in Handlers
    <3>1. PICK n \in NodesT, pc \in {"reload", "save", "local", "install"} :
            worker' = [worker EXCEPT !.ev = [s EXCEPT !.nodes = n], !.pc = pc]
      BY <2>5
    <3>2. [s EXCEPT !.nodes = n] \in Snapshot
      BY <2>2, WithNodesType
    <3> DEFINE e == [s EXCEPT !.nodes = n]
    <3>3. worker' = [pc |-> pc, ev |-> e, todo |-> worker.todo, err |-> worker.err]
      BY <1>1, <3>1 DEF Handlers
    <3> HIDE DEF e
    <3>4. QED
      BY <1>1, <3>2, <3>3, FieldsType DEF WorkerPC, Handlers, e
  <2>7. QED
    BY <1>1, <1>3, <1>10, <2>6 DEF Probe
<1>11. CASE ProbePanics
  <2>1. PICK f \in Findings(worker.ev.nodes) : \E gone :
          worker' = [worker EXCEPT !.pc = "save", !.ev = AfterProbe(f, gone), !.err = "panic"]
    BY <1>11 DEF ProbePanics
  <2>2. PICK gone :
          worker' = [worker EXCEPT !.pc = "save", !.ev = AfterProbe(f, gone), !.err = "panic"]
    BY <2>1
  <2>3. AfterProbe(f, gone) \in Snapshot
    BY <1>1, AfterProbeType
  <2>4. worker' = [pc |-> "save", ev |-> AfterProbe(f, gone), todo |-> worker.todo,
                   err |-> "panic"]
    BY <1>1, <2>2 DEF Handlers
  <2>5. worker' \in Handlers
    BY <1>1, <2>3, <2>4 DEF Handlers, WorkerPC
  <2>6. QED
    BY <1>1, <1>3, <1>11, <2>5 DEF ProbePanics
<1>12. CASE LocalInstall
  BY <1>1, <1>3, <1>12, ReturnType DEF LocalInstall
<1>13. CASE Reload
  <2> DEFINE n == SetNodeStatusFromTo(worker.ev.nodes, "CREATING", "PENDING")
  <2>1. n \in NodesT
    BY <1>1, FromToType DEF NodeStatus
  <2>2. \/ Goto("handlerNodes", n, InStatus(n, "PENDING") \cup InStatus(n, "DELETING"))
        \/ Return("error")
    BY <1>13 DEF Reload
  <2> HIDE DEF n
  <2>3. worker' \in Handlers
    BY <1>2, <2>1, <2>2, GotoType, ReturnType DEF WorkerPC
  <2>4. QED
    BY <1>1, <1>3, <1>13, <2>3 DEF Reload
<1>14. CASE Install
  <2>1. CASE Masters(worker.ev.nodes) = {}
    BY <1>1, <1>3, <1>14, <2>1, ReturnType DEF Install
  <2>2. CASE Masters(worker.ev.nodes) # {}
    <3>1. PICK m \in Masters(worker.ev.nodes), ok \in Outcome("script") :
            /\ machine' \in {[machine EXCEPT ![m] = "joined"], machine}
            /\ worker' = [worker EXCEPT !.ev.addr = TRUE,
                           !.pc = IF ok THEN "join" ELSE "save",
                           !.todo = IF ok THEN Present(worker.ev.nodes) \ {m} ELSE {},
                           !.err = IF ok THEN "none" ELSE "error"]
      BY <1>14, <2>2 DEF Install
    <3>2. worker' \in Handlers
      <4>1. /\ (IF ok THEN "join" ELSE "save") \in WorkerPC
            /\ (IF ok THEN Present(worker.ev.nodes) \ {m} ELSE {}) \in SUBSET Ips
            /\ (IF ok THEN "none" ELSE "error") \in {"none", "error", "panic"}
        BY <1>2 DEF WorkerPC
      <4> DEFINE pc   == IF ok THEN "join" ELSE "save"
                 todo == IF ok THEN Present(worker.ev.nodes) \ {m} ELSE {}
                 err  == IF ok THEN "none" ELSE "error"
      <4>2. worker' = [worker EXCEPT !.ev.addr = TRUE, !.pc = pc, !.todo = todo, !.err = err]
        BY <3>1
      <4>3. pc \in WorkerPC /\ todo \in SUBSET Ips /\ err \in {"none", "error", "panic"}
        BY <4>1
      <4> HIDE DEF pc, todo, err
      <4>4. worker' = [pc |-> pc, ev |-> [worker.ev EXCEPT !.addr = TRUE],
                       todo |-> todo, err |-> err]
        BY <1>1, <4>2 DEF Handlers
      <4>5. QED
        BY <1>1, <4>3, <4>4, FieldsType DEF Handlers
    <3>3. machine' \in Machines
      BY <1>1, <1>2, <3>1 DEF Machines
    <3>4. QED
      BY <1>3, <1>14, <3>2, <3>3 DEF Install
  <2>3. QED
    BY <2>1, <2>2
<1>15. ASSUME NEW ip \in Ips, JoinCluster(ip) PROVE TypeOK'
  BY <1>3, <1>15, ScriptType DEF JoinCluster
<1>16. CASE JoinDone
  <2>1. SetNodeStatusFromTo(worker.ev.nodes, "PENDING", "RUNNING") \in NodesT
    BY <1>1, FromToType DEF NodeStatus
  <2>2. QED
    BY <1>1, <1>3, <1>16, <2>1, GotoType DEF JoinDone, WorkerPC
<1>17. CASE RuntimeInstall
  <2>1. CASE worker' = [worker EXCEPT !.pc = "save", !.ev.status = "RUNNING"]
    <3>1. [worker.ev EXCEPT !.status = "RUNNING"] \in Snapshot
      BY <1>1, WithStatusType DEF ClusterStatus
    <3>2. worker' = [pc |-> "save", ev |-> [worker.ev EXCEPT !.status = "RUNNING"],
                     todo |-> worker.todo, err |-> worker.err]
      BY <1>1, <2>1 DEF Handlers
    <3>3. worker' \in Handlers
      BY <1>1, <3>1, <3>2 DEF Handlers, WorkerPC
    <3>4. QED
      BY <1>1, <1>3, <1>17, <3>3 DEF RuntimeInstall
  <2>2. CASE Return("error")
    BY <1>1, <1>3, <1>17, <2>2, ReturnType DEF RuntimeInstall
  <2>3. QED
    BY <1>17, <2>1, <2>2 DEF RuntimeInstall
<1>18. QED
  BY <1>4, <1>5, <1>6, <1>7, <1>8, <1>9, <1>10, <1>11, <1>12, <1>13, <1>14, <1>15, <1>16,
     <1>17 DEF Handler

(* The deferred save keeps the types.                                       *)
LEMMA WorkerSaveType == ASSUME TypeOK, WorkerSave PROVE TypeOK'
<1> DEFINE s == IF worker.err = "error" THEN [worker.ev EXCEPT !.status = "ERROR"] ELSE worker.ev
<1>1. s \in Snapshot
  <2>1. worker.ev \in Snapshot
    BY DEF TypeOK, Handlers
  <2>2. [worker.ev EXCEPT !.status = "ERROR"] \in Snapshot
    BY <2>1, WithStatusType DEF ClusterStatus
  <2>3. QED
    BY <2>1, <2>2
<1>2. db' = db \/ db' = Saved(db, s)
  BY DEF WorkerSave
<1> HIDE DEF s
<1>3. db' \in Rows
  BY <1>1, <1>2, SavedType DEF TypeOK
<1>4. machine' = machine /\ kube' = kube /\ env' = env /\ calls' = calls /\ boots' = boots
  BY DEF WorkerSave
<1>5. CASE Ends
  BY <1>3, <1>4, <1>5, EndsType DEF TypeOK
<1>6. CASE ~Ends
  <2>1. /\ worker' = [Resting EXCEPT !.pc = IF worker.err = "error" THEN "failed" ELSE "idle"]
        /\ last' \in {"worker", "lost"} /\ up
        /\ UNCHANGED <<queue, client, up>>
    BY <1>6 DEF WorkerSave
  <2>2. worker' \in Handlers
    BY <2>1, NothingType DEF Resting, Handlers, WorkerPC
  <2>3. QED
    BY <1>3, <1>4, <2>1, <2>2 DEF TypeOK
<1>7. QED
  BY <1>5, <1>6

(* Taking an event keeps the types and the capacity.                        *)
LEMMA ReceiveType == ASSUME TypeOK, Receive PROVE TypeOK'
<1>1. queue \in Seq(Snapshot) /\ queue # <<>> /\ Len(queue) <= QueueCap
  BY DEF TypeOK, Receive
<1>2. Head(queue) \in Snapshot /\ Tail(queue) \in Seq(Snapshot) /\ Len(Tail(queue)) <= QueueCap
  BY <1>1, BoundAssumption
<1>3. worker' \in Handlers
  BY <1>2 DEF Receive, Resting, Handlers, WorkerPC
<1>4. QED
  BY <1>2, <1>3 DEF Receive, TypeOK

(* A start of the process keeps the types and the capacity.                 *)
LEMMA BootType == ASSUME TypeOK, Boot PROVE TypeOK'
<1>1. boots' \in Nat /\ db \in Rows /\ db.val \in Snapshot /\ Nothing \in Snapshot
  BY NothingType DEF TypeOK, Boot, Rows
<1> DEFINE Starts == IF db.row = "live" THEN {db.val}
                     ELSE {[Nothing EXCEPT !.range = r] : r \in Ranges}
<1>2. \A s \in Starts : s \in Snapshot
  BY <1>1, MachineAssumption DEF Snapshot
<1>3. CASE UNCHANGED <<db, queue, last>> /\ up' \in BOOLEAN
  BY <1>1, <1>3 DEF Boot, TypeOK
<1>4. CASE \E s \in Starts : \E t \in Requested("start", s) :
             /\ db' = Saved([row |-> "live", val |-> s], t)
             /\ queue' = <<t>> /\ up' = TRUE /\ last' = "request"
  <2>1. PICK s \in Starts : \E t \in Requested("start", s) :
             /\ db' = Saved([row |-> "live", val |-> s], t)
             /\ queue' = <<t>> /\ up' = TRUE /\ last' = "request"
    BY <1>4
  <2>2. PICK t \in Requested("start", s) :
             /\ db' = Saved([row |-> "live", val |-> s], t)
             /\ queue' = <<t>> /\ up' = TRUE /\ last' = "request"
    BY <2>1
  <2>3. s \in Snapshot /\ t \in Snapshot
    BY <1>2, <2>2, RequestedType
  <2>4. [row |-> "live", val |-> s] \in Rows
    BY <2>3 DEF Rows
  <2>5. db' \in Rows
    BY <2>2, <2>3, <2>4, SavedType
  <2>6. queue' \in Seq(Snapshot) /\ Len(queue') <= QueueCap
    BY <2>2, <2>3, BoundAssumption
  <2>7. QED
    BY <1>1, <2>2, <2>5, <2>6 DEF Boot, TypeOK
<1>5. QED
  BY <1>3, <1>4 DEF Boot, TypeOK

(* Every step keeps the types.                                              *)
LEMMA NextType == TypeOK /\ [Next]_vars => TypeOK'
<1> SUFFICES ASSUME TypeOK, [Next]_vars PROVE TypeOK'
  OBVIOUS
<1>1. ASSUME NEW c \in Clients, Request(c) PROVE TypeOK'
  BY <1>1, RequestType
<1>2. CASE Receive
  BY <1>2, ReceiveType
<1>3. CASE Handler
  BY <1>3, HandlerStepType, WorkerSaveType
<1>4. CASE Shutdown
  BY <1>4, EndsType DEF Shutdown, TypeOK
<1>5. CASE Crash
  BY <1>5, EndsType DEF Crash, TypeOK
<1>6. CASE Boot
  BY <1>6, BootType
<1>7. CASE KubeChange
  BY <1>7 DEF KubeChange, TypeOK
<1>8. CASE UNCHANGED vars
  BY <1>8 DEF vars, TypeOK
<1>9. QED
  BY <1>1, <1>2, <1>3, <1>4, <1>5, <1>6, <1>7, <1>8 DEF Next

(* The event channel never exceeds its capacity and a process that is down  *)
(* holds nothing, in every behaviour and for any number of machines.        *)
THEOREM TypeCorrect == Spec => []TypeOK
<1>1. QED
  BY InitType, NextType, PTL DEF Spec

-----------------------------------------------------------------------------
(* One master.  A copy of the cluster changes hands whole, so the invariant *)
(* is inductive with the types; what has to be shown is that no operator on *)
(* nodes adds a master where there is one.                                  *)

Lone(n) == \A i, j \in Masters(n) : i = j

(* Taking masters away leaves at most one.                                  *)
LEMMA FewerMasters ==
    ASSUME NEW n, NEW m, Lone(n), Masters(m) \subseteq Masters(n)
    PROVE  Lone(m)
BY DEF Lone

(* Changing a status or grouping nodes changes no master.                   *)
LEMMA StatusKeepsMasters ==
    ASSUME NEW n \in NodesT, NEW from, NEW to, NEW S
    PROVE  /\ Masters(SetNodeStatusFromTo(n, from, to)) = Masters(n)
           /\ Masters(SetNodeStatus(n, S, to)) = Masters(n)
           /\ Masters(Probed(n, S)) = Masters(n)
BY DEF Masters, SetNodeStatusFromTo, SetNodeStatus, Probed, NodesT, Node

(* Removing nodes adds no master.                                           *)
LEMMA WithoutKeepsMasters ==
    ASSUME NEW n, NEW gone
    PROVE  Masters(Without(n, gone)) \subseteq Masters(n)
BY DEF Masters, Without, NoNode

(* SetBareMetalNode adds a master only where there is none.                 *)
LEMMA BareMetalMaster ==
    ASSUME NEW s \in Snapshot, OneMaster(s), NEW t \in SetBareMetalNode(s)
    PROVE  OneMaster(t)
<1> DEFINE grown  == [ip \in Ips |-> IF ip \in s.range \ Present(s.nodes)
                                     THEN NewNode ELSE s.nodes[ip]]
           firsts == IF Present(s.nodes) # {} THEN Present(s.nodes) ELSE s.range
           chosen == IF Masters(grown) # {} THEN {grown}
                     ELSE {[grown EXCEPT ![m].master = TRUE] : m \in firsts}
<1>1. grown \in NodesT
  BY GrownType
<1>2. firsts \subseteq Ips
  BY DEF Snapshot, Present
<1>3. Masters(grown) \subseteq Masters(s.nodes)
  BY DEF Masters, NewNode
<1> HIDE DEF grown
<1>4. ASSUME NEW m \in firsts, Masters(grown) = {}
      PROVE  Masters([grown EXCEPT ![m].master = TRUE]) \subseteq {m}
  BY <1>1, <1>2, <1>4 DEF Masters, NodesT, Node
<1>5. \A n \in chosen : n \in NodesT /\ Lone(n)
  <2>1. CASE Masters(grown) # {}
    BY <1>1, <1>3, <2>1 DEF OneMaster, Lone
  <2>2. CASE Masters(grown) = {}
    BY <1>1, <1>2, <1>4, <2>2, PromoteType DEF Lone
  <2>3. QED
    BY <2>1, <2>2
<1> HIDE DEF chosen
<1>6. PICK n \in chosen :
        t = [s EXCEPT !.nodes = SetNodeStatus(n, Present(n) \ s.range, "DELETING")]
  BY DEF SetBareMetalNode, chosen, grown
<1>7. t.nodes = SetNodeStatus(n, Present(n) \ s.range, "DELETING")
  BY <1>6 DEF Snapshot
<1>8. Masters(t.nodes) = Masters(n)
  BY <1>5, <1>7, StatusKeepsMasters
<1>9. QED
  BY <1>5, <1>8 DEF OneMaster, Lone

(* A start or a stop leaves a cluster with one master.                      *)
LEMMA RequestedMaster ==
    ASSUME NEW s \in Snapshot, OneMaster(s), NEW op, NEW t \in Requested(op, s)
    PROVE  OneMaster(t)
<1>1. CASE op = "start"
  <2>1. PICK u \in SetBareMetalNode(s) : t = [u EXCEPT !.status = "STARTING"]
    BY <1>1 DEF Requested
  <2>2. u \in Snapshot /\ OneMaster(u)
    BY BareMetalType, BareMetalMaster
  <2>3. QED
    BY <2>1, <2>2 DEF OneMaster, Snapshot
<1>2. CASE op # "start"
  BY <1>2 DEF Requested, OneMaster, Snapshot
<1>3. QED
  BY <1>1, <1>2

(* A probe leaves a cluster with one master.                                *)
LEMMA AfterProbeMaster ==
    ASSUME worker \in Handlers, OneMaster(worker.ev), NEW f, NEW gone
    PROVE  OneMaster(AfterProbe(f, gone))
<1>1. worker.ev \in Snapshot /\ worker.ev.nodes \in NodesT
  BY FieldsType
<1> DEFINE n == Probed(worker.ev.nodes, f.reached)
<1>2. AfterProbe(f, gone).nodes = Without(n, gone)
  BY <1>1 DEF AfterProbe, Snapshot
<1>3. Masters(Without(n, gone)) \subseteq Masters(worker.ev.nodes)
  BY <1>1, StatusKeepsMasters, WithoutKeepsMasters
<1>4. QED
  BY <1>2, <1>3 DEF OneMaster

(* The empty cluster has no master.                                         *)
LEMMA NothingMaster == OneMaster(Nothing) /\ Masters(NoNodes) = {}
BY DEF OneMaster, Nothing, NoNodes, NoNode, Masters

(* No step of the handler turns a copy with one master into one with two.   *)
LEMMA HandlerMaster ==
    ASSUME TypeOK, OneMaster(worker.ev), Handler, ~WorkerSave
    PROVE  OneMaster(worker'.ev)
<1> DEFINE nodes == worker.ev.nodes
<1>1. worker \in Handlers /\ worker.ev \in Snapshot /\ nodes \in NodesT
  BY FieldsType DEF TypeOK
<1>2. worker' \in Handlers
  BY HandlerStepType DEF TypeOK
<1>3. ASSUME Masters(worker'.ev.nodes) \subseteq Masters(nodes) PROVE OneMaster(worker'.ev)
  BY <1>3 DEF OneMaster
<1>4. ASSUME worker'.ev = worker.ev PROVE OneMaster(worker'.ev)
  BY <1>4
<1>5. ASSUME NEW pc, NEW n, NEW todo, Goto(pc, n, todo) PROVE worker'.ev.nodes = n
  BY <1>1, <1>5 DEF Goto, Handlers, Snapshot
<1>6. ASSUME NEW err, Return(err) PROVE worker'.ev = worker.ev
  BY <1>1, <1>6 DEF Return, Handlers
<1>7. ASSUME NEW ip \in Ips, NEW effect, Script(ip, effect) PROVE worker'.ev = worker.ev
  BY <1>1, <1>6, <1>7 DEF Script, Handlers
<1>8. CASE StopReload
  <2> DEFINE n == SetNodeStatus(nodes, {ip \in Present(nodes) :
                                         nodes[ip].status # "DELETED"}, "DELETING")
  <2>1. Masters(n) = Masters(nodes)
    BY <1>1, StatusKeepsMasters
  <2>2. \/ Goto("handlerNodes", n, InStatus(n, "DELETING"))
        \/ worker' = [worker EXCEPT !.pc = "save", !.ev.nodes = n, !.err = "error"]
    BY <1>8 DEF StopReload
  <2> HIDE DEF n
  <2>3. CASE Goto("handlerNodes", n, InStatus(n, "DELETING"))
    BY <1>3, <1>5, <2>1, <2>3
  <2>4. CASE worker' = [worker EXCEPT !.pc = "save", !.ev.nodes = n, !.err = "error"]
    <3>1. worker'.ev.nodes = n
      BY <1>1, <2>4 DEF Handlers, Snapshot
    <3>2. QED
      BY <1>3, <2>1, <3>1
  <2>5. QED
    BY <2>2, <2>3, <2>4
<1>9. ASSUME NEW ip \in Ips, HandlerNode(ip) PROVE OneMaster(worker'.ev)
  BY <1>4, <1>6, <1>7, <1>9 DEF HandlerNode
<1>10. CASE HandlerNodesDone
  <2> DEFINE n == SetNodeStatusFromTo(SetNodeStatusFromTo(nodes, "PENDING", "RUNNING"),
                                      "DELETING", "DELETED")
  <2>1. SetNodeStatusFromTo(nodes, "PENDING", "RUNNING") \in NodesT
    BY <1>1, FromToType DEF NodeStatus
  <2>2. Masters(n) = Masters(nodes)
    BY <1>1, <2>1, StatusKeepsMasters
  <2>3. \/ Goto("unInstall", nodes, Present(nodes))
        \/ worker' = [worker EXCEPT !.pc = "save", !.ev.nodes = n]
    BY <1>10 DEF HandlerNodesDone
  <2> HIDE DEF n
  <2>4. worker'.ev.nodes = nodes \/ worker'.ev.nodes = n
    <3>1. CASE Goto("unInstall", nodes, Present(nodes))
      BY <1>5, <3>1
    <3>2. CASE worker' = [worker EXCEPT !.pc = "save", !.ev.nodes = n]
      BY <1>1, <3>2 DEF Handlers, Snapshot
    <3>3. QED
      BY <2>3, <3>1, <3>2
  <2>5. QED
    BY <1>3, <2>2, <2>4
<1>11. ASSUME NEW ip \in Ips, UnInstall(ip) PROVE OneMaster(worker'.ev)
  BY <1>4, <1>7, <1>11 DEF UnInstall
<1>12. CASE UnInstallDone
  <2>1. worker'.ev.nodes = SetNodeStatus(nodes, Present(nodes), "DELETED")
    BY <1>1, <1>12 DEF UnInstallDone, Handlers, Snapshot
  <2>2. QED
    BY <1>1, <1>3, <2>1, StatusKeepsMasters
<1>13. CASE ClusterIsExist
  <2> DEFINE s == [worker.ev EXCEPT !.status = "STARTING"]
  <2>1. s \in Snapshot
    BY <1>1, WithStatusType DEF ClusterStatus
  <2>2. OneMaster(s)
    BY <1>1 DEF OneMaster, Snapshot
  <2>3. \A t \in SetBareMetalNode(s) : OneMaster(t)
    BY <2>1, <2>2, BareMetalMaster
  <2>4. \/ worker' = [worker EXCEPT !.pc = "notInstalled"]
        \/ Return("none")
        \/ \E t \in SetBareMetalNode(s) : worker' = [worker EXCEPT !.pc = "scale", !.ev = t]
    BY <1>13 DEF ClusterIsExist
  <2> HIDE DEF s
  <2>5. QED
    BY <1>1, <1>6, <2>3, <2>4 DEF Handlers
<1>14. CASE Probe
  <2>1. PICK f \in Findings(nodes) :
          LET s    == AfterProbe(f, Ungrouped(Probed(nodes, f.reached)))
              seen == SetNodeStatusFromTo(s.nodes, "FINDING", "CREATING")
          IN  \E n \in {seen, SetNodeStatusFromTo(seen, "CREATING", "PENDING")} : \E pc :
                worker' = [worker EXCEPT !.ev = [s EXCEPT !.nodes = n], !.pc = pc]
    BY <1>14 DEF Probe
  <2> DEFINE s    == AfterProbe(f, Ungrouped(Probed(nodes, f.reached)))
             seen == SetNodeStatusFromTo(s.nodes, "FINDING", "CREATING")
             wait == SetNodeStatusFromTo(seen, "CREATING", "PENDING")
  <2>2. s \in Snapshot /\ s.nodes \in NodesT /\ OneMaster(s)
    BY <1>1, AfterProbeType, AfterProbeMaster DEF Snapshot, NodesT
  <2>3. PICK n \in {seen, wait} : \E pc :
          worker' = [worker EXCEPT !.ev = [s EXCEPT !.nodes = n], !.pc = pc]
    BY <2>1
  <2> HIDE DEF s
  <2>4. Masters(seen) = Masters(s.nodes) /\ seen \in NodesT
    BY <2>2, StatusKeepsMasters, FromToType DEF NodeStatus
  <2> HIDE DEF seen
  <2>5. Masters(wait) = Masters(s.nodes)
    BY <2>4, StatusKeepsMasters
  <2> HIDE DEF wait
  <2>6. worker'.ev = [s EXCEPT !.nodes = n]
    BY <1>1, <2>3 DEF Handlers
  <2>7. worker'.ev.nodes = n
    BY <2>2, <2>6 DEF Snapshot
  <2>8. Masters(worker'.ev.nodes) = Masters(s.nodes)
    BY <2>3, <2>4, <2>5, <2>7
  <2>9. QED
    BY <2>2, <2>8 DEF OneMaster
<1>15. CASE ProbePanics
  <2>1. PICK f \in Findings(nodes) : \E gone :
          worker' = [worker EXCEPT !.pc = "save", !.ev = AfterProbe(f, gone), !.err = "panic"]
    BY <1>15 DEF ProbePanics
  <2>2. PICK gone : worker'.ev = AfterProbe(f, gone)
    BY <1>1, <2>1 DEF Handlers
  <2>3. QED
    BY <1>1, <2>2, AfterProbeMaster
<1>16. CASE LocalInstall
  BY <1>4, <1>6, <1>16 DEF LocalInstall
<1>17. CASE Reload
  <2> DEFINE n == SetNodeStatusFromTo(nodes, "CREATING", "PENDING")
  <2>1. Masters(n) = Masters(nodes)
    BY <1>1, StatusKeepsMasters
  <2>2. \/ Goto("handlerNodes", n, InStatus(n, "PENDING") \cup InStatus(n, "DELETING"))
        \/ Return("error")
    BY <1>17 DEF Reload
  <2> HIDE DEF n
  <2>3. QED
    BY <1>3, <1>4, <1>5, <1>6, <2>1, <2>2
<1>18. CASE Install
  <2>1. \/ Return("panic") \/ Return("error")
        \/ \E pc, todo, err : worker' = [worker EXCEPT !.ev.addr = TRUE, !.pc = pc,
                                            !.todo = todo, !.err = err]
    BY <1>18 DEF Install
  <2>2. worker'.ev.nodes = nodes
    <3>1. CASE Return("panic") \/ Return("error")
      BY <1>6, <3>1
    <3>2. ASSUME NEW pc, NEW todo, NEW err,
                 worker' = [worker EXCEPT !.ev.addr = TRUE, !.pc = pc, !.todo = todo, !.err = err]
          PROVE  worker'.ev.nodes = nodes
      BY <1>1, <3>2 DEF Handlers, Snapshot
    <3>3. QED
      BY <2>1, <3>1, <3>2
  <2>3. QED
    BY <1>3, <2>2
<1>19. ASSUME NEW ip \in Ips, JoinCluster(ip) PROVE OneMaster(worker'.ev)
  BY <1>4, <1>7, <1>19 DEF JoinCluster
<1>20. CASE JoinDone
  <2>1. worker'.ev.nodes = SetNodeStatusFromTo(nodes, "PENDING", "RUNNING")
    BY <1>5, <1>20 DEF JoinDone
  <2>2. QED
    BY <1>1, <1>3, <2>1, StatusKeepsMasters
<1>21. CASE RuntimeInstall
  <2>1. worker' = [worker EXCEPT !.pc = "save", !.ev.status = "RUNNING"] \/ Return("error")
    BY <1>21 DEF RuntimeInstall
  <2>2. worker'.ev.nodes = nodes
    <3>1. CASE Return("error")
      BY <1>6, <3>1
    <3>2. CASE worker' = [worker EXCEPT !.pc = "save", !.ev.status = "RUNNING"]
      BY <1>1, <3>2 DEF Handlers, Snapshot
    <3>3. QED
      BY <2>1, <3>1, <3>2
  <2>3. QED
    BY <1>3, <2>2
<1>22. QED
  BY <1>8, <1>9, <1>10, <1>11, <1>12, <1>13, <1>14, <1>15, <1>16, <1>17, <1>18, <1>19, <1>20,
     <1>21 DEF Handler

(* An item of a queue that grew is an old one or the new one.               *)
LEMMA AppendItems ==
    ASSUME NEW q \in Seq(Snapshot), NEW s \in Snapshot, NEW i \in DOMAIN Append(q, s)
    PROVE  (i \in DOMAIN q /\ Append(q, s)[i] = q[i]) \/ Append(q, s)[i] = s
OBVIOUS

(* What a request does to the copies it holds, reads and writes.            *)
LEMMA RequestMaster ==
    ASSUME TypeOK, AtMostOneMaster, NEW c \in Clients, Request(c)
    PROVE  AtMostOneMaster'
<1> USE DEF AtMostOneMaster
<1>1. /\ client \in [Clients -> Requests] /\ db \in Rows /\ db.val \in Snapshot
      /\ client[c] \in Requests /\ client[c].snap \in Snapshot
      /\ queue \in Seq(Snapshot)
  BY DEF TypeOK, Requests, Rows
<1>2. OneMaster(Idle.snap)
  BY NothingMaster DEF Idle
<1>3. worker' = worker
  BY DEF Request, Create, ReadRow, ReadNodes, ClientSave, Apply, Delete, Update, GiveUp
<1>4. ASSUME NEW r PROVE [Nothing EXCEPT !.status = "CREATING", !.range = r].nodes = NoNodes
  BY DEF Nothing
<1>5. ASSUME NEW s, s.nodes = NoNodes PROVE OneMaster(s)
  BY <1>5, NothingMaster DEF OneMaster
<1>6. ASSUME NEW s \in Snapshot, OneMaster(s) PROVE OneMaster(Saved(db, s).val)
  BY <1>1, <1>6, SavedType DEF OneMaster
<1>7. CASE Create(c)
  <2>1. PICK r \in Ranges : db' = [row |-> "live", val |->
                  [Nothing EXCEPT !.status = "CREATING", !.range = r]]
    BY <1>7 DEF Create
  <2>2. OneMaster(db'.val)
    BY <1>4, <1>5, <2>1
  <2>3. QED
    BY <1>3, <1>7, <2>2 DEF Create
<1>8. ASSUME NEW op \in AllOps, ReadRow(c, op) PROVE AtMostOneMaster'
  <2>1. [db.val EXCEPT !.nodes = NoNodes, !.disks = 0].nodes = NoNodes
    BY <1>1 DEF Snapshot
  <2>2. OneMaster(client'[c].snap)
    BY <1>1, <1>5, <1>8, <2>1, NothingMaster DEF ReadRow
  <2>3. \A d \in Clients \ {c} : client'[d] = client[d]
    BY <1>1, <1>8 DEF ReadRow
  <2>4. QED
    BY <1>3, <1>8, <2>2, <2>3 DEF ReadRow
<1>9. CASE ReadNodes(c)
  <2> DEFINE s == [client[c].snap EXCEPT !.nodes = db.val.nodes, !.disks = db.val.disks]
  <2>1. s \in Snapshot /\ s.nodes = db.val.nodes
    BY <1>1 DEF Snapshot
  <2>2. OneMaster(s)
    BY <2>1 DEF OneMaster
  <2>3. PICK t \in Requested(client[c].op, s) :
          client' = [client EXCEPT ![c].pc = "save", ![c].snap = t]
    BY <1>9 DEF ReadNodes
  <2> HIDE DEF s
  <2>4. OneMaster(t)
    BY <2>1, <2>2, RequestedMaster
  <2>5. client'[c].snap = t /\ \A d \in Clients \ {c} : client'[d] = client[d]
    BY <1>1, <2>3 DEF Requests
  <2>6. QED
    BY <1>3, <1>9, <2>4, <2>5 DEF ReadNodes
<1>10. CASE ClientSave(c)
  <2>1. OneMaster(db'.val)
    BY <1>1, <1>6, <1>10 DEF ClientSave
  <2>2. \A d \in Clients : OneMaster(client'[d].snap)
    BY <1>1, <1>2, <1>10 DEF ClientSave, Requests
  <2>3. QED
    BY <1>3, <1>10, <2>1, <2>2 DEF ClientSave
<1>11. CASE Apply(c)
  <2>1. \A i \in DOMAIN queue' : OneMaster(queue'[i])
    <3>1. (\A i \in DOMAIN queue : OneMaster(queue[i])) /\ OneMaster(client[c].snap)
      BY DEF AtMostOneMaster
    <3>2. client[c].snap \in Snapshot
      BY <1>1 DEF Requests
    <3>3. CASE queue' = Append(queue, client[c].snap)
      BY <1>1, <3>1, <3>2, <3>3, AppendItems
    <3>4. CASE queue' = queue
      BY <3>1, <3>4
    <3>5. QED
      BY <1>11, <3>3, <3>4 DEF Apply
  <2>2. \A d \in Clients : OneMaster(client'[d].snap)
    BY <1>1, <1>2, <1>11 DEF Apply
  <2>3. QED
    BY <1>3, <1>11, <2>1, <2>2 DEF Apply
<1>12. CASE Delete(c)
  BY <1>1, <1>2, <1>3, <1>12, NothingMaster DEF Delete
<1>13. CASE Update(c)
  <2>1. PICK r \in Ranges :
          db' = Saved(db, [Nothing EXCEPT !.status = "CREATING", !.range = r])
    BY <1>13 DEF Update
  <2> DEFINE s == [Nothing EXCEPT !.status = "CREATING", !.range = r]
  <2>2. s \in Snapshot
    BY NothingType, MachineAssumption DEF Snapshot, ClusterStatus
  <2>3. OneMaster(s)
    BY <1>4, <1>5
  <2> HIDE DEF s
  <2>4. OneMaster(db'.val)
    BY <1>6, <2>1, <2>2, <2>3 DEF s
  <2>5. QED
    BY <1>1, <1>2, <1>3, <1>13, <2>4 DEF Update
<1>14. CASE GiveUp(c)
  BY <1>1, <1>2, <1>3, <1>14 DEF GiveUp
<1>15. QED
  BY <1>7, <1>8, <1>9, <1>10, <1>11, <1>12, <1>13, <1>14 DEF Request

(* A process that is down holds no copies.                                  *)
LEMMA EndsMaster ==
    ASSUME AtMostOneMaster, Ends, OneMaster(db'.val) PROVE AtMostOneMaster'
BY NothingMaster DEF AtMostOneMaster, Ends, Resting, Idle

(* The deferred save stores a copy with one master.                         *)
LEMMA WorkerSaveMaster == ASSUME TypeOK, AtMostOneMaster, WorkerSave PROVE AtMostOneMaster'
<1> DEFINE s == IF worker.err = "error" THEN [worker.ev EXCEPT !.status = "ERROR"] ELSE worker.ev
<1>1. worker.ev \in Snapshot /\ db \in Rows
  BY DEF TypeOK, Handlers
<1>2. s \in Snapshot /\ s.nodes = worker.ev.nodes
  BY <1>1 DEF Snapshot, ClusterStatus
<1>3. db' = db \/ db' = Saved(db, s)
  BY DEF WorkerSave
<1> HIDE DEF s
<1>4. OneMaster(db'.val)
  <2>1. OneMaster(db.val) /\ OneMaster(worker.ev)
    BY DEF AtMostOneMaster
  <2>2. OneMaster(Saved(db, s).val)
    BY <1>1, <1>2, <2>1, SavedType DEF OneMaster
  <2>3. QED
    BY <1>3, <2>1, <2>2
<1>5. CASE Ends
  BY <1>4, <1>5, EndsMaster
<1>6. CASE ~Ends
  <2>1. worker'.ev = Nothing /\ UNCHANGED <<queue, client>>
    BY <1>6 DEF WorkerSave, Resting
  <2>2. QED
    BY <1>4, <2>1, NothingMaster DEF AtMostOneMaster
<1>7. QED
  BY <1>5, <1>6

(* A start of the process queues a copy with one master.                    *)
LEMMA BootMaster == ASSUME TypeOK, AtMostOneMaster, Boot PROVE AtMostOneMaster'
<1>1. db \in Rows /\ db.val \in Snapshot /\ Nothing \in Snapshot
  BY NothingType DEF TypeOK, Rows
<1> DEFINE Starts == IF db.row = "live" THEN {db.val}
                     ELSE {[Nothing EXCEPT !.range = r] : r \in Ranges}
<1>2. \A s \in Starts : s \in Snapshot /\ OneMaster(s)
  <2>1. \A r \in Ranges : LET s == [Nothing EXCEPT !.range = r]
                          IN  s \in Snapshot /\ s.nodes = NoNodes
    BY <1>1, MachineAssumption DEF Snapshot, Nothing
  <2>2. \A r \in Ranges : OneMaster([Nothing EXCEPT !.range = r])
    BY <2>1, NothingMaster DEF OneMaster
  <2>3. OneMaster(db.val)
    BY DEF AtMostOneMaster
  <2>4. QED
    BY <1>1, <2>1, <2>2, <2>3
<1>3. UNCHANGED <<client, worker>>
  BY DEF Boot
<1>4. CASE UNCHANGED <<db, queue>>
  BY <1>3, <1>4 DEF AtMostOneMaster
<1>5. CASE \E s \in Starts : \E t \in Requested("start", s) :
             /\ db' = Saved([row |-> "live", val |-> s], t)
             /\ queue' = <<t>>
  <2>1. PICK s \in Starts : \E t \in Requested("start", s) :
             db' = Saved([row |-> "live", val |-> s], t) /\ queue' = <<t>>
    BY <1>5
  <2>2. PICK t \in Requested("start", s) :
             db' = Saved([row |-> "live", val |-> s], t) /\ queue' = <<t>>
    BY <2>1
  <2>3. s \in Snapshot /\ t \in Snapshot /\ OneMaster(t)
    BY <1>2, <2>2, RequestedType, RequestedMaster
  <2>4. [row |-> "live", val |-> s] \in Rows
    BY <2>3 DEF Rows
  <2>5. OneMaster(db'.val)
    BY <2>2, <2>3, <2>4, SavedType DEF OneMaster
  <2>6. QED
    BY <1>3, <2>2, <2>3, <2>5 DEF AtMostOneMaster
<1>6. QED
  BY <1>4, <1>5 DEF Boot

(* Every step leaves every copy with at most one master.                    *)
LEMMA NextMaster == TypeOK /\ AtMostOneMaster /\ [Next]_vars => AtMostOneMaster'
<1> SUFFICES ASSUME TypeOK, AtMostOneMaster, [Next]_vars PROVE AtMostOneMaster'
  OBVIOUS
<1>1. ASSUME NEW c \in Clients, Request(c) PROVE AtMostOneMaster'
  BY <1>1, RequestMaster
<1>2. CASE Receive
  <2>1. queue \in Seq(Snapshot) /\ queue # <<>>
    BY <1>2 DEF TypeOK, Receive
  <2>2. worker'.ev = queue[1]
    BY <1>2, <2>1 DEF Receive, Resting
  <2>3. \A i \in DOMAIN queue' : i + 1 \in DOMAIN queue /\ queue'[i] = queue[i + 1]
    BY <1>2, <2>1 DEF Receive
  <2>4. 1 \in DOMAIN queue
    BY <2>1
  <2>5. UNCHANGED <<db, client>>
    BY <1>2 DEF Receive
  <2>6. QED
    BY <2>2, <2>3, <2>4, <2>5 DEF AtMostOneMaster
<1>3. CASE WorkerSave
  BY <1>3, WorkerSaveMaster
<1>4. CASE Handler /\ ~WorkerSave
  <2>1. OneMaster(worker'.ev)
    BY <1>4, HandlerMaster DEF AtMostOneMaster
  <2>2. UNCHANGED <<db, queue, client>>
    BY <1>4 DEF Handler, StopReload, HandlerNode, HandlerNodesDone, UnInstall, UnInstallDone,
                ClusterIsExist, Probe, ProbePanics, LocalInstall, Reload, Install, JoinCluster,
                JoinDone, RuntimeInstall, Handling
  <2>3. QED
    BY <2>1, <2>2 DEF AtMostOneMaster
<1>5. CASE Shutdown \/ Crash
  BY <1>5, EndsMaster DEF Shutdown, Crash, AtMostOneMaster
<1>6. CASE Boot
  BY <1>6, BootMaster
<1>7. CASE KubeChange \/ UNCHANGED vars
  BY <1>7 DEF KubeChange, vars, AtMostOneMaster
<1>8. QED
  BY <1>1, <1>2, <1>3, <1>4, <1>5, <1>6, <1>7 DEF Next, Handler

(* No copy of the cluster ever has two masters, whatever requests run at    *)
(* the same time, whatever fails and however often the process restarts.    *)
THEOREM OneMasterAlways == Spec => []AtMostOneMaster
<1>1. Init => AtMostOneMaster
  BY NothingMaster DEF Init, AtMostOneMaster, Resting, Idle
<1>2. QED
  BY <1>1, NextMaster, TypeCorrect, PTL DEF Spec

-----------------------------------------------------------------------------
(* A deleted row stays deleted.                                             *)

(* No step brings a deleted row back.                                      *)
LEMMA DeletedStep == TypeOK /\ Next /\ db.row = "deleted" => db'.row = "deleted"
<1> SUFFICES ASSUME TypeOK, Next, db.row = "deleted" PROVE db'.row = "deleted"
  OBVIOUS
<1>1. \A s : Saved(db, s).row = "deleted"
  BY DEF TypeOK, Rows, Saved
<1>2. ASSUME NEW c \in Clients, Request(c) PROVE db'.row = "deleted"
  <2>1. CASE Create(c) \/ Delete(c)
    BY <2>1 DEF Create, Delete
  <2>2. CASE ClientSave(c) \/ Update(c)
    BY <1>1, <2>2 DEF ClientSave, Update
  <2>3. CASE (\E op \in AllOps : ReadRow(c, op)) \/ ReadNodes(c) \/ Apply(c) \/ GiveUp(c)
    BY <2>3 DEF ReadRow, ReadNodes, Apply, GiveUp
  <2>4. QED
    BY <1>2, <2>1, <2>2, <2>3 DEF Request
<1>3. CASE Handler /\ ~WorkerSave
  BY <1>3 DEF Handler, StopReload, HandlerNode, HandlerNodesDone, UnInstall, UnInstallDone,
              ClusterIsExist, Probe, ProbePanics, LocalInstall, Reload, Install, JoinCluster,
              JoinDone, RuntimeInstall, Handling
<1>4. CASE WorkerSave
  BY <1>1, <1>4 DEF WorkerSave
<1>5. CASE Receive \/ Shutdown \/ Crash \/ Boot \/ KubeChange
  BY <1>5 DEF Receive, Shutdown, Crash, Boot, KubeChange
<1>6. QED
  BY <1>2, <1>3, <1>4, <1>5 DEF Next, Handler

(* No save of an old snapshot and no restart brings a deleted cluster back. *)
THEOREM DeletedForGood == Spec => NoResurrection
<1>1. TypeOK /\ [Next]_vars => [db.row = "deleted" => db'.row = "deleted"]_vars
  BY DeletedStep
<1>2. QED
  BY <1>1, TypeCorrect, PTL DEF Spec, NoResurrection

-----------------------------------------------------------------------------
(* A stored request is acted on.  The invariant speaks of a system at rest; *)
(* what the steps preserve is that a row written last by a request still    *)
(* has its event on the way: with the request, in the queue or in the       *)
(* handler.                                                                 *)

OnTheWay == \/ queue # <<>> \/ worker.pc # "idle"
            \/ \E c \in Clients : client[c].pc = "apply"

RequestOnTheWay == last = "request" => up /\ OnTheWay

(* A request that stored its status goes on to send its event.              *)
LEMMA RequestStepOnTheWay ==
    ASSUME TypeOK, RequestOnTheWay, NEW c \in Clients, Request(c)
    PROVE  RequestOnTheWay'
<1> USE DEF RequestOnTheWay, OnTheWay
<1>1. client \in [Clients -> Requests] /\ queue \in Seq(Snapshot)
  BY DEF TypeOK
<1>2. up /\ up' = up /\ worker' = worker
  BY DEF Request, Create, ReadRow, ReadNodes, ClientSave, Apply, Delete, Update, GiveUp
<1>3. ASSUME \A d \in Clients \ {c} : client'[d] = client[d], client[c].pc # "apply",
             queue' = queue, last' = last
      PROVE  RequestOnTheWay'
  BY <1>2, <1>3
<1>4. CASE Create(c) \/ Update(c)
  BY <1>4 DEF Create, Update
<1>5. ASSUME NEW op \in AllOps, ReadRow(c, op) PROVE RequestOnTheWay'
  BY <1>1, <1>3, <1>5 DEF ReadRow
<1>6. CASE ReadNodes(c) \/ Delete(c) \/ GiveUp(c)
  BY <1>1, <1>3, <1>6 DEF ReadNodes, Delete, GiveUp
<1>7. CASE ClientSave(c)
  <2>1. CASE client' = [client EXCEPT ![c].pc = "apply"]
    <3>1. client'[c].pc = "apply"
      BY <1>1, <2>1 DEF Requests
    <3>2. QED
      BY <1>2, <3>1
  <2>2. CASE client' = [client EXCEPT ![c] = Idle] /\ UNCHANGED last
    BY <1>1, <1>3, <1>7, <2>2 DEF ClientSave
  <2>3. QED
    BY <1>7, <2>1, <2>2 DEF ClientSave
<1>8. CASE Apply(c)
  <2>1. CASE queue' = Append(queue, client[c].snap)
    <3>1. queue' # <<>>
      <4>1. client[c].snap \in Snapshot
        BY <1>1 DEF Requests
      <4>2. Len(queue') = Len(queue) + 1 /\ Len(queue) \in Nat
        BY <1>1, <2>1, <4>1
      <4>3. QED
        BY <4>2
    <3>2. QED
      BY <1>2, <3>1
  <2>2. CASE last' = "lost"
    BY <2>2
  <2>3. QED
    BY <1>8, <2>1, <2>2 DEF Apply
<1>9. QED
  BY <1>4, <1>5, <1>6, <1>7, <1>8 DEF Request

(* The handler of the event goes on to its save.                            *)
LEMMA HandlerStepOnTheWay ==
    ASSUME TypeOK, Handler, ~WorkerSave
    PROVE  worker'.pc # "idle" /\ UNCHANGED <<queue, client, up, last>>
<1>1. worker \in Handlers
  BY DEF TypeOK
<1>2. UNCHANGED <<queue, client, up, last>>
  BY DEF Handler, StopReload, HandlerNode, HandlerNodesDone, UnInstall, UnInstallDone,
         ClusterIsExist, Probe, ProbePanics, LocalInstall, Reload, Install, JoinCluster,
         JoinDone, RuntimeInstall, Handling
<1> SUFFICES worker'.pc # "idle"
  BY <1>2
<1>3. ASSUME NEW err, Return(err) PROVE worker'.pc = "save"
  BY <1>1, <1>3 DEF Return, Handlers
<1>4. ASSUME NEW pc, NEW n, NEW todo, Goto(pc, n, todo) PROVE worker'.pc = pc
  BY <1>1, <1>4 DEF Goto, Handlers
<1>5. ASSUME NEW ip \in Ips, NEW effect, Script(ip, effect), worker.pc # "idle"
      PROVE  worker'.pc # "idle"
  BY <1>1, <1>3, <1>5 DEF Script, Handlers
<1>6. CASE StopReload \/ HandlerNodesDone \/ UnInstallDone \/ Reload
  BY <1>1, <1>3, <1>4, <1>6 DEF StopReload, HandlerNodesDone, UnInstallDone, Reload, Handlers
<1>7. ASSUME NEW ip \in Ips, HandlerNode(ip) \/ UnInstall(ip) \/ JoinCluster(ip)
      PROVE  worker'.pc # "idle"
  BY <1>3, <1>5, <1>7 DEF HandlerNode, UnInstall, JoinCluster, Handling
<1>8. CASE ClusterIsExist
  BY <1>1, <1>3, <1>8 DEF ClusterIsExist, Handlers
<1>9. CASE Probe \/ ProbePanics
  BY <1>1, <1>9 DEF Probe, ProbePanics, Handlers
<1>10. CASE LocalInstall \/ JoinDone
  BY <1>3, <1>4, <1>10 DEF LocalInstall, JoinDone
<1>11. CASE Install
  <2>1. \/ Return("panic") \/ Return("error")
        \/ \E pc \in {"join", "save"} : \E todo, err :
             worker' = [worker EXCEPT !.ev.addr = TRUE, !.pc = pc, !.todo = todo, !.err = err]
    BY <1>11 DEF Install
  <2>2. QED
    BY <1>1, <1>3, <2>1 DEF Handlers
<1>12. CASE RuntimeInstall
  BY <1>1, <1>3, <1>12 DEF RuntimeInstall, Handlers
<1>13. QED
  BY <1>2, <1>6, <1>7, <1>8, <1>9, <1>10, <1>11, <1>12 DEF Handler

(* Every step keeps a stored request on its way.                            *)
LEMMA NextOnTheWay == TypeOK /\ RequestOnTheWay /\ [Next]_vars => RequestOnTheWay'
<1> SUFFICES ASSUME TypeOK, RequestOnTheWay, [Next]_vars PROVE RequestOnTheWay'
  OBVIOUS
<1>1. ASSUME NEW c \in Clients, Request(c) PROVE RequestOnTheWay'
  BY <1>1, RequestStepOnTheWay
<1>2. CASE Receive
  BY <1>2 DEF Receive, Resting, RequestOnTheWay, OnTheWay
<1>3. CASE Handler /\ ~WorkerSave
  BY <1>3, HandlerStepOnTheWay DEF RequestOnTheWay, OnTheWay
<1>4. CASE WorkerSave
  BY <1>4 DEF WorkerSave, Ends, RequestOnTheWay
<1>5. CASE Shutdown \/ Crash
  BY <1>5 DEF Shutdown, Crash, Ends, RequestOnTheWay
<1>6. CASE Boot
  <2>1. last # "request"
    BY <1>6 DEF Boot, RequestOnTheWay
  <2>2. \/ UNCHANGED last
        \/ up' /\ \E t : queue' = <<t>>
    BY <1>6 DEF Boot
  <2>3. ~up
    BY <1>6 DEF Boot
  <2>4. QED
    BY <2>1, <2>2, <2>3 DEF RequestOnTheWay, OnTheWay
<1>7. CASE KubeChange \/ UNCHANGED vars
  BY <1>7 DEF KubeChange, vars, RequestOnTheWay, OnTheWay
<1>8. QED
  BY <1>1, <1>2, <1>3, <1>4, <1>5, <1>6, <1>7 DEF Next

(* Once everything is at rest, no stored request is left that nobody acts   *)
(* on, unless the API was told so or the process died.                      *)
THEOREM NothingStranded == Spec => []NoStrandedRequest
<1>1. Init => RequestOnTheWay
  BY DEF Init, RequestOnTheWay
<1>2. TypeOK /\ RequestOnTheWay => NoStrandedRequest
  BY DEF RequestOnTheWay, OnTheWay, NoStrandedRequest, Quiescent
<1>3. QED
  BY <1>1, <1>2, NextOnTheWay, TypeCorrect, PTL DEF Spec

-----------------------------------------------------------------------------
(* The handler: what it has done so far.  That a cluster is RUNNING only    *)
(* after its machines joined, and that a stop which ends without an error   *)
(* has reset them, are facts about the last of many steps; the invariant    *)
(* says what each earlier step leaves to the next.                          *)

AllAre(S, made) == \A ip \in S : machine[ip] = made

(* What holds between two steps of the handler: the requests in the hands   *)
(* of the API and of the queue are starts and stops; an installation has    *)
(* joined the master and all machines but those still to do; a stop has     *)
(* reset all but those still to do; and no other path handles a stop.       *)
RequestsPending ==
    /\ \A i \in DOMAIN queue : queue[i].status \in {"STARTING", "STOPPING"}
    /\ \A c \in Clients : client[c].pc \in {"save", "apply"}
                            => client[c].snap.status \in {"STARTING", "STOPPING"}

Installing ==
    /\ worker.pc \in {"join", "runtime"} => worker.err = "none" /\ Masters(worker.ev.nodes) # {}
    /\ worker.pc = "join" => AllAre(Present(worker.ev.nodes) \ worker.todo, "joined")
    /\ worker.pc = "runtime" => AllAre(Present(worker.ev.nodes), "joined")
    /\ worker.ev.status = "RUNNING" =>
         /\ worker.pc = "save" /\ worker.err = "none" /\ Masters(worker.ev.nodes) # {}
         /\ AllAre(Present(worker.ev.nodes), "joined")

Resetting ==
    /\ worker.pc = "unInstall" => AllAre(Present(worker.ev.nodes) \ worker.todo, "clean")
    /\ worker.pc \in {"check", "notInstalled", "local", "scale", "reload", "install", "join",
                      "runtime"} => worker.ev.status # "STOPPING"
    /\ (worker.pc = "save" /\ worker.err = "none" /\ worker.ev.status = "STOPPING") =>
         /\ AllAre(Present(worker.ev.nodes), "clean")
         /\ \A ip \in Present(worker.ev.nodes) : worker.ev.nodes[ip].status = "DELETED"

HandlerInv == RequestsPending /\ Installing /\ Resetting

(* SetBareMetalNode leaves the status of the cluster alone.                 *)
LEMMA BareMetalStatus ==
    ASSUME NEW s \in Snapshot, NEW t \in SetBareMetalNode(s)
    PROVE  t.status = s.status
BY DEF SetBareMetalNode, Snapshot

(* A script that works out has its effect on one machine; one that fails    *)
(* ends the handler with an error.                                          *)
LEMMA ScriptEffect ==
    ASSUME TypeOK, NEW ip \in Ips, NEW effect, Script(ip, effect)
    PROVE  \/ /\ worker'.pc = worker.pc /\ worker'.ev = worker.ev /\ worker'.err = worker.err
              /\ worker'.todo = worker.todo \ {ip}
              /\ machine' = [machine EXCEPT ![ip] = effect]
           \/ worker'.pc = "save" /\ worker'.ev = worker.ev /\ worker'.err = "error"
BY DEF TypeOK, Handlers, Script, Return

(* Returning changes neither cluster nor machines.                          *)
LEMMA ReturnEffect ==
    ASSUME TypeOK, NEW err, Return(err)
    PROVE  worker'.pc = "save" /\ worker'.ev = worker.ev /\ worker'.err = err
BY DEF TypeOK, Handlers, Return

(* Going on replaces the nodes and nothing else of the cluster.             *)
LEMMA GotoEffect ==
    ASSUME TypeOK, NEW pc, NEW n, NEW todo, Goto(pc, n, todo)
    PROVE  /\ worker'.pc = pc /\ worker'.ev.nodes = n /\ worker'.todo = todo
           /\ worker'.err = worker.err /\ worker'.ev.status = worker.ev.status
BY DEF TypeOK, Handlers, Snapshot, Goto

(* A step on the way that neither joins nor resets machines.                *)
LEMMA OtherStep ==
    ASSUME HandlerInv, worker.pc # "save",
           worker'.ev.status \in {worker.ev.status, "STARTING"},
           worker'.pc \in {"notInstalled", "local", "scale", "reload", "install",
                           "handlerNodes", "save"},
           \/ worker'.pc = "handlerNodes"
           \/ worker'.pc = "save" /\ worker'.err # "none"
           \/ worker'.ev.status # "STOPPING"
    PROVE  Installing' /\ Resetting'
BY DEF HandlerInv, Installing, Resetting

(* Every step of the handler but the save keeps what it has done so far.    *)
LEMMA HandlerStepInv == ASSUME TypeOK, HandlerInv, Handler, ~WorkerSave PROVE HandlerInv'
<1> DEFINE Good == Installing' /\ Resetting'
           nodes == worker.ev.nodes
<1>1. /\ worker \in Handlers /\ worker.ev \in Snapshot /\ nodes \in NodesT
      /\ machine \in Machines
  BY FieldsType DEF TypeOK, Machines
<1>2. RequestsPending'
  BY HandlerStepOnTheWay DEF HandlerInv, RequestsPending
<1> SUFFICES Good
  BY <1>2 DEF HandlerInv
<1>3. worker.pc # "save" => worker.ev.status # "RUNNING"
  BY DEF HandlerInv, Installing
<1>4. worker.pc \in {"check", "notInstalled", "local", "scale", "reload", "install", "join",
                     "runtime"} => worker.ev.status # "STOPPING"
  BY DEF HandlerInv, Resetting
<1>5. ASSUME NEW err \in {"error", "panic"}, Return(err), worker.pc # "save" PROVE Good
  BY <1>5, ReturnEffect, OtherStep
<1>6. CASE StopReload
  <2>1. worker.pc = "stopping"
    BY <1>6 DEF StopReload, Handling
  <2>2. CASE \E n, todo : Goto("handlerNodes", n, todo)
    BY <2>1, <2>2, GotoEffect, OtherStep
  <2>3. CASE \E n : worker' = [worker EXCEPT !.pc = "save", !.ev.nodes = n, !.err = "error"]
    <3>1. worker'.pc = "save" /\ worker'.err = "error" /\ worker'.ev.status = worker.ev.status
      BY <1>1, <2>3 DEF Handlers, Snapshot
    <3>2. QED
      BY <2>1, <3>1, OtherStep
  <2>4. QED
    BY <1>6, <2>2, <2>3 DEF StopReload
<1>7. ASSUME NEW ip \in Ips, HandlerNode(ip) PROVE Good
  <2>1. worker.pc = "handlerNodes"
    BY <1>7 DEF HandlerNode, Handling
  <2>2. CASE \E effect : Script(ip, effect)
    BY <2>1, <2>2, ScriptEffect, OtherStep
  <2>3. CASE Return("panic") \/ Return("error")
    BY <1>5, <2>1, <2>3
  <2>4. QED
    BY <1>7, <2>2, <2>3 DEF HandlerNode
<1>8. CASE HandlerNodesDone
  <2>1. worker.pc = "handlerNodes" /\ machine' = machine
    BY <1>8 DEF HandlerNodesDone, Handling
  <2>2. CASE worker.ev.status = "STOPPING"
    <3>1. Goto("unInstall", nodes, Present(nodes))
      BY <1>8, <2>2 DEF HandlerNodesDone
    <3>2. QED
      BY <2>2, <3>1, GotoEffect DEF Installing, Resetting, AllAre
  <2>3. CASE worker.ev.status # "STOPPING"
    <3>1. PICK n : worker' = [worker EXCEPT !.pc = "save", !.ev.nodes = n]
      BY <1>8, <2>3 DEF HandlerNodesDone
    <3>2. worker'.pc = "save" /\ worker'.ev.status = worker.ev.status
      BY <1>1, <3>1 DEF Handlers, Snapshot
    <3>3. QED
      BY <2>1, <2>3, <3>2, OtherStep
  <2>4. QED
    BY <2>2, <2>3
<1>9. ASSUME NEW ip \in Ips, UnInstall(ip) PROVE Good
  <2>1. worker.pc = "unInstall" /\ Script(ip, "clean")
    BY <1>9 DEF UnInstall, Handling
  <2>2. CASE worker'.pc = "save" /\ worker'.ev = worker.ev /\ worker'.err = "error"
    BY <2>1, <2>2, OtherStep
  <2>3. CASE /\ worker'.pc = worker.pc /\ worker'.ev = worker.ev /\ worker'.err = worker.err
             /\ worker'.todo = worker.todo \ {ip}
             /\ machine' = [machine EXCEPT ![ip] = "clean"]
    <3>1. AllAre(Present(nodes) \ worker.todo, "clean")
      BY <2>1 DEF HandlerInv, Resetting
    <3>2. \A m \in Present(nodes) \ worker'.todo : machine'[m] = "clean"
      BY <1>1, <2>3, <3>1 DEF AllAre, Machines, Present
    <3>3. QED
      BY <1>3, <2>1, <2>3, <3>2 DEF Installing, Resetting, AllAre
  <2>4. QED
    BY <2>1, <2>2, <2>3, ScriptEffect
<1>10. CASE UnInstallDone
  <2> DEFINE n == SetNodeStatus(nodes, Present(nodes), "DELETED")
  <2>1. worker.pc = "unInstall" /\ worker.todo = {} /\ machine' = machine
    BY <1>10 DEF UnInstallDone, Handling
  <2>2. /\ worker'.pc = "save" /\ worker'.ev.nodes = n
        /\ worker'.ev.status = worker.ev.status
    BY <1>1, <1>10 DEF UnInstallDone, Handlers, Snapshot
  <2>3. Present(n) = Present(nodes) /\ \A ip \in Present(n) : n[ip].status = "DELETED"
    BY <1>1 DEF Present, SetNodeStatus, NodesT, Node
  <2>4. AllAre(Present(nodes), "clean")
    BY <2>1 DEF HandlerInv, Resetting, AllAre
  <2> HIDE DEF n
  <2>5. QED
    BY <1>3, <2>1, <2>2, <2>3, <2>4 DEF Installing, Resetting, AllAre
<1>11. CASE ClusterIsExist
  <2> DEFINE s == [worker.ev EXCEPT !.status = "STARTING"]
  <2>1. worker.pc = "check"
    BY <1>11 DEF ClusterIsExist, Handling
  <2>2. s \in Snapshot /\ s.status = "STARTING"
    BY <1>1 DEF Snapshot, ClusterStatus
  <2>3. CASE worker' = [worker EXCEPT !.pc = "notInstalled"] \/ Return("none")
    <3>1. worker'.pc \in {"notInstalled", "save"} /\ worker'.ev = worker.ev
      BY <1>1, <2>3, ReturnEffect DEF Handlers
    <3>2. QED
      BY <1>4, <2>1, <3>1, OtherStep
  <2>4. CASE \E t \in SetBareMetalNode(s) : worker' = [worker EXCEPT !.pc = "scale", !.ev = t]
    <3>1. worker'.pc = "scale" /\ worker'.ev.status = "STARTING"
      BY <1>1, <2>2, <2>4, BareMetalStatus DEF Handlers
    <3>2. QED
      BY <2>1, <3>1, OtherStep
  <2>5. QED
    BY <1>11, <2>3, <2>4 DEF ClusterIsExist
<1>12. CASE Probe
  <2>1. worker.pc \in {"notInstalled", "scale"}
    BY <1>12 DEF Probe, Handling
  <2> DEFINE gone(f) == Ungrouped(Probed(nodes, f.reached))
  <2>2. PICK f \in Findings(nodes) :
          \E n : \E pc \in {"reload", "save", "local", "install"} :
            worker' = [worker EXCEPT !.ev = [AfterProbe(f, gone(f)) EXCEPT !.nodes = n],
                                     !.pc = pc]
    BY <1>12 DEF Probe
  <2> HIDE DEF gone
  <2>3. AfterProbe(f, gone(f)).status = worker.ev.status
    BY <1>1 DEF AfterProbe, Snapshot
  <2>4. \A n : [AfterProbe(f, gone(f)) EXCEPT !.nodes = n].status = worker.ev.status
    BY <1>1, <2>3 DEF AfterProbe, Snapshot
  <2>5. PICK n : \E pc \in {"reload", "save", "local", "install"} :
          worker' = [worker EXCEPT !.ev = [AfterProbe(f, gone(f)) EXCEPT !.nodes = n],
                                   !.pc = pc]
    BY <2>2
  <2>6. /\ worker'.pc \in {"reload", "save", "local", "install"}
        /\ worker'.ev = [AfterProbe(f, gone(f)) EXCEPT !.nodes = n]
    BY <1>1, <2>5 DEF Handlers
  <2>7. worker'.ev.status = worker.ev.status
    BY <2>4, <2>6
  <2>8. QED
    BY <1>4, <2>1, <2>5, <2>6, <2>7, OtherStep
<1>13. CASE ProbePanics
  <2>1. worker.pc \in {"notInstalled", "scale"}
    BY <1>13 DEF ProbePanics, Handling
  <2>2. PICK f, gone :
          worker' = [worker EXCEPT !.pc = "save", !.ev = AfterProbe(f, gone), !.err = "panic"]
    BY <1>13 DEF ProbePanics
  <2>3. AfterProbe(f, gone).status = worker.ev.status
    BY <1>1 DEF AfterProbe, Snapshot
  <2>4. worker'.pc = "save" /\ worker'.ev = AfterProbe(f, gone) /\ worker'.err = "panic"
    BY <1>1, <2>2 DEF Handlers
  <2>5. QED
    BY <2>1, <2>3, <2>4, OtherStep
<1>14. CASE LocalInstall
  <2>1. worker.pc = "local" /\ (Return("none") \/ Return("error"))
    BY <1>14 DEF LocalInstall, Handling
  <2>2. QED
    BY <1>4, <2>1, ReturnEffect, OtherStep
<1>15. CASE Reload
  <2>1. worker.pc = "reload"
    BY <1>15 DEF Reload, Handling
  <2>2. CASE \E n, todo : Goto("handlerNodes", n, todo)
    BY <2>1, <2>2, GotoEffect, OtherStep
  <2>3. QED
    BY <1>5, <1>15, <2>1, <2>2 DEF Reload
<1>16. CASE Install
  <2>1. worker.pc = "install"
    BY <1>16 DEF Install, Handling
  <2>2. CASE Return("panic") \/ Return("error")
    BY <1>5, <2>1, <2>2
  <2>3. CASE \E m \in Masters(nodes) :
          /\ machine' = [machine EXCEPT ![m] = "joined"]
          /\ worker' = [worker EXCEPT !.ev.addr = TRUE, !.pc = "join",
                          !.todo = Present(nodes) \ {m}, !.err = "none"]
    <3>1. PICK m \in Masters(nodes) :
          /\ machine' = [machine EXCEPT ![m] = "joined"]
          /\ worker' = [worker EXCEPT !.ev.addr = TRUE, !.pc = "join",
                          !.todo = Present(nodes) \ {m}, !.err = "none"]
      BY <2>3
    <3>2. /\ worker'.pc = "join" /\ worker'.err = "none" /\ worker'.ev.nodes = nodes
          /\ worker'.todo = Present(nodes) \ {m} /\ worker'.ev.status = worker.ev.status
      BY <1>1, <3>1 DEF Handlers, Snapshot
    <3>3. \A ip \in Present(nodes) \ worker'.todo : machine'[ip] = "joined"
      BY <1>1, <3>1, <3>2 DEF Machines, Present
    <3>4. QED
      BY <1>3, <1>4, <2>1, <3>1, <3>2, <3>3 DEF Installing, Resetting, AllAre
  <2>4. CASE \E todo : worker' = [worker EXCEPT !.ev.addr = TRUE, !.pc = "save",
                                               !.todo = todo, !.err = "error"]
    <3>1. worker'.pc = "save" /\ worker'.err = "error" /\ worker'.ev.status = worker.ev.status
      BY <1>1, <2>4 DEF Handlers, Snapshot
    <3>2. QED
      BY <2>1, <3>1, OtherStep
  <2>5. QED
    BY <1>16, <2>2, <2>3, <2>4 DEF Install
<1>17. ASSUME NEW ip \in Ips, JoinCluster(ip) PROVE Good
  <2>1. worker.pc = "join" /\ Script(ip, "joined")
    BY <1>17 DEF JoinCluster, Handling
  <2>2. CASE worker'.pc = "save" /\ worker'.ev = worker.ev /\ worker'.err = "error"
    BY <2>1, <2>2, OtherStep
  <2>3. CASE /\ worker'.pc = worker.pc /\ worker'.ev = worker.ev /\ worker'.err = worker.err
             /\ worker'.todo = worker.todo \ {ip}
             /\ machine' = [machine EXCEPT ![ip] = "joined"]
    <3>1. /\ AllAre(Present(nodes) \ worker.todo, "joined")
          /\ worker.err = "none" /\ Masters(nodes) # {}
      BY <2>1 DEF HandlerInv, Installing
    <3>2. \A m \in Present(nodes) \ worker'.todo : machine'[m] = "joined"
      BY <1>1, <2>3, <3>1 DEF AllAre, Machines, Present
    <3>3. QED
      BY <1>3, <1>4, <2>1, <2>3, <3>1, <3>2 DEF Installing, Resetting, AllAre
  <2>4. QED
    BY <2>1, <2>2, <2>3, ScriptEffect
<1>18. CASE JoinDone
  <2> DEFINE n == SetNodeStatusFromTo(nodes, "PENDING", "RUNNING")
  <2>1. worker.pc = "join" /\ worker.todo = {} /\ machine' = machine
    BY <1>18 DEF JoinDone, Handling
  <2>2. Goto("runtime", n, {})
    BY <1>18 DEF JoinDone
  <2>3. Present(n) = Present(nodes) /\ Masters(n) = Masters(nodes)
    <3>1. Masters(n) = Masters(nodes)
      BY <1>1, StatusKeepsMasters
    <3>2. Present(n) = Present(nodes)
      BY <1>1 DEF Present, SetNodeStatusFromTo, NodesT, Node
    <3>3. QED
      BY <3>1, <3>2
  <2>4. AllAre(Present(nodes), "joined") /\ worker.err = "none" /\ Masters(nodes) # {}
    BY <2>1 DEF HandlerInv, Installing, AllAre
  <2> HIDE DEF n
  <2>5. QED
    BY <1>3, <1>4, <2>1, <2>2, <2>3, <2>4, GotoEffect DEF Installing, Resetting, AllAre
<1>19. CASE RuntimeInstall
  <2>1. worker.pc = "runtime" /\ machine' = machine
    BY <1>19 DEF RuntimeInstall, Handling
  <2>2. CASE worker' = [worker EXCEPT !.pc = "save", !.ev.status = "RUNNING"]
    <3>1. /\ worker'.pc = "save" /\ worker'.err = worker.err
          /\ worker'.ev.nodes = nodes /\ worker'.ev.status = "RUNNING"
      BY <1>1, <2>2 DEF Handlers, Snapshot
    <3>2. AllAre(Present(nodes), "joined") /\ worker.err = "none" /\ Masters(nodes) # {}
      BY <2>1 DEF HandlerInv, Installing
    <3>3. QED
      BY <2>1, <3>1, <3>2 DEF Installing, Resetting, AllAre
  <2>3. CASE Return("error")
    BY <1>5, <2>1, <2>3
  <2>4. QED
    BY <1>19, <2>2, <2>3 DEF RuntimeInstall
<1>20. QED
  BY <1>6, <1>7, <1>8, <1>9, <1>10, <1>11, <1>12, <1>13, <1>14, <1>15, <1>16, <1>17, <1>18,
     <1>19 DEF Handler

(* The requests and the process leave the handler alone or end it.          *)
LEMMA RequestInv ==
    ASSUME TypeOK, HandlerInv, NEW c \in Clients, Request(c) PROVE HandlerInv'
<1> DEFINE Asked == {"STARTING", "STOPPING"}
<1>1. client \in [Clients -> Requests] /\ queue \in Seq(Snapshot)
  BY DEF TypeOK
<1>2. UNCHANGED <<worker, machine>>
  BY DEF Request, Create, ReadRow, ReadNodes, ClientSave, Apply, Delete, Update, GiveUp
<1>3. Installing' /\ Resetting'
  BY <1>2 DEF HandlerInv, Installing, Resetting, AllAre
<1> SUFFICES RequestsPending'
  BY <1>3 DEF HandlerInv
<1>4. ASSUME UNCHANGED queue, \A d \in Clients \ {c} : client'[d] = client[d],
             client'[c].pc \in {"save", "apply"} => client'[c].snap.status \in Asked
      PROVE  RequestsPending'
  BY <1>4 DEF HandlerInv, RequestsPending
<1>5. Idle.pc = "idle"
  BY DEF Idle
<1>6. CASE UNCHANGED <<client, queue>>
  BY <1>6 DEF HandlerInv, RequestsPending
<1>7. ASSUME client' = [client EXCEPT ![c] = Idle], UNCHANGED queue PROVE RequestsPending'
  BY <1>1, <1>4, <1>5, <1>7
<1>8. ASSUME NEW op \in AllOps, ReadRow(c, op) PROVE RequestsPending'
  <2>1. client'[c].pc \notin {"save", "apply"}
    BY <1>1, <1>8 DEF ReadRow, AllOps
  <2>2. QED
    BY <1>1, <1>4, <1>8, <2>1 DEF ReadRow
<1>9. CASE ReadNodes(c)
  <2> DEFINE s == [client[c].snap EXCEPT !.nodes = db.val.nodes, !.disks = db.val.disks]
  <2>1. s \in Snapshot
    BY <1>1 DEF TypeOK, Requests, Rows, Snapshot
  <2>2. PICK t \in Requested(client[c].op, s) :
          client' = [client EXCEPT ![c].pc = "save", ![c].snap = t]
    BY <1>9 DEF ReadNodes
  <2> HIDE DEF s
  <2>3. t.status \in Asked
    BY <2>1, RequestedType
  <2>4. client'[c].snap = t
    BY <1>1, <2>2 DEF Requests
  <2>5. QED
    BY <1>1, <1>4, <1>9, <2>2, <2>3, <2>4 DEF ReadNodes
<1>10. CASE ClientSave(c)
  <2>1. CASE client' = [client EXCEPT ![c].pc = "apply"]
    <3>1. client'[c].snap = client[c].snap /\ client[c].pc = "save"
      BY <1>1, <1>10, <2>1 DEF ClientSave, Requests
    <3>2. client[c].snap.status \in Asked
      BY <3>1 DEF HandlerInv, RequestsPending
    <3>3. QED
      BY <1>1, <1>4, <1>10, <2>1, <3>1, <3>2 DEF ClientSave
  <2>2. QED
    BY <1>7, <1>10, <2>1 DEF ClientSave
<1>11. CASE Apply(c)
  <2>1. \A i \in DOMAIN queue' : queue'[i].status \in Asked
    <3>1. client[c].snap.status \in Asked /\ client[c].snap \in Snapshot
      BY <1>1, <1>11 DEF Apply, HandlerInv, RequestsPending, Requests
    <3>2. \A i \in DOMAIN queue : queue[i].status \in Asked
      BY DEF HandlerInv, RequestsPending
    <3>3. CASE queue' = Append(queue, client[c].snap)
      BY <1>1, <3>1, <3>2, <3>3, AppendItems
    <3>4. CASE queue' = queue
      BY <3>2, <3>4
    <3>5. QED
      BY <1>11, <3>3, <3>4 DEF Apply
  <2>2. \A d \in Clients : client'[d] = client[d] \/ client'[d] = Idle
    BY <1>1, <1>11 DEF Apply
  <2>3. QED
    BY <1>5, <2>1, <2>2 DEF HandlerInv, RequestsPending
<1>12. CASE Create(c)
  BY <1>6, <1>12 DEF Create
<1>13. CASE Delete(c) \/ Update(c) \/ GiveUp(c)
  BY <1>7, <1>13 DEF Delete, Update, GiveUp
<1>14. QED
  BY <1>8, <1>9, <1>10, <1>11, <1>12, <1>13 DEF Request

(* A worker at rest, whatever becomes of the row.                           *)
LEMMA RestInv ==
    ASSUME HandlerInv, worker'.ev = Nothing, worker'.pc \in {"idle", "failed"},
           \/ UNCHANGED <<queue, client>>
           \/ queue' = <<>> /\ client' = [c \in Clients |-> Idle]
    PROVE  HandlerInv'
<1>1. Idle.pc = "idle" /\ Nothing.status = "UNSPECIFIED"
  BY DEF Idle, Nothing
<1>2. RequestsPending'
  BY <1>1 DEF HandlerInv, RequestsPending
<1>3. QED
  BY <1>1, <1>2 DEF HandlerInv, Installing, Resetting

(* Every step keeps the handler's invariant.                                *)
LEMMA NextInv == TypeOK /\ HandlerInv /\ [Next]_vars => HandlerInv'
<1> SUFFICES ASSUME TypeOK, HandlerInv, [Next]_vars PROVE HandlerInv'
  OBVIOUS
<1>1. ASSUME NEW c \in Clients, Request(c) PROVE HandlerInv'
  BY <1>1, RequestInv
<1>2. CASE Receive
  <2>1. queue \in Seq(Snapshot) /\ queue # <<>>
    BY <1>2 DEF TypeOK, Receive
  <2>2. Head(queue) = queue[1] /\ 1 \in DOMAIN queue
    BY <2>1
  <2>3. Head(queue).status \in {"STARTING", "STOPPING"}
    BY <2>2 DEF HandlerInv, RequestsPending
  <2>4. \A i \in DOMAIN queue' : i + 1 \in DOMAIN queue /\ queue'[i] = queue[i + 1]
    BY <1>2, <2>1 DEF Receive
  <2>5. RequestsPending'
    BY <1>2, <2>4 DEF Receive, HandlerInv, RequestsPending
  <2>6. /\ worker'.ev = Head(queue)
        /\ worker'.pc = IF Head(queue).status = "STOPPING" THEN "stopping" ELSE "check"
    BY <1>2 DEF Receive, Resting
  <2>7. Installing' /\ Resetting'
    BY <2>3, <2>6 DEF Installing, Resetting
  <2>8. QED
    BY <2>5, <2>7 DEF HandlerInv
<1>3. CASE Handler /\ ~WorkerSave
  BY <1>3, HandlerStepInv
<1>4. CASE WorkerSave \/ Shutdown \/ Crash
  BY <1>4, RestInv DEF WorkerSave, Shutdown, Crash, Ends, Resting
<1>5. CASE Boot
  <2>1. UNCHANGED <<client, worker, machine>>
    BY <1>5 DEF Boot
  <2>2. Installing' /\ Resetting'
    BY <2>1 DEF HandlerInv, Installing, Resetting, AllAre
  <2>3. CASE UNCHANGED queue
    BY <2>1, <2>2, <2>3 DEF HandlerInv, RequestsPending
  <2>4. CASE \E s \in Snapshot : \E t \in Requested("start", s) : queue' = <<t>>
    <3>1. PICK s \in Snapshot : \E t \in Requested("start", s) : queue' = <<t>>
      BY <2>4
    <3>2. PICK t \in Requested("start", s) : queue' = <<t>>
      BY <3>1
    <3>3. t.status \in {"STARTING", "STOPPING"}
      BY <3>1, <3>2, RequestedType
    <3>4. QED
      BY <2>1, <2>2, <3>2, <3>3 DEF HandlerInv, RequestsPending
  <2>5. QED
    <3>1. db.val \in Snapshot
      BY DEF TypeOK, Rows
    <3>2. \A r \in Ranges : [Nothing EXCEPT !.range = r] \in Snapshot
      BY NothingType, MachineAssumption DEF Snapshot
    <3>3. QED
      BY <1>5, <2>3, <2>4, <3>1, <3>2 DEF Boot
<1>6. CASE KubeChange \/ UNCHANGED vars
  BY <1>6 DEF KubeChange, vars, HandlerInv, RequestsPending, Installing, Resetting, AllAre
<1>7. QED
  BY <1>1, <1>2, <1>3, <1>4, <1>5, <1>6 DEF Next, Handler

(* The handler does its work in order: every event is a start or a stop; on *)
(* the way from the installation of the master to the final save the        *)
(* machines of the nodes that are done have joined; on the way from the     *)
(* scripts of a stop to its save those done are reset.                      *)
THEOREM HandlerCorrect == Spec => []HandlerInv
<1>1. Init => HandlerInv
  BY DEF Init, HandlerInv, RequestsPending, Installing, Resetting, Resting, Nothing, Idle
<1>2. QED
  BY <1>1, NextInv, TypeCorrect, PTL DEF Spec

(* Only the save at the end of a handler turns the row RUNNING: the others  *)
(* write a start, a stop or a new cluster.                                  *)
LEMMA OthersNeverRun ==
    ASSUME TypeOK, HandlerInv, Next, ~WorkerSave, db'.val.status = "RUNNING"
    PROVE  db.val.status = "RUNNING"
<1>1. db \in Rows /\ db.val \in Snapshot /\ Nothing \in Snapshot
  BY NothingType DEF TypeOK, Rows
<1>2. ASSUME NEW s \in Snapshot, db' = Saved(db, s), s.status # "RUNNING"
      PROVE  db.val.status = "RUNNING"
  BY <1>1, <1>2, SavedType
<1>3. CASE UNCHANGED db
  BY <1>3
<1>4. ASSUME NEW c \in Clients, Request(c) PROVE db.val.status = "RUNNING"
  <2>1. CASE Create(c) \/ Delete(c)
    <3>1. \A r : [Nothing EXCEPT !.status = "CREATING", !.range = r].status = "CREATING"
      BY DEF Nothing
    <3>2. Create(c) => db'.val.status = "CREATING"
      <4> SUFFICES ASSUME Create(c) PROVE db'.val.status = "CREATING"
        OBVIOUS
      <4>1. PICK r \in Ranges : db' = [row |-> "live", val |->
                      [Nothing EXCEPT !.status = "CREATING", !.range = r]]
        BY DEF Create
      <4>2. QED
        BY <3>1, <4>1
    <3>3. Delete(c) => db'.val.status = "UNSPECIFIED"
      BY DEF Delete, Nothing
    <3>4. QED
      BY <2>1, <3>2, <3>3
  <2>2. CASE ClientSave(c)
    <3>1. client[c].snap \in Snapshot /\ client[c].snap.status # "RUNNING"
      BY <2>2 DEF ClientSave, TypeOK, Requests, HandlerInv, RequestsPending
    <3>2. QED
      BY <1>2, <1>3, <2>2, <3>1 DEF ClientSave
  <2>3. CASE Update(c)
    <3>1. PICK r \in Ranges :
            db' = Saved(db, [Nothing EXCEPT !.status = "CREATING", !.range = r])
      BY <2>3 DEF Update
    <3>2. LET s == [Nothing EXCEPT !.status = "CREATING", !.range = r]
          IN  s \in Snapshot /\ s.status = "CREATING"
      BY <1>1, MachineAssumption DEF Snapshot, ClusterStatus
    <3>3. QED
      BY <1>2, <3>1, <3>2
  <2>4. CASE (\E op \in AllOps : ReadRow(c, op)) \/ ReadNodes(c) \/ Apply(c) \/ GiveUp(c)
    BY <1>3, <2>4 DEF ReadRow, ReadNodes, Apply, GiveUp
  <2>5. QED
    BY <1>4, <2>1, <2>2, <2>3, <2>4 DEF Request
<1>5. CASE Handler
  BY <1>3, <1>5 DEF Handler, StopReload, HandlerNode, HandlerNodesDone, UnInstall, UnInstallDone,
       ClusterIsExist, Probe, ProbePanics, LocalInstall, Reload, Install, JoinCluster,
       JoinDone, RuntimeInstall, Handling
<1>6. CASE Receive \/ Shutdown \/ Crash \/ KubeChange
  BY <1>3, <1>6 DEF Receive, Shutdown, Crash, KubeChange
<1>7. CASE Boot
  <2>1. CASE \E s \in Snapshot : \E t \in Requested("start", s) :
               db' = Saved([row |-> "live", val |-> s], t)
    <3>1. PICK s \in Snapshot : \E t \in Requested("start", s) :
               db' = Saved([row |-> "live", val |-> s], t)
      BY <2>1
    <3>2. PICK t \in Requested("start", s) : db' = Saved([row |-> "live", val |-> s], t)
      BY <3>1
    <3>3. t \in Snapshot /\ t.status # "RUNNING"
      BY <3>2, RequestedType
    <3>4. [row |-> "live", val |-> s] \in Rows
      BY DEF Rows
    <3>5. db'.val.status = t.status
      BY <3>2, <3>3, <3>4, SavedType
    <3>6. QED
      BY <3>3, <3>5
  <2>2. QED
    <3>1. \A r \in Ranges : [Nothing EXCEPT !.range = r] \in Snapshot
      BY <1>1, MachineAssumption DEF Snapshot
    <3>2. QED
      BY <1>1, <1>3, <1>7, <2>1, <3>1 DEF Boot
<1>8. QED
  BY <1>4, <1>5, <1>6, <1>7 DEF Next

(* What the final save finds and stores.                                    *)
LEMMA FinalSave ==
    ASSUME TypeOK, HandlerInv, WorkerSave, worker.err # "error"
    PROVE  /\ db' = db \/ db' = Saved(db, worker.ev)
           /\ Saved(db, worker.ev).val.nodes = worker.ev.nodes
           /\ db.row = "live" => Saved(db, worker.ev).val.status = worker.ev.status
           /\ db.row # "live" => Saved(db, worker.ev).val.status = db.val.status
BY SavedType DEF TypeOK, Handlers, WorkerSave

(* The row turns RUNNING only when every machine of it has joined, with a   *)
(* master among them.                                                       *)
THEOREM RunningMeansInstalled == Spec => RunningOnlyAfterInstall
<1> DEFINE A == (db'.val.status = "RUNNING" /\ db.val.status # "RUNNING")
         => /\ worker.pc = "save" /\ worker.err = "none"
            /\ Masters(db'.val.nodes) # {}
            /\ \A ip \in Present(db'.val.nodes) : machine[ip] = "joined"
<1>1. TypeOK /\ HandlerInv /\ [Next]_vars => [A]_vars
  <2> SUFFICES ASSUME TypeOK, HandlerInv, Next, db'.val.status = "RUNNING",
                      db.val.status # "RUNNING"
               PROVE  A
    OBVIOUS
  <2>1. WorkerSave /\ db' # db
    BY OthersNeverRun
  <2>2. worker.err # "error"
    <3> SUFFICES ASSUME worker.err = "error" PROVE FALSE
      OBVIOUS
    <3> DEFINE s == [worker.ev EXCEPT !.status = "ERROR"]
    <3>1. s \in Snapshot /\ s.status = "ERROR"
      BY WithStatusType DEF TypeOK, Handlers, Snapshot, ClusterStatus
    <3>2. db' = Saved(db, s)
      BY <2>1 DEF WorkerSave
    <3> HIDE DEF s
    <3>3. QED
      BY <3>1, <3>2, SavedType DEF TypeOK
  <2>3. db' = Saved(db, worker.ev) /\ worker.ev.status = "RUNNING"
    BY <2>1, <2>2, FinalSave
  <2>4. db'.val.nodes = worker.ev.nodes
    BY <2>1, <2>2, <2>3, FinalSave
  <2>5. QED
    BY <2>3, <2>4 DEF HandlerInv, Installing, AllAre
<1> HIDE DEF A
<1>2. QED
  BY <1>1, TypeCorrect, HandlerCorrect, PTL DEF Spec, RunningOnlyAfterInstall, A

(* When the worker stores the end of a stop, every machine of the row is    *)
(* reset and its node marked DELETED.                                       *)
THEOREM StopIsComplete == Spec => StopResetsMachines
<1> DEFINE A == (worker.pc = "save" /\ worker'.pc # "save" /\ worker.err = "none"
                   /\ worker.ev.status = "STOPPING" /\ last' = "worker")
         => \A ip \in Present(db'.val.nodes) :
              machine[ip] = "clean" /\ db'.val.nodes[ip].status = "DELETED"
<1>1. TypeOK /\ HandlerInv /\ [Next]_vars => [A]_vars
  <2> SUFFICES ASSUME TypeOK, HandlerInv, Next, worker.pc = "save", worker'.pc # "save",
                      worker.err = "none", worker.ev.status = "STOPPING", last' = "worker"
               PROVE  \A ip \in Present(db'.val.nodes) :
                        machine[ip] = "clean" /\ db'.val.nodes[ip].status = "DELETED"
    OBVIOUS
  <2>1. WorkerSave
    <3>1. ASSUME NEW c \in Clients, Request(c) PROVE worker' = worker
      BY <3>1 DEF Request, Create, ReadRow, ReadNodes, ClientSave, Apply, Delete, Update, GiveUp
    <3>2. Handler => WorkerSave \/ worker.pc # "save"
      BY DEF Handler, StopReload, HandlerNode, HandlerNodesDone, UnInstall, UnInstallDone,
         ClusterIsExist, Probe, ProbePanics, LocalInstall, Reload, Install, JoinCluster,
         JoinDone, RuntimeInstall, Handling
    <3>3. Receive \/ Shutdown => worker.pc # "save"
      BY DEF Receive, Shutdown
    <3>4. Crash => last' = "lost"
      BY DEF Crash, Ends
    <3>5. Boot \/ KubeChange => worker' = worker
      BY DEF Boot, KubeChange
    <3>6. QED
      BY <3>1, <3>2, <3>3, <3>4, <3>5 DEF Next
  <2>2. db' = Saved(db, worker.ev)
    BY <2>1 DEF WorkerSave
  <2>3. db'.val.nodes = worker.ev.nodes
    BY <2>1, <2>2, FinalSave
  <2>4. QED
    BY <2>3 DEF HandlerInv, Resetting, AllAre
<1> HIDE DEF A
<1>2. QED
  BY <1>1, TypeCorrect, HandlerCorrect, PTL DEF Spec, StopResetsMachines, A

-----------------------------------------------------------------------------
(* One operator, who starts and stops the cluster and waits for the worker  *)
(* before each request.  Scripts, probes and Kubernetes may fail; the       *)
(* process is not killed and the database answers; and the probes report    *)
(* at most one disk, as a second one makes every save fail.                 *)
Careful ==
    /\ Patient /\ \A c, d \in Clients : c = d
    /\ Ops \subseteq {"start", "stop"}
    /\ Faults \subseteq {"kube", "script", "probe"}
    /\ MaxDisks <= 1

Handled == worker.pc \notin {"idle", "failed"}

(* Nodes that account for the machines: each master is a node, and each     *)
(* machine that joined is one that a probe reached, which no later probe    *)
(* removes.                                                                 *)
KeptOf(n, made) ==
    /\ Masters(n) \subseteq Present(n)
    /\ \A ip \in Ips : made[ip] = "joined" => ip \in Present(n) /\ n[ip].grouped
Kept(n) == KeptOf(n, machine)

(* A start knows every machine of its range.                                *)
Ready(s) == s.status = "STARTING" => s.range \subseteq Present(s.nodes)

(* Request, queue and worker take turns, and there is a row for them.       *)
InTurn ==
    /\ \A c \in Clients : client[c].pc \in {"idle", "readNodes", "save", "apply"}
    /\ (\E c \in Clients : client[c].pc # "idle") => queue = <<>> /\ worker.pc = "idle"
    /\ queue # <<>> => Len(queue) = 1 /\ worker.pc = "idle"
    /\ db.row \in {"none", "live"}
    /\ db.row = "none" =>
         /\ queue = <<>> /\ worker.pc = "idle" /\ \A c \in Clients : client[c].pc = "idle"
         /\ AllAre(Ips, "clean")

(* What a request has stored is what it hands on.                           *)
Handed(s) ==
    /\ s.nodes = db.val.nodes /\ s.disks = 0 /\ db.val.disks = 0
    /\ Ready(s) /\ last = "request"

Asked(s) == Kept(s.nodes) /\ Ready(s) /\ s.disks = db.val.disks

HandedOn ==
    /\ \A c \in Clients : client[c].pc = "save" => Asked(client[c].snap)
    /\ \A c \in Clients : client[c].pc = "apply" => Handed(client[c].snap)
    /\ \A i \in DOMAIN queue : Handed(queue[i])

(* The copy that is current accounts for the machines; that of the handler  *)
(* has no node that the row does not have, and can be saved.                *)
Current ==
    /\ ~Handled => Kept(db.val.nodes)
    /\ Handled =>
         /\ Kept(worker.ev.nodes) /\ Present(worker.ev.nodes) \subseteq Present(db.val.nodes)
         /\ db.val.disks = 0 /\ worker.ev.disks \in {0, 1} /\ last = "request"

(* What the steps of the handler leave to the next.                         *)
Prepared ==
    /\ worker.pc \in {"check", "notInstalled", "scale"} => worker.ev.disks = 0
    /\ worker.pc = "check" => worker.ev.range \subseteq Present(worker.ev.nodes)
    /\ worker.pc \in {"reload", "install", "join"} => Ungrouped(worker.ev.nodes) = {}
    /\ worker.pc = "stopping" => worker.ev.status = "STOPPING"
    /\ worker.pc \in {"handlerNodes", "unInstall", "join"} =>
         worker.todo \subseteq Present(worker.ev.nodes)
    /\ worker.pc = "handlerNodes" =>
         IF worker.ev.status = "STOPPING" THEN worker.todo \subseteq InStatus(worker.ev.nodes, "DELETING")
         ELSE Ungrouped(worker.ev.nodes) = {}

Stopped == last = "worker" /\ db.val.status = "STOPPING" => AllAre(Ips, "clean")

OperatorInv == InTurn /\ HandedOn /\ Current /\ Prepared /\ Stopped

-----------------------------------------------------------------------------
(* What the operators on nodes keep.                                        *)

Alike(n, m) ==
    /\ Present(m) = Present(n) /\ Masters(m) = Masters(n)
    /\ \A ip \in Ips : m[ip].grouped = n[ip].grouped

(* Another status than none changes neither nodes, masters nor groups.      *)
LEMMA StatusAlike ==
    ASSUME NEW n \in NodesT, NEW from \in NodeStatus \ {"none"},
           NEW to \in NodeStatus \ {"none"}, NEW S \in SUBSET Present(n)
    PROVE  Alike(n, SetNodeStatusFromTo(n, from, to)) /\ Alike(n, SetNodeStatus(n, S, to))
BY DEF Alike, Present, Masters, SetNodeStatusFromTo, SetNodeStatus, NodesT, Node

(* Two changes of status in a row.                                          *)
LEMMA AlikeTwice ==
    ASSUME NEW n, NEW m, NEW k, Alike(n, m), Alike(m, k) PROVE Alike(n, k)
BY DEF Alike

(* Nodes that are alike account for the same machines.                      *)
LEMMA AlikeKept ==
    ASSUME NEW n, NEW m, NEW made, Alike(n, m), KeptOf(n, made)
    PROVE  KeptOf(m, made) /\ Ungrouped(m) = Ungrouped(n)
BY DEF Alike, KeptOf, Ungrouped, Present

(* SetBareMetalNode adds the nodes of the range, and makes none but a node  *)
(* a master.                                                                *)
LEMMA BareMetalAdds ==
    ASSUME NEW s \in Snapshot, Masters(s.nodes) \subseteq Present(s.nodes),
           NEW t \in SetBareMetalNode(s)
    PROVE  /\ Present(t.nodes) = Present(s.nodes) \cup s.range
           /\ Masters(t.nodes) \subseteq Present(t.nodes)
           /\ \A ip \in Present(s.nodes) : t.nodes[ip].grouped = s.nodes[ip].grouped
           /\ t.range = s.range /\ t.disks = s.disks
<1> DEFINE grown  == [ip \in Ips |-> IF ip \in s.range \ Present(s.nodes)
                                     THEN NewNode ELSE s.nodes[ip]]
           firsts == IF Present(s.nodes) # {} THEN Present(s.nodes) ELSE s.range
           chosen == IF Masters(grown) # {} THEN {grown}
                     ELSE {[grown EXCEPT ![m].master = TRUE] : m \in firsts}
           Good(n) == /\ n \in NodesT
                      /\ Present(n) = Present(s.nodes) \cup s.range
                      /\ Masters(n) \subseteq Present(n)
                      /\ \A ip \in Present(s.nodes) : n[ip].grouped = s.nodes[ip].grouped
<1>1. s.nodes \in NodesT /\ s.range \subseteq Ips
  BY DEF Snapshot, NodesT
<1>2. grown \in NodesT
  BY GrownType
<1>3. Present(grown) = Present(s.nodes) \cup s.range
  BY <1>1 DEF Present, NewNode
<1>4. Masters(grown) \subseteq Masters(s.nodes)
  BY DEF Masters, NewNode
<1>5. \A ip \in Present(s.nodes) : grown[ip] = s.nodes[ip]
  BY DEF Present
<1>6. Good(grown)
  BY <1>2, <1>3, <1>4, <1>5
<1>7. firsts \subseteq Present(grown)
  BY <1>3
<1> HIDE DEF grown, firsts
<1>8. ASSUME NEW m \in firsts PROVE Good([grown EXCEPT ![m].master = TRUE])
  <2>1. m \in Ips /\ m \in Present(grown)
    BY <1>7 DEF Present
  <2>2. [grown EXCEPT ![m].master = TRUE] \in NodesT
    BY <1>2, <2>1, PromoteType
  <2>3. Present([grown EXCEPT ![m].master = TRUE]) = Present(grown)
    BY <1>2, <2>1 DEF Present, NodesT, Node
  <2>4. Masters([grown EXCEPT ![m].master = TRUE]) \subseteq Masters(grown) \cup {m}
    BY <1>2, <2>1 DEF Masters, NodesT, Node
  <2>5. \A ip \in Ips : [grown EXCEPT ![m].master = TRUE][ip].grouped = grown[ip].grouped
    BY <1>2, <2>1 DEF NodesT, Node
  <2>6. Present(s.nodes) \subseteq Ips
    BY DEF Present
  <2>7. QED
    BY <1>6, <2>1, <2>2, <2>3, <2>4, <2>5, <2>6
<1> HIDE DEF Good
<1>9. \A n \in chosen : Good(n)
  BY <1>6, <1>8
<1> HIDE DEF chosen
<1>10. PICK n \in chosen :
        t = [s EXCEPT !.nodes = SetNodeStatus(n, Present(n) \ s.range, "DELETING")]
  BY DEF SetBareMetalNode, chosen, grown, firsts
<1>11. /\ t.nodes = SetNodeStatus(n, Present(n) \ s.range, "DELETING")
       /\ t.range = s.range /\ t.disks = s.disks
  BY <1>10 DEF Snapshot
<1>12. Good(n)
  BY <1>9
<1>13. Alike(n, t.nodes)
  BY <1>11, <1>12, StatusAlike DEF Good, NodeStatus
<1>14. QED
  BY <1>1, <1>11, <1>12, <1>13 DEF Good, Alike, Present

(* A copy that accounts for the machines still does after SetBareMetalNode. *)
LEMMA BareMetalKept ==
    ASSUME NEW s \in Snapshot, NEW made, KeptOf(s.nodes, made), NEW t \in SetBareMetalNode(s)
    PROVE  KeptOf(t.nodes, made)
BY BareMetalAdds DEF KeptOf

(* What a start or a stop makes of a copy that accounts for the machines.   *)
LEMMA RequestedKept ==
    ASSUME NEW s \in Snapshot, Kept(s.nodes), NEW op, NEW t \in Requested(op, s)
    PROVE  Kept(t.nodes) /\ Ready(t) /\ t.disks = s.disks
<1>1. CASE op = "start"
  <2>1. PICK u \in SetBareMetalNode(s) : t = [u EXCEPT !.status = "STARTING"]
    BY <1>1 DEF Requested
  <2>2. u \in Snapshot
    BY BareMetalType
  <2>3. t.nodes = u.nodes /\ t.range = u.range /\ t.disks = u.disks
    BY <2>1, <2>2 DEF Snapshot
  <2>4. KeptOf(u.nodes, machine) /\ u.range \subseteq Present(u.nodes) /\ u.disks = s.disks
    <3>1. KeptOf(s.nodes, machine) /\ Masters(s.nodes) \subseteq Present(s.nodes)
      BY DEF Kept, KeptOf
    <3>2. KeptOf(u.nodes, machine)
      BY <3>1, BareMetalKept
    <3>3. u.range \subseteq Present(u.nodes) /\ u.disks = s.disks
      BY <3>1, BareMetalAdds
    <3>4. QED
      BY <3>2, <3>3
  <2>5. QED
    BY <2>3, <2>4 DEF Kept, Ready
<1>2. CASE op # "start"
  BY <1>2 DEF Requested, Snapshot, Ready
<1>3. QED
  BY <1>1, <1>2

(* A probe removes only nodes that it did not reach, and of those only      *)
(* nodes that never had a group.                                            *)
LEMMA ProbeKept ==
    ASSUME NEW n \in NodesT, NEW made, KeptOf(n, made), NEW reached,
           NEW gone \in SUBSET Ungrouped(Probed(n, reached))
    PROVE  LET m == Without(Probed(n, reached), gone)
           IN  /\ m \in NodesT /\ KeptOf(m, made) /\ Present(m) \subseteq Present(n)
               /\ gone = Ungrouped(Probed(n, reached)) => Ungrouped(m) = {}
<1> DEFINE p == Probed(n, reached)
           m == Without(p, gone)
<1>1. p \in NodesT /\ Present(p) = Present(n) /\ Masters(p) = Masters(n)
      /\ \A ip \in Ips : n[ip].grouped => p[ip].grouped
  BY DEF Probed, NodesT, Node, Present, Masters
<1>2. \A ip \in Ips : ip \in gone => ip \in Present(n) /\ ~n[ip].grouped
  BY <1>1 DEF Ungrouped
<1> HIDE DEF p
<1>3. m \in NodesT
  BY <1>1 DEF Without, NodesT, NoNode, Node, NodeStatus
<1>4. Present(m) = Present(p) \ gone /\ Masters(m) = Masters(p) \ gone
  BY <1>1 DEF Without, Present, Masters, NoNode, NodesT, Node
<1>5. \A ip \in Ips \ gone : m[ip] = p[ip]
  BY DEF Without
<1> HIDE DEF m
<1>6. KeptOf(m, made)
  BY <1>1, <1>2, <1>4, <1>5 DEF KeptOf
<1>7. gone = Ungrouped(p) => Ungrouped(m) = {}
  BY <1>4, <1>5 DEF Ungrouped, Present
<1>8. QED
  BY <1>1, <1>3, <1>4, <1>6, <1>7 DEF p, m

-----------------------------------------------------------------------------
(* The handler.                                                             *)

(* A step of the handler that goes on with a copy which accounts for the    *)
(* machines, and is ready for the next step.                                *)
LEMMA Onward ==
    ASSUME OperatorInv, Handled, UNCHANGED <<db, queue, client, last>>, Handled',
           KeptOf(worker'.ev.nodes, machine'),
           Present(worker'.ev.nodes) \subseteq Present(worker.ev.nodes),
           worker'.ev.disks \in {0, 1}, Prepared'
    PROVE  OperatorInv'
<1>1. /\ queue = <<>> /\ \A c \in Clients : client[c].pc = "idle"
      /\ db.row = "live" /\ last = "request"
  BY DEF OperatorInv, InTurn, Current, Handled
<1>2. InTurn' /\ HandedOn' /\ Stopped'
  BY <1>1 DEF InTurn, HandedOn, Stopped
<1>3. Current'
  BY <1>1 DEF OperatorInv, Current, Kept
<1>4. QED
  BY <1>2, <1>3 DEF OperatorInv

(* A script leaves the machines accounted for, if the one it joins was      *)
(* reached by a probe.                                                      *)
LEMMA ScriptKept ==
    ASSUME TypeOK, NEW n, Kept(n), NEW ip \in Present(n), NEW effect \in {"clean", "joined"},
           effect = "joined" => n[ip].grouped, Script(ip, effect)
    PROVE  KeptOf(n, machine')
<1>1. machine \in [Ips -> {"clean", "joined"}] /\ ip \in Ips
  BY DEF TypeOK, Present
<1>2. machine' \in {machine, [machine EXCEPT ![ip] = effect]}
  BY DEF Script
<1>3. QED
  BY <1>1, <1>2 DEF Kept, KeptOf

(* A script as a step of the handler.                                       *)
LEMMA ScriptOnward ==
    ASSUME TypeOK, OperatorInv, UNCHANGED <<db, queue, client, last>>,
           worker.pc \in {"handlerNodes", "unInstall", "join"},
           NEW ip \in Present(worker.ev.nodes), NEW effect \in {"clean", "joined"},
           effect = "joined" => worker.ev.nodes[ip].grouped, Script(ip, effect)
    PROVE  OperatorInv'
<1>1. Handled /\ Kept(worker.ev.nodes) /\ worker.ev.disks \in {0, 1} /\ Prepared
  BY DEF Handled, OperatorInv, Current
<1>2. KeptOf(worker.ev.nodes, machine')
  BY <1>1, ScriptKept
<1>3. ip \in Ips
  BY DEF Present
<1>4. /\ worker'.ev = worker.ev
      /\ \/ worker'.pc = "save"
         \/ worker'.pc = worker.pc /\ worker'.todo = worker.todo \ {ip}
  BY <1>3, ScriptEffect
<1>5. Handled' /\ Prepared'
  BY <1>1, <1>4 DEF Handled, Prepared
<1>6. QED
  BY <1>1, <1>2, <1>4, <1>5, Onward

(* A step to the end of the handler with the nodes it has, or the same in   *)
(* another status.                                                          *)
LEMMA ToSave ==
    ASSUME OperatorInv, Handled, UNCHANGED <<db, queue, client, last, machine>>,
           worker'.pc = "save", Alike(worker.ev.nodes, worker'.ev.nodes),
           worker'.ev.disks = worker.ev.disks
    PROVE  OperatorInv'
<1>1. KeptOf(worker.ev.nodes, machine) /\ worker.ev.disks \in {0, 1}
  BY DEF OperatorInv, Current, Kept
<1>2. KeptOf(worker'.ev.nodes, machine')
  BY <1>1, AlikeKept
<1>3. Handled' /\ Prepared'
  BY DEF Handled, Prepared
<1>4. QED
  BY <1>1, <1>2, <1>3, Onward DEF Alike

(* The result of a handler that returns at once.                            *)
LEMMA ReturnSave ==
    ASSUME TypeOK, OperatorInv, Handled, UNCHANGED <<db, queue, client, last, machine>>,
           NEW err, Return(err)
    PROVE  OperatorInv'
BY ReturnEffect, ToSave DEF Alike

(* Going on with the same nodes in another status.                          *)
LEMMA GotoOnward ==
    ASSUME TypeOK, OperatorInv, Handled, UNCHANGED <<db, queue, client, last, machine>>,
           NEW pc \in {"handlerNodes", "unInstall", "runtime"}, NEW n, Alike(worker.ev.nodes, n),
           NEW todo, Goto(pc, n, todo),
           todo \subseteq Present(n),
           pc = "handlerNodes" =>
             IF worker.ev.status = "STOPPING" THEN todo \subseteq InStatus(n, "DELETING")
             ELSE Ungrouped(n) = {}
    PROVE  OperatorInv'
<1>1. KeptOf(worker.ev.nodes, machine) /\ worker.ev.disks \in {0, 1}
  BY DEF OperatorInv, Current, Kept
<1>2. /\ worker'.pc = pc /\ worker'.ev.nodes = n /\ worker'.todo = todo
      /\ worker'.ev.status = worker.ev.status
  BY GotoEffect
<1>3. worker'.ev.disks = worker.ev.disks
  BY DEF Goto, TypeOK, Handlers, Snapshot
<1>4. KeptOf(worker'.ev.nodes, machine')
  BY <1>1, <1>2, AlikeKept
<1>5. Handled' /\ Prepared'
  BY <1>2 DEF Handled, Prepared
<1>6. QED
  BY <1>1, <1>2, <1>3, <1>4, <1>5, Onward DEF Alike

(* What a probe finds leaves a copy that can be saved and accounts for the  *)
(* machines.                                                                *)
LEMMA FindingsKept ==
    ASSUME TypeOK, Careful, OperatorInv, worker.pc \in {"notInstalled", "scale"},
           NEW f \in Findings(worker.ev.nodes),
           NEW gone \in SUBSET Ungrouped(Probed(worker.ev.nodes, f.reached))
    PROVE  LET s == AfterProbe(f, gone)
           IN  /\ s \in Snapshot /\ KeptOf(s.nodes, machine) /\ s.disks \in {0, 1}
               /\ Present(s.nodes) \subseteq Present(worker.ev.nodes)
               /\ gone = Ungrouped(Probed(worker.ev.nodes, f.reached)) => Ungrouped(s.nodes) = {}
<1> DEFINE n == worker.ev.nodes
           m == Without(Probed(n, f.reached), gone)
<1>1. worker \in Handlers /\ worker.ev \in Snapshot /\ n \in NodesT /\ KeptOf(n, machine)
      /\ worker.ev.disks = 0
  BY FieldsType DEF TypeOK, OperatorInv, Current, Handled, Prepared, Kept
<1>2. AfterProbe(f, gone) \in Snapshot
  BY <1>1, AfterProbeType
<1>3. f.found \in {0, 1}
  BY BoundAssumption DEF Findings, Careful
<1>4. AfterProbe(f, gone).nodes = m /\ AfterProbe(f, gone).disks = f.found
  BY <1>1, <1>3 DEF AfterProbe, Snapshot
<1>5. /\ KeptOf(m, machine) /\ Present(m) \subseteq Present(n)
      /\ gone = Ungrouped(Probed(n, f.reached)) => Ungrouped(m) = {}
  BY <1>1, ProbeKept
<1> HIDE DEF m
<1>6. QED
  BY <1>2, <1>3, <1>4, <1>5

(* Every step of the handler but the save keeps its copy in order.          *)
LEMMA HandlerStepKept ==
    ASSUME TypeOK, HandlerInv, Careful, OperatorInv, Handler, ~WorkerSave PROVE OperatorInv'
<1> DEFINE nodes == worker.ev.nodes
<1>1. worker \in Handlers /\ worker.ev \in Snapshot /\ nodes \in NodesT
  BY FieldsType DEF TypeOK
<1>2. UNCHANGED <<db, queue, client, last>>
  BY DEF Handler, StopReload, HandlerNode, HandlerNodesDone, UnInstall, UnInstallDone,
         ClusterIsExist, Probe, ProbePanics, LocalInstall, Reload, Install, JoinCluster,
         JoinDone, RuntimeInstall, Handling
<1>3. Handled
  BY DEF Handler, StopReload, HandlerNode, HandlerNodesDone, UnInstall, UnInstallDone,
         ClusterIsExist, Probe, ProbePanics, LocalInstall, Reload, Install, JoinCluster,
         JoinDone, RuntimeInstall, Handling, Handled
<1>4. /\ KeptOf(nodes, machine) /\ worker.ev.disks \in {0, 1} /\ Prepared
      /\ \A ip \in Ips : ip \in Masters(nodes) => ip \in Present(nodes)
  BY <1>3 DEF OperatorInv, Current, Kept, KeptOf
<1>5. CASE StopReload
  <2> DEFINE n == SetNodeStatus(nodes, {ip \in Present(nodes) :
                                         nodes[ip].status # "DELETED"}, "DELETING")
  <2>1. Alike(nodes, n)
    BY <1>1, StatusAlike DEF NodeStatus
  <2>2. worker.ev.status = "STOPPING"
    BY <1>5 DEF StopReload, Handling, OperatorInv, Prepared
  <2>3. UNCHANGED machine
    BY <1>5 DEF StopReload
  <2>4. \/ Goto("handlerNodes", n, InStatus(n, "DELETING"))
        \/ worker' = [worker EXCEPT !.pc = "save", !.ev.nodes = n, !.err = "error"]
    BY <1>5 DEF StopReload
  <2>5. InStatus(n, "DELETING") \subseteq Present(n)
    BY DEF InStatus, Present
  <2> HIDE DEF n
  <2>6. CASE Goto("handlerNodes", n, InStatus(n, "DELETING"))
    BY <1>2, <1>3, <2>1, <2>2, <2>3, <2>5, <2>6, GotoOnward
  <2>7. CASE worker' = [worker EXCEPT !.pc = "save", !.ev.nodes = n, !.err = "error"]
    <3>1. worker'.pc = "save" /\ worker'.ev.nodes = n /\ worker'.ev.disks = worker.ev.disks
      BY <1>1, <2>7 DEF Handlers, Snapshot
    <3>2. QED
      BY <1>2, <1>3, <2>1, <2>3, <3>1, ToSave
  <2>8. QED
    BY <2>4, <2>6, <2>7
<1>6. ASSUME NEW ip \in Ips, HandlerNode(ip) PROVE OperatorInv'
  <2>1. worker.pc = "handlerNodes" /\ ip \in worker.todo
    BY <1>6 DEF HandlerNode, Handling
  <2>2. ip \in Present(nodes)
    BY <1>4, <2>1 DEF Prepared
  <2>3. CASE nodes[ip].status # "PENDING" /\ Script(ip, "clean")
    BY <1>2, <2>1, <2>2, <2>3, ScriptOnward
  <2>4. CASE nodes[ip].status = "PENDING" /\ Script(ip, "joined")
    <3>1. worker.ev.status # "STOPPING"
      BY <1>4, <2>1, <2>4 DEF Prepared, InStatus
    <3>2. nodes[ip].grouped
      BY <1>1, <1>4, <2>1, <2>2, <3>1 DEF Prepared, Ungrouped, NodesT, Node
    <3>3. QED
      BY <1>2, <2>1, <2>2, <2>4, <3>2, ScriptOnward
  <2>5. CASE (Return("panic") \/ Return("error")) /\ UNCHANGED machine
    BY <1>2, <1>3, <2>5, ReturnSave
  <2>6. QED
    BY <1>6, <2>3, <2>4, <2>5 DEF HandlerNode
<1>7. CASE HandlerNodesDone
  <2> DEFINE n1 == SetNodeStatusFromTo(nodes, "PENDING", "RUNNING")
             n2 == SetNodeStatusFromTo(n1, "DELETING", "DELETED")
  <2>1. Alike(nodes, n1) /\ n1 \in NodesT
    BY <1>1, StatusAlike, FromToType DEF NodeStatus
  <2> HIDE DEF n1
  <2>2. Alike(nodes, n2)
    BY <2>1, StatusAlike, AlikeTwice DEF NodeStatus
  <2> HIDE DEF n2
  <2>3. UNCHANGED machine /\ Alike(nodes, nodes)
    BY <1>7 DEF HandlerNodesDone, Alike
  <2>4. CASE Goto("unInstall", nodes, Present(nodes))
    BY <1>2, <1>3, <2>3, <2>4, GotoOnward
  <2>5. CASE worker' = [worker EXCEPT !.pc = "save", !.ev.nodes = n2]
    <3>1. worker'.pc = "save" /\ worker'.ev.nodes = n2 /\ worker'.ev.disks = worker.ev.disks
      BY <1>1, <2>5 DEF Handlers, Snapshot
    <3>2. QED
      BY <1>2, <1>3, <2>2, <2>3, <3>1, ToSave
  <2>6. QED
    BY <1>7, <2>4, <2>5 DEF HandlerNodesDone, n1, n2
<1>8. ASSUME NEW ip \in Ips, UnInstall(ip) PROVE OperatorInv'
  <2>1. worker.pc = "unInstall" /\ Script(ip, "clean") /\ ip \in worker.todo
    BY <1>8 DEF UnInstall, Handling
  <2>2. ip \in Present(nodes)
    BY <1>4, <2>1 DEF Prepared
  <2>3. QED
    BY <1>2, <2>1, <2>2, ScriptOnward
<1>9. CASE UnInstallDone
  <2>1. Alike(nodes, SetNodeStatus(nodes, Present(nodes), "DELETED"))
    BY <1>1, StatusAlike DEF NodeStatus
  <2>2. /\ worker'.pc = "save" /\ worker'.ev.disks = worker.ev.disks
        /\ worker'.ev.nodes = SetNodeStatus(nodes, Present(nodes), "DELETED")
    BY <1>1, <1>9 DEF UnInstallDone, Handlers, Snapshot
  <2>3. UNCHANGED machine
    BY <1>9 DEF UnInstallDone
  <2>4. QED
    BY <1>2, <1>3, <2>1, <2>2, <2>3, ToSave
<1>10. CASE ClusterIsExist
  <2> DEFINE s == [worker.ev EXCEPT !.status = "STARTING"]
  <2>1. worker.pc = "check" /\ UNCHANGED machine
    BY <1>10 DEF ClusterIsExist, Handling
  <2>2. worker.ev.disks = 0 /\ worker.ev.range \subseteq Present(nodes)
    BY <1>4, <2>1 DEF Prepared
  <2>3. s \in Snapshot /\ s.nodes = nodes /\ s.range = worker.ev.range /\ s.disks = 0
    BY <1>1, <2>2 DEF Snapshot, ClusterStatus
  <2> HIDE DEF s
  <2>4. CASE worker' = [worker EXCEPT !.pc = "notInstalled"]
    <3>1. worker'.pc = "notInstalled" /\ worker'.ev = worker.ev
      BY <1>1, <2>4 DEF Handlers
    <3>2. Handled' /\ Prepared'
      BY <2>2, <3>1 DEF Handled, Prepared
    <3>3. QED
      BY <1>2, <1>3, <1>4, <2>1, <3>1, <3>2, Onward
  <2>5. CASE Return("none")
    BY <1>2, <1>3, <2>1, <2>5, ReturnSave
  <2>6. ASSUME NEW t \in SetBareMetalNode(s), worker' = [worker EXCEPT !.pc = "scale", !.ev = t]
        PROVE  OperatorInv'
    <3>1. worker'.pc = "scale" /\ worker'.ev = t
      BY <1>1, <2>6 DEF Handlers
    <3>2. KeptOf(s.nodes, machine) /\ Masters(s.nodes) \subseteq Present(s.nodes)
      BY <1>4, <2>3 DEF KeptOf
    <3>3. KeptOf(t.nodes, machine)
      BY <2>3, <3>2, BareMetalKept
    <3>4. Present(t.nodes) = Present(nodes) /\ t.disks = 0
      <4>1. Present(t.nodes) = Present(s.nodes) \cup s.range /\ t.disks = s.disks
        BY <2>3, <3>2, BareMetalAdds
      <4>2. QED
        BY <2>2, <2>3, <4>1
    <3>5. Handled' /\ Prepared'
      BY <3>1, <3>4 DEF Handled, Prepared
    <3>6. QED
      BY <1>2, <1>3, <2>1, <3>1, <3>3, <3>4, <3>5, Onward
  <2>7. QED
    BY <1>10, <2>4, <2>5, <2>6 DEF ClusterIsExist, s
<1>11. CASE Probe
  <2>1. worker.pc \in {"notInstalled", "scale"} /\ UNCHANGED machine
    BY <1>11 DEF Probe, Handling
  <2> DEFINE gone(f) == Ungrouped(Probed(nodes, f.reached))
             seen(f) == SetNodeStatusFromTo(AfterProbe(f, gone(f)).nodes, "FINDING", "CREATING")
  <2>2. PICK f \in Findings(nodes) :
          \E n \in {seen(f), SetNodeStatusFromTo(seen(f), "CREATING", "PENDING")},
             pc \in {"reload", "save", "local", "install"} :
            worker' = [worker EXCEPT !.ev = [AfterProbe(f, gone(f)) EXCEPT !.nodes = n],
                                     !.pc = pc]
    BY <1>11 DEF Probe
  <2> DEFINE s == AfterProbe(f, gone(f))
             wait == SetNodeStatusFromTo(seen(f), "CREATING", "PENDING")
  <2>3. /\ s \in Snapshot /\ KeptOf(s.nodes, machine) /\ s.disks \in {0, 1}
        /\ Present(s.nodes) \subseteq Present(nodes) /\ Ungrouped(s.nodes) = {}
    BY <2>1, FindingsKept
  <2>4. s.nodes \in NodesT
    BY <2>3 DEF Snapshot, NodesT
  <2>5. Alike(s.nodes, seen(f)) /\ seen(f) \in NodesT
    BY <2>4, StatusAlike, FromToType DEF NodeStatus
  <2> HIDE DEF gone, seen
  <2>6. Alike(s.nodes, wait)
    BY <2>5, StatusAlike, AlikeTwice DEF NodeStatus
  <2> HIDE DEF wait
  <2>7. PICK n \in {seen(f), wait}, pc \in {"reload", "save", "local", "install"} :
          worker' = [worker EXCEPT !.ev = [s EXCEPT !.nodes = n], !.pc = pc]
    BY <2>2 DEF wait
  <2> HIDE DEF s
  <2>8. /\ worker'.pc \in {"reload", "save", "local", "install"}
        /\ worker'.ev.nodes = n /\ worker'.ev.disks = s.disks
    BY <1>1, <2>3, <2>7 DEF Handlers, Snapshot
  <2>9. KeptOf(n, machine) /\ Ungrouped(n) = {} /\ Present(n) \subseteq Present(nodes)
    BY <2>3, <2>5, <2>6, AlikeKept DEF Alike
  <2>10. Handled' /\ Prepared'
    BY <2>8, <2>9 DEF Handled, Prepared
  <2>11. QED
    BY <1>2, <1>3, <2>1, <2>3, <2>8, <2>9, <2>10, Onward
<1>12. CASE ProbePanics
  <2>1. worker.pc \in {"notInstalled", "scale"} /\ UNCHANGED machine
    BY <1>12 DEF ProbePanics, Handling
  <2>2. PICK f \in Findings(nodes) :
          \E gone \in SUBSET Ungrouped(Probed(nodes, f.reached)) :
            worker' = [worker EXCEPT !.pc = "save", !.ev = AfterProbe(f, gone), !.err = "panic"]
    BY <1>12 DEF ProbePanics
  <2> PICK gone \in SUBSET Ungrouped(Probed(nodes, f.reached)) :
         worker' = [worker EXCEPT !.pc = "save", !.ev = AfterProbe(f, gone), !.err = "panic"]
    BY <2>2
  <2>3. worker'.pc = "save" /\ worker'.ev = AfterProbe(f, gone)
    BY <1>1, <2>2 DEF Handlers
  <2>4. /\ KeptOf(worker'.ev.nodes, machine) /\ worker'.ev.disks \in {0, 1}
        /\ Present(worker'.ev.nodes) \subseteq Present(nodes)
    BY <2>1, <2>3, FindingsKept
  <2>5. Handled' /\ Prepared'
    BY <2>3 DEF Handled, Prepared
  <2>6. QED
    BY <1>2, <1>3, <2>1, <2>4, <2>5, Onward
<1>13. CASE LocalInstall
  BY <1>2, <1>3, <1>13, ReturnSave DEF LocalInstall
<1>14. CASE Reload
  <2> DEFINE n == SetNodeStatusFromTo(nodes, "CREATING", "PENDING")
  <2>1. Alike(nodes, n)
    BY <1>1, StatusAlike DEF NodeStatus
  <2>2. worker.pc = "reload" /\ UNCHANGED machine
    BY <1>14 DEF Reload, Handling
  <2>3. worker.ev.status # "STOPPING"
    BY <2>2 DEF HandlerInv, Resetting
  <2>4. Ungrouped(n) = {}
    BY <1>4, <2>1, <2>2, AlikeKept DEF Prepared
  <2>5. \/ Goto("handlerNodes", n, InStatus(n, "PENDING") \cup InStatus(n, "DELETING"))
        \/ Return("error")
    BY <1>14 DEF Reload
  <2>6. InStatus(n, "PENDING") \cup InStatus(n, "DELETING") \subseteq Present(n)
    BY DEF InStatus, Present
  <2> HIDE DEF n
  <2>7. QED
    BY <1>2, <1>3, <2>1, <2>2, <2>3, <2>4, <2>5, <2>6, GotoOnward, ReturnSave
<1>15. CASE Install
  <2>1. worker.pc = "install"
    BY <1>15 DEF Install, Handling
  <2>2. CASE (Return("panic") \/ Return("error")) /\ UNCHANGED machine
    BY <1>2, <1>3, <2>2, ReturnSave
  <2>3. ASSUME NEW m \in Masters(nodes), NEW ok \in BOOLEAN,
               machine' \in {[machine EXCEPT ![m] = "joined"], machine},
               worker' = [worker EXCEPT !.ev.addr = TRUE,
                            !.pc = IF ok THEN "join" ELSE "save",
                            !.todo = IF ok THEN Present(nodes) \ {m} ELSE {},
                            !.err = IF ok THEN "none" ELSE "error"]
        PROVE  OperatorInv'
    <3>1. /\ worker'.pc \in {"join", "save"} /\ worker'.ev.nodes = nodes
          /\ worker'.ev.disks = worker.ev.disks /\ worker'.todo \subseteq Present(nodes)
      BY <1>1, <2>3 DEF Handlers, Snapshot
    <3>2. m \in Present(nodes) /\ m \in Ips
      BY <1>4 DEF Masters
    <3>3. Ungrouped(nodes) = {}
      BY <1>4, <2>1 DEF Prepared
    <3>4. nodes[m].grouped
      BY <3>2, <3>3 DEF Ungrouped
    <3>5. KeptOf(nodes, machine')
      BY <1>4, <2>3, <3>2, <3>4 DEF KeptOf, TypeOK
    <3>6. Handled' /\ Prepared'
      BY <3>1, <3>3 DEF Handled, Prepared
    <3>7. QED
      BY <1>2, <1>3, <1>4, <3>1, <3>5, <3>6, Onward
  <2>4. QED
    BY <1>15, <2>2, <2>3 DEF Install, Outcome
<1>16. ASSUME NEW ip \in Ips, JoinCluster(ip) PROVE OperatorInv'
  <2>1. worker.pc = "join" /\ Script(ip, "joined") /\ ip \in worker.todo
    BY <1>16 DEF JoinCluster, Handling
  <2>2. ip \in Present(nodes) /\ nodes[ip].grouped
    BY <1>4, <2>1 DEF Prepared, Ungrouped
  <2>3. QED
    BY <1>2, <2>1, <2>2, ScriptOnward
<1>17. CASE JoinDone
  <2>1. Alike(nodes, SetNodeStatusFromTo(nodes, "PENDING", "RUNNING"))
    BY <1>1, StatusAlike DEF NodeStatus
  <2>2. Goto("runtime", SetNodeStatusFromTo(nodes, "PENDING", "RUNNING"), {})
        /\ UNCHANGED machine
    BY <1>17 DEF JoinDone
  <2>3. QED
    BY <1>2, <1>3, <2>1, <2>2, GotoOnward
<1>18. CASE RuntimeInstall
  <2>1. CASE worker' = [worker EXCEPT !.pc = "save", !.ev.status = "RUNNING"]
    <3>1. /\ worker'.pc = "save" /\ worker'.ev.nodes = nodes
          /\ worker'.ev.disks = worker.ev.disks /\ UNCHANGED machine
      BY <1>1, <1>18, <2>1 DEF RuntimeInstall, Handlers, Snapshot
    <3>2. QED
      BY <1>2, <1>3, <3>1, ToSave DEF Alike
  <2>2. CASE Return("error") /\ UNCHANGED machine
    BY <1>2, <1>3, <2>2, ReturnSave
  <2>3. QED
    BY <1>18, <2>1, <2>2 DEF RuntimeInstall
<1>19. QED
  BY <1>5, <1>6, <1>7, <1>8, <1>9, <1>10, <1>11, <1>12, <1>13, <1>14, <1>15, <1>16, <1>17,
     <1>18 DEF Handler

-----------------------------------------------------------------------------
(* The requests, the saves and the process.                                 *)

(* A step of one request, which leaves the worker and the machines alone.   *)
LEMMA RequestStepKept ==
    ASSUME TypeOK, HandlerInv, Careful, OperatorInv, NEW c \in Clients, Request(c)
    PROVE  OperatorInv'
<1>1. /\ up /\ client \in [Clients -> Requests] /\ client[c].snap \in Snapshot
      /\ db \in Rows /\ db.val \in Snapshot /\ queue \in Seq(Snapshot)
  BY DEF TypeOK, Request, Create, ReadRow, ReadNodes, ClientSave, Apply, Delete, Update,
         GiveUp, Requests, Rows
<1>2. UNCHANGED <<worker, machine>> /\ \A d \in Clients : d = c
  BY DEF Request, Create, ReadRow, ReadNodes, ClientSave, Apply, Delete, Update, GiveUp, Careful
<1>3. client[c].pc \in {"idle", "readNodes", "save", "apply"} /\ "db" \notin Faults
  BY DEF OperatorInv, InTurn, Careful
<1>4. Idle.pc = "idle"
  BY DEF Idle
<1>5. CASE Create(c)
  <2>1. db.row = "none" /\ AllAre(Ips, "clean") /\ queue = <<>> /\ worker.pc = "idle"
        /\ \A d \in Clients : client[d].pc = "idle"
    BY <1>5 DEF Create, OperatorInv, InTurn
  <2>2. PICK r \in Ranges :
          db' = [row |-> "live", val |-> [Nothing EXCEPT !.status = "CREATING", !.range = r]]
    BY <1>5 DEF Create
  <2>3. db'.row = "live" /\ db'.val.nodes = NoNodes /\ db'.val.status = "CREATING"
    BY <2>2 DEF Nothing
  <2>4. UNCHANGED <<queue, client>>
    BY <1>5 DEF Create
  <2>5. Kept(NoNodes)'
    BY <1>2, <2>1 DEF Kept, KeptOf, NoNodes, NoNode, Masters, Present, AllAre
  <2>6. InTurn' /\ HandedOn' /\ Stopped' /\ Prepared'
    BY <1>2, <2>1, <2>3, <2>4 DEF InTurn, HandedOn, Stopped, AllAre, Prepared
  <2>7. Current'
    BY <1>2, <2>1, <2>3, <2>5 DEF Current, Handled, Kept
  <2>8. QED
    BY <2>6, <2>7 DEF OperatorInv
<1>6. ASSUME NEW op \in AllOps, ReadRow(c, op) PROVE OperatorInv'
  <2>1. queue = <<>> /\ worker.pc = "idle" /\ db.row = "live" /\ op \in {"start", "stop"}
    BY <1>6 DEF ReadRow, Careful
  <2>2. client'[c].pc = "readNodes" /\ UNCHANGED <<db, queue, last>>
    BY <1>1, <1>6, <2>1 DEF ReadRow
  <2>3. InTurn' /\ HandedOn' /\ Stopped' /\ Prepared' /\ Current'
    BY <1>2, <2>1, <2>2 DEF OperatorInv, InTurn, HandedOn, Stopped, AllAre, Prepared, Current, Handled,
                            Kept
  <2>4. QED
    BY <2>3 DEF OperatorInv
<1>7. CASE ReadNodes(c)
  <2> DEFINE s == [client[c].snap EXCEPT !.nodes = db.val.nodes, !.disks = db.val.disks]
  <2>1. client[c].pc = "readNodes" /\ UNCHANGED <<db, queue, last>>
    BY <1>7 DEF ReadNodes
  <2>2. queue = <<>> /\ worker.pc = "idle" /\ db.row = "live"
    BY <2>1 DEF OperatorInv, InTurn
  <2>3. s \in Snapshot /\ s.nodes = db.val.nodes /\ s.disks = db.val.disks
    BY <1>1 DEF Snapshot
  <2>4. Kept(s.nodes)
    BY <2>2, <2>3 DEF OperatorInv, Current, Handled
  <2>5. PICK t \in Requested(client[c].op, s) :
          client' = [client EXCEPT ![c].pc = "save", ![c].snap = t]
    BY <1>7 DEF ReadNodes
  <2> HIDE DEF s
  <2>6. Kept(t.nodes) /\ Ready(t) /\ t.disks = db.val.disks
    BY <2>3, <2>4, RequestedKept
  <2>7. client'[c].pc = "save" /\ client'[c].snap = t
    BY <1>1, <2>5 DEF Requests
  <2>8. InTurn' /\ Stopped' /\ Prepared' /\ Current'
    BY <1>2, <2>1, <2>2, <2>7 DEF OperatorInv, InTurn, Stopped, AllAre, Prepared, Current, Handled, Kept
  <2>9. Asked(client[c].snap)'
    BY <1>2, <2>1, <2>6, <2>7 DEF Asked, Kept, KeptOf, Ready, Masters, Present
  <2>10. HandedOn'
    BY <1>2, <2>1, <2>2, <2>7, <2>9 DEF HandedOn
  <2>11. QED
    BY <2>8, <2>10 DEF OperatorInv
<1>8. CASE ClientSave(c)
  <2>1. /\ client[c].pc = "save" /\ Asked(client[c].snap) /\ UNCHANGED queue
        /\ queue = <<>> /\ worker.pc = "idle" /\ db.row = "live"
    BY <1>8 DEF ClientSave, OperatorInv, InTurn, HandedOn
  <2>2. CASE SaveOK(db, client[c].snap)
    <3>1. client[c].snap.disks = 0 /\ db.val.disks = 0
      BY <2>1, <2>2 DEF SaveOK, Asked
    <3>2. db' = Saved(db, client[c].snap) /\ client' = [client EXCEPT ![c].pc = "apply"]
          /\ last' = "request"
      BY <1>8, <2>2 DEF ClientSave
    <3>3. /\ db'.row = "live" /\ db'.val.nodes = client[c].snap.nodes /\ db'.val.disks = 0
          /\ client'[c].pc = "apply" /\ client'[c].snap = client[c].snap
      BY <1>1, <2>1, <3>1, <3>2 DEF Saved, Rows, Snapshot, Requests
    <3>4. InTurn' /\ Stopped' /\ Prepared'
      BY <1>2, <2>1, <3>2, <3>3 DEF OperatorInv, InTurn, Stopped, AllAre, Prepared
    <3>5. Handed(client[c].snap)'
      BY <2>1, <3>1, <3>2, <3>3 DEF Asked, Handed, Ready, Present
    <3>6. HandedOn'
      BY <1>2, <2>1, <3>3, <3>5 DEF HandedOn
    <3>7. Current'
      BY <1>2, <2>1, <3>3 DEF Current, Handled, Asked, Kept, KeptOf
    <3>8. QED
      BY <3>4, <3>6, <3>7 DEF OperatorInv
  <2>3. CASE ~SaveOK(db, client[c].snap)
    <3>1. client'[c].pc = "idle" /\ UNCHANGED <<db, last>>
      BY <1>1, <1>4, <1>8, <2>3 DEF ClientSave
    <3>2. InTurn' /\ HandedOn' /\ Stopped' /\ Prepared' /\ Current'
      BY <1>2, <2>1, <3>1 DEF OperatorInv, InTurn, HandedOn, Stopped, AllAre, Prepared, Current,
                              Handled, Kept
    <3>3. QED
      BY <3>2 DEF OperatorInv
  <2>4. QED
    BY <2>2, <2>3
<1>9. CASE Apply(c)
  <2>1. client[c].pc = "apply" /\ Handed(client[c].snap) /\ UNCHANGED db
        /\ queue = <<>> /\ worker.pc = "idle" /\ db.row = "live"
    BY <1>9 DEF Apply, OperatorInv, InTurn, HandedOn
  <2>2. queue' = <<client[c].snap>> /\ UNCHANGED last
    BY <1>1, <1>9, <2>1, BoundAssumption DEF Apply
  <2>3. client'[c].pc = "idle"
    BY <1>1, <1>4, <1>9 DEF Apply
  <2>4. Len(queue') = 1 /\ DOMAIN queue' = {1} /\ queue'[1] = client[c].snap
    BY <2>2
  <2>5. InTurn' /\ Stopped' /\ Prepared' /\ Current'
    BY <1>2, <2>1, <2>2, <2>3, <2>4
       DEF OperatorInv, InTurn, Stopped, AllAre, Prepared, Current, Handled, Kept
  <2>6. Handed(queue[1])'
    BY <2>1, <2>2, <2>4 DEF Handed, Ready, Present
  <2>7. HandedOn'
    BY <1>2, <2>3, <2>4, <2>6 DEF HandedOn
  <2>8. QED
    BY <2>5, <2>7 DEF OperatorInv
<1>10. ~(Delete(c) \/ Update(c) \/ GiveUp(c))
  BY <1>3 DEF Delete, Update, GiveUp
<1>11. QED
  BY <1>5, <1>6, <1>7, <1>8, <1>9, <1>10 DEF Request

(* The handler takes over what a request has handed on.                     *)
LEMMA ReceiveKept == ASSUME TypeOK, HandlerInv, OperatorInv, Receive PROVE OperatorInv'
<1> DEFINE h == queue[1]
<1>1. /\ queue \in Seq(Snapshot) /\ Len(queue) = 1 /\ worker.pc = "idle" /\ db.row = "live"
      /\ \A c \in Clients : client[c].pc = "idle"
  BY DEF Receive, TypeOK, OperatorInv, InTurn
<1>2. Head(queue) = h /\ Tail(queue) = <<>> /\ h \in Snapshot /\ 1 \in DOMAIN queue
  <2>1. 1 \in DOMAIN queue /\ Head(queue) = h /\ h \in Snapshot
    BY <1>1
  <2>2. Tail(queue) \in Seq(Snapshot) /\ Len(Tail(queue)) = 0
    BY <1>1
  <2>3. Tail(queue) = <<>>
    BY <2>2, EmptySeq
  <2>4. QED
    BY <2>1, <2>3
<1>3. Handed(h) /\ Kept(db.val.nodes) /\ h.status \in {"STARTING", "STOPPING"}
  BY <1>1, <1>2 DEF OperatorInv, HandedOn, Current, Handled, HandlerInv, RequestsPending
<1>4. UNCHANGED <<db, client, machine, last>> /\ queue' = <<>>
  BY <1>2 DEF Receive
<1> HIDE DEF h
<1>5. worker' = [Resting EXCEPT !.ev = h, !.pc = IF h.status = "STOPPING" THEN "stopping" ELSE "check"]
  BY <1>2 DEF Receive
<1>6. /\ worker'.ev = h /\ worker'.pc = IF h.status = "STOPPING" THEN "stopping" ELSE "check"
  BY <1>5 DEF Resting
<1>7. InTurn' /\ HandedOn' /\ Stopped'
  BY <1>1, <1>3, <1>4 DEF InTurn, HandedOn, Stopped, Handed
<1>8. Current'
  BY <1>3, <1>4, <1>6 DEF Current, Handled, Handed, Kept
<1>9. Prepared'
  BY <1>3, <1>6 DEF Prepared, Handed, Ready
<1>10. QED
  BY <1>7, <1>8, <1>9 DEF OperatorInv

(* A process that ends leaves only the row.                                 *)
LEMMA EndsKept ==
    ASSUME OperatorInv, db.row = "live", Ends, db'.row = "live", Kept(db.val.nodes)'
    PROVE  OperatorInv'
<1>1. /\ worker'.pc = "idle" /\ queue' = <<>> /\ last' = "lost"
      /\ \A c \in Clients : client'[c].pc = "idle"
  BY DEF Ends, Resting, Idle
<1>2. QED
  BY <1>1 DEF OperatorInv, InTurn, HandedOn, Current, Handled, Prepared, Stopped

(* The result of an event can be saved, and the row has its nodes.          *)
LEMMA WorkerSaveKept ==
    ASSUME TypeOK, HandlerInv, Careful, OperatorInv, WorkerSave PROVE OperatorInv'
<1> DEFINE s == IF worker.err = "error" THEN [worker.ev EXCEPT !.status = "ERROR"] ELSE worker.ev
<1>1. worker.pc = "save" /\ worker \in Handlers /\ worker.ev \in Snapshot /\ db \in Rows
      /\ UNCHANGED machine
  BY FieldsType DEF WorkerSave, TypeOK
<1>2. /\ Kept(worker.ev.nodes) /\ worker.ev.disks \in {0, 1} /\ db.val.disks = 0
      /\ db.row = "live" /\ queue = <<>> /\ \A c \in Clients : client[c].pc = "idle"
  BY <1>1 DEF OperatorInv, InTurn, Current, Handled
<1>3. s \in Snapshot /\ s.nodes = worker.ev.nodes /\ s.disks = worker.ev.disks
  BY <1>1 DEF Snapshot, ClusterStatus
<1>4. s.status = "STOPPING" => worker.err # "error"
  BY <1>1 DEF Snapshot
<1>5. s.status = "STOPPING" => worker.ev.status = "STOPPING"
  BY <1>1 DEF Snapshot
<1>6. SaveOK(db, s) /\ Outcome("db") = {TRUE}
  BY <1>2, <1>3 DEF SaveOK, Outcome, Careful
<1>7. /\ db' = Saved(db, s)
      /\ \/ worker.err = "panic" /\ Ends
         \/ /\ worker.err # "panic" /\ last' = "worker" /\ UNCHANGED <<queue, client>>
            /\ worker' = [Resting EXCEPT !.pc = IF worker.err = "error" THEN "failed" ELSE "idle"]
  BY <1>6 DEF WorkerSave
<1> HIDE DEF s
<1>8. db'.row = "live" /\ db'.val.nodes = s.nodes /\ db'.val.status = s.status
  BY <1>1, <1>2, <1>3, <1>7, SavedType
<1>9. Kept(db.val.nodes)'
  BY <1>1, <1>2, <1>3, <1>8 DEF Kept
<1>10. CASE Ends
  BY <1>2, <1>8, <1>9, <1>10, EndsKept
<1>11. CASE worker.err # "panic" /\ last' = "worker" /\ UNCHANGED <<queue, client>>
           /\ worker' = [Resting EXCEPT !.pc = IF worker.err = "error" THEN "failed" ELSE "idle"]
  <2>1. worker'.pc \in {"idle", "failed"}
    BY <1>11 DEF Resting
  <2>2. Stopped'
    <3> SUFFICES ASSUME s.status = "STOPPING" PROVE AllAre(Ips, "clean")'
      BY <1>8 DEF Stopped
    <3>1. worker.err = "none" /\ worker.ev.status = "STOPPING"
      BY <1>1, <1>4, <1>5, <1>11 DEF Handlers
    <3>2. AllAre(Present(worker.ev.nodes), "clean")
      BY <1>1, <3>1 DEF HandlerInv, Resetting
    <3>3. QED
      BY <1>1, <1>2, <3>2 DEF AllAre, Kept, KeptOf, TypeOK
  <2>3. InTurn' /\ HandedOn' /\ Current' /\ Prepared'
    BY <1>2, <1>8, <1>9, <1>11, <2>1 DEF InTurn, HandedOn, Current, Handled, Prepared
  <2>4. QED
    BY <2>2, <2>3 DEF OperatorInv
<1>12. QED
  BY <1>7, <1>10, <1>11

(* A start of the process finds nobody at work, and starts the cluster of   *)
(* its file as a request would.                                             *)
LEMMA BootKept == ASSUME TypeOK, OperatorInv, Boot PROVE OperatorInv'
<1>1. /\ queue = <<>> /\ worker = Resting /\ client = [c \in Clients |-> Idle]
      /\ db \in Rows /\ db.val \in Snapshot /\ UNCHANGED <<client, worker, machine>>
  BY DEF Boot, TypeOK, Rows
<1>2. worker.pc = "idle" /\ \A c \in Clients : client[c].pc = "idle"
  BY <1>1 DEF Resting, Idle
<1>3. Kept(db.val.nodes) /\ db.row \in {"none", "live"}
  BY <1>2 DEF OperatorInv, Current, InTurn, Handled
<1>4. CASE UNCHANGED <<db, queue, last>>
  BY <1>1, <1>2, <1>3, <1>4
     DEF OperatorInv, InTurn, HandedOn, Current, Handled, Prepared, Stopped, AllAre, Kept
<1> DEFINE Starts == IF db.row = "live" THEN {db.val}
                     ELSE {[Nothing EXCEPT !.range = r] : r \in Ranges}
<1>5. ASSUME NEW s \in Starts, SaveOK(db, s), NEW t \in Requested("start", s),
             db' = Saved([row |-> "live", val |-> s], t), queue' = <<t>>, last' = "request"
      PROVE  OperatorInv'
  <2>1. s \in Snapshot /\ Kept(s.nodes) /\ s.disks = 0
    <3>1. CASE db.row = "live"
      BY <1>1, <1>3, <1>5, <3>1 DEF SaveOK, Snapshot
    <3>2. CASE db.row # "live"
      <4>1. AllAre(Ips, "clean")
        BY <1>3, <3>2 DEF OperatorInv, InTurn
      <4>2. PICK r \in Ranges : s = [Nothing EXCEPT !.range = r]
        BY <1>5, <3>2
      <4>3. s.nodes = NoNodes /\ s.disks = 0
        BY <4>2 DEF Nothing
      <4>4. s \in Snapshot
        BY <4>2, NothingType, MachineAssumption DEF Snapshot
      <4>5. Kept(NoNodes)
        BY <4>1 DEF Kept, KeptOf, NoNodes, NoNode, Masters, Present, AllAre
      <4>6. QED
        BY <4>3, <4>4, <4>5
    <3>3. QED
      BY <3>1, <3>2
  <2>2. t \in Snapshot /\ Kept(t.nodes) /\ Ready(t) /\ t.disks = 0
    BY <2>1, RequestedType, RequestedKept
  <2>3. db'.row = "live" /\ db'.val.nodes = t.nodes /\ db'.val.disks = 0
    BY <1>5, <2>2 DEF Saved, Snapshot
  <2>4. Len(queue') = 1 /\ DOMAIN queue' = {1} /\ queue'[1] = t
    BY <1>5
  <2>5. InTurn' /\ Stopped' /\ Prepared'
    BY <1>1, <1>2, <1>5, <2>3, <2>4 DEF InTurn, Stopped, Prepared
  <2>6. Handed(queue[1])'
    BY <1>5, <2>2, <2>3, <2>4 DEF Handed, Ready, Present
  <2>7. HandedOn'
    BY <1>1, <1>2, <2>4, <2>6 DEF HandedOn
  <2>8. Current'
    BY <1>1, <1>2, <2>2, <2>3 DEF Current, Handled, Kept, KeptOf
  <2>9. QED
    BY <2>5, <2>7, <2>8 DEF OperatorInv
<1>6. \/ UNCHANGED <<db, queue, last>>
      \/ \E s \in Starts : /\ SaveOK(db, s)
                           /\ \E t \in Requested("start", s) :
                                /\ db' = Saved([row |-> "live", val |-> s], t)
                                /\ queue' = <<t>> /\ last' = "request"
  BY DEF Boot
<1>7. QED
  BY <1>4, <1>5, <1>6

(* Every step of the careful operator, of the handler and of Kubernetes    *)
(* keeps the invariant.                                                    *)
LEMMA NextKept == TypeOK /\ HandlerInv /\ Careful /\ OperatorInv /\ [Next]_vars => OperatorInv'
<1> SUFFICES ASSUME TypeOK, HandlerInv, Careful, OperatorInv, [Next]_vars PROVE OperatorInv'
  OBVIOUS
<1>1. ASSUME NEW c \in Clients, Request(c) PROVE OperatorInv'
  BY <1>1, RequestStepKept
<1>2. CASE Receive
  BY <1>2, ReceiveKept
<1>3. CASE Handler /\ ~WorkerSave
  BY <1>3, HandlerStepKept
<1>4. CASE WorkerSave
  BY <1>4, WorkerSaveKept
<1>5. CASE Shutdown
  <2>1. worker.pc = "failed" /\ Ends /\ UNCHANGED <<db, machine>>
    BY <1>5 DEF Shutdown
  <2>2. db.row = "live" /\ Kept(db.val.nodes)
    BY <2>1 DEF OperatorInv, InTurn, Current, Handled
  <2>3. Kept(db.val.nodes)'
    BY <2>1, <2>2 DEF Kept
  <2>4. QED
    BY <2>1, <2>2, <2>3, EndsKept
<1>6. CASE Boot
  BY <1>6, BootKept
<1>7. CASE KubeChange \/ UNCHANGED vars
  <2>1. UNCHANGED <<db, queue, client, worker, machine, last>>
    BY <1>7 DEF KubeChange, vars
  <2>2. QED
    BY <2>1 DEF OperatorInv, InTurn, HandedOn, Current, Handled, Prepared, Stopped, AllAre, Kept,
                Asked, Handed, Ready
<1>8. ~Crash
  BY DEF Crash, Careful
<1>9. QED
  BY <1>1, <1>2, <1>3, <1>4, <1>5, <1>6, <1>7, <1>8 DEF Next

(* Used by one careful operator, the cluster passes from the row to the     *)
(* request, the queue and the handler and back, and the copy that is        *)
(* current accounts for every machine that joined.                          *)
THEOREM OperatorCorrect == Careful => (Spec => []OperatorInv)
<1>1. Init => OperatorInv
  <2> SUFFICES ASSUME Init PROVE OperatorInv
    OBVIOUS
  <2>1. /\ worker.pc = "idle" /\ queue = <<>> /\ db.row = "none" /\ db.val.nodes = NoNodes
        /\ last = "none" /\ AllAre(Ips, "clean") /\ \A c \in Clients : client[c].pc = "idle"
    BY DEF Init, Resting, Idle, Nothing, AllAre
  <2>2. Kept(NoNodes)
    BY <2>1 DEF Kept, KeptOf, NoNodes, NoNode, Masters, Present, AllAre
  <2>3. QED
    BY <2>1, <2>2 DEF OperatorInv, InTurn, HandedOn, Current, Handled, Prepared, Stopped
<1>2. SUFFICES ASSUME Careful PROVE Spec => []OperatorInv
  OBVIOUS
<1>3. TypeOK /\ HandlerInv /\ OperatorInv /\ [Next]_vars => OperatorInv'
  BY <1>2, NextKept
<1>4. QED
  BY <1>1, <1>3, TypeCorrect, HandlerCorrect, PTL DEF Spec

(* A machine that joined a Kubernetes cluster is a node of the stored       *)
(* cluster: StopCluster finds it (biz/cluster.go:1586).                     *)
THEOREM JoinedAreRecorded == Careful => (Spec => []JoinedMachinesAreRecorded)
<1>1. OperatorInv => JoinedMachinesAreRecorded
  BY DEF OperatorInv, Current, Kept, KeptOf, JoinedMachinesAreRecorded
<1>2. SUFFICES ASSUME Careful PROVE Spec => []JoinedMachinesAreRecorded
  OBVIOUS
<1>3. QED
  BY <1>1, <1>2, OperatorCorrect, PTL

(* A stop that the worker stored has left no machine in a cluster, those of *)
(* earlier starts included (HandleClusterEvent, biz/cluster.go:1606).       *)
THEOREM StoppedIsClean == Careful => (Spec => []StoppedMeansClean)
<1>1. OperatorInv => StoppedMeansClean
  BY DEF OperatorInv, Stopped, AllAre, StoppedMeansClean
<1>2. SUFFICES ASSUME Careful PROVE Spec => []StoppedMeansClean
  OBVIOUS
<1>3. QED
  BY <1>1, <1>2, OperatorCorrect, PTL
=============================================================================

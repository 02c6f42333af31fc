------------------------------ MODULE Services ------------------------------
(***************************************************************************)
(* The requests about services, their workflows and their builds           *)
(* (internal/interfaces/service.go, internal/biz/service.go), between the  *)
(* rows of the database (internal/data/service.go) and the objects in the  *)
(* cluster (runtime/service.go, runtime/workflow.go).  Every request runs  *)
(* in a goroutine of its own; one action is one call to the database or to *)
(* Kubernetes, and what a request has read before it keeps in its record.  *)
(*                                                                         *)
(* Abstracted: the fields of a service (its volumes and ports, and the     *)
(* steps of a workflow, are in ServiceTables), the project (all services   *)
(* are of the project of the request), and the image, which stands for     *)
(* the id of the integration it was built by (0: the empty image).  The    *)
(* workspace asked of the context is taken to be there; which requests     *)
(* come with one is the matter of Gateway.                                 *)
(***************************************************************************)
EXTENDS Naturals, FiniteSets

CONSTANTS Requests,     \* the requests that may run at a time
          Names,        \* names of services
          MaxServices,  \* rows of services ever inserted
          MaxWorkflows, \* rows of workflows ever inserted
          MaxRuns,      \* workflow objects ever made
          MaxStarts,    \* requests ever started
          MaxFaults,    \* calls that fail or whose answer is lost
          MaxCrashes,   \* crashes of the process
          MaxFlips      \* times that the cluster is lost or found again

VARIABLES services,   \* rows: id -> name, or None
          workflows,  \* rows: [id, service, type]
          builds,     \* rows of integrations and deployments: [id, service, type, image]
          objects,    \* the CloudService objects: [name, image]
          runs,       \* number of CloudWorkflow objects made
          recorded,   \* ghost: number of runs whose build was stored
          reachable,  \* does the cluster answer
          request,    \* what every request has read and does next
          count       \* ids handed out, and how often what is bounded happened

vars == <<services, workflows, builds, objects, runs, recorded, reachable, request, count>>

None == "none"
Types == {"ci", "cd"}
Ids == 1..MaxServices
Idle == [op |-> "idle", at |-> "end"]

Init ==
  /\ services = [s \in Ids |-> None]
  /\ workflows = {} /\ builds = {}
  /\ objects = {}
  /\ runs = 0 /\ recorded = 0
  /\ reachable \in BOOLEAN
  /\ request = [r \in Requests |-> Idle]
  /\ count = [service |-> 0, workflow |-> 0, start |-> 0, fault |-> 0,
              crash |-> 0, flip |-> 0, delete |-> 0]

Present(n) == \E o \in objects : o.name = n
Without(n) == {o \in objects : o.name # n}

Counted(what) == count' = [count EXCEPT ![what] = @ + 1]
Start(r, q) ==
  /\ request[r] = Idle /\ count.start < MaxStarts /\ Counted("start")
  /\ request' = [request EXCEPT ![r] = q]
  /\ UNCHANGED <<services, workflows, builds, objects, runs, recorded, reachable>>
At(r, label) == request[r].at = label
Goto(r, label) == request' = [request EXCEPT ![r].at = label]
End(r) == request' = [request EXCEPT ![r] = Idle]

-----------------------------------------------------------------------------
(* The requests.  A service is saved under a new name (id 0) or by its id; *)
(* a workflow is saved as a new one (id 0) or as the row that was read.    *)

Save(r) ==
  \/ \E n \in Names : Start(r, [op |-> "save", at |-> "lookup", id |-> 0, name |-> n])
  \/ \E s \in 1..count.service, n \in Names :
       Start(r, [op |-> "save", at |-> "write", id |-> s, name |-> n])
Delete(r) == \E s \in 1..count.service :
  Start(r, [op |-> "delete", at |-> "row", id |-> s, name |-> None])
SaveWorkflow(r) == \E s \in 1..count.service, t \in Types :
  \E w \in {0} \cup {v.id : v \in {u \in workflows : u.service = s /\ u.type = t}} :
    Start(r, [op |-> "workflow", at |-> "row", id |-> s, name |-> None, type |-> t, row |-> w])
CreateContinuousIntegration(r) == \E s \in 1..count.service :
  Start(r, [op |-> "build", at |-> "row", id |-> s, name |-> None, type |-> "ci", image |-> 0])
CreateContinuousDeployment(r) == \E s \in 1..count.service, b \in {v \in builds : v.type = "ci"} :
  Start(r, [op |-> "build", at |-> "row", id |-> s, name |-> None, type |-> "cd", image |-> b.id])
ApplyService(r) == \E s \in 1..count.service, b \in {v \in builds : v.type = "cd"} :
  Start(r, [op |-> "apply", at |-> "row", id |-> s, name |-> None, row |-> b.id, image |-> 0])

\* Deleting an integration or a deployment is one statement; its run stays.
DeleteBuild ==
  /\ \E b \in builds : builds' = builds \ {b}
  /\ count.start < MaxStarts /\ Counted("start")
  /\ UNCHANGED <<services, workflows, objects, runs, recorded, reachable, request>>

-----------------------------------------------------------------------------
(* The calls that they make.                                               *)

\* Is there a service of that name?  Only asked for a service without an id.
GetServiceByName(r) ==
  /\ At(r, "lookup")
  /\ IF \E s \in Ids : services[s] = request[r].name THEN End(r) ELSE Goto(r, "write")
  /\ UNCHANGED <<services, workflows, builds, objects, runs, recorded, reachable, count>>

\* The row is inserted or, by its id, updated; an update that finds no row
\* inserts it again.
WriteService(r) ==
  /\ At(r, "write") /\ request[r].op = "save"
  /\ IF request[r].id = 0
     THEN /\ count.service < MaxServices /\ Counted("service")
          /\ services' = [services EXCEPT ![count.service + 1] = request[r].name]
     ELSE services' = [services EXCEPT ![request[r].id] = request[r].name] /\ UNCHANGED count
  /\ End(r)
  /\ UNCHANGED <<workflows, builds, objects, runs, recorded, reachable>>

\* The row is read: a service that is not there ends the request.
Get(r) ==
  /\ At(r, "row")
  /\ LET q == request[r] IN
     IF services[q.id] = None THEN End(r)
     ELSE request' = [request EXCEPT ![r] =
            [q EXCEPT !.name = services[q.id], !.at = IF q.op = "delete" THEN "object" ELSE "status"]]
  /\ UNCHANGED <<services, workflows, builds, objects, runs, recorded, reachable, count>>

\* The status in the cluster: without a cluster it is passed over, without the
\* object the whole request fails.
GetServiceStatus(r) ==
  /\ At(r, "status")
  /\ LET q == request[r] IN
     IF reachable /\ ~Present(q.name) THEN End(r)
     ELSE Goto(r, CASE q.op = "workflow" -> IF q.row = 0 THEN "list" ELSE "write"
                    [] q.op = "build" -> IF q.type = "cd" THEN "image" ELSE "list"
                    [] q.op = "apply" -> "image")
  /\ UNCHANGED <<services, workflows, builds, objects, runs, recorded, reachable, count>>

\* The integration that a deployment is of, or the deployment to apply, is
\* read: one that was deleted reads as an empty one.
GetBuild(r) ==
  /\ At(r, "image")
  /\ LET q == request[r]
         of(id) == {b.image : b \in {v \in builds : v.id = id}}
     IN request' = [request EXCEPT ![r] =
          IF q.op = "build" THEN [q EXCEPT !.at = "list"]
          ELSE [q EXCEPT !.at = "apply", !.image = IF of(q.row) = {} THEN 0 ELSE CHOOSE i \in of(q.row) : TRUE]]
  /\ UNCHANGED <<services, workflows, builds, objects, runs, recorded, reachable, count>>

\* A new workflow must be the first of its type, a build needs one.
GetWorkflowByServiceId(r) ==
  /\ At(r, "list")
  /\ LET q == request[r]
         exists == \E w \in workflows : w.service = q.id /\ w.type = q.type
     IN IF q.op = "workflow" THEN IF exists THEN End(r) ELSE Goto(r, "write")
        ELSE IF exists THEN Goto(r, "commit") ELSE End(r)
  /\ UNCHANGED <<services, workflows, builds, objects, runs, recorded, reachable, count>>

WriteWorkflow(r) ==
  /\ At(r, "write") /\ request[r].op = "workflow"
  /\ LET q == request[r]
         id == IF q.row = 0 THEN count.workflow + 1 ELSE q.row
     IN /\ id <= MaxWorkflows
        /\ workflows' = {w \in workflows : w.id # id} \cup {[id |-> id, service |-> q.id, type |-> q.type]}
        /\ count' = [count EXCEPT !.workflow = IF q.row = 0 THEN @ + 1 ELSE @]
  /\ End(r)
  /\ UNCHANGED <<services, builds, objects, runs, recorded, reachable>>

\* CleanWorkflow looks for an object with the name of the stored workflow, and
\* the objects have generated names: it finds none.  Then the object is made;
\* its answer may be lost.
CommitWorkflow(r) ==
  /\ At(r, "commit")
  /\ \/ reachable /\ runs < MaxRuns /\ runs' = runs + 1 /\ Goto(r, "record") /\ UNCHANGED count
     \/ reachable /\ runs < MaxRuns /\ runs' = runs + 1 /\ End(r) /\ count.fault < MaxFaults /\ Counted("fault")
     \/ ~reachable /\ End(r) /\ UNCHANGED <<runs, count>>
  /\ UNCHANGED <<services, workflows, builds, objects, recorded, reachable>>

\* The row of a run: of what is built, or deployed.
Build(id, q) == [id |-> id, service |-> q.id, type |-> q.type, image |-> q.image]

\* Variant: the build is only stored when the status of its run can be read.
SaveBuildWithStatus(r) ==
  /\ At(r, "record")
  /\ IF reachable
     THEN /\ recorded' = recorded + 1
          /\ builds' = builds \cup {Build(recorded + 1, request[r])}
     ELSE UNCHANGED <<builds, recorded>>
  /\ End(r)
  /\ UNCHANGED <<services, workflows, objects, runs, reachable, count>>

\* The build is stored after its run was started.
SaveBuild(r) ==
  /\ At(r, "record")
  /\ recorded' = recorded + 1
  /\ builds' = builds \cup {Build(recorded + 1, request[r])}
  /\ End(r)
  /\ UNCHANGED <<services, workflows, objects, runs, reachable, count>>

\* The object is made or replaced; without a cluster nothing is done, and the
\* request succeeds.  Replacing it may be refused, it carries no version.
ApplyObject(r) ==
  /\ At(r, "apply")
  /\ \/ /\ reachable
        /\ objects' = Without(request[r].name) \cup {[name |-> request[r].name, image |-> request[r].image]}
     \/ (reachable => Present(request[r].name)) /\ UNCHANGED objects
  /\ End(r)
  /\ UNCHANGED <<services, workflows, builds, runs, recorded, reachable, count>>

\* Without a cluster the object is passed over; an object that is not there is
\* an error, and the rows stay.
DeleteObject(r) ==
  /\ At(r, "object")
  /\ LET n == request[r].name IN
     /\ objects' = IF reachable THEN Without(n) ELSE objects
     /\ IF reachable /\ ~Present(n) THEN End(r)
        ELSE request' = [request EXCEPT ![r] = [op |-> "delete", at |-> "rows", id |-> @.id, name |-> n,
                                                outage |-> ~reachable]]
  /\ UNCHANGED <<services, workflows, builds, runs, recorded, reachable, count>>

\* One transaction over all tables.
DeleteRows(r) ==
  /\ At(r, "rows")
  /\ services' = [services EXCEPT ![request[r].id] = None]
  /\ workflows' = {w \in workflows : w.service # request[r].id}
  /\ builds' = {b \in builds : b.service # request[r].id}
  /\ Counted("delete") /\ End(r)
  /\ UNCHANGED <<objects, runs, recorded, reachable>>

\* The call that a request makes fails, and the request with it.
Fail(r) ==
  /\ request[r] # Idle
  /\ count.fault < MaxFaults /\ Counted("fault") /\ End(r)
  /\ UNCHANGED <<services, workflows, builds, objects, runs, recorded, reachable>>

\* The process dies: what the requests held is lost.
Crash ==
  /\ count.crash < MaxCrashes /\ Counted("crash")
  /\ request' = [r \in Requests |-> Idle]
  /\ UNCHANGED <<services, workflows, builds, objects, runs, recorded, reachable>>

Flip ==
  /\ count.flip < MaxFlips /\ Counted("flip")
  /\ reachable' = ~reachable
  /\ UNCHANGED <<services, workflows, builds, objects, runs, recorded, request>>

Call(r) ==
  \/ GetServiceByName(r) \/ WriteService(r) \/ Get(r) \/ GetServiceStatus(r) \/ GetBuild(r)
  \/ GetWorkflowByServiceId(r) \/ WriteWorkflow(r) \/ CommitWorkflow(r) \/ SaveBuild(r)
  \/ ApplyObject(r) \/ DeleteObject(r) \/ DeleteRows(r)

Next ==
  \/ \E r \in Requests :
       \/ Save(r) \/ Delete(r) \/ SaveWorkflow(r)
       \/ CreateContinuousIntegration(r) \/ CreateContinuousDeployment(r) \/ ApplyService(r)
       \/ Call(r) \/ Fail(r)
  \/ DeleteBuild \/ Crash \/ Flip

Spec == Init /\ [][Next]_vars

-----------------------------------------------------------------------------
(* Properties.                                                             *)

\* Every variable stays within the bounds named above.
TypeOK ==
  /\ services \in [Ids -> Names \cup {None}]
  /\ \A w \in workflows : w.id \in 1..MaxWorkflows /\ w.service \in Ids /\ w.type \in Types
  /\ \A b \in builds : b.id \in 1..MaxRuns /\ b.service \in Ids /\ b.type \in Types /\ b.image \in 0..MaxRuns
  /\ objects \subseteq [name : Names, image : 0..MaxRuns]
  /\ runs \in 0..MaxRuns /\ recorded \in 0..runs
  /\ reachable \in BOOLEAN
  /\ \A r \in Requests : request[r].op \in {"idle", "save", "delete", "workflow", "build", "apply"}

Orphans == {x \in workflows \cup builds : services[x.service] = None}

\* A workflow, an integration or a deployment belongs to a service that is
\* there.  A request that has read the service before it was deleted may still
\* write one row: every delete leaves at most one for each other request, and
\* none when the requests come one at a time.
RowsHaveAService ==
  Cardinality(Orphans) <= count.delete * (Cardinality(Requests) - 1)

\* Every run that was started in the cluster has a record, but for the builds
\* that are under way and one for each fault or, for each request, crash.
RunsAreRecorded ==
  runs - recorded <= count.fault + count.crash * Cardinality(Requests)
                     + Cardinality({r \in Requests : At(r, "record")})

\* While requests come one at a time, a service object loses the row that
\* names it only by a delete that found no cluster, or by a new name.
ObjectsGoFirst ==
  \A s \in Ids :
       services[s] # None /\ services'[s] = None =>
         (\A o \in objects' : o.name # services[s]) \/ \E r \in Requests : At(r, "rows") /\ request[r].outage

=============================================================================

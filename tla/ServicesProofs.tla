----------------------------- MODULE ServicesProofs -----------------------------
(***************************************************************************)
(* Theorems about Services, for every set of requests and of names and     *)
(* every number of failures, crashes and losses of the cluster: the rows   *)
(* keep their service but for those that a request wrote during a delete,  *)
(* and every run has its record but for one for each failure and crash.    *)
(***************************************************************************)
EXTENDS Services, FiniteSetTheorems, TLAPS

(* No name is the mark for a row that is gone, and what is asked at a time *)
(* can be counted.                                                         *)
ServicesAssumption ==
  /\ None \notin Names /\ IsFiniteSet(Requests)
  /\ {MaxServices, MaxWorkflows, MaxRuns} \subseteq Nat

(* What a request of each kind holds, at each of its calls.                *)
Looking == {"lookup", "write"}
SaveRequest == [op : {"save"}, at : Looking, id : Ids \cup {0}, name : Names]
DeleteRequest == [op : {"delete"}, at : {"row"}, id : Ids, name : {None}]
                 \cup [op : {"delete"}, at : {"object"}, id : Ids, name : Names]
                 \cup [op : {"delete"}, at : {"rows"}, id : Ids, name : Names, outage : BOOLEAN]
WorkflowRequest ==
  [op : {"workflow"}, at : {"row", "status", "list", "write"}, id : Ids, name : Names \cup {None},
   type : Types, row : 0..MaxWorkflows]
BuildRequest ==
  [op : {"build"}, at : {"row", "status", "image", "list", "commit", "record"}, id : Ids,
   name : Names \cup {None}, type : Types, image : 0..MaxRuns]
ApplyRequest ==
  [op : {"apply"}, at : {"row"}, id : Ids, name : {None}, row : 1..MaxRuns, image : 0..MaxRuns]
  \cup [op : {"apply"}, at : {"status", "image", "apply"}, id : Ids, name : Names,
        row : 1..MaxRuns, image : 0..MaxRuns]
AnyRequest == {Idle} \cup SaveRequest \cup DeleteRequest \cup WorkflowRequest \cup BuildRequest \cup ApplyRequest

Counts == [service : 0..MaxServices, workflow : 0..MaxWorkflows, start : Nat, fault : Nat,
           crash : Nat, flip : Nat, delete : Nat]

Shape ==
  /\ services \in [Ids -> Names \cup {None}]
  /\ workflows \subseteq [id : 1..MaxWorkflows, service : Ids, type : Types] /\ IsFiniteSet(workflows)
  /\ builds \subseteq [id : 1..MaxRuns, service : Ids, type : Types, image : 0..MaxRuns] /\ IsFiniteSet(builds)
  /\ objects \subseteq [name : Names, image : 0..MaxRuns]
  /\ runs \in 0..MaxRuns /\ recorded \in Nat
  /\ reachable \in BOOLEAN
  /\ request \in [Requests -> AnyRequest]
  /\ count \in Counts

(* A run that is under way is not recorded yet.                            *)
Recording == {r \in Requests : At(r, "record")}
RunsKnown ==
  /\ recorded + Cardinality(Recording) <= runs
  /\ runs <= recorded + Cardinality(Recording) + count.fault + count.crash * Cardinality(Requests)

(* The requests that will write a row of a service that has gone since     *)
(* they read it: each of them is one of those a delete overlapped.         *)
Writes(q) == q.op \in {"workflow", "build"} /\ q.at # "row"
Late == {r \in Requests : Writes(request[r]) /\ services[request[r].id] = None}
RowsKnown == Cardinality(Orphans) + Cardinality(Late) <= count.delete * (Cardinality(Requests) - 1)

ServicesInv == Shape /\ RunsKnown /\ RowsKnown

-----------------------------------------------------------------------------
LEMMA Bounds ==
    ASSUME ServicesAssumption
    PROVE  /\ IsFiniteSet(Requests) /\ Cardinality(Requests) \in Nat
           /\ MaxServices \in Nat /\ MaxWorkflows \in Nat /\ MaxRuns \in Nat
           /\ None \notin Names /\ None = "none"
  BY FS_CardinalityType DEF None, ServicesAssumption

(* Sets of requests can be counted.                                        *)
LEMMA RequestsCount ==
    ASSUME ServicesAssumption, NEW S, S \subseteq Requests
    PROVE  IsFiniteSet(S) /\ Cardinality(S) \in Nat /\ Cardinality(S) <= Cardinality(Requests)
  BY Bounds, FS_Subset, FS_CardinalityType

LEMMA SmallerCounts ==
    ASSUME NEW S, IsFiniteSet(S), NEW U, U \subseteq S
    PROVE  IsFiniteSet(U) /\ Cardinality(U) \in Nat /\ Cardinality(S) \in Nat /\ Cardinality(U) <= Cardinality(S)
  BY FS_Subset, FS_CardinalityType

(* One more, at most, and one less.                                        *)
LEMMA OneMore ==
    ASSUME NEW S, IsFiniteSet(S), NEW x, NEW U, U \subseteq S \cup {x}
    PROVE  IsFiniteSet(U) /\ Cardinality(U) \in Nat /\ Cardinality(S) \in Nat
           /\ Cardinality(U) <= Cardinality(S) + 1
<1> DEFINE V == S \cup {x}
<1>1. Cardinality(S) \in Nat
  BY FS_CardinalityType
<1>2. IsFiniteSet(V) /\ Cardinality(V) \in {Cardinality(S), Cardinality(S) + 1}
  BY <1>1, FS_AddElement
<1>3. U \subseteq V
  OBVIOUS
<1> HIDE DEF V
<1>4. IsFiniteSet(U) /\ Cardinality(U) \in Nat /\ Cardinality(V) \in Nat /\ Cardinality(U) <= Cardinality(V)
  BY <1>2, <1>3, SmallerCounts
<1> QED
  BY <1>1, <1>2, <1>4

LEMMA OneLess ==
    ASSUME NEW S, IsFiniteSet(S), NEW x \in S
    PROVE  IsFiniteSet(S \ {x}) /\ Cardinality(S \ {x}) \in Nat /\ Cardinality(S) = Cardinality(S \ {x}) + 1
<1>1. IsFiniteSet(S \ {x}) /\ Cardinality(S \ {x}) = Cardinality(S) - 1 /\ Cardinality(S) \in Nat
  BY FS_RemoveElement, FS_CardinalityType
<1>2. Cardinality(S \ {x}) \in Nat
  BY <1>1, FS_CardinalityType
<1> QED
  BY <1>1, <1>2

LEMMA OneAdded ==
    ASSUME NEW S, IsFiniteSet(S), NEW x, x \notin S
    PROVE  Cardinality(S) \in Nat /\ Cardinality(S \cup {x}) = Cardinality(S) + 1
  BY FS_AddElement, FS_CardinalityType

-----------------------------------------------------------------------------
(* What a step leaves of the other requests.                               *)
Asks(r, q) == request' = [request EXCEPT ![r] = q]

LEMMA AskedShape ==
    ASSUME ServicesAssumption, Shape, NEW r \in Requests, NEW q \in AnyRequest, Asks(r, q)
    PROVE  request' \in [Requests -> AnyRequest]
  BY DEF Shape, Asks

(* The fields of a request of a kind.                                      *)
LEMMA Kinds ==
    ASSUME ServicesAssumption, Shape, NEW r \in Requests
    PROVE  LET q == request[r] IN
           /\ q \in AnyRequest
           /\ q.op = "idle" => q = Idle
           /\ q.op = "save" => q \in SaveRequest
           /\ q.op = "delete" => q \in DeleteRequest
           /\ q.op = "workflow" => q \in WorkflowRequest
           /\ q.op = "build" => q \in BuildRequest
           /\ q.op = "apply" => q \in ApplyRequest
           /\ q.op \in {"idle", "save", "delete", "workflow", "build", "apply"}
  BY DEF Shape, AnyRequest, SaveRequest, DeleteRequest, WorkflowRequest, BuildRequest, ApplyRequest, Idle

LEMMA IdleIsARequest == Idle \in AnyRequest /\ Idle.op = "idle" /\ Idle.at = "end"
  BY DEF AnyRequest, Idle

(* A client asks only about rows that were made.                           *)
LEMMA Started ==
    ASSUME ServicesAssumption, Shape, NEW r \in Requests, NEW q, Start(r, q), q \in AnyRequest
    PROVE  Shape'
<1>1. request' \in [Requests -> AnyRequest]
  BY AskedShape DEF Start, Asks
<1>2. count' \in Counts
  BY DEF Shape, Start, Counted, Counts
<1> QED
  BY <1>1, <1>2 DEF Shape, Start

LEMMA Asked ==
    ASSUME ServicesAssumption, Shape, NEW r \in Requests,
           Save(r) \/ Delete(r) \/ SaveWorkflow(r) \/ CreateContinuousIntegration(r)
           \/ CreateContinuousDeployment(r) \/ ApplyService(r)
    PROVE  /\ Shape'
           /\ \E q \in AnyRequest : Start(r, q) /\ q.at # "record" /\ ~Writes(q)
<1> SUFFICES ASSUME NEW q \in AnyRequest, Start(r, q), q.at # "record", ~Writes(q)
             PROVE  Shape'
  <2>1. \A s \in 1..count.service : s \in Ids
    BY Bounds DEF Shape, Counts, Ids
  <2>2. CASE Save(r)
    <3>1. ASSUME NEW n \in Names
          PROVE  [op |-> "save", at |-> "lookup", id |-> 0, name |-> n] \in SaveRequest
      BY DEF SaveRequest, Looking
    <3>2. ASSUME NEW n \in Names, NEW s \in Ids
          PROVE  [op |-> "save", at |-> "write", id |-> s, name |-> n] \in SaveRequest
      BY DEF SaveRequest, Looking
    <3>3. PICK q \in SaveRequest : Start(r, q)
      BY <2>1, <2>2, <3>1, <3>2 DEF Save
    <3> QED
      BY <3>3 DEF AnyRequest, SaveRequest, Looking, Writes
  <2>3. CASE Delete(r)
    <3>1. PICK s \in Ids : Start(r, [op |-> "delete", at |-> "row", id |-> s, name |-> None])
      BY <2>1, <2>3 DEF Delete
    <3>2. [op |-> "delete", at |-> "row", id |-> s, name |-> None] \in DeleteRequest
      BY DEF DeleteRequest
    <3> QED
      BY <3>1, <3>2 DEF AnyRequest, Writes
  <2>4. CASE SaveWorkflow(r)
    <3>1. PICK s \in 1..count.service, t \in Types :
            \E w \in {0} \cup {v.id : v \in {u \in workflows : u.service = s /\ u.type = t}} :
               Start(r, [op |-> "workflow", at |-> "row", id |-> s, name |-> None, type |-> t, row |-> w])
      BY <2>4 DEF SaveWorkflow
    <3>2. PICK w \in {0} \cup {v.id : v \in {u \in workflows : u.service = s /\ u.type = t}} :
             Start(r, [op |-> "workflow", at |-> "row", id |-> s, name |-> None, type |-> t, row |-> w])
      BY <3>1
    <3>3. w \in 0..MaxWorkflows
      BY <3>2, Bounds DEF Shape
    <3>4. [op |-> "workflow", at |-> "row", id |-> s, name |-> None, type |-> t, row |-> w] \in WorkflowRequest
      BY <2>1, <3>3 DEF WorkflowRequest
    <3> QED
      BY <3>2, <3>4 DEF AnyRequest, Writes
  <2>5. CASE CreateContinuousIntegration(r)
    <3>1. PICK s \in Ids :
            Start(r, [op |-> "build", at |-> "row", id |-> s, name |-> None, type |-> "ci", image |-> 0])
      BY <2>1, <2>5 DEF CreateContinuousIntegration
    <3>2. [op |-> "build", at |-> "row", id |-> s, name |-> None, type |-> "ci", image |-> 0] \in BuildRequest
      BY Bounds DEF BuildRequest, Types
    <3> QED
      BY <3>1, <3>2 DEF AnyRequest, Writes
  <2>6. CASE CreateContinuousDeployment(r)
    <3>1. PICK s \in Ids, b \in builds :
            Start(r, [op |-> "build", at |-> "row", id |-> s, name |-> None, type |-> "cd", image |-> b.id])
      BY <2>1, <2>6 DEF CreateContinuousDeployment
    <3>2. b.id \in 0..MaxRuns
      BY Bounds DEF Shape
    <3>3. [op |-> "build", at |-> "row", id |-> s, name |-> None, type |-> "cd", image |-> b.id] \in BuildRequest
      BY <3>2 DEF BuildRequest, Types
    <3> QED
      BY <3>1, <3>3 DEF AnyRequest, Writes
  <2>7. CASE ApplyService(r)
    <3>1. PICK s \in Ids, b \in builds :
            Start(r, [op |-> "apply", at |-> "row", id |-> s, name |-> None, row |-> b.id, image |-> 0])
      BY <2>1, <2>7 DEF ApplyService
    <3>2. b.id \in 1..MaxRuns /\ 0 \in 0..MaxRuns
      BY Bounds DEF Shape
    <3>3. [op |-> "apply", at |-> "row", id |-> s, name |-> None, row |-> b.id, image |-> 0] \in ApplyRequest
      BY <3>2 DEF ApplyRequest
    <3> QED
      BY <3>1, <3>3 DEF AnyRequest, Writes
  <2>8. \E q \in AnyRequest : Start(r, q) /\ q.at # "record" /\ ~Writes(q)
    BY <2>2, <2>3, <2>4, <2>5, <2>6, <2>7
  <2> QED
    BY <2>8, Started
<1> QED
  BY Started

(* The calls that only the request itself notices.                         *)
LEMMA Asking ==
    ASSUME ServicesAssumption, Shape, NEW r \in Requests, NEW q \in AnyRequest, Asks(r, q),
           UNCHANGED <<services, workflows, builds, objects, runs, recorded, reachable, count>>
    PROVE  Shape'
  BY AskedShape DEF Shape

Reads(r) == GetServiceByName(r) \/ Get(r) \/ GetServiceStatus(r) \/ GetBuild(r) \/ GetWorkflowByServiceId(r)

(* A request that reads goes on, and does not come to its record; one that *)
(* will write a row has read the row of its service.                       *)
GoesOn(r, q) ==
  /\ request[r].at # "record" /\ q.at # "record"
  /\ Writes(q) => /\ q.id = request[r].id
                  /\ Writes(request[r]) \/ services[q.id] # None

LEMMA ReadsAsk ==
    ASSUME ServicesAssumption, Shape, NEW r \in Requests, Reads(r)
    PROVE  /\ UNCHANGED <<services, workflows, builds, objects, runs, recorded, reachable, count>>
           /\ \E q \in AnyRequest : Asks(r, q) /\ GoesOn(r, q)
<1> DEFINE q == request[r]
<1>0. q \in AnyRequest /\ Idle \in AnyRequest /\ ~Writes(Idle) /\ Idle.at # "record"
  BY Kinds, IdleIsARequest DEF Writes
<1>k. request \in [Requests -> AnyRequest]
  BY DEF Shape
<1>1. CASE GetServiceByName(r)
  <2>1. q.op = "save" /\ q \in SaveRequest
    BY <1>1, Kinds DEF GetServiceByName, At, DeleteRequest, WorkflowRequest, BuildRequest, ApplyRequest, Idle
  <2>2. [q EXCEPT !.at = "write"] \in SaveRequest
    BY <2>1 DEF SaveRequest, Looking
  <2>3. ~Writes([q EXCEPT !.at = "write"]) /\ [q EXCEPT !.at = "write"].at # "record"
    BY <2>1, <2>2 DEF Writes, SaveRequest, Looking
  <2>4. Asks(r, Idle) \/ Asks(r, [q EXCEPT !.at = "write"])
    BY <1>1 DEF GetServiceByName, End, Goto, Asks
  <2> HIDE DEF q
  <2> QED
    BY <1>0, <1>1, <2>2, <2>3, <2>4 DEF GetServiceByName, GoesOn, AnyRequest, q, At
<1>2. CASE Get(r)
  <2> DEFINE p == [q EXCEPT !.name = services[q.id], !.at = IF q.op = "delete" THEN "object" ELSE "status"]
  <2>1. q.at = "row" /\ q.op \in {"delete", "workflow", "build", "apply"}
    BY <1>2, Kinds DEF Get, At, SaveRequest, Looking, Idle
  <2>2. q.id \in Ids
    BY <2>1, Kinds DEF DeleteRequest, WorkflowRequest, BuildRequest, ApplyRequest
  <2>3. services[q.id] \in Names \cup {None}
    BY <2>2 DEF Shape
  <2>4. Asks(r, Idle) \/ (services[q.id] # None /\ Asks(r, p))
    BY <1>2 DEF Get, End, Asks
  <2>5. ASSUME services[q.id] # None
        PROVE  p \in AnyRequest /\ p.at # "record" /\ p.id = q.id
    <3>1. CASE q.op = "delete"
      <4>1. q \in DeleteRequest /\ q.at = "row"
        BY <2>1, <3>1, Kinds
      <4>2. p \in DeleteRequest /\ p.at = "object" /\ p.id = q.id
        BY <2>3, <2>5, <3>1, <4>1 DEF DeleteRequest
      <4> QED
        BY <4>2 DEF AnyRequest
    <3>2. CASE q.op = "workflow"
      <4>1. q \in WorkflowRequest
        BY <3>2, Kinds
      <4>2. p \in WorkflowRequest /\ p.at = "status" /\ p.id = q.id
        BY <2>3, <2>5, <3>2, <4>1 DEF WorkflowRequest
      <4> QED
        BY <4>2 DEF AnyRequest
    <3>3. CASE q.op = "build"
      <4>1. q \in BuildRequest
        BY <3>3, Kinds
      <4>2. p \in BuildRequest /\ p.at = "status" /\ p.id = q.id
        BY <2>3, <2>5, <3>3, <4>1 DEF BuildRequest
      <4> QED
        BY <4>2 DEF AnyRequest
    <3>4. CASE q.op = "apply"
      <4>1. q \in ApplyRequest
        BY <3>4, Kinds
      <4>2. p \in ApplyRequest /\ p.at = "status" /\ p.id = q.id
        BY <2>3, <2>5, <3>4, <4>1 DEF ApplyRequest
      <4> QED
        BY <4>2 DEF AnyRequest
    <3> QED
      BY <2>1, <3>1, <3>2, <3>3, <3>4
  <2> HIDE DEF p
  <2>6. CASE Asks(r, Idle)
    BY <1>0, <1>2, <2>1, <2>6 DEF Get, GoesOn
  <2>7. CASE services[q.id] # None /\ Asks(r, p)
    BY <1>2, <2>1, <2>5, <2>7 DEF Get, GoesOn
  <2> QED
    BY <2>4, <2>6, <2>7
<1>3. CASE GetServiceStatus(r)
  <2> DEFINE l == CASE q.op = "workflow" -> IF q.row = 0 THEN "list" ELSE "write"
                    [] q.op = "build" -> IF q.type = "cd" THEN "image" ELSE "list"
                    [] q.op = "apply" -> "image"
             p == [q EXCEPT !.at = l]
  <2>1. q.at = "status" /\ q.op \in {"workflow", "build", "apply"}
    BY <1>3, Kinds DEF GetServiceStatus, At, SaveRequest, DeleteRequest, Looking, Idle
  <2>2. Asks(r, Idle) \/ Asks(r, p)
    BY <1>3 DEF GetServiceStatus, End, Goto, Asks
  <2>3. p \in AnyRequest /\ p.at # "record" /\ p.id = q.id /\ (Writes(p) => Writes(q))
    <3>2. CASE q.op = "workflow"
      <4>1. q \in WorkflowRequest
        BY <3>2, Kinds
      <4>3. l \in {"list", "write"}
        BY <3>2
      <4> HIDE DEF l
      <4>2. p \in WorkflowRequest /\ p.at # "record" /\ p.id = q.id /\ p.op = q.op
        BY <3>2, <4>1, <4>3 DEF WorkflowRequest
      <4> QED
        BY <2>1, <3>2, <4>2 DEF AnyRequest, Writes
    <3>3. CASE q.op = "build"
      <4>1. q \in BuildRequest
        BY <3>3, Kinds
      <4>3. l \in {"list", "image"}
        BY <3>3
      <4> HIDE DEF l
      <4>2. p \in BuildRequest /\ p.at # "record" /\ p.id = q.id /\ p.op = q.op
        BY <3>3, <4>1, <4>3 DEF BuildRequest
      <4> QED
        BY <2>1, <3>3, <4>2 DEF AnyRequest, Writes
    <3>4. CASE q.op = "apply"
      <4>1. q \in ApplyRequest
        BY <3>4, Kinds
      <4>3. l = "image"
        BY <3>4
      <4> HIDE DEF l
      <4>2. p \in ApplyRequest /\ p.at # "record" /\ p.id = q.id /\ p.op = q.op
        BY <2>1, <3>4, <4>1, <4>3 DEF ApplyRequest
      <4> QED
        BY <2>1, <3>4, <4>2 DEF AnyRequest, Writes
    <3> QED
      BY <2>1, <3>2, <3>3, <3>4
  <2> HIDE DEF p
  <2>6. CASE Asks(r, Idle)
    BY <1>0, <1>3, <2>1, <2>6 DEF GetServiceStatus, GoesOn
  <2>7. CASE Asks(r, p)
    BY <1>3, <2>1, <2>3, <2>7 DEF GetServiceStatus, GoesOn
  <2> QED
    BY <2>2, <2>6, <2>7
<1>4. CASE GetBuild(r)
  <2> DEFINE of == {b.image : b \in {v \in builds : v.id = q.row}}
             x == IF of = {} THEN 0 ELSE CHOOSE i \in of : TRUE
             p == IF q.op = "build" THEN [q EXCEPT !.at = "list"] ELSE [q EXCEPT !.at = "apply", !.image = x]
  <2>1. q.at = "image" /\ q.op \in {"build", "apply"}
    BY <1>4, Kinds DEF GetBuild, At, SaveRequest, DeleteRequest, WorkflowRequest, Looking, Idle
  <2>2. Asks(r, p)
    BY <1>4 DEF GetBuild, Asks
  <2>3. p \in AnyRequest /\ p.at # "record" /\ p.id = q.id /\ (Writes(p) => Writes(q))
    <3>3. CASE q.op = "build"
      <4>1. q \in BuildRequest
        BY <3>3, Kinds
      <4>2. p \in BuildRequest /\ p.at # "record" /\ p.id = q.id /\ p.op = q.op
        BY <3>3, <4>1 DEF BuildRequest
      <4> QED
        BY <2>1, <3>3, <4>2 DEF AnyRequest, Writes
    <3>4. CASE q.op = "apply"
      <4>1. q \in ApplyRequest
        BY <3>4, Kinds
      <4>3. x \in 0..MaxRuns
        <5>1. of \subseteq 0..MaxRuns
          BY DEF Shape
        <5> HIDE DEF of
        <5>2. of # {} => (CHOOSE i \in of : TRUE) \in of
          BY Zenon
        <5>3. 0 \in 0..MaxRuns
          BY Bounds
        <5> QED
          BY <5>1, <5>2, <5>3, Zenon
      <4> HIDE DEF x
      <4>2. p \in ApplyRequest /\ p.at # "record" /\ p.id = q.id /\ p.op = q.op
        BY <2>1, <3>4, <4>1, <4>3 DEF ApplyRequest
      <4> QED
        BY <2>1, <3>4, <4>2 DEF AnyRequest, Writes
    <3> QED
      BY <2>1, <3>3, <3>4
  <2> HIDE DEF p
  <2> QED
    BY <1>4, <2>1, <2>2, <2>3 DEF GetBuild, GoesOn
<1>5. CASE GetWorkflowByServiceId(r)
  <2>1. q.at = "list" /\ q.op \in {"workflow", "build"}
    BY <1>5, Kinds DEF GetWorkflowByServiceId, At, SaveRequest, DeleteRequest, ApplyRequest, Looking, Idle
  <2> DEFINE p(l) == [q EXCEPT !.at = l]
  <2>2. Asks(r, Idle) \/ (q.op = "workflow" /\ Asks(r, p("write"))) \/ (q.op = "build" /\ Asks(r, p("commit")))
    BY <1>5, <2>1 DEF GetWorkflowByServiceId, End, Goto, Asks
  <2>3. ASSUME q.op = "workflow"
        PROVE  p("write") \in WorkflowRequest /\ p("write").at # "record" /\ p("write").id = q.id
    <3>1. q \in WorkflowRequest
      BY <2>3, Kinds
    <3> QED
      BY <3>1 DEF WorkflowRequest
  <2>4. ASSUME q.op = "build"
        PROVE  p("commit") \in BuildRequest /\ p("commit").at # "record" /\ p("commit").id = q.id
    <3>1. q \in BuildRequest
      BY <2>4, Kinds
    <3> QED
      BY <3>1 DEF BuildRequest
  <2>5. q.at # "record" /\ Writes(q)
    BY <2>1 DEF Writes
  <2> HIDE DEF p, q
  <2>6. CASE Asks(r, Idle)
    BY <1>0, <1>5, <2>5, <2>6 DEF GetWorkflowByServiceId, GoesOn, q
  <2>7. CASE q.op = "workflow" /\ Asks(r, p("write"))
    BY <1>5, <2>3, <2>5, <2>7 DEF GetWorkflowByServiceId, GoesOn, q, AnyRequest
  <2>8. CASE q.op = "build" /\ Asks(r, p("commit"))
    BY <1>5, <2>4, <2>5, <2>8 DEF GetWorkflowByServiceId, GoesOn, q, AnyRequest
  <2> QED
    BY <2>2, <2>6, <2>7, <2>8
<1> QED
  BY <1>1, <1>2, <1>3, <1>4, <1>5 DEF Reads

-----------------------------------------------------------------------------
(* What is counted: the runs under way, the rows without a service and     *)
(* the requests that will write one.                                       *)

LEMMA ServicesCount ==
    ASSUME ServicesAssumption, Shape
    PROVE  /\ IsFiniteSet(Orphans) /\ Cardinality(Orphans) \in Nat
           /\ IsFiniteSet(Recording) /\ Cardinality(Recording) \in Nat
           /\ IsFiniteSet(Late) /\ Cardinality(Late) \in Nat
           /\ Cardinality(Recording) <= Cardinality(Requests)
           /\ count.fault \in Nat /\ count.crash \in Nat /\ count.delete \in Nat
           /\ runs \in Nat /\ recorded \in Nat
<1>1. IsFiniteSet(workflows \cup builds)
  BY FS_Union DEF Shape
<1>2. IsFiniteSet(Orphans) /\ Cardinality(Orphans) \in Nat
  BY <1>1, SmallerCounts DEF Orphans
<1>3. Recording \subseteq Requests /\ Late \subseteq Requests
  BY DEF Recording, Late
<1> QED
  BY <1>2, <1>3, RequestsCount, Bounds DEF Shape, Counts

LEMMA RecordingStays ==
    ASSUME ServicesAssumption, Shape, NEW r \in Requests, NEW q, Asks(r, q), request[r].at # "record", q.at # "record"
    PROVE  Recording' = Recording
  BY DEF Shape, Asks, Recording, At

LEMMA RecordingEnds ==
    ASSUME ServicesAssumption, Shape, NEW r \in Requests, NEW q, Asks(r, q), q.at # "record"
    PROVE  Recording' = Recording \ {r}
  BY DEF Shape, Asks, Recording, At

LEMMA RecordingBegins ==
    ASSUME ServicesAssumption, Shape, NEW r \in Requests, NEW q, Asks(r, q), q.at = "record"
    PROVE  Recording' = Recording \cup {r}
  BY DEF Shape, Asks, Recording, At

LEMMA RunsStay ==
    ASSUME ServicesAssumption, Shape, Shape', RunsKnown, Recording' = Recording,
           UNCHANGED <<runs, recorded>>, count'.fault >= count.fault, count'.crash = count.crash
    PROVE  RunsKnown'
<1> DEFINE n == count.crash * Cardinality(Requests)
<1>1. n' = n
  OBVIOUS
<1>2. count.fault \in Nat /\ count'.fault \in Nat /\ n \in Nat /\ Cardinality(Recording) \in Nat
      /\ runs \in Nat /\ recorded \in Nat
  BY ServicesCount, Bounds DEF Shape, Counts
<1>3. recorded + Cardinality(Recording) <= runs /\ runs <= recorded + Cardinality(Recording) + count.fault + n
  BY DEF RunsKnown
<1>4. /\ recorded' + Cardinality(Recording') <= runs'
      /\ runs' <= recorded' + Cardinality(Recording') + count'.fault + n'
  <2> HIDE DEF n
  <2> QED
    BY <1>1, <1>2, <1>3
<1> QED
  BY <1>4 DEF RunsKnown

LEMMA RowsFewer ==
    ASSUME ServicesAssumption, Shape, Shape', RowsKnown, Orphans' \subseteq Orphans, Late' \subseteq Late,
           count'.delete = count.delete
    PROVE  RowsKnown'
<1> DEFINE n == count.delete * (Cardinality(Requests) - 1)
<1>1. n' = n /\ n \in Int
  BY ServicesCount, Bounds
<1>2. /\ Cardinality(Orphans') \in Nat /\ Cardinality(Orphans) \in Nat /\ Cardinality(Orphans') <= Cardinality(Orphans)
      /\ Cardinality(Late') \in Nat /\ Cardinality(Late) \in Nat /\ Cardinality(Late') <= Cardinality(Late)
  BY ServicesCount, SmallerCounts
<1>3. Cardinality(Orphans) + Cardinality(Late) <= n
  BY DEF RowsKnown
<1>4. Cardinality(Orphans') + Cardinality(Late') <= n'
  <2> HIDE DEF n
  <2> QED
    BY <1>1, <1>2, <1>3
<1> QED
  BY <1>4 DEF RowsKnown

(* The row of a request that is late takes its place.                      *)
LEMMA RowIsWritten ==
    ASSUME ServicesAssumption, Shape, Shape', RowsKnown, NEW r \in Late, NEW x, Orphans' \subseteq Orphans \cup {x},
           Late' \subseteq Late \ {r}, count'.delete = count.delete
    PROVE  RowsKnown'
<1> DEFINE n == count.delete * (Cardinality(Requests) - 1)
<1>1. n' = n /\ n \in Int
  BY ServicesCount, Bounds
<1>2. /\ Cardinality(Orphans') \in Nat /\ Cardinality(Orphans) \in Nat
      /\ Cardinality(Orphans') <= Cardinality(Orphans) + 1
  BY ServicesCount, OneMore
<1>3. /\ Cardinality(Late \ {r}) \in Nat /\ Cardinality(Late) = Cardinality(Late \ {r}) + 1
      /\ IsFiniteSet(Late \ {r})
  BY ServicesCount, OneLess
<1>4. Cardinality(Late') \in Nat /\ Cardinality(Late') <= Cardinality(Late \ {r})
  BY <1>3, SmallerCounts
<1>5. Cardinality(Orphans) + Cardinality(Late) <= n
  BY DEF RowsKnown
<1>6. Cardinality(Orphans') + Cardinality(Late') <= n'
  <2> HIDE DEF n
  <2> QED
    BY <1>1, <1>2, <1>3, <1>4, <1>5
<1> QED
  BY <1>6 DEF RowsKnown

(* A request that changes nothing but itself, and goes on.                 *)
LEMMA LateFewer ==
    ASSUME ServicesAssumption, Shape, NEW r \in Requests, NEW q, Asks(r, q),
           UNCHANGED services,
           Writes(q) => q.id = request[r].id /\ (Writes(request[r]) \/ services[q.id] # None)
    PROVE  Late' \subseteq Late
<1>1. ASSUME NEW s \in Late'
      PROVE  s \in Late
  <2>1. s \in Requests /\ Writes(request'[s]) /\ services[request'[s].id] = None
    BY <1>1 DEF Late, Writes
  <2>2. CASE s = r
    <3>1. request'[s] = q
      BY <2>1, <2>2 DEF Shape, Asks
    <3>2. Writes(request[r]) /\ services[request[r].id] = None
      BY <2>1, <3>1
    <3> QED
      BY <2>2, <3>2 DEF Late
  <2>3. CASE s # r
    <3>1. request'[s] = request[s]
      BY <2>1, <2>3 DEF Shape, Asks
    <3> QED
      BY <2>1, <3>1 DEF Late
  <2> QED
    BY <2>2, <2>3
<1> QED
  BY <1>1

(* A request that ends is late no more.                                    *)
LEMMA LateEnds ==
    ASSUME ServicesAssumption, Shape, NEW r \in Requests, End(r), \A s \in Ids : services'[s] = None => services[s] = None
    PROVE  Late' \subseteq Late \ {r}
<1>1. ASSUME NEW s \in Late'
      PROVE  s \in Late \ {r}
  <2>1. s \in Requests /\ Writes(request'[s]) /\ services'[request'[s].id] = None
    BY <1>1 DEF Late, Writes
  <2>2. s # r
    <3>1. request'[r] = Idle /\ ~Writes(Idle)
      BY IdleIsARequest DEF Shape, End, Writes
    <3> QED
      BY <2>1, <3>1
  <2>3. request'[s] = request[s]
    BY <2>1, <2>2 DEF Shape, End
  <2>4. request[s].id \in Ids
    <3>1. Writes(request[s])
      BY <2>1, <2>3
    <3>2. request[s] \in WorkflowRequest \cup BuildRequest
      BY <2>1, <3>1, Kinds DEF Writes
    <3> QED
      BY <3>2 DEF WorkflowRequest, BuildRequest
  <2> QED
    BY <2>1, <2>2, <2>3, <2>4 DEF Late
<1> QED
  BY <1>1

-----------------------------------------------------------------------------
(* The steps.                                                              *)

LEMMA StartedStep ==
    ASSUME ServicesAssumption, ServicesInv, NEW r \in Requests,
           Save(r) \/ Delete(r) \/ SaveWorkflow(r) \/ CreateContinuousIntegration(r)
           \/ CreateContinuousDeployment(r) \/ ApplyService(r)
    PROVE  ServicesInv'
<1>1. Shape /\ Shape'
  BY Asked DEF ServicesInv
<1>2. PICK q \in AnyRequest : Start(r, q) /\ q.at # "record" /\ ~Writes(q)
  BY Asked DEF ServicesInv
<1>3. Asks(r, q) /\ request[r].at # "record"
  BY <1>2, IdleIsARequest DEF Start, Asks
<1>4. UNCHANGED <<services, workflows, builds, runs, recorded>>
      /\ count'.fault = count.fault /\ count'.crash = count.crash /\ count'.delete = count.delete
  BY <1>1, <1>2 DEF Start, Counted, Shape, Counts
<1>5. Recording' = Recording
  BY <1>1, <1>2, <1>3, RecordingStays
<1>6. RunsKnown'
  BY <1>1, <1>4, <1>5, RunsStay, ServicesCount DEF ServicesInv
<1>7. Orphans' = Orphans /\ Late' \subseteq Late
  BY <1>1, <1>2, <1>3, <1>4, LateFewer DEF Orphans
<1> QED
  BY <1>1, <1>4, <1>6, <1>7, RowsFewer DEF ServicesInv

LEMMA ReadsStep ==
    ASSUME ServicesAssumption, ServicesInv, NEW r \in Requests, Reads(r)
    PROVE  ServicesInv'
<1>1. UNCHANGED <<services, workflows, builds, objects, runs, recorded, reachable, count>>
  BY ReadsAsk DEF ServicesInv
<1>2. PICK q \in AnyRequest : Asks(r, q) /\ GoesOn(r, q)
  BY ReadsAsk DEF ServicesInv
<1>3. Shape /\ Shape'
  BY <1>1, <1>2, Asking DEF ServicesInv
<1>5. Recording' = Recording
  BY <1>2, <1>3, RecordingStays DEF GoesOn
<1>6. RunsKnown'
  BY <1>1, <1>3, <1>5, RunsStay, ServicesCount DEF ServicesInv
<1>7. Orphans' = Orphans /\ Late' \subseteq Late
  BY <1>1, <1>2, <1>3, LateFewer DEF Orphans, GoesOn
<1> QED
  BY <1>1, <1>3, <1>6, <1>7, RowsFewer DEF ServicesInv

(* Steps that end a request without a run or a row of a workflow or build. *)
LEMMA EndsStep ==
    ASSUME ServicesAssumption, ServicesInv, Shape', NEW r \in Requests, End(r), request[r].at # "record",
           UNCHANGED <<runs, recorded>>,
           count'.fault >= count.fault, count'.crash = count.crash, count'.delete = count.delete,
           Orphans' \subseteq Orphans, \A s \in Ids : services'[s] = None => services[s] = None
    PROVE  ServicesInv'
<1>1. Recording' = Recording
  BY RecordingStays, IdleIsARequest DEF ServicesInv, End, Asks
<1>2. RunsKnown'
  BY <1>1, RunsStay DEF ServicesInv
<1>3. Late' \subseteq Late
  BY LateEnds DEF ServicesInv
<1> QED
  BY <1>2, <1>3, RowsFewer DEF ServicesInv

LEMMA EndedShape ==
    ASSUME ServicesAssumption, Shape, NEW r \in Requests, End(r)
    PROVE  request' \in [Requests -> AnyRequest]
  BY IdleIsARequest DEF Shape, End

LEMMA WriteServiceStep ==
    ASSUME ServicesAssumption, ServicesInv, NEW r \in Requests, WriteService(r)
    PROVE  ServicesInv'
<1> DEFINE q == request[r]
<1>1. q \in SaveRequest /\ q.at # "record" /\ End(r)
  BY Kinds DEF ServicesInv, WriteService, At
<1>2. request' \in [Requests -> AnyRequest]
  BY <1>1, EndedShape DEF ServicesInv
<1>3. PICK s \in Ids : services' = [services EXCEPT ![s] = q.name]
  <2>1. CASE q.id = 0
    <3>1. count.service + 1 \in Ids
      BY <2>1, Bounds DEF WriteService, ServicesInv, Shape, Counts, Ids
    <3> QED
      BY <2>1, <3>1 DEF WriteService
  <2>2. CASE q.id # 0
    BY <1>1, <2>2 DEF WriteService, SaveRequest
  <2> QED
    BY <2>1, <2>2
<1>4. q.name \in Names /\ q.name # None
  BY <1>1, Bounds DEF SaveRequest
<1>5. /\ services' \in [Ids -> Names \cup {None}]
      /\ \A i \in Ids : services'[i] = None => services[i] = None
  BY <1>3, <1>4 DEF ServicesInv, Shape
<1>6. /\ count' \in Counts
      /\ count'.fault = count.fault /\ count'.crash = count.crash /\ count'.delete = count.delete
  BY Bounds DEF WriteService, Counted, ServicesInv, Shape, Counts
<1>7. Shape'
  BY <1>2, <1>5, <1>6 DEF WriteService, ServicesInv, Shape
<1>8. Orphans' \subseteq Orphans
  BY <1>5 DEF WriteService, ServicesInv, Shape, Orphans
<1>9. count'.fault >= count.fault
  BY <1>6, ServicesCount DEF ServicesInv
<1> QED
  BY <1>1, <1>5, <1>6, <1>7, <1>8, <1>9, EndsStep DEF WriteService

LEMMA WriteWorkflowStep ==
    ASSUME ServicesAssumption, ServicesInv, NEW r \in Requests, WriteWorkflow(r)
    PROVE  ServicesInv'
<1> DEFINE q == request[r]
           id == IF q.row = 0 THEN count.workflow + 1 ELSE q.row
           x == [id |-> id, service |-> q.id, type |-> q.type]
<1>1. q \in WorkflowRequest /\ q.at = "write" /\ q.op = "workflow" /\ End(r) /\ Shape
  BY Kinds DEF ServicesInv, WriteWorkflow, At
<1>2. request' \in [Requests -> AnyRequest]
  BY <1>1, EndedShape DEF ServicesInv
<1>3. id \in 1..MaxWorkflows
  <2>1. id <= MaxWorkflows
    BY DEF WriteWorkflow
  <2>2. count.workflow \in Nat /\ q.row \in Nat
    BY <1>1, Bounds DEF Shape, Counts, WorkflowRequest
  <2> QED
    BY <2>1, <2>2, Bounds
<1>4. x \in [id : 1..MaxWorkflows, service : Ids, type : Types]
  BY <1>1, <1>3 DEF WorkflowRequest
<1>5. workflows' \subseteq workflows \cup {x} /\ UNCHANGED <<services, builds>>
  BY DEF WriteWorkflow
<1>6. IsFiniteSet(workflows')
  <2> HIDE DEF x
  <2> QED
    BY <1>1, <1>5, OneMore DEF Shape
<1>7. /\ count' \in Counts
      /\ count'.fault = count.fault /\ count'.crash = count.crash /\ count'.delete = count.delete
  BY <1>1, <1>3, Bounds DEF WriteWorkflow, Shape, Counts
<1> HIDE DEF x, id
<1>8. Shape'
  BY <1>1, <1>2, <1>4, <1>5, <1>6, <1>7 DEF WriteWorkflow, Shape
<1>9. count'.fault >= count.fault
  BY <1>1, <1>7, ServicesCount
<1>s. x.service = q.id
  BY DEF x
<1>10. Recording' = Recording
  BY <1>1, RecordingStays, IdleIsARequest DEF End, Asks
<1>11. RunsKnown'
  BY <1>1, <1>7, <1>8, <1>9, <1>10, RunsStay DEF ServicesInv, WriteWorkflow
<1>12. Late' \subseteq Late \ {r}
  BY <1>1, <1>5, LateEnds
<1>13. CASE services[q.id] = None
  <2>1. r \in Late
    BY <1>1, <1>13 DEF Late, Writes
  <2>2. Orphans' \subseteq Orphans \cup {x}
    BY <1>5 DEF Orphans
  <2> QED
    BY <1>1, <1>7, <1>8, <1>11, <1>12, <2>1, <2>2, RowIsWritten DEF ServicesInv
<1>14. CASE services[q.id] # None
  <2>1. Orphans' \subseteq Orphans
    BY <1>5, <1>s, <1>14 DEF Orphans
  <2> QED
    BY <1>1, <1>7, <1>8, <1>11, <1>12, <2>1, RowsFewer DEF ServicesInv
<1> QED
  BY <1>13, <1>14

LEMMA CommitWorkflowStep ==
    ASSUME ServicesAssumption, ServicesInv, NEW r \in Requests, CommitWorkflow(r)
    PROVE  ServicesInv'
<1> DEFINE q == request[r]
           p == [q EXCEPT !.at = "record"]
           n == count.crash * Cardinality(Requests)
<1>1. q \in BuildRequest /\ q.at = "commit" /\ q.op = "build" /\ Shape
  BY Kinds DEF ServicesInv, CommitWorkflow, At, SaveRequest, Looking, DeleteRequest, WorkflowRequest,
               ApplyRequest, Idle
<1>2. UNCHANGED <<services, workflows, builds, objects, recorded, reachable>>
  BY DEF CommitWorkflow
<1>3. Orphans' = Orphans
  BY <1>2 DEF Orphans
<1>4. CASE /\ runs < MaxRuns /\ runs' = runs + 1 /\ Goto(r, "record") /\ UNCHANGED count
  <2>1. Asks(r, p) /\ p \in BuildRequest /\ p.at = "record" /\ p.id = q.id
    BY <1>1, <1>4 DEF Goto, Asks, BuildRequest
  <2> HIDE DEF p
  <2>2. request' \in [Requests -> AnyRequest]
    BY <1>1, <2>1, AskedShape DEF AnyRequest
  <2>3. runs' \in 0..MaxRuns
    BY <1>1, <1>4, Bounds DEF Shape
  <2>4. Shape'
    BY <1>1, <1>2, <1>4, <2>2, <2>3 DEF Shape
  <2>5. Recording' = Recording \cup {r} /\ r \notin Recording
    BY <1>1, <2>1, RecordingBegins DEF Recording, At
  <2>6. Cardinality(Recording') = Cardinality(Recording) + 1
    BY <1>1, <2>5, OneAdded, ServicesCount
  <2>7. RunsKnown'
    <3>1. n' = n /\ n \in Nat /\ runs \in Nat /\ recorded \in Nat /\ Cardinality(Recording) \in Nat
          /\ count.fault \in Nat
      BY <1>1, <1>4, ServicesCount, Bounds
    <3>2. recorded + Cardinality(Recording) <= runs /\ runs <= recorded + Cardinality(Recording) + count.fault + n
      BY DEF ServicesInv, RunsKnown
    <3>3. /\ recorded' + Cardinality(Recording') <= runs'
          /\ runs' <= recorded' + Cardinality(Recording') + count'.fault + n'
      <4> HIDE DEF n
      <4> QED
        BY <1>2, <1>4, <2>6, <3>1, <3>2
    <3> QED
      BY <3>3 DEF RunsKnown
  <2>8. Late' \subseteq Late
    BY <1>1, <1>2, <2>1, LateFewer DEF Writes
  <2> QED
    BY <1>1, <1>3, <1>4, <2>4, <2>7, <2>8, RowsFewer DEF ServicesInv
<1>5. CASE /\ runs < MaxRuns /\ runs' = runs + 1 /\ End(r) /\ Counted("fault")
  <2>1. /\ count' \in Counts
        /\ count'.fault = count.fault + 1 /\ count'.crash = count.crash /\ count'.delete = count.delete
    BY <1>1, <1>5 DEF Shape, Counts, Counted
  <2>2. runs' \in 0..MaxRuns
    BY <1>1, <1>5, Bounds DEF Shape
  <2>3. Shape'
    BY <1>1, <1>2, <1>5, <2>1, <2>2, EndedShape DEF Shape
  <2>4. Recording' = Recording
    BY <1>1, <1>5, RecordingStays, IdleIsARequest DEF End, Asks
  <2>5. RunsKnown'
    <3>1. n' = n /\ n \in Nat /\ runs \in Nat /\ recorded \in Nat /\ Cardinality(Recording) \in Nat
          /\ count.fault \in Nat
      BY <1>1, <2>1, ServicesCount, Bounds
    <3>2. recorded + Cardinality(Recording) <= runs /\ runs <= recorded + Cardinality(Recording) + count.fault + n
      BY DEF ServicesInv, RunsKnown
    <3>3. /\ recorded' + Cardinality(Recording') <= runs'
          /\ runs' <= recorded' + Cardinality(Recording') + count'.fault + n'
      <4> HIDE DEF n
      <4> QED
        BY <1>2, <1>5, <2>1, <2>4, <3>1, <3>2
    <3> QED
      BY <3>3 DEF RunsKnown
  <2>6. Late' \subseteq Late
    BY <1>1, <1>2, <1>5, LateEnds
  <2> QED
    BY <1>1, <1>3, <2>1, <2>3, <2>5, <2>6, RowsFewer DEF ServicesInv
<1>6. CASE End(r) /\ UNCHANGED <<runs, count>>
  <2>1. Shape'
    BY <1>1, <1>2, <1>6, EndedShape DEF Shape
  <2> QED
    BY <1>1, <1>2, <1>3, <1>6, <2>1, EndsStep, ServicesCount
<1> QED
  BY <1>4, <1>5, <1>6 DEF CommitWorkflow

LEMMA SaveBuildStep ==
    ASSUME ServicesAssumption, ServicesInv, NEW r \in Requests, SaveBuild(r)
    PROVE  ServicesInv'
<1> DEFINE q == request[r]
           x == Build(recorded + 1, q)
           n == count.crash * Cardinality(Requests)
<1>1. q \in BuildRequest /\ q.at = "record" /\ q.op = "build" /\ Shape /\ End(r)
  BY Kinds DEF ServicesInv, SaveBuild, At, SaveRequest, Looking, DeleteRequest, WorkflowRequest,
               ApplyRequest, Idle
<1>2. r \in Recording /\ Recording' = Recording \ {r}
  BY <1>1, RecordingEnds, IdleIsARequest DEF Recording, At, End, Asks
<1>3. Cardinality(Recording) = Cardinality(Recording') + 1 /\ Cardinality(Recording') \in Nat
  BY <1>1, <1>2, ServicesCount, OneLess
<1>4. recorded + 1 \in 1..MaxRuns /\ recorded \in Nat
  <2>1. recorded + Cardinality(Recording) <= runs /\ runs \in 0..MaxRuns /\ recorded \in Nat
    BY <1>1 DEF ServicesInv, RunsKnown, Shape
  <2> QED
    BY <1>3, <2>1, Bounds
<1>5. x \in [id : 1..MaxRuns, service : Ids, type : Types, image : 0..MaxRuns] /\ x.service = q.id
  BY <1>1, <1>4 DEF Build, BuildRequest
<1>6. builds' = builds \cup {x} /\ recorded' = recorded + 1 /\ UNCHANGED <<services, workflows, runs, count>>
  BY DEF SaveBuild
<1> HIDE DEF x
<1>7. IsFiniteSet(builds')
  BY <1>1, <1>6, OneMore DEF Shape
<1>8. Shape'
  BY <1>1, <1>4, <1>5, <1>6, <1>7, EndedShape DEF SaveBuild, Shape
<1>9. RunsKnown'
  <2>1. n' = n /\ n \in Nat /\ runs \in Nat /\ count.fault \in Nat
    BY <1>1, <1>6, ServicesCount, Bounds
  <2>2. recorded + Cardinality(Recording) <= runs /\ runs <= recorded + Cardinality(Recording) + count.fault + n
    BY DEF ServicesInv, RunsKnown
  <2>3. /\ recorded' + Cardinality(Recording') <= runs'
        /\ runs' <= recorded' + Cardinality(Recording') + count'.fault + n'
    <3> HIDE DEF n
    <3> QED
      BY <1>3, <1>4, <1>6, <2>1, <2>2
  <2> QED
    BY <2>3 DEF RunsKnown
<1>12. Late' \subseteq Late \ {r}
  BY <1>1, <1>6, LateEnds
<1>13. CASE services[q.id] = None
  <2>1. r \in Late
    BY <1>1, <1>13 DEF Late, Writes
  <2>2. Orphans' \subseteq Orphans \cup {x}
    BY <1>6 DEF Orphans
  <2> QED
    BY <1>1, <1>6, <1>8, <1>9, <1>12, <2>1, <2>2, RowIsWritten DEF ServicesInv
<1>14. CASE services[q.id] # None
  <2>1. Orphans' \subseteq Orphans
    BY <1>5, <1>6, <1>14 DEF Orphans
  <2> QED
    BY <1>1, <1>6, <1>8, <1>9, <1>12, <2>1, RowsFewer DEF ServicesInv
<1> QED
  BY <1>13, <1>14

LEMMA ApplyObjectStep ==
    ASSUME ServicesAssumption, ServicesInv, NEW r \in Requests, ApplyObject(r)
    PROVE  ServicesInv'
<1>1. request[r] \in ApplyRequest /\ request[r].at = "apply" /\ Shape /\ End(r)
  BY Kinds DEF ServicesInv, ApplyObject, At, SaveRequest, Looking, DeleteRequest, WorkflowRequest,
               BuildRequest, Idle
<1>2. [name |-> request[r].name, image |-> request[r].image] \in [name : Names, image : 0..MaxRuns]
  BY <1>1 DEF ApplyRequest
<1>3. objects' \subseteq [name : Names, image : 0..MaxRuns]
  BY <1>1, <1>2 DEF ApplyObject, Without, Shape
<1>4. Shape'
  BY <1>1, <1>3, EndedShape DEF ApplyObject, Shape
<1>5. Orphans' = Orphans
  BY DEF ApplyObject, Orphans
<1> QED
  BY <1>1, <1>4, <1>5, EndsStep, ServicesCount DEF ApplyObject

LEMMA DeleteObjectStep ==
    ASSUME ServicesAssumption, ServicesInv, NEW r \in Requests, DeleteObject(r)
    PROVE  ServicesInv'
<1> DEFINE q == request[r]
           p == [op |-> "delete", at |-> "rows", id |-> q.id, name |-> q.name, outage |-> ~reachable]
<1>1. q \in DeleteRequest /\ q.at = "object" /\ Shape
  BY Kinds DEF ServicesInv, DeleteObject, At, SaveRequest, Looking, ApplyRequest, WorkflowRequest,
               BuildRequest, Idle
<1>2. objects' \subseteq [name : Names, image : 0..MaxRuns]
  BY <1>1 DEF DeleteObject, Without, Shape
<1>3. p \in DeleteRequest /\ p.at # "record" /\ ~Writes(p)
  BY <1>1 DEF DeleteRequest, Writes, Shape
<1>4. End(r) \/ Asks(r, p)
  BY <1>1 DEF DeleteObject, Asks, Shape
<1>5. UNCHANGED <<services, workflows, builds, runs, recorded, reachable, count>>
  BY DEF DeleteObject
<1>6. Orphans' = Orphans
  BY <1>5 DEF Orphans
<1> HIDE DEF p
<1>7. CASE End(r)
  <2>1. Shape'
    BY <1>1, <1>2, <1>5, <1>7, EndedShape DEF Shape
  <2> QED
    BY <1>1, <1>5, <1>6, <1>7, <2>1, EndsStep, ServicesCount
<1>8. CASE Asks(r, p)
  <2>1. Shape'
    BY <1>1, <1>2, <1>3, <1>5, <1>8, AskedShape DEF Shape, AnyRequest
  <2>2. Recording' = Recording /\ Late' \subseteq Late
    BY <1>1, <1>3, <1>5, <1>8, RecordingStays, LateFewer
  <2>3. RunsKnown'
    BY <1>1, <1>5, <2>1, <2>2, RunsStay, ServicesCount DEF ServicesInv
  <2> QED
    BY <1>1, <1>5, <1>6, <2>1, <2>2, <2>3, RowsFewer DEF ServicesInv
<1> QED
  BY <1>4, <1>7, <1>8

(* A delete may overlap every other request: each of them will leave a row. *)
LEMMA DeleteRowsStep ==
    ASSUME ServicesAssumption, ServicesInv, NEW r \in Requests, DeleteRows(r)
    PROVE  ServicesInv'
<1> DEFINE s == request[r].id
           n == count.delete * (Cardinality(Requests) - 1)
<1>1. request[r] \in DeleteRequest /\ request[r].at = "rows" /\ Shape /\ End(r)
  BY Kinds DEF ServicesInv, DeleteRows, At, SaveRequest, Looking, ApplyRequest, WorkflowRequest,
               BuildRequest, Idle
<1>2. s \in Ids
  BY <1>1 DEF DeleteRequest
<1>3. services' \in [Ids -> Names \cup {None}]
  BY <1>1, <1>2 DEF DeleteRows, Shape
<1>4. workflows' \subseteq workflows /\ builds' \subseteq builds
  BY DEF DeleteRows
<1>5. IsFiniteSet(workflows') /\ IsFiniteSet(builds')
  BY <1>1, <1>4, SmallerCounts DEF Shape
<1>6. /\ count' \in Counts /\ count'.fault = count.fault /\ count'.crash = count.crash
      /\ count'.delete = count.delete + 1
  BY <1>1 DEF DeleteRows, Counted, Shape, Counts
<1>7. UNCHANGED <<objects, runs, recorded, reachable>>
  BY DEF DeleteRows
<1>8. Shape'
  BY <1>1, <1>3, <1>4, <1>5, <1>6, <1>7, EndedShape DEF Shape
<1>9. Recording' = Recording
  BY <1>1, RecordingStays, IdleIsARequest DEF End, Asks
<1>10. RunsKnown'
  BY <1>1, <1>6, <1>7, <1>8, <1>9, RunsStay, ServicesCount DEF ServicesInv
<1>11. Orphans' \subseteq Orphans
  <2>1. ASSUME NEW x \in Orphans'
        PROVE  x \in Orphans
    <3>1. x \in workflows' \cup builds' /\ services'[x.service] = None
      BY <2>1 DEF Orphans
    <3>2. x \in workflows \cup builds /\ x.service # s /\ x.service \in Ids
      BY <1>1, <3>1 DEF DeleteRows, Shape
    <3>3. services[x.service] = None
      BY <1>1, <3>1, <3>2 DEF DeleteRows, Shape
    <3> QED
      BY <3>2, <3>3 DEF Orphans
  <2> QED
    BY <2>1
<1>12. Late' \subseteq Requests \ {r}
  <2>1. request'[r] = Idle /\ ~Writes(Idle)
    BY <1>1, IdleIsARequest DEF Shape, End, Writes
  <2>2. \A q \in Late' : q \in Requests /\ Writes(request'[q])
    BY DEF Late, Writes
  <2> QED
    BY <2>1, <2>2
<1>13. Cardinality(Late') \in Nat /\ Cardinality(Late') <= Cardinality(Requests) - 1
  <2>1. IsFiniteSet(Requests \ {r}) /\ Cardinality(Requests) = Cardinality(Requests \ {r}) + 1
        /\ Cardinality(Requests \ {r}) \in Nat
    BY Bounds, OneLess
  <2>2. Cardinality(Late') \in Nat /\ Cardinality(Late') <= Cardinality(Requests \ {r})
    BY <1>12, <2>1, SmallerCounts
  <2> QED
    BY <2>1, <2>2
<1>14. Cardinality(Orphans') \in Nat /\ Cardinality(Orphans') <= n
  <2>1. Cardinality(Orphans') \in Nat /\ Cardinality(Orphans') <= Cardinality(Orphans)
    BY <1>1, <1>11, ServicesCount, SmallerCounts
  <2>2. Cardinality(Orphans) + Cardinality(Late) <= n /\ n \in Int
    BY <1>1, Bounds, ServicesCount DEF ServicesInv, RowsKnown
  <2>3. Cardinality(Orphans) \in Nat /\ Cardinality(Late) \in Nat
    BY <1>1, ServicesCount
  <2> HIDE DEF n
  <2> QED
    BY <2>1, <2>2, <2>3
<1>15. n' = n + (Cardinality(Requests) - 1) /\ n \in Int /\ n' \in Int
  <2>1. count.delete \in Nat /\ Cardinality(Requests) - 1 \in Int
    BY <1>1, Bounds, ServicesCount
  <2>2. \A d \in Nat, m \in Int : (d + 1) * m = d * m + m /\ d * m \in Int
    OBVIOUS
  <2>3. n' = (count.delete + 1) * (Cardinality(Requests) - 1)
    BY <1>6
  <2> QED
    BY <2>1, <2>2, <2>3
<1>16. Cardinality(Orphans') + Cardinality(Late') <= n'
  <2> HIDE DEF n
  <2> QED
    BY <1>13, <1>14, <1>15, Bounds
<1> QED
  BY <1>8, <1>10, <1>16 DEF ServicesInv, RowsKnown

LEMMA FailStep ==
    ASSUME ServicesAssumption, ServicesInv, NEW r \in Requests, Fail(r)
    PROVE  ServicesInv'
<1> DEFINE n == count.crash * Cardinality(Requests)
<1>1. Shape /\ End(r) /\ UNCHANGED <<services, workflows, builds, objects, runs, recorded, reachable>>
  BY DEF ServicesInv, Fail
<1>2. /\ count' \in Counts /\ count'.fault = count.fault + 1 /\ count'.crash = count.crash
      /\ count'.delete = count.delete
  BY <1>1 DEF Fail, Counted, Shape, Counts
<1>3. Shape'
  BY <1>1, <1>2, EndedShape DEF Shape
<1>4. Orphans' = Orphans
  BY <1>1 DEF Orphans
<1>5. Late' \subseteq Late
  BY <1>1, LateEnds
<1>6. Recording' \subseteq Recording /\ Recording \subseteq Recording' \cup {r}
  BY <1>1, RecordingEnds, IdleIsARequest DEF End, Asks
<1>7. /\ Cardinality(Recording) \in Nat /\ Cardinality(Recording') \in Nat
      /\ Cardinality(Recording') <= Cardinality(Recording)
      /\ Cardinality(Recording) <= Cardinality(Recording') + 1
  <2>1. IsFiniteSet(Recording) /\ IsFiniteSet(Recording')
    BY <1>1, <1>3, <1>6, ServicesCount, SmallerCounts
  <2> QED
    BY <1>6, <2>1, SmallerCounts, OneMore
<1>8. RunsKnown'
  <2>1. n' = n /\ n \in Nat /\ runs \in Nat /\ recorded \in Nat /\ count.fault \in Nat
    BY <1>1, <1>2, ServicesCount, Bounds
  <2>2. recorded + Cardinality(Recording) <= runs /\ runs <= recorded + Cardinality(Recording) + count.fault + n
    BY DEF ServicesInv, RunsKnown
  <2>3. /\ recorded' + Cardinality(Recording') <= runs'
        /\ runs' <= recorded' + Cardinality(Recording') + count'.fault + n'
    <3> HIDE DEF n
    <3> QED
      BY <1>1, <1>2, <1>7, <2>1, <2>2
  <2> QED
    BY <2>3 DEF RunsKnown
<1> QED
  BY <1>1, <1>2, <1>3, <1>4, <1>5, <1>8, RowsFewer DEF ServicesInv

(* The process takes every run that was to be recorded with it.            *)
LEMMA CrashStep ==
    ASSUME ServicesAssumption, ServicesInv, Crash
    PROVE  ServicesInv'
<1> DEFINE n == count.crash * Cardinality(Requests)
<1>1. Shape /\ UNCHANGED <<services, workflows, builds, objects, runs, recorded, reachable>>
  BY DEF ServicesInv, Crash
<1>2. /\ count' \in Counts /\ count'.fault = count.fault /\ count'.crash = count.crash + 1
      /\ count'.delete = count.delete
  BY <1>1 DEF Crash, Counted, Shape, Counts
<1>3. request' \in [Requests -> AnyRequest] /\ \A r \in Requests : request'[r] = Idle
  BY IdleIsARequest DEF Crash
<1>4. Shape'
  BY <1>1, <1>2, <1>3 DEF Shape
<1>5. Recording' = {} /\ Late' = {} /\ Orphans' = Orphans
  BY <1>1, <1>3, IdleIsARequest DEF Recording, Late, Orphans, At, Writes
<1>6. Cardinality(Recording') = 0
  BY <1>5, FS_EmptySet
<1>7. RunsKnown'
  <2>1. n' = n + Cardinality(Requests) /\ n \in Nat
    <3>1. count.crash \in Nat /\ Cardinality(Requests) \in Nat
      BY <1>1, Bounds, ServicesCount
    <3>2. \A d \in Nat, m \in Nat : (d + 1) * m = d * m + m /\ d * m \in Nat
      OBVIOUS
    <3>3. n' = (count.crash + 1) * Cardinality(Requests)
      BY <1>2
    <3> QED
      BY <3>1, <3>2, <3>3
  <2>2. recorded + Cardinality(Recording) <= runs /\ runs <= recorded + Cardinality(Recording) + count.fault + n
    BY DEF ServicesInv, RunsKnown
  <2>3. /\ recorded' + Cardinality(Recording') <= runs'
        /\ runs' <= recorded' + Cardinality(Recording') + count'.fault + n'
    <3> HIDE DEF n
    <3> QED
      BY <1>1, <1>2, <1>6, <2>1, <2>2, ServicesCount, Bounds
  <2> QED
    BY <2>3 DEF RunsKnown
<1> QED
  BY <1>1, <1>2, <1>4, <1>5, <1>7, RowsFewer DEF ServicesInv

LEMMA OutsideStep ==
    ASSUME ServicesAssumption, ServicesInv, DeleteBuild \/ Flip
    PROVE  ServicesInv'
<1>1. Shape /\ UNCHANGED <<services, workflows, objects, runs, recorded, request>> /\ builds' \subseteq builds
  BY DEF ServicesInv, DeleteBuild, Flip
<1>2. /\ count' \in Counts /\ count'.fault = count.fault /\ count'.crash = count.crash
      /\ count'.delete = count.delete
  BY <1>1 DEF DeleteBuild, Flip, Counted, Shape, Counts
<1>3. IsFiniteSet(builds') /\ reachable' \in BOOLEAN
  BY <1>1, SmallerCounts DEF DeleteBuild, Flip, Shape
<1>4. Shape'
  BY <1>1, <1>2, <1>3 DEF Shape
<1>5. Recording' = Recording /\ Late' = Late /\ Orphans' \subseteq Orphans
  BY <1>1 DEF Recording, Late, Orphans, At, Writes
<1>6. RunsKnown'
  BY <1>1, <1>2, <1>4, <1>5, RunsStay, ServicesCount DEF ServicesInv
<1> QED
  BY <1>1, <1>2, <1>4, <1>5, <1>6, RowsFewer DEF ServicesInv

LEMMA StutterStep ==
    ASSUME ServicesAssumption, ServicesInv, UNCHANGED vars
    PROVE  ServicesInv'
  BY DEF ServicesInv, Shape, RunsKnown, RowsKnown, Recording, Late, Orphans, At, Writes, vars

-----------------------------------------------------------------------------
LEMMA ServicesBegin ==
    ASSUME ServicesAssumption
    PROVE  Init => ServicesInv
<1> SUFFICES ASSUME Init
             PROVE  ServicesInv
  OBVIOUS
<1>1. Shape
  BY Bounds, IdleIsARequest, FS_EmptySet DEF Init, Shape, Counts
<1>2. Recording = {} /\ Late = {} /\ Orphans = {}
  BY IdleIsARequest DEF Init, Recording, Late, Orphans, At, Writes
<1>3. Cardinality(Recording) = 0 /\ Cardinality(Late) = 0 /\ Cardinality(Orphans) = 0
  BY <1>2, FS_EmptySet
<1>4. count.crash * Cardinality(Requests) = 0 /\ count.delete * (Cardinality(Requests) - 1) = 0
  BY Bounds DEF Init
<1> QED
  BY <1>1, <1>3, <1>4 DEF Init, ServicesInv, RunsKnown, RowsKnown

LEMMA ServicesStep ==
    ASSUME ServicesAssumption
    PROVE  ServicesInv /\ [Next]_vars => ServicesInv'
<1> SUFFICES ASSUME ServicesInv, [Next]_vars
             PROVE  ServicesInv'
  OBVIOUS
<1>1. ASSUME NEW r \in Requests, Call(r)
      PROVE  ServicesInv'
  BY <1>1, ReadsStep, WriteServiceStep, WriteWorkflowStep, CommitWorkflowStep, SaveBuildStep,
     ApplyObjectStep, DeleteObjectStep, DeleteRowsStep DEF Call, Reads
<1> QED
  BY <1>1, StartedStep, FailStep, CrashStep, OutsideStep, StutterStep DEF Next

(* What the properties say follows.                                        *)
LEMMA ServicesHold ==
    ASSUME ServicesAssumption
    PROVE  ServicesInv => TypeOK /\ RowsHaveAService /\ RunsAreRecorded
<1> SUFFICES ASSUME ServicesInv
             PROVE  TypeOK /\ RowsHaveAService /\ RunsAreRecorded
  OBVIOUS
<1> DEFINE n == count.crash * Cardinality(Requests)
           m == count.delete * (Cardinality(Requests) - 1)
<1>1. /\ Cardinality(Recording) \in Nat /\ Cardinality(Late) \in Nat /\ Cardinality(Orphans) \in Nat
      /\ count.fault \in Nat /\ n \in Nat /\ m \in Int /\ runs \in Nat /\ recorded \in Nat
  BY ServicesCount, Bounds DEF ServicesInv
<1>2. /\ recorded + Cardinality(Recording) <= runs
      /\ runs <= recorded + Cardinality(Recording) + count.fault + n
      /\ Cardinality(Orphans) + Cardinality(Late) <= m
  BY DEF ServicesInv, RunsKnown, RowsKnown
<1>3. recorded \in 0..runs /\ runs - recorded <= count.fault + n + Cardinality(Recording)
      /\ Cardinality(Orphans) <= m
  <2> HIDE DEF n, m
  <2> QED
    BY <1>1, <1>2
<1>4. TypeOK
  <2>1. \A r \in Requests : request[r].op \in {"idle", "save", "delete", "workflow", "build", "apply"}
    BY Kinds DEF ServicesInv
  <2> QED
    BY <1>3, <2>1 DEF ServicesInv, Shape, TypeOK
<1>5. RunsAreRecorded
  BY <1>3 DEF RunsAreRecorded, Recording
<1> QED
  BY <1>3, <1>4, <1>5 DEF RowsHaveAService

(* A workflow, an integration or a deployment is without its service only  *)
(* if a request overlapped the delete of it; a run is without a record     *)
(* only by a failure or a crash (biz/service.go:515,571).                  *)
THEOREM ServicesCorrect ==
    ASSUME ServicesAssumption
    PROVE  Spec => [](TypeOK /\ RowsHaveAService /\ RunsAreRecorded)
<1>1. Init => ServicesInv
  BY ServicesBegin
<1>2. ServicesInv /\ [Next]_vars => ServicesInv'
  BY ServicesStep
<1>3. ServicesInv => TypeOK /\ RowsHaveAService /\ RunsAreRecorded
  BY ServicesHold
<1> QED
  BY <1>1, <1>2, <1>3, PTL DEF Spec

-----------------------------------------------------------------------------
(* Requests that come one at a time: nothing comes between the steps of a  *)
(* delete, so the name it has read is that of its row, and the object of   *)
(* that name is gone when the rows go.                                     *)

InTurn == \A r, s \in Requests : r = s

Named(os, n) == \E o \in os : o.name = n
Deleting(r) ==
  LET q == request[r] IN
  /\ q.op = "delete" /\ q.at \in {"object", "rows"} => services[q.id] = q.name
  /\ q.op = "delete" /\ q.at = "rows" /\ ~q.outage => ~Named(objects, q.name)
InTurnInv == Shape /\ \A r \in Requests : Deleting(r)

LEMMA InTurnStep ==
    ASSUME ServicesAssumption, InTurn, InTurnInv, Shape', [Next]_vars
    PROVE  InTurnInv'
<1>1. SUFFICES ASSUME NEW r \in Requests, request'[r].op = "delete", request'[r].at \in {"object", "rows"}
               PROVE  /\ services'[request'[r].id] = request'[r].name
                      /\ request'[r].at = "rows" /\ ~request'[r].outage => ~Named(objects', request'[r].name)
  BY DEF InTurnInv, Deleting
<1>2. request[r] \in AnyRequest /\ request \in [Requests -> AnyRequest] /\ Shape /\ Deleting(r)
  BY DEF InTurnInv, Shape
<1>3. ASSUME NEW q, request' = [request EXCEPT ![r] = q]
      PROVE  request'[r] = q
  BY <1>2, <1>3
<1>4. ASSUME request'[r] = request[r], UNCHANGED <<services, objects>>
      PROVE  /\ services'[request'[r].id] = request'[r].name
             /\ request'[r].at = "rows" /\ ~request'[r].outage => ~Named(objects', request'[r].name)
  BY <1>1, <1>2, <1>4 DEF Deleting
<1>5. ASSUME End(r)
      PROVE  FALSE
  BY <1>1, <1>2, <1>5, IdleIsARequest DEF End
<1>6. CASE UNCHANGED vars
  BY <1>4, <1>6 DEF vars
<1>7. CASE DeleteBuild \/ Flip
  BY <1>4, <1>7 DEF DeleteBuild, Flip
<1>8. CASE Crash
  BY <1>1, <1>8, IdleIsARequest DEF Crash
<1>9. ASSUME NEW s \in Requests, Save(s) \/ Delete(s) \/ SaveWorkflow(s) \/ CreateContinuousIntegration(s)
                                 \/ CreateContinuousDeployment(s) \/ ApplyService(s)
      PROVE  FALSE
  <2>1. s = r
    BY DEF InTurn
  <2>2. request'[r].at \notin {"object", "rows"}
    BY <1>2, <1>9, <2>1 DEF Save, Delete, SaveWorkflow, CreateContinuousIntegration,
       CreateContinuousDeployment, ApplyService, Start
  <2> QED
    BY <1>1, <2>2
<1>10. ASSUME NEW s \in Requests, Fail(s)
       PROVE  FALSE
  BY <1>5, <1>10 DEF Fail, InTurn
<1>11. ASSUME NEW s \in Requests, Call(s)
       PROVE  /\ services'[request'[r].id] = request'[r].name
              /\ request'[r].at = "rows" /\ ~request'[r].outage => ~Named(objects', request'[r].name)
  <2>1. s = r
    BY DEF InTurn
  <2>2. CASE WriteService(r) \/ WriteWorkflow(r) \/ SaveBuild(r) \/ ApplyObject(r) \/ DeleteRows(r)
    BY <1>5, <2>2 DEF WriteService, WriteWorkflow, SaveBuild, ApplyObject, DeleteRows
  <2>3. CASE DeleteObject(r)
    <3>1. request[r] \in DeleteRequest /\ request[r].at = "object"
      BY <1>2, <2>3, Kinds DEF DeleteObject, At, SaveRequest, Looking, ApplyRequest, WorkflowRequest,
               BuildRequest, Idle
    <3>2. request[r].op = "delete" /\ services[request[r].id] = request[r].name
      BY <1>2, <3>1 DEF Deleting, DeleteRequest
    <3>3. /\ request'[r].id = request[r].id /\ request'[r].name = request[r].name
          /\ request'[r].outage = ~reachable
      BY <1>2, <1>5, <2>3 DEF DeleteObject
    <3>4. reachable => ~Named(objects', request[r].name)
      BY <2>3 DEF DeleteObject, Named, Without
    <3>5. services' = services /\ reachable \in BOOLEAN
      BY <1>2, <2>3 DEF DeleteObject, Shape
    <3> QED
      BY <3>2, <3>3, <3>4, <3>5
  <2>4. CASE Get(r)
    <3>1. /\ request[r].at = "row" /\ UNCHANGED <<services, objects>>
          /\ request' = [request EXCEPT ![r] = [request[r] EXCEPT !.name = services[request[r].id],
                            !.at = IF request[r].op = "delete" THEN "object" ELSE "status"]]
      BY <1>5, <2>4 DEF Get, At
    <3>2. request'[r] = [request[r] EXCEPT !.name = services[request[r].id],
                            !.at = IF request[r].op = "delete" THEN "object" ELSE "status"]
      BY <1>2, <3>1
    <3>3. CASE request[r].op = "delete"
      <4>1. request[r] \in DeleteRequest
        BY <1>2, <3>3, Kinds
      <4>2. /\ request'[r].at = "object" /\ request'[r].id = request[r].id
            /\ request'[r].name = services[request[r].id]
        BY <3>1, <3>2, <3>3, <4>1 DEF DeleteRequest
      <4> QED
        BY <3>1, <4>2
    <3>4. CASE request[r].op # "delete"
      <4>1. request'[r].op = request[r].op
        BY <1>2, <3>1, <3>2, Kinds DEF AnyRequest, SaveRequest, DeleteRequest, WorkflowRequest,
           BuildRequest, ApplyRequest, Idle
      <4> QED
        BY <1>1, <3>4, <4>1
    <3> QED
      BY <3>3, <3>4
  <2>5. CASE GetServiceByName(r) \/ GetServiceStatus(r) \/ GetWorkflowByServiceId(r) \/ CommitWorkflow(r)
    <3>1. PICK l \in {"write", "list", "image", "commit", "record"} : Goto(r, l)
      <4>1. CASE GetServiceStatus(r)
        <5>1. request[r].op \in {"workflow", "build", "apply"}
          BY <1>2, <4>1, Kinds DEF GetServiceStatus, At, SaveRequest, DeleteRequest, Looking, Idle
        <5> QED
          BY <1>5, <4>1, <5>1 DEF GetServiceStatus
      <4> QED
        BY <1>5, <2>5, <4>1 DEF GetServiceByName, GetWorkflowByServiceId, CommitWorkflow
    <3>2. request'[r].at = l \/ request'[r] = request[r]
      BY <1>2, <3>1, Kinds DEF Goto, AnyRequest, SaveRequest, DeleteRequest, WorkflowRequest, BuildRequest,
         ApplyRequest, Idle
    <3>3. UNCHANGED <<services, objects>>
      BY <2>5 DEF GetServiceByName, GetServiceStatus, GetWorkflowByServiceId, CommitWorkflow
    <3> QED
      BY <1>1, <1>4, <3>2, <3>3
  <2>6. CASE GetBuild(r)
    <3>1. request[r].op \in {"build", "apply"}
      BY <1>2, <2>6, Kinds DEF GetBuild, At, SaveRequest, DeleteRequest, WorkflowRequest, Looking, Idle
    <3>2. request'[r].op = request[r].op
      BY <1>2, <2>6, <3>1, Kinds DEF GetBuild, BuildRequest, ApplyRequest
    <3> QED
      BY <1>1, <3>1, <3>2
  <2> QED
    BY <1>11, <2>1, <2>2, <2>3, <2>4, <2>5, <2>6 DEF Call
<1> QED
  BY <1>6, <1>7, <1>8, <1>9, <1>10, <1>11 DEF Next

(* A row of a service goes with a delete, by the one who asks for it.      *)
LEMMA RowGoesLast ==
    ASSUME ServicesAssumption, InTurn, InTurnInv, [Next]_vars
    PROVE  ObjectsGoFirst
<1>1. SUFFICES ASSUME NEW s \in Ids, services[s] # None, services'[s] = None
               PROVE  (\A o \in objects' : o.name # services[s]) \/ \E r \in Requests : At(r, "rows") /\ request[r].outage
  BY DEF ObjectsGoFirst
<1>2. PICK r \in Requests : DeleteRows(r) \/ WriteService(r)
  <2>1. services' # services
    BY <1>1
  <2> QED
    BY <2>1 DEF Next, vars, Call, Save, Delete, SaveWorkflow, CreateContinuousIntegration,
       CreateContinuousDeployment, ApplyService, Start, DeleteBuild, Crash, Flip, Fail, GetServiceByName,
       Get, GetServiceStatus, GetBuild, GetWorkflowByServiceId, WriteWorkflow, CommitWorkflow, SaveBuild,
       ApplyObject, DeleteObject
<1>3. CASE DeleteRows(r)
  <2>1. request[r] \in DeleteRequest /\ request[r].at = "rows" /\ services \in [Ids -> Names \cup {None}]
    BY <1>3, Kinds DEF InTurnInv, Shape, DeleteRows, At, SaveRequest, Looking, ApplyRequest, WorkflowRequest,
               BuildRequest, Idle
  <2>2. s = request[r].id
    BY <1>1, <1>3, <2>1 DEF DeleteRows
  <2>3. services[s] = request[r].name /\ (request[r].outage \/ ~Named(objects, request[r].name))
    BY <2>1, <2>2 DEF InTurnInv, Deleting, DeleteRequest
  <2>4. objects' = objects
    BY <1>3 DEF DeleteRows
  <2> QED
    BY <2>1, <2>3, <2>4 DEF Named, At
<1>4. CASE WriteService(r)
  <2>1. request[r] \in SaveRequest
    BY <1>4, Kinds DEF InTurnInv, WriteService, At
  <2>2. request[r].name # None
    BY <2>1, Bounds DEF SaveRequest
  <2>3. services \in [Ids -> Names \cup {None}]
    BY DEF InTurnInv, Shape
  <2> QED
    BY <1>1, <1>4, <2>2, <2>3 DEF WriteService
<1> QED
  BY <1>2, <1>3, <1>4

LEMMA InTurnBegins ==
    ASSUME ServicesAssumption
    PROVE  Init => InTurnInv
<1> SUFFICES ASSUME Init
             PROVE  InTurnInv
  OBVIOUS
<1>1. Shape
  BY ServicesBegin DEF ServicesInv
<1>2. \A r \in Requests : request[r] = Idle
  BY DEF Init
<1> QED
  BY <1>1, <1>2, IdleIsARequest DEF InTurnInv, Deleting

(* While requests come one at a time, the object of a service is gone      *)
(* before its rows, or the delete found no cluster (biz/service.go:490).   *)
THEOREM RowsGoLast ==
    ASSUME ServicesAssumption, InTurn
    PROVE  Spec => [][ObjectsGoFirst]_vars
<1>1. Init => InTurnInv /\ ServicesInv
  BY InTurnBegins, ServicesBegin
<1>2. InTurnInv /\ ServicesInv /\ [Next]_vars => (InTurnInv /\ ServicesInv)'
  <2>1. ServicesInv /\ [Next]_vars => ServicesInv'
    BY ServicesStep
  <2>2. ServicesInv' => Shape'
    BY DEF ServicesInv
  <2> QED
    BY <2>1, <2>2, InTurnStep
<1>3. InTurnInv /\ [Next]_vars => ObjectsGoFirst
  BY RowGoesLast
<1> QED
  BY <1>1, <1>2, <1>3, PTL DEF Spec

================================================================================

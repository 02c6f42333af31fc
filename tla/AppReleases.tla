------------------------------ MODULE AppReleases -----------------------------
(***************************************************************************)
(* Releases of applications and repositories of charts (internal/biz/app.go, *)
(* runtime/app.go, runtime/common.go): a release is an object of Kubernetes *)
(* and a row that names it, made and removed one after the other; a         *)
(* repository is looked into by an operator, through an object that is to   *)
(* live only as long as the request.                                        *)
(*                                                                          *)
(* An object is <<resource, name>>.  It is created and deleted under the    *)
(* plural of its kind, and waited for under the kind itself, which is no    *)
(* resource of the cluster: the wait ends at once with an error.            *)
(***************************************************************************)
EXTENDS Naturals, FiniteSets

CONSTANTS Clients, Names, MaxReq, MaxFaults

VARIABLES rows,   \* id -> the name of the release
          objs,   \* the objects of the cluster
          req,    \* the request of each client
          count   \* ids, requests and faults so far

vars == <<rows, objs, req, count>>

Resource(kind) == IF kind = "CloudApp" THEN "cloudapps" ELSE "cloudappreleases"
Release(n) == <<Resource("CloudAppRelease"), n>>
RepoObject(n) == <<Resource("CloudApp"), n>>
NoName == "none"
NoReq == [op |-> "none", at |-> "done", name |-> NoName, row |-> 0]
Active == {c \in Clients : req[c].at # "done"}

Init ==
  /\ rows = <<>> /\ objs = {} /\ req = [c \in Clients |-> NoReq]
  /\ count = [row |-> 0, req |-> 0, fault |-> 0]

Begin(c, op, at, n, i) ==
  /\ c \notin Active /\ count.req < MaxReq
  /\ count' = [count EXCEPT !.req = @ + 1]
  /\ req' = [req EXCEPT ![c] = [op |-> op, at |-> at, name |-> n, row |-> i]]
  /\ UNCHANGED <<rows, objs>>
To(c, at) == req' = [req EXCEPT ![c] = IF at = "done" THEN NoReq ELSE [@ EXCEPT !.at = at]]

CreateAppRelease(c) == \E n \in Names : Begin(c, "create", "create", n, 0)
BeginDelete(c) == \E i \in DOMAIN rows : Begin(c, "delete", "get", NoName, i)
SaveRepo(c) == \E n \in Names : Begin(c, "repo", "create", n, 0)

-----------------------------------------------------------------------------
Object(c) == IF req[c].op = "repo" THEN RepoObject(req[c].name) ELSE Release(req[c].name)

\* An object that is there already ends the request.
CreateResource(c) ==
  /\ req[c].at = "create"
  /\ IF Object(c) \in objs THEN To(c, "done") /\ UNCHANGED objs
     ELSE objs' = objs \cup {Object(c)} /\ To(c, IF req[c].op = "repo" THEN "wait" ELSE "row")
  /\ UNCHANGED <<rows, count>>

SaveAppRelease(c) ==
  /\ req[c].at = "row" /\ req[c].op = "create"
  /\ LET id == count.row + 1 IN
     /\ rows' = [i \in DOMAIN rows \cup {id} |-> IF i = id THEN req[c].name ELSE rows[i]]
     /\ count' = [count EXCEPT !.row = id]
  /\ To(c, "done") /\ UNCHANGED objs

\* The wait finds no object, and the deferred delete takes the one there is.
WaitForCRDStatus(c) ==
  /\ req[c].at = "wait" /\ <<"CloudApp", req[c].name>> \notin objs
  /\ To(c, "drop") /\ UNCHANGED <<rows, objs, count>>

DropObject(c) ==
  /\ req[c].at = "drop"
  /\ objs' = objs \ {Object(c)}
  /\ To(c, "done") /\ UNCHANGED <<rows, count>>

-----------------------------------------------------------------------------
\* A release that is gone is read as one without a name, whose object cannot be
\* deleted.
GetAppRelease(c) ==
  /\ req[c].at = "get"
  /\ IF req[c].row \in DOMAIN rows
     THEN req' = [req EXCEPT ![c].at = "object", ![c].name = rows[req[c].row]]
     ELSE To(c, "done")
  /\ UNCHANGED <<rows, objs, count>>

\* Variant: the object is left.
DeleteNoResource(c) ==
  /\ req[c].at = "object"
  /\ To(c, "row") /\ UNCHANGED <<rows, objs, count>>

\* An object that is gone ends the request: its row stays.
DeleteResource(c) ==
  /\ req[c].at = "object"
  /\ IF Object(c) \in objs THEN objs' = objs \ {Object(c)} /\ To(c, "row")
     ELSE To(c, "done") /\ UNCHANGED objs
  /\ UNCHANGED <<rows, count>>

DeleteAppRelease(c) ==
  /\ req[c].at = "row" /\ req[c].op = "delete"
  /\ rows' = [i \in DOMAIN rows \ {req[c].row} |-> rows[i]]
  /\ To(c, "done") /\ UNCHANGED <<objs, count>>

\* A call fails, or the server is gone.
Fail(c) ==
  /\ c \in Active /\ count.fault < MaxFaults
  /\ count' = [count EXCEPT !.fault = @ + 1]
  /\ To(c, "done") /\ UNCHANGED <<rows, objs>>

Next == \E c \in Clients :
  \/ CreateAppRelease(c) \/ BeginDelete(c) \/ SaveRepo(c)
  \/ CreateResource(c) \/ SaveAppRelease(c) \/ WaitForCRDStatus(c) \/ DropObject(c)
  \/ GetAppRelease(c) \/ DeleteResource(c) \/ DeleteAppRelease(c) \/ Fail(c)

Spec == Init /\ [][Next]_vars

-----------------------------------------------------------------------------
(* Properties.                                                             *)

\* Rows have ids given out, and objects are releases or repositories.
TypeOK ==
  /\ DOMAIN rows \subseteq 1..count.row /\ \A i \in DOMAIN rows : rows[i] \in Names
  /\ objs \subseteq {Release(n) : n \in Names} \cup {RepoObject(n) : n \in Names}

\* However creates and deletes of one name interleave: without a failure, the
\* object of a release has its row, or the request that made it is still to
\* write it.
ObjectsHaveRows ==
  count.fault = 0 => \A n \in Names : Release(n) \in objs =>
    \/ \E i \in DOMAIN rows : rows[i] = n
    \/ \E c \in Active : req[c].op = "create" /\ req[c].at = "row" /\ req[c].name = n

\* One request after another: a row has its object, of which there is one for
\* each row, and what is left without an object or a row comes of a failure.
RowsHaveObjects ==
  Active = {} /\ count.fault = 0 =>
    /\ \A i \in DOMAIN rows : Release(rows[i]) \in objs
    /\ \A i, j \in DOMAIN rows : rows[i] = rows[j] => i = j

\* A failure leaves at most one release short of its object or its row: the
\* requests after it, which are refused, make nothing worse.
OneLoosePerFault ==
  Active = {} =>
    Cardinality({i \in DOMAIN rows : Release(rows[i]) \notin objs})
    + Cardinality({n \in Names : Release(n) \in objs /\ \A i \in DOMAIN rows : rows[i] # n}) <= count.fault

\* Without a failure, a request for a repository leaves no object behind.
RepoObjectsGo ==
  count.fault = 0 => \A n \in Names : RepoObject(n) \in objs =>
    \E c \in Active : req[c].op = "repo" /\ req[c].name = n /\ req[c].at \in {"wait", "drop"}
=============================================================================

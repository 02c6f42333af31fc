------------------------------- MODULE Tenancy --------------------------------
(***************************************************************************)
(* Workspaces, projects and the names of clusters (internal/interfaces,    *)
(* biz and data: workspace.go, project.go; interfaces/cluster.go): a new   *)
(* record is looked up by its name before it is stored, a workspace is     *)
(* stored together with its clusters in a transaction, and a project names *)
(* its workspace.  Transactions are one action here: how statements of     *)
(* two of them interleave is the matter of Accounts, whose transactions    *)
(* have the same shape.                                                    *)
(*                                                                         *)
(* A record is [kind, name, of, rels]: "of" is the workspace of a project, *)
(* "rels" the rows [id, cluster] of a workspace.                           *)
(***************************************************************************)
EXTENDS Naturals, Sequences, FiniteSets

CONSTANTS Clients, Names,
          Kinds,   \* of "workspace", "project" and "cluster"
          Rename,  \* may a save of what was read change the name
          Twice,   \* may a workspace list a cluster twice
          MaxReq

VARIABLES recs,  \* id -> record
          req,   \* the request of each client
          view,  \* the record each client has read
          count  \* ids and requests so far

vars == <<recs, req, view, count>>

NoView == [id |-> 0, kind |-> "", name |-> ""]
NoReq == [op |-> "none", at |-> "done", id |-> 0, kind |-> "", name |-> "", of |-> 0, list |-> <<>>]
Active == {c \in Clients : req[c].at # "done"}
OfKind(k) == {i \in DOMAIN recs : recs[i].kind = k}
ToClusters(rels) == {r.cluster : r \in rels}

Init ==
  /\ recs = <<>> /\ req = [c \in Clients |-> NoReq] /\ view = [c \in Clients |-> NoView]
  /\ count = [id |-> 0, rel |-> 0, req |-> 0]

Begin(c, q) ==
  /\ c \notin Active /\ count.req < MaxReq
  /\ count' = [count EXCEPT !.req = @ + 1]
  /\ req' = [req EXCEPT ![c] = q]
  /\ UNCHANGED <<recs, view>>
To(c, at) == req' = [req EXCEPT ![c] = IF at = "done" THEN NoReq ELSE [@ EXCEPT !.at = at]]

\* What a client reads it may save or delete later, gone or not.
Get(c) == \E i \in DOMAIN recs :
  /\ c \notin Active
  /\ view' = [view EXCEPT ![c] = [id |-> i, kind |-> recs[i].kind, name |-> recs[i].name]]
  /\ view' # view
  /\ UNCHANGED <<recs, req, count>>

\* The clusters a workspace is to have, and the workspace a project is to have.
Lists(k) ==
  IF k # "workspace" THEN {<<>>}
  ELSE {s \in UNION {[1..n -> OfKind("cluster")] : n \in 0..2} :
          Twice \/ \A i, j \in DOMAIN s : s[i] = s[j] => i = j}
Owners(k) == IF k = "project" THEN OfKind("workspace") ELSE {0}

SaveNew(c) == \E k \in Kinds, n \in Names : \E list \in Lists(k), w \in Owners(k) :
  Begin(c, [NoReq EXCEPT !.op = "save", !.at = "name", !.kind = k, !.name = n, !.list = list, !.of = w])
SaveRead(c) == \E k \in {"workspace", "project"} : \E n \in Names, list \in Lists(k), w \in Owners(k) :
  /\ view[c].kind = k /\ (Rename \/ n = view[c].name)
  /\ Begin(c, [NoReq EXCEPT !.op = "save", !.at = "row", !.kind = k, !.name = n, !.list = list, !.of = w,
                         !.id = view[c].id])
\* A cluster that is saved again is looked up first: "cluster not found".
SaveCluster(c) == \E n \in Names :
  /\ view[c].kind = "cluster" /\ (Rename \/ n = view[c].name)
  /\ Begin(c, [NoReq EXCEPT !.op = "save", !.at = "found", !.kind = "cluster", !.name = n, !.id = view[c].id])
Delete(c) == \E k \in {"workspace", "project"} :
  /\ view[c].kind = k
  /\ Begin(c, [NoReq EXCEPT !.op = "delete", !.at = IF k = "workspace" THEN "found" ELSE "row", !.kind = k,
                         !.id = view[c].id])

-----------------------------------------------------------------------------
\* "... name already exists", "cluster already exists": of a new record only.
GetByName(c) ==
  /\ req[c].at = "name"
  /\ To(c, IF \E i \in OfKind(req[c].kind) : recs[i].name = req[c].name THEN "done" ELSE "row")
  /\ UNCHANGED <<recs, view, count>>

\* "workspace not found", "cluster not found".
Found(c) ==
  /\ req[c].at = "found"
  /\ To(c, IF req[c].id \in DOMAIN recs THEN "row" ELSE "done")
  /\ UNCHANGED <<recs, view, count>>

\* The places of the list whose cluster has no row: all of them, if it is
\* listed twice.
Added(q, old) == {i \in DOMAIN q.list : q.list[i] \notin ToClusters(old)}

\* The rows that the map of the existing ones, one for each cluster, holds and
\* the list does not.
Removed(q, old) ==
  {S \in SUBSET {r \in old : \A i \in DOMAIN q.list : q.list[i] # r.cluster} :
     /\ \A r, s \in S : r.cluster = s.cluster => r = s
     /\ ToClusters(S) = ToClusters(old) \ {q.list[i] : i \in DOMAIN q.list}}

SaveRow(c) ==
  /\ req[c].at = "row" /\ req[c].op = "save"
  /\ LET q == req[c]
         id == IF q.id = 0 THEN count.id + 1 ELSE q.id
         old == IF id \in DOMAIN recs THEN recs[id].rels ELSE {}
         new == {[id |-> count.rel + i, cluster |-> q.list[i]] : i \in Added(q, old)}
     IN \E gone \in Removed(q, old) :
        /\ recs' = [i \in DOMAIN recs \cup {id} |->
             IF i # id THEN recs[i]
             ELSE [kind |-> q.kind, name |-> q.name, of |-> q.of, rels |-> (old \ gone) \cup new]]
        /\ count' = [count EXCEPT !.id = IF q.id = 0 THEN id ELSE @, !.rel = @ + Len(q.list)]
  /\ To(c, "done") /\ UNCHANGED view

\* The rows of a workspace go with it; its projects stay.
DeleteRow(c) ==
  /\ req[c].at = "row" /\ req[c].op = "delete"
  /\ recs' = [i \in DOMAIN recs \ {req[c].id} |-> recs[i]]
  /\ To(c, "done") /\ UNCHANGED <<view, count>>

Next == \E c \in Clients :
  \/ Get(c) \/ SaveNew(c) \/ SaveRead(c) \/ SaveCluster(c) \/ Delete(c)
  \/ GetByName(c) \/ Found(c) \/ SaveRow(c) \/ DeleteRow(c)

Spec == Init /\ [][Next]_vars
-----------------------------------------------------------------------------
\* The records and requests are what they are made of, and a request is one
\* that was begun.
TypeOK ==
  /\ \A i \in DOMAIN recs :
       /\ i \in 1..count.id /\ recs[i].kind \in Kinds /\ recs[i].name \in Names
       /\ recs[i].of \in 0..count.id
       /\ \A r, s \in recs[i].rels : r.id \in 1..count.rel /\ (r.id = s.id => r = s)
       /\ recs[i].kind # "workspace" => recs[i].rels = {}
  /\ \A c \in Clients :
       /\ req[c].at \in {"done", "name", "found", "row"}
       /\ view[c].id \in 0..count.id

Saves(c) == req[c].at = "row" /\ req[c].op = "save" /\ req'[c].at = "done"
Saved(c) == IF req[c].id = 0 THEN count'.id ELSE req[c].id

\* One after another, a new record is stored under a name that no record of
\* its kind has.  (Two can still come to have one name without a race: a save
\* of what was deleted stores it again, next to a new one of its name.)
NewNamesAreFree ==
  \A c \in Clients : Saves(c) /\ req[c].id = 0 =>
       \A i \in OfKind(req[c].kind) : recs[i].name # req[c].name

\* A saved workspace has the clusters it lists, each in one row (data:
\* workspaceRepo.Save); a save of another record leaves them.
ClustersAreListed ==
  \A c \in Clients : Saves(c) /\ req[c].kind = "workspace" =>
       /\ ToClusters(recs'[Saved(c)].rels) = {req[c].list[i] : i \in DOMAIN req[c].list}
       /\ Cardinality(recs'[Saved(c)].rels) = Len(req[c].list)

\* A row stays as long as each save lists its cluster and the workspace is
\* there: only a save that does not list it, or the delete, takes it away.
RowsStay ==
  \A w \in DOMAIN recs : \A r \in recs[w].rels :
       \/ w \in DOMAIN recs' /\ r \in recs'[w].rels
       \/ \E c \in Clients : req[c].id = w /\ req'[c].at = "done"
                          /\ \A i \in DOMAIN req[c].list : req[c].list[i] # r.cluster

\* Whatever is done to one record leaves the others as they are.
OthersStay ==
  \A i \in DOMAIN recs : (i \in DOMAIN recs' => recs'[i] # recs[i]) =>
       \E c \in Clients : req[c].id = i /\ req[c].at = "row"
=============================================================================

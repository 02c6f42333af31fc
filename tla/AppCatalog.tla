------------------------------ MODULE AppCatalog ------------------------------
(***************************************************************************)
(* The catalog of applications (internal/interfaces/app.go, biz/app.go,    *)
(* data/app.go, runtime/app.go): an application and its versions are saved *)
(* statement by statement without a transaction, a version names a chart   *)
(* file among the uploaded ones, and a client is served the place of a     *)
(* version in the list where it expects its id.                            *)
(*                                                                         *)
(* A version row is [app, ver, chart]; what a client is served of it is    *)
(* [id, ver, chart, row], "row" being the id it does not get to see.       *)
(***************************************************************************)
EXTENDS Naturals, Sequences, FiniteSets, SequencesExt

CONSTANTS Clients, Vers, Charts,
          Twice,      \* may a client name a version twice
          MaxActive,  \* requests at a time
          MaxReq, MaxFaults

VARIABLES apps,      \* the ids of the applications
          versions,  \* id -> row
          dir,       \* the directory of the charts: "none" or the files in it
          req,       \* the request of each client
          view,      \* what each client was served last
          answer,    \* the last answer to who wants to release a version
          count      \* ids, requests and faults so far

vars == <<apps, versions, dir, req, view, answer, count>>

NoChart == "no chart"
NoReq == [op |-> "none", at |-> "done", app |-> 0, list |-> <<>>, old |-> {}, kept |-> {}, row |-> 0]
NoView == [app |-> 0, list |-> <<>>]
NoAnswer == [app |-> 0, row |-> 0, found |-> 0]
NoDir == {"none"}
Of(a) == {i \in DOMAIN versions : versions[i].app = a}
Names(S) == {v.ver : v \in S}

\* The ids, or places, in their order: that of the k-th has k of them up to it.
InOrder(S) == [k \in 1..Cardinality(S) |-> CHOOSE i \in S : Cardinality({j \in S : j <= i}) = k]

Init ==
  /\ apps = {} /\ versions = <<>> /\ dir = NoDir
  /\ req = [c \in Clients |-> NoReq] /\ view = [c \in Clients |-> NoView] /\ answer = NoAnswer
  /\ count = [app |-> 0, ver |-> 0, req |-> 0, fault |-> 0]

Active == {c \in Clients : req[c].at # "done"}
Begin(c, q) ==
  /\ c \notin Active /\ Cardinality(Active) < MaxActive /\ count.req < MaxReq
  /\ count' = [count EXCEPT !.req = @ + 1]
  /\ req' = [req EXCEPT ![c] = q]
To(c, at) == req' = [req EXCEPT ![c] = IF at = "done" THEN NoReq ELSE [@ EXCEPT !.at = at]]

-----------------------------------------------------------------------------
(* What a client may ask for.                                              *)

\* The id that is served is the place in the list.
Served(i, k) == [id |-> k, ver |-> versions[i].ver, chart |-> versions[i].chart, row |-> i]

Get(c) == \E a \in apps :
  /\ c \notin Active
  /\ LET ids == InOrder(Of(a))
     IN view' = [view EXCEPT ![c] = [app |-> a, list |-> [k \in DOMAIN ids |-> Served(ids[k], k)]]]
  /\ view' # view
  /\ UNCHANGED <<apps, versions, dir, req, answer, count>>

Item(id, ver, chart) == [id |-> id, ver |-> ver, chart |-> chart]
Free(list, ver) == Twice \/ ver \notin Names(ToSet(list))

\* What was served at those places of the list.
Kept(c, places) ==
  LET order == InOrder(places)
  IN [j \in DOMAIN order |-> LET v == view[c].list[order[j]] IN Item(v.id, v.ver, v.chart)]

\* A new application with a version, or an application as it was read with
\* some versions left out and perhaps a new one.
BeginSave(c) == \E a \in {0, view[c].app}, new \in BOOLEAN, ver \in Vers, chart \in Charts \cup {NoChart} :
  /\ chart = NoChart \/ chart \in dir
  /\ \E keep \in SUBSET DOMAIN view[c].list :
       LET list == IF new THEN Append(Kept(c, keep), Item(0, ver, chart)) ELSE Kept(c, keep)
       IN /\ a = 0 => new /\ keep = {}
          /\ list # <<>> /\ (new => Free(Kept(c, keep), ver))
          /\ Begin(c, [NoReq EXCEPT !.op = "save", !.at = "read", !.app = a, !.list = list])
  /\ UNCHANGED <<apps, versions, dir, view, answer>>

BeginDeleteVersion(c) == \E k \in DOMAIN view[c].list :
  /\ view[c].app \in apps
  /\ Begin(c, [NoReq EXCEPT !.op = "version", !.at = "look", !.app = view[c].app, !.row = view[c].list[k].id])
  /\ UNCHANGED <<apps, versions, dir, view, answer>>

BeginDelete(c) == \E a \in apps :
  /\ Begin(c, [NoReq EXCEPT !.op = "delete", !.at = "app", !.app = a])
  /\ UNCHANGED <<apps, versions, dir, view, answer>>

\* The file is stored; the operator is then asked about the chart in an object
\* whose name is to begin with the name of the application and "-".  The name
\* is not known yet, "-" begins no name of an object, and the request fails.
UploadApp(c) == \E f \in Charts, created \in BOOLEAN :
  /\ c \notin Active /\ (created \/ count.fault < MaxFaults)
  /\ count' = [count EXCEPT !.fault = IF created THEN @ ELSE @ + 1]
  /\ dir' = (dir \ NoDir) \cup (IF created THEN {f} ELSE {})
  /\ UNCHANGED <<apps, versions, req, view, answer>>

\* A release wants a version of the application, by the id it was served.
SaveAppRelease(c) == \E k \in DOMAIN view[c].list :
  LET v == view[c].list[k] found == {v.id} \cap Of(view[c].app) IN
  /\ c \notin Active /\ view[c].app \in apps
  /\ answer' = [app |-> view[c].app, row |-> v.row, found |-> IF found = {} THEN 0 ELSE v.id]
  /\ UNCHANGED <<apps, versions, dir, req, view, count>>

-----------------------------------------------------------------------------
(* Save.                                                                   *)

ReadVersions(c) ==
  /\ req[c].at = "read"
  /\ req' = [req EXCEPT ![c].at = "save", ![c].old = IF req[c].app = 0 THEN {} ELSE Of(req[c].app)]
  /\ UNCHANGED <<apps, versions, dir, view, answer, count>>

\* An application that is gone is inserted again.
SaveApp(c) ==
  /\ req[c].at = "save"
  /\ LET a == IF req[c].app = 0 THEN count.app + 1 ELSE req[c].app IN
     /\ apps' = apps \cup {a}
     /\ req' = [req EXCEPT ![c].at = "versions", ![c].app = a]
     /\ count' = [count EXCEPT !.app = IF req[c].app = 0 THEN a ELSE @]
  /\ UNCHANGED <<versions, dir, view, answer>>

\* The row of that id becomes a version of the application, whosever it was.
SaveVersion(c) ==
  /\ req[c].at = "versions" /\ req[c].list # <<>>
  /\ LET v == Head(req[c].list)
         id == IF v.id = 0 THEN count.ver + 1 ELSE v.id
         row == [app |-> req[c].app, ver |-> v.ver, chart |-> v.chart]
     IN /\ versions' = [i \in DOMAIN versions \cup {id} |-> IF i = id THEN row ELSE versions[i]]
        /\ count' = [count EXCEPT !.ver = IF v.id = 0 THEN id ELSE @]
        /\ req' = [req EXCEPT ![c].list = Tail(@),
                              ![c].kept = @ \cup {[id |-> id, ver |-> v.ver, chart |-> v.chart]}]
  /\ UNCHANGED <<apps, dir, view, answer>>

\* The versions that were there and are not in the list.
Unlisted(c) == req[c].old \ {v.id : v \in req[c].kept}

DeleteUnlisted(c) ==
  /\ req[c].at = "versions" /\ req[c].list = <<>>
  /\ IF Unlisted(c) = {}
     THEN /\ To(c, IF req[c].op = "version" THEN "chart" ELSE "done")
          /\ UNCHANGED versions
     ELSE \E i \in Unlisted(c) :
          /\ versions' = [j \in DOMAIN versions \ {i} |-> versions[j]]
          /\ req' = [req EXCEPT ![c].old = @ \ {i}]
  /\ UNCHANGED <<apps, dir, view, answer, count>>

-----------------------------------------------------------------------------
(* DeleteAppVersion and Delete.                                            *)

\* The version is looked up by its id.  Of none there is, the request ends in
\* a panic that the server recovers from.
GetAppVersion(c) ==
  /\ req[c].at = "look"
  /\ IF req[c].app \in apps /\ req[c].row \in Of(req[c].app)
     THEN req' = [req EXCEPT ![c].at = "cut",
                    ![c].list = <<[id |-> req[c].row, ver |-> versions[req[c].row].ver]>>]
     ELSE To(c, "done")
  /\ UNCHANGED <<apps, versions, dir, view, answer, count>>

\* The first version of that name is cut from the list, and the rest is saved.
DeleteAppVersion(c) ==
  /\ req[c].at = "cut"
  /\ LET ids == InOrder(Of(req[c].app))
         named == {k \in DOMAIN ids : versions[ids[k]].ver = Head(req[c].list).ver}
         cut == IF named = {} THEN ids
                ELSE RemoveAt(ids, CHOOSE k \in named : \A j \in named : k <= j)
     IN IF req[c].app \in apps
        THEN req' = [req EXCEPT ![c].at = "read",
               ![c].list = [k \in DOMAIN cut |->
                 Item(cut[k], versions[cut[k]].ver, versions[cut[k]].chart)]]
        ELSE To(c, "done")
  /\ UNCHANGED <<apps, versions, dir, view, answer, count>>

\* The charts of those versions of the list that have the id looked up: the one
\* that was cut is no longer in it.
StrayCharts(c) == {v.chart : v \in {u \in req[c].kept : u.chart # NoChart /\ u.id = req[c].row}}

DeleteChart(c) ==
  /\ req[c].at = "chart"
  /\ dir' = dir \ StrayCharts(c)
  /\ To(c, "done")
  /\ UNCHANGED <<apps, versions, view, answer, count>>

DeleteRow(c) ==
  /\ req[c].at = "app"
  /\ apps' = apps \ {req[c].app} /\ To(c, "rows")
  /\ UNCHANGED <<versions, dir, view, answer, count>>

DeleteVersions(c) ==
  /\ req[c].at = "rows"
  /\ versions' = [i \in DOMAIN versions \ Of(req[c].app) |-> versions[i]]
  /\ To(c, "dir")
  /\ UNCHANGED <<apps, dir, view, answer, count>>

\* os.Remove of the directory of all charts, which only an empty one lets.
DeleteApp(c) ==
  /\ req[c].at = "dir"
  /\ dir' = IF dir = {} THEN NoDir ELSE dir
  /\ To(c, "done")
  /\ UNCHANGED <<apps, versions, view, answer, count>>

\* A statement fails, or the server is gone: nothing is undone.
Fail(c) ==
  /\ c \in Active /\ count.fault < MaxFaults
  /\ count' = [count EXCEPT !.fault = @ + 1]
  /\ To(c, "done")
  /\ UNCHANGED <<apps, versions, dir, view, answer>>

Next == \E c \in Clients :
  \/ Get(c) \/ BeginSave(c) \/ BeginDeleteVersion(c) \/ BeginDelete(c) \/ UploadApp(c)
  \/ SaveAppRelease(c)
  \/ ReadVersions(c) \/ SaveApp(c) \/ SaveVersion(c) \/ DeleteUnlisted(c)
  \/ GetAppVersion(c) \/ DeleteAppVersion(c) \/ DeleteChart(c)
  \/ DeleteRow(c) \/ DeleteVersions(c) \/ DeleteApp(c) \/ Fail(c)

Spec == Init /\ [][Next]_vars

-----------------------------------------------------------------------------
(* Properties.                                                             *)

\* Ids are ones that were given out, and a request under way has an application.
TypeOK ==
  /\ apps \subseteq 1..count.app /\ DOMAIN versions \subseteq 1..count.ver
  /\ \A i \in DOMAIN versions : versions[i].app \in 1..count.app
  /\ dir = NoDir \/ dir \subseteq Charts
  /\ \A c \in Active : req[c].app = 0 => req[c].op = "save" /\ req[c].at \in {"read", "save"}

\* One request after another, and without a failure, no version is left of an
\* application that is gone.
NoOrphans ==
  Active = {} /\ count.fault = 0 => \A i \in DOMAIN versions : versions[i].app \in apps

\* A save that comes to its end, alone, leaves the application with the versions
\* of its list and no others, whatever ids the list came with.
SavedIsListed ==
  \A c \in Clients : req[c].at = "versions" /\ req'[c].at \in {"done", "chart"} /\ count.fault' = count.fault
       => req[c].kept = {Item(i, versions[i].ver, versions[i].chart) : i \in Of(req[c].app)}

\* Without a failure, no chart that some version names is taken away.
ChartsStay ==
  count.fault = 0 => \A i \in DOMAIN versions : versions[i].chart \in dir => versions[i].chart \in dir'

=============================================================================

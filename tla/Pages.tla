-------------------------------- MODULE Pages ---------------------------------
(***************************************************************************)
(* The lists of internal/data (services, integrations, deployments, users, *)
(* roles, apps, clusters, workspaces, projects) and what a client makes of *)
(* them: it reads one page or walks from page to page, and saves a row as  *)
(* it was shown.  A list is up to three queries without a transaction: the *)
(* rows are counted, those of the page found, and then what belongs to     *)
(* them (the "children": ports, roles, permissions, versions, clusters).   *)
(*                                                                         *)
(* External: the order of rows that a query asks for in no order is that   *)
(* of the table; PostgreSQL puts a new or changed row anywhere in it.      *)
(***************************************************************************)
EXTENDS Integers, Sequences, SequencesExt, FiniteSets

CONSTANTS Lists,        \* which of the nine
          Named,        \* may workspaces be listed by name
          Rows,         \* how many there are at first
          Sizes,        \* sizes of a page, 0 for a request without one
          OtherPages,   \* pages that are asked for out of a walk
          DefaultSize,  \* 10
          Width,        \* 2^32: where a product of 32 bits wraps
          MaxWrites, MaxFaults

VARIABLES list,    \* which list it is
          named,   \* whether it is asked for by name
          table,   \* the rows in the order in which the query has them
          full,    \* those that have their children
          req,     \* the page that is asked for
          walk,    \* what the client has seen on its way
          writes, faults

vars == <<list, named, table, full, req, walk, writes, faults>>

Live == ToSet(table)

(***************************************************************************)
(* What tells the lists apart.  ordered: newest first; wide: the offset is *)
(* computed in 64 bits; count: before the rows are found, after it, or     *)
(* "ends", before it and with an answer at once if there is none; lost:    *)
(* what a failing query for the children comes to; saved: a save of a row  *)
(* without children removes them ("exact") or leaves them ("kept").        *)
(***************************************************************************)
ServicesList ==
    [ordered |-> FALSE, wide |-> TRUE, count |-> "ends", lost |-> "error", saved |-> "exact"]
IntegrationsList ==
    [ordered |-> TRUE, wide |-> FALSE, count |-> "ends", lost |-> "none", saved |-> "none"]
DeploymentsList ==
    [ordered |-> TRUE, wide |-> FALSE, count |-> "ends", lost |-> "none", saved |-> "none"]
GetUsers ==
    [ordered |-> FALSE, wide |-> TRUE, count |-> "before", lost |-> "logged", saved |-> "kept"]
GetRoles ==
    [ordered |-> FALSE, wide |-> TRUE, count |-> "ends", lost |-> "logged", saved |-> "kept"]
AppsList ==
    [ordered |-> FALSE, wide |-> FALSE, count |-> "after", lost |-> "error", saved |-> "none"]
ClustersList ==
    [ordered |-> FALSE, wide |-> FALSE, count |-> "before", lost |-> "none", saved |-> "none"]
WorkspacesList ==
    [ordered |-> FALSE, wide |-> FALSE, count |-> "ends", lost |-> "logged", saved |-> "exact"]
ProjectsList ==
    [ordered |-> FALSE, wide |-> FALSE, count |-> "ends", lost |-> "none", saved |-> "none"]

ListOf ==
    [services |-> ServicesList, integrations |-> IntegrationsList, deployments |-> DeploymentsList,
     users |-> GetUsers, roles |-> GetRoles, apps |-> AppsList, clusters |-> ClustersList,
     workspaces |-> WorkspacesList, projects |-> ProjectsList]
L == ListOf[list]

(***************************************************************************)
(* A request.  Only roles and apps have a page and a size by default.      *)
(***************************************************************************)
GetRolesRequest(page, size) ==
    <<IF page = 0 THEN 1 ELSE page, IF size = 0 THEN DefaultSize ELSE size>>
AppListRequest(page, size) ==
    <<IF page = 0 THEN 1 ELSE page, IF size = 0 THEN DefaultSize ELSE size>>

Idle == [at |-> "none", page |-> 0, size |-> 0, total |-> 0, items |-> <<>>, whole |-> {}]
Asked(page, size) ==
    LET q == CASE list = "roles" -> GetRolesRequest(page, size)
               [] list = "apps" -> AppListRequest(page, size)
               [] OTHER -> <<page, size>>
    IN [Idle EXCEPT !.at = IF L.count = "after" THEN "find" ELSE "count",
                    !.page = q[1], !.size = q[2]]

\* Variant: a page begins after its last row.
OffsetAfter(page, size) == page * size

\* (page - 1) * size, in 32 bits with a sign where it is not wide.  An offset
\* below 1 is none.
Offset(page, size) ==
    LET product == (page - 1) * size
        half == Width \div 2
        offset == IF L.wide THEN product ELSE ((product + half) % Width) - half
    IN IF offset > 0 THEN offset ELSE 0

\* The rows of a page; LIMIT 0 is none.
RowsOf(page, size) ==
    LET first == Offset(page, size)
        last == IF first + size < Len(table) THEN first + size ELSE Len(table)
    IN SubSeq(table, first + 1, last)

-----------------------------------------------------------------------------
NoWalk == [at |-> "off", by |-> "empty", owed |-> {}, shown |-> <<>>, left |-> 0, right |-> 0]

Init ==
    /\ list \in Lists /\ named \in (IF Named /\ list = "workspaces" THEN BOOLEAN ELSE {FALSE})
    /\ table = [i \in 1 .. Rows |-> Rows + 1 - i]
    /\ full = 1 .. Rows
    /\ req = Idle /\ walk = NoWalk
    /\ writes = 0 /\ faults = 0

\* One page, whichever it is.
Ask == \E page \in OtherPages, size \in Sizes :
    /\ walk.at = "off" /\ req.at \in {"none", "answered", "failed"}
    /\ req' = Asked(page, size)
    /\ UNCHANGED <<list, named, table, full, walk, writes, faults>>

\* A walk from the first page on, until a page is empty or as many were asked
\* for as there are in all.
StartWalk == \E size \in Sizes \ {0}, by \in {"empty", "total"} :
    /\ walk.at = "off" /\ req.at = "none"
    /\ req' = Asked(1, size)
    /\ walk' = [NoWalk EXCEPT !.at = "on", !.by = by, !.owed = Live]
    /\ UNCHANGED <<list, named, table, full, writes, faults>>

NextPage ==
    /\ walk.at = "on" /\ req.at = "answered"
    /\ LET over == IF walk.by = "empty" THEN req.items = <<>> ELSE req.page * req.size >= req.total
       IN /\ walk' = [walk EXCEPT !.shown = @ \o req.items, !.at = IF over THEN "done" ELSE "on"]
          /\ req' = IF over THEN req ELSE Asked(req.page + 1, req.size)
    /\ UNCHANGED <<list, named, table, full, writes, faults>>

\* A page that failed is asked for again.
AskAgain ==
    /\ walk.at = "on" /\ req.at = "failed"
    /\ req' = Asked(req.page, req.size)
    /\ UNCHANGED <<list, named, table, full, walk, writes, faults>>

-----------------------------------------------------------------------------
\* After the rows come their children, where there are any.
AfterRows == IF L.lost = "none" THEN "answered" ELSE "children"

\* The rows are counted.  The statement that found apps is counted with, and
\* has the offset of the page: past the first it counts nothing.
Count ==
    /\ req.at = "count"
    /\ LET total == IF L.count = "after" /\ Offset(req.page, req.size) > 0 THEN 0 ELSE Len(table)
       IN req' = [req EXCEPT !.total = total,
                             !.at = IF L.count = "after" THEN AfterRows
                                    ELSE IF L.count = "ends" /\ total = 0 THEN "answered" ELSE "find"]
    /\ UNCHANGED <<list, named, table, full, walk, writes, faults>>

Find ==
    /\ req.at = "find"
    /\ req' = [req EXCEPT !.items = RowsOf(req.page, req.size),
                          !.at = IF L.count = "after" THEN "count" ELSE AfterRows]
    /\ UNCHANGED <<list, named, table, full, walk, writes, faults>>

\* What belongs to the rows of the page.  A list of workspaces by name looks
\* for it with the statement that found them, in a table that has no such
\* column; the error is not told.
Children ==
    /\ req.at = "children"
    /\ req' = [req EXCEPT !.at = "answered", !.whole = IF named THEN {} ELSE ToSet(req.items) \cap full]
    /\ UNCHANGED <<list, named, table, full, walk, writes, faults>>

\* A query fails.  Some lists answer then without the children.
QueryFails ==
    /\ req.at \in {"count", "find", "children"} /\ faults < MaxFaults
    /\ faults' = faults + 1
    /\ req' = [req EXCEPT !.at = IF req.at = "children" /\ L.lost = "logged" THEN "answered" ELSE "failed"]
    /\ UNCHANGED <<list, named, table, full, walk, writes>>

-----------------------------------------------------------------------------
\* Others write meanwhile.  How far rows may have moved to the front or the
\* back of the list since the walk began is remembered.
Moves(left, right) ==
    walk' = IF walk.at = "on" THEN [walk EXCEPT !.left = @ + left, !.right = @ + right] ELSE walk

Write == writes < MaxWrites /\ writes' = writes + 1 /\ UNCHANGED <<list, named, req, faults>>

Insert ==
    /\ Write
    /\ LET row == Rows + writes + 1
       IN \E i \in 1 .. Len(table) + 1 :
            /\ L.ordered => i = 1
            /\ table' = InsertAt(table, i, row)
            /\ full' = full \cup {row}
    /\ Moves(0, 1)

Delete == \E i \in DOMAIN table :
    /\ Write
    /\ table' = RemoveAt(table, i)
    /\ full' = full \ {table[i]}
    /\ Moves(1, 0)

\* A changed row keeps its place only in a list that has an order.
Placed(row, i) == IF L.ordered THEN table' = table ELSE table' = InsertAt(Remove(table, row), i, row)
Displaced == IF L.ordered THEN Moves(0, 0) ELSE Moves(1, 1)

Update == \E row \in Live, i \in DOMAIN table :
    /\ Write /\ Placed(row, i) /\ Displaced
    /\ UNCHANGED full

\* What a save makes of the children that the client was shown.
Saved(row, whole) == IF row \in whole \/ L.saved = "kept" THEN full ELSE full \ {row}

\* The client saves a row of the last page as it was shown.
SaveBack == \E row \in Live \cap ToSet(req.items), i \in DOMAIN table :
    /\ req.at = "answered" /\ L.saved # "none"
    /\ Write /\ Placed(row, i) /\ Displaced
    /\ full' = Saved(row, req.whole)

Next ==
    \/ Ask \/ StartWalk \/ NextPage \/ AskAgain
    \/ Count \/ Find \/ Children \/ QueryFails
    \/ Insert \/ Delete \/ Update \/ SaveBack

Spec == Init /\ [][Next]_vars

-----------------------------------------------------------------------------
\* Types; no page has a row twice.
TypeOK ==
    /\ list \in Lists /\ named \in BOOLEAN
    /\ Live \subseteq 1 .. Rows + MaxWrites /\ full \subseteq Live
    /\ IsInjective(table) /\ IsInjective(req.items)
    /\ req.at \in {"none", "count", "find", "children", "answered", "failed"}
    /\ req.total \in 0 .. Rows + MaxWrites /\ ToSet(req.items) \subseteq 1 .. Rows + MaxWrites
    /\ walk.at \in {"off", "on", "done"}
    /\ writes \in 0 .. MaxWrites /\ faults \in 0 .. MaxFaults

\* A walk misses a row that was there from first to last only where another
\* was deleted, or, without an order, changed: one for each.  A client that
\* goes by the total may miss one for each row that came as well.
Missed == (walk.owed \cap Live) \ ToSet(walk.shown)
Due == walk.left + (IF walk.by = "total" THEN walk.right ELSE 0)
MissesAreFew ==
    walk.at = "done" /\ ~(list = "apps" /\ walk.by = "total") => Cardinality(Missed) <= Due

\* A walk shows a row again only where one came in before it: one for each.
RepeatsAreFew == Len(walk.shown) - Cardinality(ToSet(walk.shown)) <= walk.right

\* While nothing is written page p shows the rows from (p - 1) * size + 1 to
\* p * size, unless the product does not fit into 32 bits.
PagesAreTheirs ==
    req.at = "answered" /\ writes = 0 /\ req.page > 0 =>
        \/ \A i \in DOMAIN table : table[i] \in ToSet(req.items)
                <=> (req.page - 1) * req.size < i /\ i <= req.page * req.size
        \/ ~L.wide /\ (req.page - 1) * req.size >= Width \div 2

\* The children of a row are lost by a save of what was shown only for
\* workspaces, and only where they could not be read.
ChildrenStay == (list = "workspaces" /\ (named \/ faults > 0)) \/ full = Live

=============================================================================

---------------------------- MODULE ServiceTables ----------------------------
(***************************************************************************)
(* The transactions on the tables of services (internal/data/service.go):  *)
(* Save reconciles the volumes (ports and pods go the same way) by their   *)
(* names, SaveWorkflow the steps and tasks by their ids, and Delete empties *)
(* the tables one by one.  They are run statement by statement, read       *)
(* committed, each row a transaction has written locked until its end;     *)
(* one action is one statement, or several that lock nothing in between.   *)
(*                                                                         *)
(* A row is [id, kind, of, step, name]; "of" is the service of a workflow  *)
(* or volume and the workflow of a step or task, "step" the step of a task.*)
(***************************************************************************)
EXTENDS Naturals, FiniteSets

CONSTANTS Tx,         \* transactions that may run at a time
          Names,      \* names of volumes
          Twice,      \* may a request name a volume twice
          MaxStarts,  \* transactions ever started
          MaxFaults   \* statements that fail

VARIABLES rows,   \* the committed rows
          tx,     \* the transactions under way
          count   \* ids, starts and faults so far

vars == <<rows, tx, count>>

Kinds == {"service", "workflow", "step", "task", "volume"}
Row(id, kind, of, step, name) == [id |-> id, kind |-> kind, of |-> of, step |-> step, name |-> name]
Unnamed == "unnamed"
NoTx == [op |-> "none", at |-> "end", root |-> 0, of |-> 0, names |-> {}, twice |-> {}, keep |-> {},
         new |-> FALSE, old |-> {}, found |-> {}, put |-> {}, del |-> {}]

Init ==
  /\ rows = {}
  /\ tx = [t \in Tx |-> NoTx]
  /\ count = [id |-> 0, start |-> 0, fault |-> 0]

IdsOf(S) == {r.id : r \in S}
Of(S, kind, parent) == {r \in S : r.kind = kind /\ r.of = parent}
Parts(S, workflow) == Of(S, "step", workflow) \cup Of(S, "task", workflow)

\* What a transaction sees: the committed rows and its own writes.
View(t) == {r \in rows : r.id \notin tx[t].del \cup IdsOf(tx[t].put)} \cup tx[t].put

\* The rows that another transaction has written and not yet committed.
Free(t, ids) == \A u \in Tx \ {t} : ids \cap (tx[u].del \cup IdsOf(tx[u].put)) = {}

Step(t, ids, q) == Free(t, ids) /\ tx' = [tx EXCEPT ![t] = q]

-----------------------------------------------------------------------------
(* What is asked for.  A client that saves a workflow sends the steps and  *)
(* tasks it has read, some of them left out, and perhaps a new step with a *)
(* task; one that saves a service sends the names of its volumes.          *)

Begin(t, q) ==
  /\ tx[t] = NoTx /\ count.start < MaxStarts
  /\ count' = [count EXCEPT !.start = @ + 1]
  /\ tx' = [tx EXCEPT ![t] = q]
  /\ UNCHANGED rows

BeginSave(t) ==
  \E id \in {0} \cup IdsOf(Of(rows, "service", 0)), names \in SUBSET Names :
  \E twice \in IF Twice THEN SUBSET names ELSE {{}} :
    Begin(t, [NoTx EXCEPT !.op = "save", !.at = "root", !.root = id, !.names = names, !.twice = twice])

BeginSaveWorkflow(t) ==
  \E s \in IdsOf(Of(rows, "service", 0)) : \E w \in {0} \cup IdsOf(Of(rows, "workflow", s)) :
  \E keep \in SUBSET Parts(rows, w), new \in BOOLEAN :
    /\ \A r \in keep : r.kind = "task" => \E p \in keep : p.id = r.step
    /\ Begin(t, [NoTx EXCEPT !.op = "workflow", !.at = "root", !.root = w, !.of = s, !.keep = keep, !.new = new])

\* The workflows of the service are looked up first.
BeginDelete(t) == \E s \in IdsOf(Of(rows, "service", 0)) :
  Begin(t, [NoTx EXCEPT !.op = "delete", !.at = "tasks", !.root = s, !.found = IdsOf(Of(rows, "workflow", s))])

-----------------------------------------------------------------------------
(* Save and SaveWorkflow                                                   *)

\* The row of the service or workflow is updated, or inserted when it is new
\* or gone: every later save of it waits here.
SaveRoot(t) ==
  /\ tx[t].at = "root"
  /\ LET q == tx[t]
         id == IF q.root = 0 THEN count.id + 1 ELSE q.root
         row == IF q.op = "save" THEN Row(id, "service", 0, 0, Unnamed)
                ELSE Row(id, "workflow", q.of, 0, Unnamed)
     IN /\ Step(t, {id}, [q EXCEPT !.root = id, !.put = {row}, !.at = "read"])
        /\ count' = [count EXCEPT !.id = IF q.root = 0 THEN @ + 1 ELSE @]
  /\ UNCHANGED rows

\* Variant: the rows that exist are not looked up by the service.
ReadNothing(t) ==
  /\ tx[t].at = "read"
  /\ Step(t, {}, [tx[t] EXCEPT !.at = IF tx[t].op = "workflow" THEN "save" ELSE "prune"])
  /\ UNCHANGED <<rows, count>>

\* The rows that exist; of two volumes with one name the map keeps one.
ReadExisting(t) ==
  /\ tx[t].at = "read"
  /\ LET q == tx[t] IN
     IF q.op = "workflow"
     THEN Step(t, {}, [q EXCEPT !.at = "save", !.old = Parts(View(t), q.root)])
     ELSE \E old \in SUBSET Of(View(t), "volume", q.root) :
            /\ \A a, b \in old : a.name = b.name => a = b
            /\ {r.name : r \in old} = {r.name : r \in Of(View(t), "volume", q.root)}
            /\ Step(t, {}, [q EXCEPT !.at = "prune", !.old = old])
  /\ UNCHANGED <<rows, count>>

\* What the request leaves out is deleted: by name, or by id.  A request
\* without volumes deletes all.
Dropped(q) == IdsOf(q.old) \ IdsOf(q.put)
Pruned(t) ==
  LET q == tx[t] IN
  IF q.op = "workflow" THEN Dropped(q)
  ELSE IF q.names = {} THEN IdsOf(Of(View(t), "volume", q.root))
  ELSE IdsOf({r \in q.old : r.name \notin q.names})
Prune(t) ==
  /\ tx[t].at = "prune"
  /\ Step(t, Pruned(t), [tx[t] EXCEPT !.del = @ \cup Pruned(t),
                                      !.at = IF tx[t].op = "save" THEN "save" ELSE "commit"])
  /\ UNCHANGED <<rows, count>>

\* A volume is written over the row of its name, or created; named twice it is
\* created twice.
SaveVolumes(t) ==
  /\ tx[t].at = "save" /\ tx[t].op = "save"
  /\ LET q == tx[t]
         kept == {r \in q.old : r.name \in q.names}
         fresh == {<<n, 1>> : n \in q.names \ {r.name : r \in kept}}
                  \cup {<<n, 2>> : n \in q.twice \ {r.name : r \in kept}}
         id == CHOOSE f \in [fresh -> (count.id + 1)..(count.id + Cardinality(fresh))] :
                 \A a, b \in fresh : f[a] = f[b] => a = b
     IN /\ Step(t, IdsOf(kept), [q EXCEPT !.at = "commit", !.put =
             @ \cup kept \cup {Row(id[f], "volume", q.root, 0, f[1]) : f \in fresh}])
        /\ count' = [count EXCEPT !.id = @ + Cardinality(fresh)]
  /\ UNCHANGED rows

\* Steps and tasks are written by their ids, new ones are created.
SaveSteps(t) ==
  /\ tx[t].at = "save" /\ tx[t].op = "workflow"
  /\ LET q == tx[t]
         n == count.id
         new == IF q.new THEN {Row(n + 1, "step", q.root, 0, Unnamed), Row(n + 2, "task", q.root, n + 1, Unnamed)}
                ELSE {}
     IN /\ Step(t, IdsOf(q.keep), [q EXCEPT !.at = "prune", !.put =
             @ \cup {[r EXCEPT !.of = q.root] : r \in q.keep} \cup new])
        /\ count' = [count EXCEPT !.id = @ + Cardinality(new)]
  /\ UNCHANGED rows

-----------------------------------------------------------------------------
(* Delete: the tasks and steps of the workflows that were found, the       *)
(* workflows, the other rows, and the service.                             *)

DeleteFrom(t, label, S, next) ==
  /\ tx[t].op = "delete" /\ tx[t].at = label
  /\ Step(t, IdsOf(S), [tx[t] EXCEPT !.del = @ \cup IdsOf(S), !.at = next])
  /\ UNCHANGED <<rows, count>>
OfFound(t, kind) == {r \in View(t) : r.kind = kind /\ r.of \in tx[t].found}

Delete(t) ==
  \/ DeleteFrom(t, "tasks", OfFound(t, "task"), "steps")
  \/ DeleteFrom(t, "steps", OfFound(t, "step"), "workflows")
  \/ DeleteFrom(t, "workflows", Of(View(t), "workflow", tx[t].root), "volumes")
  \/ DeleteFrom(t, "volumes", Of(View(t), "volume", tx[t].root), "service")
  \/ DeleteFrom(t, "service", {r \in View(t) : r.id = tx[t].root}, "commit")

-----------------------------------------------------------------------------
(* The end of a transaction                                                *)

Commit(t) ==
  /\ tx[t].at = "commit"
  /\ rows' = View(t)
  /\ tx' = [tx EXCEPT ![t] = NoTx]
  /\ UNCHANGED count

\* A statement fails, and the transaction is rolled back.
Fail(t) ==
  /\ tx[t] # NoTx /\ count.fault < MaxFaults
  /\ tx' = [tx EXCEPT ![t] = NoTx]
  /\ count' = [count EXCEPT !.fault = @ + 1]
  /\ UNCHANGED rows

\* The committed rows that the next statement of a transaction writes.
Needs(t) ==
  LET q == tx[t] IN
  CASE q.at = "root" /\ q.root # 0 -> {q.root}
    [] q.at = "save" /\ q.op = "save" -> IdsOf({r \in q.old : r.name \in q.names})
    [] q.at = "save" /\ q.op = "workflow" -> IdsOf(q.keep)
    [] q.at = "prune" -> Pruned(t)
    [] q.at = "tasks" -> IdsOf(OfFound(t, "task"))
    [] q.at = "steps" -> IdsOf(OfFound(t, "step"))
    [] q.at = "workflows" -> IdsOf(Of(View(t), "workflow", q.root))
    [] q.at = "volumes" -> IdsOf(Of(View(t), "volume", q.root))
    [] q.at = "service" -> {q.root}
    [] OTHER -> {}
WaitsFor(t, u) == t # u /\ Needs(t) \cap (tx[u].del \cup IdsOf(tx[u].put)) # {}

\* Two transactions that wait for each other: the database ends one of them.
Deadlock(t) ==
  /\ \E u \in Tx : WaitsFor(t, u) /\ WaitsFor(u, t)
  /\ tx' = [tx EXCEPT ![t] = NoTx]
  /\ UNCHANGED <<rows, count>>

Run(t) ==
  \/ SaveRoot(t) \/ ReadExisting(t) \/ Prune(t) \/ SaveVolumes(t) \/ SaveSteps(t)
  \/ Delete(t) \/ Commit(t) \/ Deadlock(t)

Next == \E t \in Tx : BeginSave(t) \/ BeginSaveWorkflow(t) \/ BeginDelete(t) \/ Run(t) \/ Fail(t)

Spec == Init /\ [][Next]_vars
\* The database runs a statement whose rows are free, and ends a deadlock.
FairSpec == Spec /\ \A t \in Tx : WF_vars(Run(t))

-----------------------------------------------------------------------------
(* Properties.                                                             *)

\* Rows have the shape of their table, and no two have one id.
TypeOK ==
  /\ \A r \in rows : r.id \in 1..count.id /\ r.kind \in Kinds /\ {r.of, r.step} \subseteq 0..count.id
  /\ \A r, s \in rows : r.id = s.id => r = s
  /\ \A t \in Tx : tx[t].op \in {"none", "save", "workflow", "delete"}

\* A row belongs to a row that is there, while transactions come one at a time.
NoOrphans ==
  \A r \in rows :
    /\ r.kind # "service" => r.of \in IdsOf(rows)
    /\ r.kind = "task" => r.step \in IdsOf(rows)

\* However saves of one workflow and a delete interleave, when a save commits
\* the workflow has the steps and tasks that it asked for and no other.
WorkflowsAreExact ==
  \A t \in Tx : tx[t].at = "commit" /\ tx[t].op = "workflow" /\ tx'[t] = NoTx /\ rows' # rows =>
       /\ tx[t].root \in IdsOf(rows')
       /\ Parts(rows', tx[t].root) = {r \in tx[t].put : r.kind # "workflow"}
       /\ IdsOf(tx[t].keep) \subseteq IdsOf(rows')

\* When the save of a service commits it has one volume of each name that was
\* asked for, and a volume that was there under that name has kept its id.
VolumesAreExact ==
  \A t \in Tx : tx[t].at = "commit" /\ tx[t].op = "save" /\ tx'[t] = NoTx /\ rows' # rows =>
       LET now == Of(rows', "volume", tx[t].root) IN
       /\ {r.name : r \in now} = tx[t].names /\ Cardinality(now) = Cardinality(tx[t].names)
       /\ \A r \in Of(rows, "volume", tx[t].root) : r.name \in tx[t].names => r \in now

\* A transaction under way; the tables are locked in opposite orders.
Open(t) == tx[t] # NoTx
=============================================================================

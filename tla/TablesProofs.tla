----------------------------- MODULE TablesProofs -----------------------------
(***************************************************************************)
(* Theorems about ServiceTables, for every set of transactions and of      *)
(* names and every number of statements that fail: what a save commits is  *)
(* what it was asked for, whatever else runs, and no row outlives the one  *)
(* that it belongs to while transactions come one at a time.               *)
(*                                                                         *)
(* A save reads the rows of its service or workflow and writes back what   *)
(* it made of them.  The reading is still true at the commit because every *)
(* transaction that would add a row has to lock the service or workflow    *)
(* first, the one row that a save writes before it reads (Seen).           *)
(***************************************************************************)
EXTENDS ServiceTables, FiniteSetTheorems, FunctionTheorems, TLAPS

(* The names can be listed, and no request names a volume twice.            *)
TablesAssumption == IsFiniteSet(Names) /\ ~Twice

(* The values of rows and transactions.                                     *)
RowType == [id : Nat, kind : Kinds, of : Nat, step : Nat, name : Names \cup {Unnamed}]
Stages == {"end", "root", "read", "prune", "save", "tasks", "steps", "workflows", "volumes",
           "service", "commit"}
Columns == [op : {"none", "save", "workflow", "delete"}, at : Stages, root : Nat, of : Nat,
            names : SUBSET Names, twice : SUBSET Names, keep : SUBSET RowType, new : BOOLEAN, old : SUBSET RowType,
            found : SUBSET Nat, put : SUBSET RowType, del : SUBSET Nat]

(* No row has an id or refers to one above c, and no two rows have one id.  *)
Table(R, c) ==
  /\ \A r \in R : r \in RowType /\ r.id \in 1 .. c /\ r.of \in 0 .. c /\ r.step \in 0 .. c
  /\ \A r, s \in R : r.id = s.id => r = s

(* The row that a save writes first, and the rows that belong to it.        *)
Ground(q) == IF q.op = "save" THEN Row(q.root, "service", 0, 0, Unnamed)
             ELSE Row(q.root, "workflow", q.of, 0, Unnamed)
IsPart(r, w) == r.kind \in {"step", "task"} /\ r.of = w
IsVolume(r, s) == r.kind = "volume" /\ r.of = s

(* No transaction knows of a row with an id above c.                        *)
Typed(q, c) ==
  /\ q.root \in 0 .. c /\ q.of \in 0 .. c
  /\ Table(q.keep, c) /\ Table(q.old, c) /\ Table(q.put, c) /\ q.del \subseteq 1 .. c

(* What a save of a service, a save of a workflow and a delete hold at each *)
(* of their statements.                                                     *)
SaveShape(q) ==
  q.op = "save" =>
    /\ q.at \in {"root", "read", "prune", "save", "commit"} /\ q.twice = {}
    /\ q.at = "root" => q.put = {}
    /\ q.at \in {"root", "read"} => q.old = {}
    /\ q.at # "root" => Ground(q) \in q.put /\ \A r \in q.put \ {Ground(q)} : IsVolume(r, q.root)
    /\ q.at \in {"root", "read", "prune"} => q.del = {}
    /\ q.at \in {"read", "prune", "save"} => q.put = {Ground(q)}
    /\ \A r \in q.old : IsVolume(r, q.root)
    /\ \A r, s \in q.old : r.name = s.name => r = s

WorkflowShape(q) ==
  q.op = "workflow" =>
    /\ q.at \in {"root", "read", "save", "prune", "commit"}
    /\ q.at = "root" => q.put = {}
    /\ q.at \in {"root", "read"} => q.old = {}
    /\ q.at # "root" => Ground(q) \in q.put /\ \A r \in q.put \ {Ground(q)} : IsPart(r, q.root)
    /\ q.at # "commit" => q.del = {}
    /\ q.at \in {"read", "save"} => q.put = {Ground(q)}
    /\ \A r \in q.keep : r.kind \in {"step", "task"}
    /\ \A r \in q.old : IsPart(r, q.root)
    /\ q.at \in {"prune", "commit"} => IdsOf(q.keep) \subseteq IdsOf(q.put)
    /\ q.at = "commit" => IdsOf(q.old) \subseteq IdsOf(q.put) \cup q.del

DeleteShape(q) ==
  q.op = "delete" =>
    /\ q.at \in {"tasks", "steps", "workflows", "volumes", "service", "commit"}
    /\ q.put = {} /\ q.keep = {} /\ q.old = {}

Shape(q) == (q.op = "none" => q = NoTx) /\ SaveShape(q) /\ WorkflowShape(q) /\ DeleteShape(q)

(* The rows that a transaction knows of, and the ids of those it has locked.*)
GroundOf(q) == IF q.op \in {"save", "workflow"} /\ q.root # 0 THEN {Ground(q)} ELSE {}
KnownTo(q) == q.put \cup q.keep \cup q.old \cup GroundOf(q)
SameTable(S, T) == \A r \in S, s \in T : r.id = s.id => r.kind = s.kind

Locked(q) == q.del \cup IdsOf(q.put)

(* What the reading found is still all there is, and what a save of a       *)
(* service will write has one volume of each name.                          *)
Seen(q, R) ==
  /\ q.op = "workflow" /\ q.at \in {"save", "prune", "commit"} =>
       \A r \in R : IsPart(r, q.root) => r.id \in IdsOf(q.old)
  /\ q.op = "save" /\ q.at \in {"prune", "save", "commit"} => \A r \in R : IsVolume(r, q.root) => r \in q.old
  /\ q.op = "save" /\ q.at \in {"save", "commit"} =>
       \A r \in R : IsVolume(r, q.root) => r.name \in q.names \/ r.id \in q.del
  /\ q.op = "save" /\ q.at = "commit" =>
       /\ {r \in q.old : r.name \in q.names} \subseteq q.put
       /\ {r.name : r \in q.put \ {Ground(q)}} = q.names
       /\ \A r, s \in q.put \ {Ground(q)} : r.name = s.name => r = s

(* No service has two volumes of one name.                                  *)
OneName(R) ==
  \A r, s \in R : r.kind = "volume" /\ s.kind = "volume" /\ r.of = s.of /\ r.name = s.name => r = s

(* What holds of the rows R, the transactions X and the last id c: each     *)
(* transaction for itself, and every two of them.                           *)
Parted(R, X, c) ==
  /\ X \in [Tx -> Columns] /\ Table(R, c) /\ OneName(R)
  /\ \A t \in Tx : Typed(X[t], c) /\ Shape(X[t]) /\ Seen(X[t], R)
Apart(R, X) ==
  /\ \A t, u \in Tx : t # u => Locked(X[t]) \cap Locked(X[u]) = {}
  /\ SameTable(R, R)
  /\ \A t \in Tx : SameTable(R, KnownTo(X[t]))
  /\ \A t, u \in Tx : SameTable(KnownTo(X[t]), KnownTo(X[u]))

TablesInv ==
  /\ count \in [id : Nat, start : Nat, fault : Nat]
  /\ Parted(rows, tx, count.id) /\ Apart(rows, tx)

(* While transactions come one at a time: every row has its parent, a save  *)
(* of a workflow keeps a task only with its step, and a delete has marked   *)
(* what depends on a row before it marks the row.                           *)
Linked(R) ==
  \A r \in R :
    /\ r.kind \in {"workflow", "volume"} => \E p \in R : p.id = r.of /\ p.kind = "service"
    /\ r.kind \in {"step", "task"} => \E p \in R : p.id = r.of /\ p.kind = "workflow"
    /\ r.kind = "task" => \E p \in R : p.id = r.step /\ p.kind = "step" /\ p.of = r.of

SavesLinked(q, R) ==
  q.op = "save" =>
    \A r \in R : r.id \in q.del => r.kind = "volume"
WorkflowLinked(q, R) ==
  q.op = "workflow" =>
    /\ \E p \in R : p.id = q.of /\ p.kind = "service"
    /\ \A r \in q.keep : r \in R /\ IsPart(r, q.root)
    /\ \A r \in q.keep : r.kind = "task" => \E p \in q.keep : p.id = r.step /\ p.kind = "step"
    /\ q.old \subseteq R /\ q.del \subseteq IdsOf(q.old)
    /\ \A r \in q.put : r.kind = "task" => \E p \in q.put : p.id = r.step /\ p.kind = "step" /\ p.of = r.of
    /\ \A r \in q.put \ {Ground(q)} : \A s \in R : s.id = r.id => IsPart(s, q.root)
Emptied(r, q) ==
  \/ r.kind \in {"step", "task"} /\ r.of \in q.found
  \/ r.kind \in {"workflow", "volume"} /\ r.of = q.root
  \/ r.id = q.root
DeleteLinked(q, R) ==
  q.op = "delete" =>
    /\ q.found = {r.id : r \in Of(R, "workflow", q.root)}
    /\ \A r \in R : r.id = q.root => r.kind = "service"
    /\ \A r \in R : r.id \in q.del => Emptied(r, q)
    /\ q.at # "tasks" => \A r \in R : r.kind = "task" /\ r.of \in q.found => r.id \in q.del
    /\ q.at \notin {"tasks", "steps"} => \A r \in R : r.kind = "step" /\ r.of \in q.found => r.id \in q.del
    /\ q.at \in {"volumes", "service", "commit"} => \A r \in R : r.kind = "workflow" /\ r.of = q.root => r.id \in q.del
    /\ q.at \in {"service", "commit"} => \A r \in R : r.kind = "volume" /\ r.of = q.root => r.id \in q.del

TablesInTurn ==
  /\ Linked(rows)
  /\ \A t \in Tx : SavesLinked(tx[t], rows) /\ WorkflowLinked(tx[t], rows) /\ DeleteLinked(tx[t], rows)

-----------------------------------------------------------------------------
LEMMA TableGrows ==
    ASSUME NEW S, NEW c \in Nat, NEW d \in Nat, c <= d, Table(S, c)
    PROVE  Table(S, d)
  BY DEF Table

LEMMA RowIsTyped ==
    ASSUME NEW id \in Nat, NEW kind \in Kinds, NEW of \in Nat, NEW step \in Nat, NEW name \in Names \cup {Unnamed}
    PROVE  /\ Row(id, kind, of, step, name) \in RowType
           /\ Row(id, kind, of, step, name).id = id /\ Row(id, kind, of, step, name).kind = kind
           /\ Row(id, kind, of, step, name).of = of /\ Row(id, kind, of, step, name).step = step
           /\ Row(id, kind, of, step, name).name = name
  BY DEF Row, RowType

LEMMA RowHasColumns ==
    ASSUME NEW r \in RowType
    PROVE  /\ r.id \in Nat /\ r.kind \in Kinds /\ r.of \in Nat /\ r.step \in Nat
           /\ \A w \in Nat : /\ [r EXCEPT !.of = w] \in RowType
                            /\ [r EXCEPT !.of = w].id = r.id /\ [r EXCEPT !.of = w].kind = r.kind
                            /\ [r EXCEPT !.of = w].of = w /\ [r EXCEPT !.of = w].step = r.step
  BY DEF RowType

LEMMA GroundIsTyped ==
    ASSUME NEW q \in Columns
    PROVE  /\ Ground(q) \in RowType /\ Ground(q).id = q.root /\ Ground(q).step = 0
           /\ Ground(q).kind = IF q.op = "save" THEN "service" ELSE "workflow"
           /\ Ground(q).of = IF q.op = "save" THEN 0 ELSE q.of
           /\ q.op \in {"none", "save", "workflow", "delete"} /\ q.root \in Nat
  <1>1. /\ q.root \in Nat /\ q.of \in Nat /\ 0 \in Nat /\ Unnamed \in Names \cup {Unnamed}
        /\ q.op \in {"none", "save", "workflow", "delete"}
    BY DEF Columns
  <1>2. "service" \in Kinds /\ "workflow" \in Kinds
    BY DEF Kinds
  <1>3. CASE q.op = "save"
    BY <1>1, <1>2, <1>3, RowIsTyped DEF Ground
  <1>4. CASE q.op # "save"
    BY <1>1, <1>2, <1>4, RowIsTyped DEF Ground
  <1> QED
    BY <1>3, <1>4

\* The ids that a transaction knows of, and those it has locked, are in use.
LEMMA KnownIdsAreUsed ==
    ASSUME NEW q \in Columns, NEW c \in Nat, Typed(q, c)
    PROVE  /\ \A k \in KnownTo(q) : k.id \in 0 .. c
           /\ Locked(q) \subseteq 1 .. c
  <1>1. \A k \in q.put \cup q.keep \cup q.old : k.id \in 1 .. c
    BY DEF Typed, Table
  <1>2. Locked(q) \subseteq 1 .. c
    BY <1>1 DEF Locked, Typed, IdsOf
  <1>3. \A k \in GroundOf(q) : k.id \in 0 .. c
    BY GroundIsTyped DEF GroundOf, Typed
  <1> QED
    BY <1>1, <1>2, <1>3 DEF KnownTo

\* A statement of one transaction
LEMMA StatementKeeps ==
    ASSUME NEW R, NEW X, NEW c \in Nat, NEW d \in Nat, c <= d,
           Parted(R, X, c), Apart(R, X), NEW t \in Tx, NEW q \in Columns,
           Typed(q, d), Shape(q), Seen(q, R),
           \A u \in Tx \ {t} : Locked(q) \cap Locked(X[u]) = {},
           SameTable(KnownTo(q), KnownTo(q)),
           \A k \in KnownTo(q) : k.id > c \/ \E m \in R \cup KnownTo(X[t]) : m.id = k.id /\ m.kind = k.kind
    PROVE  Parted(R, [X EXCEPT ![t] = q], d) /\ Apart(R, [X EXCEPT ![t] = q])
  <1> DEFINE Y == [X EXCEPT ![t] = q]
  <1>1. /\ Y \in [Tx -> Columns] /\ Y[t] = q /\ \A u \in Tx \ {t} : Y[u] = X[u]
        /\ X \in [Tx -> Columns]
    BY DEF Parted
  <1> HIDE DEF Y
  <1>2. Table(R, d)
    BY TableGrows DEF Parted
  <1>3. ASSUME NEW u \in Tx \ {t}
        PROVE  Typed(X[u], d) /\ Shape(X[u]) /\ Seen(X[u], R)
    <2>1. Typed(X[u], c) /\ Shape(X[u]) /\ Seen(X[u], R)
      BY DEF Parted
    <2> QED
      BY <2>1, TableGrows DEF Typed
  <1>4. Parted(R, Y, d)
    BY <1>1, <1>2, <1>3 DEF Parted
  <1>5. \A u, v \in Tx : u # v => Locked(Y[u]) \cap Locked(Y[v]) = {}
    BY <1>1 DEF Apart
  <1>6. SameTable(R, R) /\ SameTable(KnownTo(q), KnownTo(q)) /\ \A r \in R : r.id \in 0 .. c
    BY DEF Apart, Parted, Table
  <1>7. \A u \in Tx : \A k \in KnownTo(X[u]) : k.id \in 0 .. c
    BY <1>1, KnownIdsAreUsed DEF Parted
  <1>8. ASSUME NEW k \in KnownTo(q), k.id \in 0 .. c
        PROVE  /\ \A r \in R : r.id = k.id => r.kind = k.kind
               /\ \A u \in Tx : \A r \in KnownTo(X[u]) : r.id = k.id => r.kind = k.kind
    <2>1. PICK m \in R \cup KnownTo(X[t]) : m.id = k.id /\ m.kind = k.kind
      BY <1>8
    <2>2. CASE m \in R
      BY <2>1, <2>2 DEF Apart, SameTable
    <2>3. CASE m \in KnownTo(X[t])
      BY <2>1, <2>3 DEF Apart, SameTable
    <2> QED
      BY <2>1, <2>2, <2>3
  <1>9. SameTable(R, KnownTo(q))
    BY <1>6, <1>8 DEF SameTable
  <1>10. \A u \in Tx \ {t} : SameTable(KnownTo(X[u]), KnownTo(q)) /\ SameTable(KnownTo(q), KnownTo(X[u]))
    BY <1>7, <1>8 DEF SameTable
  <1>11. \A u \in Tx : SameTable(R, KnownTo(Y[u]))
    BY <1>1, <1>9 DEF Apart
  <1>12. \A u, v \in Tx : SameTable(KnownTo(Y[u]), KnownTo(Y[v]))
    BY <1>1, <1>6, <1>10 DEF Apart
  <1>13. Apart(R, Y)
    BY <1>5, <1>6, <1>11, <1>12 DEF Apart
  <1> QED
    BY <1>4, <1>13 DEF Y


LEMMA NoTxIsTyped == NoTx \in Columns
  BY DEF NoTx, Columns, Stages

\* The columns of a request
LEMMA SaveIsTyped ==
    ASSUME NEW id \in Nat, NEW names \in SUBSET Names
    PROVE  [NoTx EXCEPT !.op = "save", !.at = "root", !.root = id, !.names = names, !.twice = {}] \in Columns
  <1> DEFINE asked == [NoTx EXCEPT !.op = "save", !.at = "root", !.root = id]
  <1>1. asked \in Columns
    BY NoTxIsTyped DEF Columns, Stages
  <1>2. [asked EXCEPT !.names = names, !.twice = {}]
        = [NoTx EXCEPT !.op = "save", !.at = "root", !.root = id, !.names = names, !.twice = {}]
    OBVIOUS
  <1> HIDE DEF asked
  <1>3. [asked EXCEPT !.names = names, !.twice = {}] \in Columns
    BY <1>1 DEF Columns
  <1> QED
    BY <1>2, <1>3

LEMMA WorkflowIsTyped ==
    ASSUME NEW id \in Nat, NEW of \in Nat, NEW keep \in SUBSET RowType, NEW new \in BOOLEAN
    PROVE  [NoTx EXCEPT !.op = "workflow", !.at = "root", !.root = id, !.of = of, !.keep = keep, !.new = new] \in Columns
  <1> DEFINE asked == [NoTx EXCEPT !.op = "workflow", !.at = "root", !.root = id]
  <1>1. asked \in Columns
    BY NoTxIsTyped DEF Columns, Stages
  <1>2. [asked EXCEPT !.of = of, !.keep = keep, !.new = new]
        = [NoTx EXCEPT !.op = "workflow", !.at = "root", !.root = id, !.of = of, !.keep = keep, !.new = new]
    OBVIOUS
  <1> HIDE DEF asked
  <1>3. [asked EXCEPT !.of = of, !.keep = keep, !.new = new] \in Columns
    BY <1>1 DEF Columns
  <1> QED
    BY <1>2, <1>3

LEMMA DeleteIsTyped ==
    ASSUME NEW id \in Nat, NEW found \in SUBSET Nat
    PROVE  [NoTx EXCEPT !.op = "delete", !.at = "tasks", !.root = id, !.found = found] \in Columns
  <1> DEFINE asked == [NoTx EXCEPT !.op = "delete", !.at = "tasks", !.root = id]
  <1>1. asked \in Columns
    BY NoTxIsTyped DEF Columns, Stages
  <1>2. [asked EXCEPT !.found = found]
        = [NoTx EXCEPT !.op = "delete", !.at = "tasks", !.root = id, !.found = found]
    OBVIOUS
  <1> HIDE DEF asked
  <1>3. [asked EXCEPT !.found = found] \in Columns
    BY <1>1 DEF Columns
  <1> QED
    BY <1>2, <1>3

LEMMA StepKeeps ==
    ASSUME TablesInv, NEW t \in Tx, NEW q \in Columns, tx' = [tx EXCEPT ![t] = q], rows' = rows,
           count' \in [id : Nat, start : Nat, fault : Nat], count.id <= count'.id,
           Typed(q, count'.id), Shape(q), Seen(q, rows),
           \A u \in Tx \ {t} : Locked(q) \cap Locked(tx[u]) = {},
           SameTable(KnownTo(q), KnownTo(q)),
           \A k \in KnownTo(q) :
             k.id > count.id \/ \E m \in rows \cup KnownTo(tx[t]) : m.id = k.id /\ m.kind = k.kind
    PROVE  TablesInv'
  <1>1. count.id \in Nat /\ count'.id \in Nat /\ Parted(rows, tx, count.id) /\ Apart(rows, tx)
    BY DEF TablesInv
  <1>2. Parted(rows, [tx EXCEPT ![t] = q], count'.id) /\ Apart(rows, [tx EXCEPT ![t] = q])
    BY <1>1, StatementKeeps
  <1> QED
    BY <1>2 DEF TablesInv

\* What TablesInv says of one transaction.
LEMMA OneOf ==
    ASSUME TablesInv, NEW t \in Tx
    PROVE  /\ count \in [id : Nat, start : Nat, fault : Nat] /\ count.id \in Nat
           /\ Table(rows, count.id) /\ OneName(rows) /\ tx \in [Tx -> Columns] /\ tx[t] \in Columns
           /\ Typed(tx[t], count.id) /\ Shape(tx[t]) /\ Seen(tx[t], rows)
           /\ SameTable(rows, rows) /\ SameTable(rows, KnownTo(tx[t])) /\ SameTable(KnownTo(tx[t]), KnownTo(tx[t]))
           /\ \A u \in Tx \ {t} : Locked(tx[t]) \cap Locked(tx[u]) = {} /\ Locked(tx[u]) \subseteq 1 .. count.id
  <1>1. count \in [id : Nat, start : Nat, fault : Nat] /\ count.id \in Nat /\ tx \in [Tx -> Columns]
    BY DEF TablesInv, Parted
  <1>2. \A u \in Tx : Locked(tx[u]) \subseteq 1 .. count.id
    BY <1>1, KnownIdsAreUsed DEF TablesInv, Parted
  <1> QED
    BY <1>1, <1>2 DEF TablesInv, Parted, Apart

LEMMA BeginSaveKeeps ==
    ASSUME TablesAssumption, TablesInv, NEW t \in Tx, BeginSave(t)
    PROVE  TablesInv'
  <1>1. PICK id \in {0} \cup IdsOf(Of(rows, "service", 0)), names \in SUBSET Names :
          Begin(t, [NoTx EXCEPT !.op = "save", !.at = "root", !.root = id, !.names = names, !.twice = {}])
    BY DEF BeginSave, TablesAssumption
  <1> DEFINE q == [NoTx EXCEPT !.op = "save", !.at = "root", !.root = id, !.names = names, !.twice = {}]
  <1>2. Table(rows, count.id) /\ count \in [id : Nat, start : Nat, fault : Nat] /\ count.id \in Nat
    BY OneOf
  <1>3. id \in 0 .. count.id /\ (id # 0 => \E r \in rows : r.id = id /\ r.kind = "service")
    BY <1>2 DEF IdsOf, Of, Table
  <1>4. /\ q \in Columns /\ q.op = "save" /\ q.at = "root" /\ q.root = id /\ q.of = 0 /\ q.twice = {}
        /\ q.put = {} /\ q.del = {} /\ q.keep = {} /\ q.old = {}
    <2>1. q \in Columns
      <3>1. id \in Nat
        BY <1>2, <1>3
      <3> QED
        BY <3>1, SaveIsTyped
    <2>2. /\ q.op = "save" /\ q.at = "root" /\ q.root = id /\ q.of = 0 /\ q.twice = {}
          /\ q.put = {} /\ q.del = {} /\ q.keep = {} /\ q.old = {}
      BY DEF NoTx
    <2> QED
      BY <2>1, <2>2
  <1>5. /\ tx' = [tx EXCEPT ![t] = q] /\ rows' = rows /\ count' = [count EXCEPT !.start = @ + 1]
    BY <1>1 DEF Begin
  <1> HIDE DEF q
  <1>6. count' \in [id : Nat, start : Nat, fault : Nat] /\ count'.id = count.id
    BY <1>2, <1>5
  <1>7. Typed(q, count'.id)
    BY <1>2, <1>3, <1>4, <1>6 DEF Typed, Table
  <1>8. Shape(q) /\ Seen(q, rows) /\ Locked(q) = {}
    BY <1>4 DEF Shape, SaveShape, WorkflowShape, DeleteShape, Seen, Locked, IdsOf
  <1>9. KnownTo(q) = IF id = 0 THEN {} ELSE {Ground(q)}
    BY <1>4 DEF KnownTo, GroundOf
  <1>10. Ground(q).id = id /\ Ground(q).kind = "service"
    BY <1>4, GroundIsTyped
  <1>11. SameTable(KnownTo(q), KnownTo(q)) /\ \A k \in KnownTo(q) : \E m \in rows : m.id = k.id /\ m.kind = k.kind
    BY <1>3, <1>9, <1>10 DEF SameTable
  <1>12. /\ \A u \in Tx \ {t} : Locked(q) \cap Locked(tx[u]) = {}
         /\ \A k \in KnownTo(q) :
              k.id > count.id \/ \E m \in rows \cup KnownTo(tx[t]) : m.id = k.id /\ m.kind = k.kind
         /\ count.id <= count'.id /\ q \in Columns /\ tx' = [tx EXCEPT ![t] = q] /\ rows' = rows
    BY <1>2, <1>4, <1>5, <1>6, <1>8, <1>11
  <1> QED
    BY <1>6, <1>7, <1>8, <1>11, <1>12, StepKeeps

LEMMA BeginSaveWorkflowKeeps ==
    ASSUME TablesInv, NEW t \in Tx, BeginSaveWorkflow(t)
    PROVE  TablesInv'
  <1>1. PICK s \in IdsOf(Of(rows, "service", 0)), w \in Nat :
          /\ w \in {0} \cup IdsOf(Of(rows, "workflow", s))
          /\ \E keep \in SUBSET Parts(rows, w), new \in BOOLEAN :
               Begin(t, [NoTx EXCEPT !.op = "workflow", !.at = "root", !.root = w, !.of = s, !.keep = keep, !.new = new])
    <2>1. \A s \in Nat : {0} \cup IdsOf(Of(rows, "workflow", s)) \subseteq Nat
      BY OneOf DEF Table, IdsOf, Of
    <2>2. IdsOf(Of(rows, "service", 0)) \subseteq Nat
      BY OneOf DEF Table, IdsOf, Of
    <2> QED
      BY <2>1, <2>2 DEF BeginSaveWorkflow
  <1>2. PICK keep \in SUBSET Parts(rows, w), new \in BOOLEAN :
          Begin(t, [NoTx EXCEPT !.op = "workflow", !.at = "root", !.root = w, !.of = s, !.keep = keep, !.new = new])
    BY <1>1
  <1> DEFINE q == [NoTx EXCEPT !.op = "workflow", !.at = "root", !.root = w, !.of = s, !.keep = keep, !.new = new]
  <1>3. /\ Table(rows, count.id) /\ count \in [id : Nat, start : Nat, fault : Nat] /\ count.id \in Nat
        /\ SameTable(rows, rows)
    BY OneOf
  <1>4. /\ w \in 0 .. count.id /\ (w # 0 => \E r \in rows : r.id = w /\ r.kind = "workflow")
        /\ s \in 0 .. count.id
    BY <1>1, <1>3 DEF IdsOf, Of, Table
  <1>5. keep \subseteq rows /\ (\A r \in keep : r.kind \in {"step", "task"})
    BY DEF Parts, Of
  <1>6. keep \subseteq RowType /\ Table(keep, count.id)
    BY <1>3, <1>5 DEF Table
  <1>7. /\ q \in Columns /\ q.op = "workflow" /\ q.at = "root" /\ q.root = w /\ q.of = s
        /\ q.put = {} /\ q.del = {} /\ q.keep = keep /\ q.old = {}
    <2>1. q \in Columns
      <3>1. w \in Nat /\ s \in Nat /\ keep \in SUBSET RowType
        BY <1>3, <1>4, <1>6
      <3> QED
        BY <3>1, WorkflowIsTyped
    <2>2. /\ q.op = "workflow" /\ q.at = "root" /\ q.root = w /\ q.of = s
          /\ q.put = {} /\ q.del = {} /\ q.keep = keep /\ q.old = {}
      BY DEF NoTx
    <2> QED
      BY <2>1, <2>2
  <1>8. /\ tx' = [tx EXCEPT ![t] = q] /\ rows' = rows /\ count' = [count EXCEPT !.start = @ + 1]
    BY <1>2 DEF Begin
  <1> HIDE DEF q
  <1>9. count' \in [id : Nat, start : Nat, fault : Nat] /\ count'.id = count.id
    BY <1>3, <1>8
  <1>10. Typed(q, count'.id)
    BY <1>4, <1>6, <1>7, <1>9 DEF Typed, Table
  <1>11. Shape(q) /\ Seen(q, rows) /\ Locked(q) = {}
    BY <1>5, <1>7 DEF Shape, SaveShape, WorkflowShape, DeleteShape, Seen, Locked, IdsOf
  <1>12. KnownTo(q) = keep \cup IF w = 0 THEN {} ELSE {Ground(q)}
    BY <1>7 DEF KnownTo, GroundOf
  <1>13. Ground(q).id = w /\ Ground(q).kind = "workflow"
    BY <1>7, GroundIsTyped
  <1>14. \A k \in KnownTo(q) : \E m \in rows : m.id = k.id /\ m.kind = k.kind
    BY <1>4, <1>5, <1>12, <1>13
  <1>15. SameTable(KnownTo(q), KnownTo(q))
    BY <1>3, <1>14 DEF SameTable
  <1>16. /\ \A u \in Tx \ {t} : Locked(q) \cap Locked(tx[u]) = {}
         /\ \A k \in KnownTo(q) :
              k.id > count.id \/ \E m \in rows \cup KnownTo(tx[t]) : m.id = k.id /\ m.kind = k.kind
         /\ count.id <= count'.id /\ q \in Columns /\ tx' = [tx EXCEPT ![t] = q] /\ rows' = rows
    BY <1>3, <1>7, <1>8, <1>9, <1>11, <1>14
  <1> QED
    BY <1>9, <1>10, <1>11, <1>15, <1>16, StepKeeps

LEMMA BeginDeleteKeeps ==
    ASSUME TablesInv, NEW t \in Tx, BeginDelete(t)
    PROVE  TablesInv'
  <1>1. PICK s \in IdsOf(Of(rows, "service", 0)) :
          Begin(t, [NoTx EXCEPT !.op = "delete", !.at = "tasks", !.root = s,
                                !.found = IdsOf(Of(rows, "workflow", s))])
    BY DEF BeginDelete
  <1> DEFINE q == [NoTx EXCEPT !.op = "delete", !.at = "tasks", !.root = s,
                               !.found = IdsOf(Of(rows, "workflow", s))]
  <1>2. Table(rows, count.id) /\ count \in [id : Nat, start : Nat, fault : Nat] /\ count.id \in Nat
    BY OneOf
  <1>3. s \in 0 .. count.id /\ IdsOf(Of(rows, "workflow", s)) \subseteq Nat
    BY <1>2 DEF IdsOf, Of, Table
  <1>4. /\ q \in Columns /\ q.op = "delete" /\ q.at = "tasks" /\ q.root = s /\ q.of = 0
        /\ q.put = {} /\ q.del = {} /\ q.keep = {} /\ q.old = {}
    <2>1. q \in Columns
      <3>1. s \in Nat /\ IdsOf(Of(rows, "workflow", s)) \in SUBSET Nat
        BY <1>2, <1>3
      <3> QED
        BY <3>1, DeleteIsTyped
    <2>2. /\ q.op = "delete" /\ q.at = "tasks" /\ q.root = s /\ q.of = 0
          /\ q.put = {} /\ q.del = {} /\ q.keep = {} /\ q.old = {}
      BY DEF NoTx
    <2> QED
      BY <2>1, <2>2
  <1>5. /\ tx' = [tx EXCEPT ![t] = q] /\ rows' = rows /\ count' = [count EXCEPT !.start = @ + 1]
    BY <1>1 DEF Begin
  <1> HIDE DEF q
  <1>6. count' \in [id : Nat, start : Nat, fault : Nat] /\ count'.id = count.id
    BY <1>2, <1>5
  <1>7. Typed(q, count'.id)
    BY <1>2, <1>3, <1>4, <1>6 DEF Typed, Table
  <1>8. Shape(q) /\ Seen(q, rows) /\ Locked(q) = {} /\ KnownTo(q) = {}
    BY <1>4 DEF Shape, SaveShape, WorkflowShape, DeleteShape, Seen, Locked, IdsOf, KnownTo, GroundOf
  <1>9. /\ \A u \in Tx \ {t} : Locked(q) \cap Locked(tx[u]) = {}
        /\ \A k \in KnownTo(q) :
             k.id > count.id \/ \E m \in rows \cup KnownTo(tx[t]) : m.id = k.id /\ m.kind = k.kind
        /\ count.id <= count'.id /\ q \in Columns /\ tx' = [tx EXCEPT ![t] = q] /\ rows' = rows
        /\ SameTable(KnownTo(q), KnownTo(q))
    BY <1>2, <1>4, <1>5, <1>6, <1>8 DEF SameTable
  <1> QED
    BY <1>6, <1>7, <1>8, <1>9, StepKeeps

LEMMA SaveRootKeeps ==
    ASSUME TablesInv, NEW t \in Tx, SaveRoot(t)
    PROVE  TablesInv'
  <1> DEFINE q == tx[t]
             id == IF q.root = 0 THEN count.id + 1 ELSE q.root
             row == IF q.op = "save" THEN Row(id, "service", 0, 0, Unnamed) ELSE Row(id, "workflow", q.of, 0, Unnamed)
             r == [q EXCEPT !.root = id, !.put = {row}, !.at = "read"]
  <1>1. /\ count \in [id : Nat, start : Nat, fault : Nat] /\ count.id \in Nat
        /\ Table(rows, count.id) /\ q \in Columns /\ Typed(q, count.id) /\ Shape(q)
        /\ SameTable(rows, KnownTo(q)) /\ SameTable(KnownTo(q), KnownTo(q))
        /\ \A u \in Tx \ {t} : Locked(tx[u]) \subseteq 1 .. count.id
    BY OneOf
  <1>2. q.at = "root" /\ rows' = rows /\ Step(t, {id}, r)
        /\ count' = [count EXCEPT !.id = IF q.root = 0 THEN @ + 1 ELSE @]
    BY DEF SaveRoot
  <1>3. q.op \in {"save", "workflow"} /\ q.del = {} /\ q.old = {}
        /\ (q.op = "workflow" => \A k \in q.keep : k.kind \in {"step", "task"})
        /\ (q.op = "save" => q.twice = {})
    <2>1. q.op \in {"none", "save", "workflow", "delete"}
      BY <1>1 DEF Columns
    <2> QED
      BY <1>1, <1>2, <2>1 DEF Shape, SaveShape, WorkflowShape, DeleteShape, NoTx
  <1>4. /\ count' \in [id : Nat, start : Nat, fault : Nat] /\ count.id <= count'.id
        /\ id \in 1 .. count'.id /\ id \in Nat /\ count'.id \in Nat
        /\ IF q.root = 0 THEN id = count.id + 1 ELSE id = q.root
    BY <1>1, <1>2 DEF Typed
  <1> HIDE DEF id
  <1>5. r \in Columns /\ row \in RowType /\ row.id = id /\ row.step = 0
        /\ row.kind = (IF q.op = "save" THEN "service" ELSE "workflow")
        /\ row.of = (IF q.op = "save" THEN 0 ELSE q.of)
    <2>1. q.of \in Nat /\ {"service", "workflow"} \subseteq Kinds /\ 0 \in Nat /\ Unnamed \in Names \cup {Unnamed}
      BY <1>1 DEF Columns, Kinds
    <2>2. row \in RowType /\ row.id = id /\ row.step = 0 /\ row.kind = (IF q.op = "save" THEN "service" ELSE "workflow")
          /\ row.of = (IF q.op = "save" THEN 0 ELSE q.of)
      BY <1>4, <2>1, RowIsTyped
    <2>3. {row} \in SUBSET RowType
      BY <2>2
    <2> HIDE DEF row
    <2>4. r \in Columns
      BY <1>1, <1>4, <2>3 DEF Columns, Stages
    <2> QED
      BY <2>2, <2>4
  <1>6. /\ r.op = q.op /\ r.at = "read" /\ r.root = id /\ r.of = q.of /\ r.put = {row} /\ r.del = q.del
        /\ r.keep = q.keep /\ r.old = q.old /\ r.twice = q.twice
    BY <1>1 DEF Columns
  <1>7. Ground(r) = row
    BY <1>6 DEF Ground
  <1> HIDE DEF r, row
  <1>8. Typed(r, count'.id)
    BY <1>1, <1>4, <1>5, <1>6, TableGrows DEF Typed, Table
  <1>9. Shape(r)
    BY <1>3, <1>6, <1>7 DEF Shape, SaveShape, WorkflowShape, DeleteShape
  <1>10. Seen(r, rows) /\ Locked(r) = {id}
    BY <1>3, <1>5, <1>6 DEF Seen, Locked, IdsOf
  <1>11. \A u \in Tx \ {t} : Locked(r) \cap Locked(tx[u]) = {}
    BY <1>2, <1>10 DEF Step, Free, Locked
  <1>12. KnownTo(r) = {row} \cup q.keep
    BY <1>3, <1>4, <1>6, <1>7 DEF KnownTo, GroundOf
  <1>13. q.keep \subseteq KnownTo(q) /\ \A k \in q.keep : k.id \in 1 .. count.id
    BY <1>1 DEF KnownTo, Typed, Table
  <1>14. q.root # 0 => \E m \in KnownTo(q) : m.id = row.id /\ m.kind = row.kind
    <2>1. Ground(q).id = q.root /\ Ground(q).kind = IF q.op = "save" THEN "service" ELSE "workflow"
      BY <1>1, GroundIsTyped
    <2> QED
      BY <1>3, <1>4, <1>5, <2>1 DEF KnownTo, GroundOf
  <1>15. \A k \in q.keep : k.id = row.id => k.kind = row.kind
    BY <1>1, <1>4, <1>5, <1>13, <1>14 DEF SameTable
  <1>16. SameTable(KnownTo(r), KnownTo(r))
    BY <1>1, <1>12, <1>13, <1>15 DEF SameTable
  <1>17. \A k \in KnownTo(r) :
           k.id > count.id \/ \E m \in rows \cup KnownTo(tx[t]) : m.id = k.id /\ m.kind = k.kind
    BY <1>1, <1>4, <1>5, <1>12, <1>13, <1>14
  <1>18. tx' = [tx EXCEPT ![t] = r]
    BY <1>2 DEF Step
  <1> QED
    BY <1>2, <1>4, <1>5, <1>8, <1>9, <1>10, <1>11, <1>16, <1>17, <1>18, StepKeeps

\* What a transaction sees
LEMMA ViewIs ==
    ASSUME NEW t \in Tx
    PROVE  /\ \A r : r \in View(t) <=> r \in tx[t].put \/ (r \in rows /\ r.id \notin Locked(tx[t]))
           /\ View(t) \subseteq rows \cup tx[t].put
  BY DEF View, Locked

LEMMA ReadExistingKeeps ==
    ASSUME TablesInv, NEW t \in Tx, ReadExisting(t)
    PROVE  TablesInv'
  <1> DEFINE q == tx[t]
  <1>1. /\ count \in [id : Nat, start : Nat, fault : Nat] /\ count.id \in Nat
        /\ Table(rows, count.id) /\ OneName(rows) /\ q \in Columns /\ Typed(q, count.id) /\ Shape(q)
        /\ SameTable(rows, rows) /\ SameTable(rows, KnownTo(q)) /\ SameTable(KnownTo(q), KnownTo(q))
        /\ \A u \in Tx \ {t} : Locked(q) \cap Locked(tx[u]) = {}
    BY OneOf
  <1>2. q.at = "read" /\ rows' = rows /\ count' = count
    BY DEF ReadExisting
  <1>3. q.op \in {"save", "workflow"} /\ q.del = {} /\ q.put = {Ground(q)} /\ q.root # 0
        /\ (q.op = "workflow" => \A k \in q.keep : k.kind \in {"step", "task"})
        /\ (q.op = "save" => q.twice = {})
    <2>1. q.op \in {"none", "save", "workflow", "delete"}
      BY <1>1 DEF Columns
    <2>2. q.op \in {"save", "workflow"} /\ q.del = {} /\ q.put = {Ground(q)}
        /\ (q.op = "workflow" => \A k \in q.keep : k.kind \in {"step", "task"})
        /\ (q.op = "save" => q.twice = {})
      BY <1>1, <1>2, <2>1 DEF Shape, SaveShape, WorkflowShape, DeleteShape, NoTx
    <2>3. q.root # 0
      BY <1>1, <2>2, GroundIsTyped DEF Typed, Table
    <2> QED
      BY <2>2, <2>3
  <1>4. /\ Ground(q).id = q.root /\ Ground(q).kind \in {"service", "workflow"}
        /\ Locked(q) = {q.root} /\ Ground(q) \in KnownTo(q)
    <2>1. Ground(q).id = q.root /\ Ground(q).kind \in {"service", "workflow"}
      BY <1>1, GroundIsTyped
    <2> QED
      BY <1>3, <2>1 DEF Locked, IdsOf, KnownTo
  \* The row of the service or workflow hides no step, task or volume.
  <1>5. \A r \in rows : r.kind \in {"step", "task", "volume"} => r \in View(t)
    BY <1>1, <1>4, ViewIs DEF SameTable
  <1>6. \A r \in View(t) : r.kind \in {"step", "task", "volume"} => r \in rows
    BY <1>3, <1>4, ViewIs
  <1>7. PICK at \in {"save", "prune"}, old \in SUBSET rows :
          /\ tx' = [tx EXCEPT ![t] = [q EXCEPT !.at = at, !.old = old]]
          /\ q.op = "workflow" => /\ at = "save" /\ \A r \in old : IsPart(r, q.root)
                                  /\ \A r \in rows : IsPart(r, q.root) => r \in old
          /\ q.op = "save" => /\ at = "prune" /\ \A r \in old : IsVolume(r, q.root)
                              /\ \A r, s \in old : r.name = s.name => r = s
                              /\ \A r \in rows : IsVolume(r, q.root) => r \in old
    <2>1. CASE q.op = "workflow"
      <3>1. tx' = [tx EXCEPT ![t] = [q EXCEPT !.at = "save", !.old = Parts(View(t), q.root)]]
        BY <2>1 DEF ReadExisting, Step
      <3>2. \A r : r \in Parts(View(t), q.root) <=> r \in View(t) /\ IsPart(r, q.root)
        BY DEF Parts, Of, IsPart
      <3>3. \A r : r \in Parts(View(t), q.root) <=> r \in rows /\ IsPart(r, q.root)
        BY <1>5, <1>6, <3>2 DEF IsPart
      <3>4. Parts(View(t), q.root) \in SUBSET rows
        BY <3>3
      <3> QED
        BY <2>1, <3>1, <3>3, <3>4
    <2>2. CASE q.op = "save"
      <3>1. PICK old \in SUBSET Of(View(t), "volume", q.root) :
              /\ \A a, b \in old : a.name = b.name => a = b
              /\ {r.name : r \in old} = {r.name : r \in Of(View(t), "volume", q.root)}
              /\ Step(t, {}, [q EXCEPT !.at = "prune", !.old = old])
        BY <2>2 DEF ReadExisting
      <3>2. \A r : r \in Of(View(t), "volume", q.root) <=> r \in rows /\ IsVolume(r, q.root)
        BY <1>5, <1>6 DEF Of, IsVolume
      <3>3. \A r \in rows : IsVolume(r, q.root) => r \in old
        <4>1. TAKE r \in rows
        <4>2. HAVE IsVolume(r, q.root)
        <4>3. PICK s \in old : s.name = r.name
          BY <3>1, <3>2, <4>2
        <4> QED
          BY <1>1, <3>2, <4>2, <4>3 DEF OneName, IsVolume
      <3>4. tx' = [tx EXCEPT ![t] = [q EXCEPT !.at = "prune", !.old = old]] /\ old \in SUBSET rows
            /\ \A r \in old : IsVolume(r, q.root)
        BY <3>1, <3>2 DEF Step
      <3> QED
        BY <2>2, <3>1, <3>3, <3>4
    <2> QED
      BY <1>3, <2>1, <2>2
  <1> DEFINE r == [q EXCEPT !.at = at, !.old = old]
  <1>8. r \in Columns /\ Table(old, count.id)
    <2>1. old \in SUBSET RowType /\ Table(old, count.id)
      BY <1>1 DEF Table
    <2> QED
      BY <1>1, <2>1 DEF Columns, Stages
  <1>9. /\ r.op = q.op /\ r.at = at /\ r.root = q.root /\ r.of = q.of /\ r.put = q.put /\ r.del = q.del
        /\ r.keep = q.keep /\ r.old = old /\ r.twice = q.twice /\ r.names = q.names
    BY <1>1 DEF Columns
  <1>10. Ground(r) = Ground(q)
    BY <1>9 DEF Ground
  <1> HIDE DEF r
  <1>11. Typed(r, count'.id)
    BY <1>1, <1>2, <1>8, <1>9 DEF Typed
  <1>12. Shape(r)
    BY <1>3, <1>7, <1>9, <1>10 DEF Shape, SaveShape, WorkflowShape, DeleteShape
  <1>13. Seen(r, rows)
    BY <1>3, <1>7, <1>9 DEF Seen, IdsOf
  <1>14. Locked(r) = Locked(q)
    BY <1>9 DEF Locked
  <1>15. \A k \in KnownTo(r) : k \in rows \cup KnownTo(q)
    BY <1>3, <1>9, <1>10 DEF KnownTo, GroundOf
  <1>16. SameTable(KnownTo(r), KnownTo(r))
    BY <1>1, <1>15 DEF SameTable
  <1>17. \A k \in KnownTo(r) :
           k.id > count.id \/ \E m \in rows \cup KnownTo(tx[t]) : m.id = k.id /\ m.kind = k.kind
    BY <1>15
  <1>18. tx' = [tx EXCEPT ![t] = r] /\ count' \in [id : Nat, start : Nat, fault : Nat] /\ count.id <= count'.id
         /\ rows' = rows
    BY <1>1, <1>2, <1>7 DEF r
  <1>19. \A u \in Tx \ {t} : Locked(r) \cap Locked(tx[u]) = {}
    BY <1>1, <1>14
  <1> QED
    BY <1>8, <1>11, <1>12, <1>13, <1>16, <1>17, <1>18, <1>19, StepKeeps

LEMMA PruneKeeps ==
    ASSUME TablesInv, NEW t \in Tx, Prune(t)
    PROVE  TablesInv'
  <1> DEFINE q == tx[t]
             D == Pruned(t)
             r == [q EXCEPT !.del = @ \cup D, !.at = IF q.op = "save" THEN "save" ELSE "commit"]
  <1>1. /\ count \in [id : Nat, start : Nat, fault : Nat] /\ count.id \in Nat
        /\ Table(rows, count.id) /\ q \in Columns /\ Typed(q, count.id) /\ Shape(q) /\ Seen(q, rows)
        /\ SameTable(rows, KnownTo(q)) /\ SameTable(KnownTo(q), KnownTo(q))
        /\ \A u \in Tx \ {t} : Locked(q) \cap Locked(tx[u]) = {}
    BY OneOf
  <1>2. q.at = "prune" /\ rows' = rows /\ count' = count /\ Step(t, D, r)
    BY DEF Prune
  <1>3. /\ q.op \in {"save", "workflow"} /\ q.del = {}
        /\ (q.op = "save" => q.put = {Ground(q)} /\ q.twice = {})
    <2>1. q.op \in {"none", "save", "workflow", "delete"}
      BY <1>1 DEF Columns
    <2> QED
      BY <1>1, <1>2, <2>1 DEF Shape, SaveShape, WorkflowShape, DeleteShape, NoTx
  <1>4. D \subseteq 1 .. count.id
    <2>1. \A k \in q.old \cup q.put \cup rows : k.id \in 1 .. count.id
      BY <1>1 DEF Typed, Table
    <2> QED
      BY <2>1, ViewIs DEF Pruned, Dropped, IdsOf, Of
  <1>5. /\ q.op = "workflow" => IdsOf(q.old) \subseteq IdsOf(q.put) \cup D
        /\ q.op = "save" => \A v \in rows : IsVolume(v, q.root) => v.name \in q.names \/ v.id \in D
    <2>1. CASE q.op = "workflow"
      BY <2>1 DEF Pruned, Dropped
    <2>2. CASE q.op = "save" /\ q.names # {}
      <3>1. D = IdsOf({v \in q.old : v.name \notin q.names})
        BY <2>2 DEF Pruned
      <3> QED
        BY <1>1, <1>2, <2>2, <3>1 DEF Seen, IdsOf
    <2>3. CASE q.op = "save" /\ q.names = {}
      <3>1. D = IdsOf(Of(View(t), "volume", q.root))
        BY <2>3 DEF Pruned
      <3>2. Locked(q) = {Ground(q).id} /\ Ground(q).kind = "service" /\ Ground(q) \in KnownTo(q)
        BY <1>1, <1>3, <2>3, GroundIsTyped DEF Locked, IdsOf, KnownTo
      <3>3. \A v \in rows : IsVolume(v, q.root) => v \in View(t)
        BY <1>1, <3>2, ViewIs DEF SameTable, IsVolume
      <3> QED
        BY <2>3, <3>1, <3>3 DEF IdsOf, Of, IsVolume
    <2> QED
      BY <1>3, <2>1, <2>2, <2>3
  <1> HIDE DEF D
  <1>6. r \in Columns
    <2>1. D \in SUBSET Nat
      BY <1>1, <1>4
    <2> QED
      BY <1>1, <2>1 DEF Columns, Stages
  <1>7. /\ r.op = q.op /\ r.at = (IF q.op = "save" THEN "save" ELSE "commit") /\ r.root = q.root /\ r.of = q.of
        /\ r.put = q.put /\ r.del = q.del \cup D /\ r.keep = q.keep /\ r.old = q.old /\ r.twice = q.twice
        /\ r.names = q.names
    BY <1>1 DEF Columns
  <1>8. Ground(r) = Ground(q)
    BY <1>7 DEF Ground
  <1> HIDE DEF r
  <1>9. Typed(r, count'.id)
    BY <1>1, <1>2, <1>4, <1>7 DEF Typed
  <1>10. Shape(r)
    BY <1>1, <1>2, <1>3, <1>5, <1>7, <1>8 DEF Shape, SaveShape, WorkflowShape, DeleteShape
  <1>11. Seen(r, rows)
    BY <1>1, <1>2, <1>3, <1>5, <1>7 DEF Seen
  <1>12. KnownTo(r) = KnownTo(q)
    BY <1>7, <1>8 DEF KnownTo, GroundOf
  <1>13. Locked(r) = Locked(q) \cup D
    BY <1>7 DEF Locked
  <1>14. \A u \in Tx \ {t} : D \cap Locked(tx[u]) = {}
    BY <1>2 DEF Step, Free, Locked
  <1>15. /\ \A u \in Tx \ {t} : Locked(r) \cap Locked(tx[u]) = {}
         /\ SameTable(KnownTo(r), KnownTo(r))
         /\ \A k \in KnownTo(r) :
              k.id > count.id \/ \E m \in rows \cup KnownTo(tx[t]) : m.id = k.id /\ m.kind = k.kind
         /\ tx' = [tx EXCEPT ![t] = r] /\ count' \in [id : Nat, start : Nat, fault : Nat] /\ count.id <= count'.id
    BY <1>1, <1>2, <1>12, <1>13, <1>14 DEF Step
  <1> QED
    BY <1>2, <1>6, <1>9, <1>10, <1>11, <1>15, StepKeeps

LEMMA DeleteFromKeeps ==
    ASSUME TablesInv, NEW t \in Tx, NEW label, NEW S \in SUBSET View(t),
           NEW next \in {"steps", "workflows", "volumes", "service", "commit"},
           DeleteFrom(t, label, S, next)
    PROVE  TablesInv'
  <1> DEFINE q == tx[t]
             D == IdsOf(S)
             r == [q EXCEPT !.del = @ \cup D, !.at = next]
  <1>1. /\ count \in [id : Nat, start : Nat, fault : Nat] /\ count.id \in Nat
        /\ Table(rows, count.id) /\ q \in Columns /\ Typed(q, count.id) /\ Shape(q)
        /\ \A u \in Tx \ {t} : Locked(q) \cap Locked(tx[u]) = {}
    BY OneOf
  <1>2. q.op = "delete" /\ rows' = rows /\ count' = count /\ Step(t, D, r)
    BY DEF DeleteFrom
  <1>3. q.put = {} /\ q.keep = {} /\ q.old = {}
    BY <1>1, <1>2 DEF Shape, DeleteShape
  <1>4. D \subseteq 1 .. count.id
    BY <1>1, <1>3, ViewIs DEF IdsOf, Table
  <1> HIDE DEF D
  <1>5. r \in Columns
    <2>1. D \in SUBSET Nat
      BY <1>1, <1>4
    <2> QED
      BY <1>1, <2>1 DEF Columns, Stages
  <1>6. /\ r.op = q.op /\ r.at = next /\ r.root = q.root /\ r.of = q.of
        /\ r.put = q.put /\ r.del = q.del \cup D /\ r.keep = q.keep /\ r.old = q.old
    BY <1>1 DEF Columns
  <1> HIDE DEF r
  <1>7. Typed(r, count'.id)
    BY <1>1, <1>2, <1>4, <1>6 DEF Typed
  <1>8. Shape(r) /\ Seen(r, rows) /\ KnownTo(r) = {}
    BY <1>2, <1>3, <1>6 DEF Shape, SaveShape, WorkflowShape, DeleteShape, Seen, KnownTo, GroundOf
  <1>9. Locked(r) = Locked(q) \cup D
    BY <1>6 DEF Locked
  <1>10. \A u \in Tx \ {t} : D \cap Locked(tx[u]) = {}
    BY <1>2 DEF Step, Free, Locked
  <1>11. /\ \A u \in Tx \ {t} : Locked(r) \cap Locked(tx[u]) = {}
         /\ SameTable(KnownTo(r), KnownTo(r))
         /\ \A k \in KnownTo(r) :
              k.id > count.id \/ \E m \in rows \cup KnownTo(tx[t]) : m.id = k.id /\ m.kind = k.kind
         /\ tx' = [tx EXCEPT ![t] = r] /\ count' \in [id : Nat, start : Nat, fault : Nat] /\ count.id <= count'.id
    BY <1>1, <1>2, <1>8, <1>9, <1>10 DEF Step, SameTable
  <1> QED
    BY <1>2, <1>5, <1>7, <1>8, <1>11, StepKeeps

LEMMA DeleteKeeps ==
    ASSUME TablesInv, NEW t \in Tx, Delete(t)
    PROVE  TablesInv'
  <1>1. /\ \A kind : OfFound(t, kind) \in SUBSET View(t) /\ \A s : Of(View(t), kind, s) \in SUBSET View(t)
        /\ {r \in View(t) : r.id = tx[t].root} \in SUBSET View(t)
    BY DEF OfFound, Of
  <1>2. CASE DeleteFrom(t, "tasks", OfFound(t, "task"), "steps")
    BY <1>1, <1>2, DeleteFromKeeps
  <1>3. CASE DeleteFrom(t, "steps", OfFound(t, "step"), "workflows")
    BY <1>1, <1>3, DeleteFromKeeps
  <1>4. CASE DeleteFrom(t, "workflows", Of(View(t), "workflow", tx[t].root), "volumes")
    BY <1>1, <1>4, DeleteFromKeeps
  <1>5. CASE DeleteFrom(t, "volumes", Of(View(t), "volume", tx[t].root), "service")
    BY <1>1, <1>5, DeleteFromKeeps
  <1>6. CASE DeleteFrom(t, "service", {r \in View(t) : r.id = tx[t].root}, "commit")
    BY <1>1, <1>6, DeleteFromKeeps
  <1> QED
    BY <1>2, <1>3, <1>4, <1>5, <1>6 DEF Delete

\* A transaction that is rolled back
LEMMA RollbackKeeps ==
    ASSUME TablesInv, NEW t \in Tx, tx' = [tx EXCEPT ![t] = NoTx], rows' = rows,
           count' \in [id : Nat, start : Nat, fault : Nat], count'.id = count.id
    PROVE  TablesInv'
  <1>1. Table(rows, count.id) /\ count.id \in Nat
    BY OneOf
  <1>2. /\ NoTx.op = "none" /\ NoTx.put = {} /\ NoTx.del = {} /\ NoTx.keep = {} /\ NoTx.old = {}
        /\ NoTx.root = 0 /\ NoTx.of = 0
    BY DEF NoTx
  <1>3. Typed(NoTx, count'.id)
    BY <1>1, <1>2 DEF Typed, Table
  <1>4. Shape(NoTx) /\ Seen(NoTx, rows) /\ KnownTo(NoTx) = {} /\ Locked(NoTx) = {}
    BY <1>2 DEF Shape, SaveShape, WorkflowShape, DeleteShape, Seen, KnownTo, GroundOf, Locked, IdsOf
  <1>5. /\ \A u \in Tx \ {t} : Locked(NoTx) \cap Locked(tx[u]) = {}
        /\ SameTable(KnownTo(NoTx), KnownTo(NoTx))
        /\ \A k \in KnownTo(NoTx) :
             k.id > count.id \/ \E m \in rows \cup KnownTo(tx[t]) : m.id = k.id /\ m.kind = k.kind
        /\ count.id <= count'.id
    BY <1>1, <1>4 DEF SameTable
  <1> QED
    BY <1>3, <1>4, <1>5, NoTxIsTyped, StepKeeps

LEMMA FailKeeps ==
    ASSUME TablesInv, NEW t \in Tx, Fail(t) \/ Deadlock(t)
    PROVE  TablesInv'
  <1>1. count \in [id : Nat, start : Nat, fault : Nat]
    BY OneOf
  <1>2. /\ count' \in [id : Nat, start : Nat, fault : Nat] /\ count'.id = count.id
        /\ tx' = [tx EXCEPT ![t] = NoTx] /\ rows' = rows
    BY <1>1 DEF Fail, Deadlock
  <1> QED
    BY <1>2, RollbackKeeps

LEMMA SaveStepsKeeps ==
    ASSUME TablesInv, NEW t \in Tx, SaveSteps(t)
    PROVE  TablesInv'
  <1> DEFINE q == tx[t]
             n == count.id
             step == Row(n + 1, "step", q.root, 0, Unnamed)
             task == Row(n + 2, "task", q.root, n + 1, Unnamed)
             new == IF q.new THEN {step, task} ELSE {}
             moved == {[k EXCEPT !.of = q.root] : k \in q.keep}
             P == q.put \cup moved \cup new
             r == [q EXCEPT !.at = "prune", !.put = P]
  <1>1. /\ count \in [id : Nat, start : Nat, fault : Nat] /\ n \in Nat
        /\ Table(rows, n) /\ q \in Columns /\ Typed(q, n) /\ Shape(q) /\ Seen(q, rows)
        /\ SameTable(KnownTo(q), KnownTo(q))
        /\ \A u \in Tx \ {t} : Locked(q) \cap Locked(tx[u]) = {} /\ Locked(tx[u]) \subseteq 1 .. n
    BY OneOf
  <1>2. /\ q.at = "save" /\ q.op = "workflow" /\ rows' = rows
        /\ Step(t, IdsOf(q.keep), [q EXCEPT !.at = "prune", !.put = @ \cup moved \cup new])
        /\ count' = [count EXCEPT !.id = @ + Cardinality(new)]
    BY DEF SaveSteps
  <1>3. /\ q.del = {} /\ q.put = {Ground(q)} /\ q.root \in 1 .. n /\ q.of \in 0 .. n
        /\ \A k \in q.keep : k.kind \in {"step", "task"}
        /\ \A k \in q.old : IsPart(k, q.root)
    <2>1. /\ q.del = {} /\ q.put = {Ground(q)} /\ \A k \in q.keep : k.kind \in {"step", "task"}
          /\ \A k \in q.old : IsPart(k, q.root)
      BY <1>1, <1>2 DEF Shape, WorkflowShape
    <2>2. q.root \in 1 .. n /\ q.of \in 0 .. n
      BY <1>1, <2>1, GroundIsTyped DEF Typed, Table
    <2> QED
      BY <2>1, <2>2
  <1>4. /\ Ground(q) \in RowType /\ Ground(q).id = q.root /\ Ground(q).kind = "workflow" /\ Ground(q).step = 0
        /\ Ground(q).of = q.of
    BY <1>1, <1>2, GroundIsTyped
  <1>5. /\ step \in RowType /\ step.id = n + 1 /\ step.kind = "step" /\ step.of = q.root /\ step.step = 0
        /\ task \in RowType /\ task.id = n + 2 /\ task.kind = "task" /\ task.of = q.root /\ task.step = n + 1
    <2>1. /\ q.root \in Nat /\ n + 1 \in Nat /\ n + 2 \in Nat /\ 0 \in Nat /\ {"step", "task"} \subseteq Kinds
          /\ Unnamed \in Names \cup {Unnamed}
      BY <1>1, <1>3 DEF Kinds
    <2> QED
      BY <2>1, RowIsTyped
  <1> HIDE DEF step, task
  <1>6. \E d \in {n, n + 2} :
          /\ count' = [count EXCEPT !.id = d] /\ count' \in [id : Nat, start : Nat, fault : Nat] /\ count'.id = d
          /\ q.new => d = n + 2
    <2>1. CASE q.new
      <3>1. step # task /\ new = {step, task}
        BY <1>1, <1>5, <2>1
      <3>2. Cardinality(new) = 2
        <4>1. IsFiniteSet({step}) /\ Cardinality({step}) = 1 /\ task \notin {step}
          BY <3>1, FS_Singleton
        <4>2. Cardinality({step} \cup {task}) = Cardinality({step}) + 1
          BY <4>1, FS_AddElement
        <4>3. new = {step} \cup {task}
          BY <3>1
        <4> QED
          BY <4>1, <4>2, <4>3
      <3> QED
        BY <1>1, <1>2, <2>1, <3>2
    <2>2. CASE ~ q.new
      <3>1. Cardinality(new) = 0
        BY <2>2, FS_EmptySet
      <3> QED
        BY <1>1, <1>2, <2>2, <3>1
    <2> QED
      BY <2>1, <2>2
  <1>7. PICK d \in {n, n + 2} :
          /\ count' \in [id : Nat, start : Nat, fault : Nat] /\ count'.id = d
          /\ q.new => d = n + 2
    BY <1>6
  <1>8. /\ \A k \in moved : /\ k \in RowType /\ k.of = q.root
                            /\ \E o \in q.keep : o.id = k.id /\ o.kind = k.kind /\ o.step = k.step
        /\ \A o \in q.keep : \E k \in moved : k.id = o.id
    <2>1. q.keep \subseteq RowType /\ q.root \in Nat
      BY <1>1 DEF Columns
    <2>2. ASSUME NEW o \in q.keep
          PROVE  /\ [o EXCEPT !.of = q.root] \in RowType /\ [o EXCEPT !.of = q.root].id = o.id
                 /\ [o EXCEPT !.of = q.root].kind = o.kind /\ [o EXCEPT !.of = q.root].of = q.root
                 /\ [o EXCEPT !.of = q.root].step = o.step /\ [o EXCEPT !.of = q.root] \in moved
      BY <2>1, RowHasColumns
    <2>3. ASSUME NEW k \in moved
          PROVE  k \in RowType /\ k.of = q.root /\ \E o \in q.keep : o.id = k.id /\ o.kind = k.kind /\ o.step = k.step
      <3>1. PICK o \in q.keep : k = [o EXCEPT !.of = q.root]
        OBVIOUS
      <3> QED
        BY <2>2, <3>1
    <2>4. ASSUME NEW o \in q.keep
          PROVE  \E k \in moved : k.id = o.id
      BY <2>2
    <2> QED
      BY <2>3, <2>4
  <1>9. \A o \in q.keep : \E k \in moved : k.id = o.id
    BY <1>8
  <1>10. Table(q.keep, n) /\ \A k, l \in q.keep : k.id = l.id => k = l
    BY <1>1 DEF Typed, Table
  <1>11. \A k, l \in moved : k.id = l.id => k = l
    <2>1. \A o, p \in q.keep : o.id = p.id => [o EXCEPT !.of = q.root] = [p EXCEPT !.of = q.root]
      BY <1>10
    <2>2. \A o \in q.keep : [o EXCEPT !.of = q.root].id = o.id
      BY <1>1, <1>3, RowHasColumns DEF Columns
    <2>3. ASSUME NEW k \in moved, NEW l \in moved, k.id = l.id
          PROVE  k = l
      <3>1. PICK o \in q.keep : k = [o EXCEPT !.of = q.root]
        OBVIOUS
      <3>2. PICK p \in q.keep : l = [p EXCEPT !.of = q.root]
        OBVIOUS
      <3>3. o.id = p.id
        BY <2>2, <2>3, <3>1, <3>2
      <3> QED
        BY <2>1, <3>1, <3>2, <3>3
    <2> QED
      BY <2>3
  <1>12. \A k \in moved : k.id \in 1 .. n /\ k.step \in 0 .. n /\ k.kind \in {"step", "task"} /\ k.id # q.root
    <2>1. \A k \in q.keep : k.id \in 1 .. n /\ k.step \in 0 .. n /\ k.kind \in {"step", "task"}
      BY <1>3, <1>10 DEF Table
    <2>2. q.keep \subseteq KnownTo(q) /\ Ground(q) \in KnownTo(q)
      BY <1>3 DEF KnownTo
    <2>3. \A k \in q.keep : k.id # q.root
      BY <1>1, <1>4, <2>1, <2>2 DEF SameTable
    <2> QED
      BY <1>8, <2>1, <2>3
  <1> HIDE DEF moved
  <1>13. \A k \in new : /\ q.new /\ (k = step \/ k = task) /\ k \in RowType /\ k.of = q.root
                        /\ k.kind \in {"step", "task"} /\ k.id \in {n + 1, n + 2} /\ k.step \in 0 .. n + 1
    BY <1>1, <1>5
  <1>14. \A k, l \in new : k.id = l.id => k = l
    BY <1>1, <1>5, <1>13
  <1> HIDE DEF new
  <1>15. P = {Ground(q)} \cup moved \cup new /\ P \in SUBSET RowType
    BY <1>3, <1>4, <1>8, <1>13
  <1>16. Table(P, d)
    <2>1. \A k \in new : k.id \in n + 1 .. d /\ k.id > n /\ k.of \in 0 .. d /\ k.step \in 0 .. d
      BY <1>1, <1>3, <1>7, <1>13
    <2>2. \A k \in moved : k.id \in 1 .. d /\ k.id <= n /\ k.of \in 0 .. d /\ k.step \in 0 .. d
      BY <1>1, <1>3, <1>7, <1>8, <1>12
    <2>3. Ground(q).id \in 1 .. d /\ Ground(q).id <= n /\ Ground(q).of \in 0 .. d /\ Ground(q).step \in 0 .. d
      BY <1>1, <1>3, <1>4, <1>7
    <2>4. \A k \in P : k \in RowType /\ k.id \in 1 .. d /\ k.of \in 0 .. d /\ k.step \in 0 .. d
      BY <1>1, <1>7, <1>15, <2>1, <2>2, <2>3
    <2>5. \A k, l \in P : k.id = l.id => k = l
      BY <1>1, <1>4, <1>11, <1>12, <1>14, <1>15, <2>1, <2>2, <2>3
    <2> QED
      BY <2>4, <2>5 DEF Table
  <1>17. \A k \in P \ {Ground(q)} : IsPart(k, q.root)
    BY <1>8, <1>12, <1>13, <1>15 DEF IsPart
  <1>18. IdsOf(q.keep) \subseteq IdsOf(P)
    BY <1>9 DEF IdsOf
  <1>19. \A k \in P : k.id > n \/ \E m \in KnownTo(q) : m.id = k.id /\ m.kind = k.kind
    <2>1. q.keep \subseteq KnownTo(q) /\ Ground(q) \in KnownTo(q)
      BY <1>3 DEF KnownTo
    <2>2. \A k \in new : k.id > n
      BY <1>1, <1>13
    <2> QED
      BY <1>8, <1>15, <2>1, <2>2
  <1>20. \A k \in P : k.id \in IdsOf(q.keep) \/ k.id = q.root \/ k.id > n
    <2>1. \A k \in new : k.id > n
      BY <1>1, <1>13
    <2> QED
      BY <1>4, <1>8, <1>15, <2>1 DEF IdsOf
  <1>21. Step(t, IdsOf(q.keep), r)
    BY <1>2
  <1> HIDE DEF P
  <1>22. r \in Columns
    BY <1>1, <1>15 DEF Columns, Stages
  <1>23. /\ r.op = q.op /\ r.at = "prune" /\ r.root = q.root /\ r.of = q.of /\ r.put = P /\ r.del = q.del
         /\ r.keep = q.keep /\ r.old = q.old
    BY <1>1 DEF Columns
  <1>24. Ground(r) = Ground(q) /\ tx' = [tx EXCEPT ![t] = r]
    BY <1>21, <1>23 DEF Ground, Step
  <1>25. \A u \in Tx \ {t} : IdsOf(q.keep) \cap Locked(tx[u]) = {}
    BY <1>21 DEF Step, Free, Locked
  <1> HIDE DEF r
  <1>26. Typed(r, count'.id)
    <2>1. Table(q.keep, d) /\ Table(q.old, d) /\ d \in Nat /\ n <= d
      BY <1>1, <1>7, TableGrows DEF Typed
    <2> QED
      BY <1>1, <1>3, <1>7, <1>16, <1>23, <2>1 DEF Typed
  <1>27. Shape(r)
    <2>1. Ground(q) \in P
      BY <1>15
    <2> QED
      BY <1>2, <1>3, <1>17, <1>18, <1>23, <1>24, <2>1 DEF Shape, SaveShape, WorkflowShape, DeleteShape
  <1>28. Seen(r, rows)
    BY <1>1, <1>2, <1>23 DEF Seen
  <1>29. \A u \in Tx \ {t} : Locked(r) \cap Locked(tx[u]) = {}
    <2>1. Locked(r) = IdsOf(P)
      BY <1>3, <1>23 DEF Locked
    <2>2. q.root \in Locked(q)
      BY <1>3, <1>4 DEF Locked, IdsOf
    <2>3. \A i \in IdsOf(P) : i \in IdsOf(q.keep) \/ i = q.root \/ i > n
      BY <1>20 DEF IdsOf
    <2> QED
      BY <1>1, <1>25, <2>1, <2>2, <2>3
  <1>30. KnownTo(r) \subseteq P \cup KnownTo(q)
    BY <1>2, <1>3, <1>23, <1>24 DEF KnownTo, GroundOf
  <1>31. \A k \in KnownTo(r) : k.id > n \/ \E m \in KnownTo(q) : m.id = k.id /\ m.kind = k.kind
    BY <1>19, <1>30
  <1>32. \A k \in KnownTo(r) : k.id > n => k \in P
    <2>1. \A k \in KnownTo(q) : k.id \in 0 .. n
      BY <1>1, KnownIdsAreUsed
    <2> QED
      BY <1>1, <1>30, <2>1
  <1>33. SameTable(KnownTo(r), KnownTo(r))
    <2>1. \A k \in KnownTo(q) : k.id \in 0 .. n
      BY <1>1, KnownIdsAreUsed
    <2>2. \A k, l \in P : k.id = l.id => k.kind = l.kind
      BY <1>16 DEF Table
    <2> QED
      BY <1>1, <1>31, <1>32, <2>1, <2>2 DEF SameTable
  <1>34. \A k \in KnownTo(r) :
           k.id > count.id \/ \E m \in rows \cup KnownTo(tx[t]) : m.id = k.id /\ m.kind = k.kind
    BY <1>31
  <1>35. count.id <= count'.id
    BY <1>1, <1>7
  <1> QED
    BY <1>2, <1>7, <1>22, <1>24, <1>26, <1>27, <1>28, <1>29, <1>33, <1>34, <1>35, StepKeeps

\* New ids for the names of a finite set
Distinct(f, S) == \A a, b \in S : f[a] = f[b] => a = b

LEMMA Places ==
    ASSUME NEW S, IsFiniteSet(S)
    PROVE  /\ Cardinality(S) \in Nat
           /\ \E p \in [S -> 1 .. Cardinality(S)] : Distinct(p, S)
  <1>1. Cardinality(S) \in Nat /\ ExistsBijection(1 .. Cardinality(S), S)
    BY FS_CardinalityType
  <1>2. ExistsBijection(S, 1 .. Cardinality(S))
    BY <1>1, Fun_ExistsBijSymmetric
  <1>3. PICK p \in Bijection(S, 1 .. Cardinality(S)) : TRUE
    BY <1>2 DEF ExistsBijection
  <1>4. p \in [S -> 1 .. Cardinality(S)] /\ \A a, b \in S : p[a] = p[b] => a = b
    BY <1>3, Fun_BijectionProperties
  <1> QED
    BY <1>1, <1>4 DEF Distinct

LEMMA IdsForNames ==
    ASSUME NEW N, IsFiniteSet(N), NEW c \in Nat, NEW fresh, fresh = {<<n, 1>> : n \in N}
    PROVE  /\ Cardinality(fresh) \in Nat
           /\ \E f \in [fresh -> (c + 1) .. (c + Cardinality(fresh))] : Distinct(f, fresh)
  <1> DEFINE g == [n \in N |-> <<n, 1>>]
  <1>1. g \in Bijection(N, fresh)
    <2>1. g \in [N -> fresh] /\ (\A a, b \in N : g[a] = g[b] => a = b) /\ \A x \in fresh : \E n \in N : g[n] = x
      OBVIOUS
    <2> QED
      BY <2>1, Fun_IsBij
  <1>2. IsFiniteSet(fresh)
    BY <1>1, FS_Bijection DEF ExistsBijection
  <1> DEFINE m == Cardinality(fresh)
  <1> HIDE DEF g
  <1>3. /\ Cardinality(fresh) \in Nat
        /\ \E p \in [fresh -> 1 .. Cardinality(fresh)] : Distinct(p, fresh)
    BY <1>2, Places
  <1>4. PICK p \in [fresh -> 1 .. m] : Distinct(p, fresh)
    BY <1>3
  <1> DEFINE f == [x \in fresh |-> c + p[x]]
  <1> HIDE DEF m
  <1>5. m \in Nat
    BY <1>3 DEF m
  <1>6. \A x \in fresh : p[x] \in Nat /\ p[x] \in 1 .. m
    BY <1>4, <1>5
  <1>7. f \in [fresh -> (c + 1) .. (c + m)]
    BY <1>5, <1>6
  <1>8. Distinct(f, fresh)
    BY <1>4, <1>6 DEF Distinct
  <1> HIDE DEF f
  <1> QED
    BY <1>3, <1>7, <1>8 DEF m

LEMMA SaveVolumesKeeps ==
    ASSUME TablesAssumption, TablesInv, NEW t \in Tx, SaveVolumes(t)
    PROVE  TablesInv'
  <1> DEFINE q == tx[t]
             c == count.id
             kept == {k \in q.old : k.name \in q.names}
             N == q.names \ {k.name : k \in kept}
             fresh == {<<n, 1>> : n \in N} \cup {<<n, 2>> : n \in q.twice \ {k.name : k \in kept}}
             id == CHOOSE f \in [fresh -> (c + 1) .. (c + Cardinality(fresh))] :
                     \A a, b \in fresh : f[a] = f[b] => a = b
             born == {Row(id[f], "volume", q.root, 0, f[1]) : f \in fresh}
             m == Cardinality(fresh)
             P == q.put \cup kept \cup born
             r == [q EXCEPT !.at = "commit", !.put = P]
  <1>1. /\ count \in [id : Nat, start : Nat, fault : Nat] /\ c \in Nat
        /\ Table(rows, c) /\ q \in Columns /\ Typed(q, c) /\ Shape(q) /\ Seen(q, rows)
        /\ SameTable(KnownTo(q), KnownTo(q))
        /\ \A u \in Tx \ {t} : Locked(q) \cap Locked(tx[u]) = {} /\ Locked(tx[u]) \subseteq 1 .. c
    BY OneOf
  <1>2. q.at = "save" /\ q.op = "save" /\ rows' = rows
    BY DEF SaveVolumes
  <1>3. /\ q.put = {Ground(q)} /\ q.root \in 1 .. c /\ q.twice = {}
        /\ (\A k \in q.old : IsVolume(k, q.root)) /\ \A k, l \in q.old : k.name = l.name => k = l
    <2>1. /\ q.put = {Ground(q)} /\ q.twice = {}
          /\ (\A k \in q.old : IsVolume(k, q.root)) /\ \A k, l \in q.old : k.name = l.name => k = l
      BY <1>1, <1>2 DEF Shape, SaveShape
    <2>2. q.root \in 1 .. c
      BY <1>1, <2>1, GroundIsTyped DEF Typed, Table
    <2> QED
      BY <2>1, <2>2
  <1>4. /\ Step(t, IdsOf(kept), r)
        /\ count' = [count EXCEPT !.id = @ + m]
    BY <1>2 DEF SaveVolumes
  <1>5. fresh = {<<n, 1>> : n \in N}
    BY <1>3
  <1>6. m \in Nat /\ id \in [fresh -> (c + 1) .. (c + m)] /\ \A a, b \in fresh : id[a] = id[b] => a = b
    <2>1. q.names \in SUBSET Names
      BY <1>1 DEF Columns
    <2>2. IsFiniteSet(N)
      <3>1. N \in SUBSET Names
        BY <2>1
      <3> QED
        BY <3>1, FS_Subset DEF TablesAssumption
    <2> HIDE DEF N, fresh
    <2>3. m \in Nat /\ \E f \in [fresh -> (c + 1) .. (c + m)] : Distinct(f, fresh)
      <3>1. c \in Nat
        BY <1>1
      <3> QED
        BY <1>5, <2>2, <3>1, IdsForNames
    <2>4. m \in Nat /\ \E f \in [fresh -> (c + 1) .. (c + m)] : \A a, b \in fresh : f[a] = f[b] => a = b
      BY <2>3 DEF Distinct
    <2> QED
      BY <2>4
  <1> HIDE DEF id, m
  <1>7. ASSUME NEW b \in born
        PROVE  /\ b \in RowType /\ b.id \in (c + 1) .. (c + m) /\ b.kind = "volume" /\ b.of = q.root /\ b.step = 0
               /\ b.name \in N /\ \A d \in born : b.name = d.name \/ b.id = d.id => b = d
    <2>1. \A f \in fresh : id[f] \in (c + 1) .. (c + m) /\ id[f] \in Nat /\ f[1] \in N /\ f[1] \in Names \cup {Unnamed} /\ f = <<f[1], 1>>
      <3>1. q.names \in SUBSET Names
        BY <1>1 DEF Columns
      <3>2. \A f \in fresh : f[1] \in N /\ f = <<f[1], 1>>
        BY <1>5
      <3> HIDE DEF fresh
      <3> QED
        BY <1>1, <1>6, <3>1, <3>2
    <2>2. \A f \in fresh :
            LET d == Row(id[f], "volume", q.root, 0, f[1]) IN
            d \in RowType /\ d.id = id[f] /\ d.kind = "volume" /\ d.of = q.root /\ d.step = 0 /\ d.name = f[1]
      <3>1. "volume" \in Kinds /\ q.root \in Nat /\ 0 \in Nat
        BY <1>1, <1>3 DEF Kinds
      <3> HIDE DEF fresh
      <3> QED
        BY <2>1, <3>1, RowIsTyped
    <2>3. PICK f \in fresh : b = Row(id[f], "volume", q.root, 0, f[1])
      OBVIOUS
    <2>4. ASSUME NEW d \in born, b.name = d.name \/ b.id = d.id
          PROVE  b = d
      <3>1. PICK e \in fresh : d = Row(id[e], "volume", q.root, 0, e[1])
        OBVIOUS
      <3> HIDE DEF fresh
      <3>2. f = e
        BY <1>6, <2>1, <2>2, <2>3, <2>4, <3>1
      <3> QED
        BY <2>3, <3>1, <3>2
    <2> HIDE DEF fresh, born
    <2> QED
      BY <2>1, <2>2, <2>3, <2>4
  <1>8. \A n \in N : \E b \in born : b.name = n
    <2>1. ASSUME NEW n \in N
          PROVE  \E b \in born : b.name = n
      <3>1. <<n, 1>> \in fresh /\ <<n, 1>>[1] = n
        BY <1>5
      <3>2. Row(id[<<n, 1>>], "volume", q.root, 0, n) \in born
        BY <3>1
      <3>3. Row(id[<<n, 1>>], "volume", q.root, 0, n).name = n
        BY DEF Row
      <3> QED
        BY <3>2, <3>3
    <2> QED
      BY <2>1
  <1> HIDE DEF fresh, born
  <1>9. /\ Ground(q) \in RowType /\ Ground(q).id = q.root /\ Ground(q).kind = "service" /\ Ground(q).step = 0
        /\ Ground(q).of = 0
    BY <1>1, <1>2, GroundIsTyped
  <1>10. \A k \in kept : /\ k \in q.old /\ k \in RowType /\ k.id \in 1 .. c /\ k.of = q.root /\ k.kind = "volume"
                        /\ k.step \in 0 .. c /\ k.id # q.root /\ k.name \in q.names
                        /\ \A l \in kept : k.name = l.name \/ k.id = l.id => k = l
    <2>1. \A k \in q.old : /\ k \in RowType /\ k.id \in 1 .. c /\ k.step \in 0 .. c /\ k \in KnownTo(q)
                           /\ \A l \in q.old : k.id = l.id => k = l
      BY <1>1 DEF Typed, Table, KnownTo
    <2>2. Ground(q) \in KnownTo(q)
      BY <1>3 DEF KnownTo
    <2>3. \A k \in q.old : k.id # q.root
      BY <1>1, <1>3, <1>9, <2>1, <2>2 DEF SameTable, IsVolume
    <2> QED
      BY <1>3, <2>1, <2>3 DEF IsVolume
  <1>11. \A n : n \in N <=> n \in q.names /\ \A k \in kept : k.name # n
    OBVIOUS
  <1>12. P = {Ground(q)} \cup kept \cup born /\ P \in SUBSET RowType
    BY <1>3, <1>7, <1>9, <1>10
  <1>13. {k \in q.old : k.name \in q.names} \subseteq P
    OBVIOUS
  <1> HIDE DEF kept, N, P
  <1>14. count' \in [id : Nat, start : Nat, fault : Nat] /\ count'.id = c + m /\ c <= c + m /\ c + m \in Nat
    BY <1>1, <1>4, <1>6
  <1>15. Table(P, c + m)
    <2>1. \A k \in born : k.id \in 1 .. (c + m) /\ k.id > c /\ k.of \in 0 .. (c + m) /\ k.step \in 0 .. (c + m)
      BY <1>1, <1>3, <1>6, <1>7
    <2>2. \A k \in kept : k.id \in 1 .. (c + m) /\ k.id <= c /\ k.of \in 0 .. (c + m) /\ k.step \in 0 .. (c + m)
      BY <1>1, <1>3, <1>6, <1>10
    <2>3. Ground(q).id \in 1 .. (c + m) /\ Ground(q).id <= c /\ Ground(q).of \in 0 .. (c + m) /\ Ground(q).step \in 0 .. (c + m)
      BY <1>1, <1>3, <1>6, <1>9
    <2>4. \A k \in P : k \in RowType /\ k.id \in 1 .. (c + m) /\ k.of \in 0 .. (c + m) /\ k.step \in 0 .. (c + m)
      BY <1>12, <2>1, <2>2, <2>3
    <2>5. ASSUME NEW k \in P, NEW l \in P, k.id = l.id
          PROVE  k = l
      <3>1. CASE k \in born
        BY <1>1, <1>7, <1>12, <2>1, <2>2, <2>3, <2>5, <3>1
      <3>2. CASE k \in kept
        BY <1>1, <1>9, <1>10, <1>12, <2>1, <2>2, <2>5, <3>2
      <3>3. CASE k = Ground(q)
        BY <1>1, <1>9, <1>10, <1>12, <2>1, <2>3, <2>5, <3>3
      <3> QED
        BY <1>12, <3>1, <3>2, <3>3
    <2> QED
      BY <2>4, <2>5 DEF Table
  <1>16. /\ \A k \in P \ {Ground(q)} : k \in kept \/ k \in born
         /\ \A k \in kept \cup born : k # Ground(q) /\ k \in P
    BY <1>7, <1>9, <1>10, <1>12
  <1>17. /\ \A k \in P \ {Ground(q)} : IsVolume(k, q.root)
         /\ {k.name : k \in P \ {Ground(q)}} = q.names
         /\ \A k, l \in P \ {Ground(q)} : k.name = l.name => k = l
    <2>1. \A k \in P \ {Ground(q)} : IsVolume(k, q.root)
      BY <1>7, <1>10, <1>16 DEF IsVolume
    <2>2. \A k, l \in P \ {Ground(q)} : k.name = l.name => k = l
      BY <1>7, <1>10, <1>11, <1>16
    <2>3. \A n \in q.names : \E k \in P \ {Ground(q)} : k.name = n
      BY <1>8, <1>11, <1>16
    <2>4. \A k \in P \ {Ground(q)} : k.name \in q.names
      BY <1>7, <1>10, <1>11, <1>16
    <2> QED
      BY <2>1, <2>2, <2>3, <2>4
  <1>18. r \in Columns
    BY <1>1, <1>12 DEF Columns, Stages
  <1>19. /\ r.op = q.op /\ r.at = "commit" /\ r.root = q.root /\ r.of = q.of /\ r.put = P /\ r.del = q.del
         /\ r.keep = q.keep /\ r.old = q.old /\ r.names = q.names /\ r.twice = q.twice
    BY <1>1 DEF Columns
  <1>20. Ground(r) = Ground(q) /\ tx' = [tx EXCEPT ![t] = r]
    BY <1>4, <1>19 DEF Ground, Step
  <1>21. \A u \in Tx \ {t} : IdsOf(kept) \cap Locked(tx[u]) = {}
    BY <1>4 DEF Step, Free, Locked
  <1> HIDE DEF r
  <1>22. Typed(r, count'.id)
    <2>1. Table(q.keep, c + m) /\ Table(q.old, c + m)
      BY <1>1, <1>14, TableGrows DEF Typed
    <2> QED
      BY <1>1, <1>14, <1>15, <1>19, <2>1 DEF Typed
  <1>23. Shape(r)
    <2>1. Ground(q) \in P
      BY <1>12
    <2> QED
      BY <1>2, <1>3, <1>17, <1>19, <1>20, <2>1 DEF Shape, SaveShape, WorkflowShape, DeleteShape
  <1>24. Seen(r, rows)
    BY <1>1, <1>2, <1>13, <1>17, <1>19, <1>20 DEF Seen
  <1>25. \A u \in Tx \ {t} : Locked(r) \cap Locked(tx[u]) = {}
    <2>1. Locked(r) = q.del \cup IdsOf(P) /\ q.del \subseteq Locked(q)
      BY <1>19 DEF Locked
    <2>2. q.root \in Locked(q)
      BY <1>3, <1>9 DEF Locked, IdsOf
    <2>3. \A i \in IdsOf(P) : i \in IdsOf(kept) \/ i = q.root \/ i > c
      <3>1. \A k \in born : k.id > c
        BY <1>1, <1>6, <1>7
      <3> QED
        BY <1>9, <1>12, <3>1 DEF IdsOf
    <2> QED
      BY <1>1, <1>21, <2>1, <2>2, <2>3
  <1>26. KnownTo(r) \subseteq born \cup KnownTo(q)
    BY <1>2, <1>3, <1>10, <1>12, <1>19, <1>20 DEF KnownTo, GroundOf
  <1>27. \A k \in born : k.id > c
    BY <1>1, <1>6, <1>7
  <1>28. SameTable(KnownTo(r), KnownTo(r))
    <2>1. \A k \in KnownTo(q) : k.id \in 0 .. c
      BY <1>1, KnownIdsAreUsed
    <2> QED
      BY <1>1, <1>7, <1>26, <1>27, <2>1 DEF SameTable
  <1>29. \A k \in KnownTo(r) :
           k.id > count.id \/ \E l \in rows \cup KnownTo(tx[t]) : l.id = k.id /\ l.kind = k.kind
    BY <1>26, <1>27
  <1>30. count.id <= count'.id
    BY <1>1, <1>14
  <1> QED
    BY <1>2, <1>14, <1>18, <1>20, <1>22, <1>23, <1>24, <1>25, <1>28, <1>29, <1>30, StepKeeps

\* What a save leaves out it has deleted when it commits.
LEMMA NothingIsLeft ==
    ASSUME TablesInv, NEW t \in Tx, tx[t].at = "commit", NEW r \in rows, r.id \notin Locked(tx[t])
    PROVE  /\ tx[t].op = "save" => ~ IsVolume(r, tx[t].root)
           /\ tx[t].op = "workflow" => ~ IsPart(r, tx[t].root)
  BY OneOf DEF Shape, WorkflowShape, Seen, Locked, IdsOf

LEMMA GroundIsLocked ==
    ASSUME TablesInv, NEW t \in Tx, tx[t].op \in {"save", "workflow"}, tx[t].at # "root"
    PROVE  Ground(tx[t]) \in tx[t].put /\ Ground(tx[t]).id = tx[t].root /\ tx[t].root \in Locked(tx[t])
  BY OneOf, GroundIsTyped DEF Shape, SaveShape, WorkflowShape, Locked, IdsOf

LEMMA CommitKeeps ==
    ASSUME TablesInv, NEW t \in Tx, Commit(t)
    PROVE  TablesInv'
  <1> DEFINE q == tx[t]
             S == View(t)
             c == count.id
             X == [tx EXCEPT ![t] = NoTx]
  <1>1. /\ count \in [id : Nat, start : Nat, fault : Nat] /\ c \in Nat
        /\ Table(rows, c) /\ OneName(rows) /\ tx \in [Tx -> Columns] /\ q \in Columns
        /\ Typed(q, c) /\ Shape(q) /\ Seen(q, rows)
    BY OneOf
  <1>2. q.at = "commit" /\ rows' = S /\ tx' = X /\ count' = count
    BY DEF Commit
  <1>3. /\ \A r : r \in S <=> r \in q.put \/ (r \in rows /\ r.id \notin Locked(q))
        /\ \A r \in q.put : r.id \in Locked(q) /\ r \in KnownTo(q)
    BY ViewIs DEF Locked, IdsOf, KnownTo
  <1> HIDE DEF S
  <1>4. Table(S, c)
    <2>1. /\ Table(q.put, c) /\ \A r \in q.put : r \in RowType
      BY <1>1 DEF Typed, Columns
    <2> QED
      BY <1>1, <1>3, <2>1 DEF Table
  <1>5. q.op \in {"save", "workflow", "delete"}
    <2>1. q.op \in {"none", "save", "workflow", "delete"}
      BY <1>1 DEF Columns
    <2> QED
      BY <1>1, <1>2, <2>1 DEF Shape, NoTx
  \* What it has written belongs to what it saves.
  <1>6. \A r \in q.put : /\ r.kind = "volume" => q.op = "save" /\ IsVolume(r, q.root) /\ r # Ground(q)
                         /\ r.kind \in {"step", "task"} => q.op = "workflow" /\ IsPart(r, q.root)
    BY <1>1, <1>2, <1>5, GroundIsTyped DEF Shape, SaveShape, WorkflowShape, DeleteShape, IsVolume, IsPart
  <1>7. OneName(S)
    <2>1. ASSUME NEW r \in S, NEW s \in S, r.kind = "volume", s.kind = "volume", r.of = s.of, r.name = s.name
          PROVE  r = s
      <3>1. CASE r \in q.put /\ s \in q.put
        BY <1>1, <1>2, <1>6, <2>1, <3>1 DEF Seen
      <3>2. CASE r \in q.put /\ s \notin q.put
        BY <1>2, <1>3, <1>6, <2>1, <3>2, NothingIsLeft DEF IsVolume
      <3>3. CASE r \notin q.put /\ s \in q.put
        BY <1>2, <1>3, <1>6, <2>1, <3>3, NothingIsLeft DEF IsVolume
      <3>4. CASE r \notin q.put /\ s \notin q.put
        BY <1>1, <1>3, <2>1, <3>4 DEF OneName
      <3> QED
        BY <3>1, <3>2, <3>3, <3>4
    <2> QED
      BY <2>1 DEF OneName
  <1>8. /\ NoTx.op = "none" /\ NoTx.put = {} /\ NoTx.del = {} /\ NoTx.keep = {} /\ NoTx.old = {}
        /\ NoTx.root = 0 /\ NoTx.of = 0
    BY DEF NoTx
  <1>9. /\ Typed(NoTx, c) /\ Shape(NoTx) /\ Seen(NoTx, S) /\ KnownTo(NoTx) = {} /\ Locked(NoTx) = {}
    BY <1>1, <1>8 DEF Shape, SaveShape, WorkflowShape, DeleteShape, Seen, KnownTo, GroundOf, Locked, IdsOf, Typed, Table
  <1>10. ASSUME NEW u \in Tx \ {t}
         PROVE  Typed(tx[u], c) /\ Shape(tx[u]) /\ Seen(tx[u], S)
    <2>1. Typed(tx[u], c) /\ Shape(tx[u]) /\ Seen(tx[u], rows) /\ Locked(q) \cap Locked(tx[u]) = {}
      BY OneOf
    <2>2. tx[u].op = "workflow" /\ tx[u].at # "root" =>
            \A r \in S : IsPart(r, tx[u].root) => r \in rows
      BY <1>2, <1>3, <1>6, <2>1, GroundIsLocked DEF IsPart
    <2>3. tx[u].op = "save" /\ tx[u].at # "root" =>
            \A r \in S : IsVolume(r, tx[u].root) => r \in rows
      BY <1>2, <1>3, <1>6, <2>1, GroundIsLocked DEF IsVolume
    <2> QED
      BY <2>1, <2>2, <2>3 DEF Seen
  <1>11. X \in [Tx -> Columns] /\ X[t] = NoTx /\ \A u \in Tx \ {t} : X[u] = tx[u]
    BY <1>1, NoTxIsTyped
  <1> HIDE DEF X
  <1>12. Parted(S, X, c)
    BY <1>4, <1>7, <1>9, <1>10, <1>11 DEF Parted
  <1>13. Apart(S, X)
    <2>1. \A r \in S : r \in rows \/ r \in KnownTo(q)
      BY <1>3
    <2>2. Apart(rows, tx)
      BY DEF TablesInv
    <2>3. \A u, v \in Tx : u # v => Locked(X[u]) \cap Locked(X[v]) = {}
      BY <1>9, <1>11, <2>2 DEF Apart
    <2>4. SameTable(S, S)
      BY <2>1, <2>2 DEF Apart, SameTable
    <2>5. \A u \in Tx \ {t} : SameTable(S, KnownTo(tx[u]))
      BY <2>1, <2>2 DEF Apart, SameTable
    <2>6. \A u \in Tx : SameTable(S, KnownTo(X[u]))
      BY <1>9, <1>11, <2>5 DEF SameTable
    <2>7. \A u, v \in Tx : SameTable(KnownTo(X[u]), KnownTo(X[v]))
      BY <1>9, <1>11, <2>2 DEF Apart, SameTable
    <2> QED
      BY <2>3, <2>4, <2>6, <2>7 DEF Apart
  <1> QED
    BY <1>1, <1>2, <1>12, <1>13 DEF TablesInv

LEMMA TablesBegin == Init => TablesInv
  <1> SUFFICES ASSUME Init PROVE TablesInv
    OBVIOUS
  <1>1. rows = {} /\ count = [id |-> 0, start |-> 0, fault |-> 0] /\ tx = [t \in Tx |-> NoTx]
    BY DEF Init
  <1>2. count \in [id : Nat, start : Nat, fault : Nat] /\ count.id = 0
    BY <1>1
  <1>3. tx \in [Tx -> Columns] /\ \A t \in Tx : tx[t] = NoTx
    BY <1>1, NoTxIsTyped
  <1>4. /\ NoTx.op = "none" /\ NoTx.put = {} /\ NoTx.del = {} /\ NoTx.keep = {} /\ NoTx.old = {}
        /\ NoTx.root = 0 /\ NoTx.of = 0
    BY DEF NoTx
  <1>5. /\ Typed(NoTx, 0) /\ Shape(NoTx) /\ Seen(NoTx, rows) /\ KnownTo(NoTx) = {} /\ Locked(NoTx) = {}
    BY <1>1, <1>4 DEF Shape, SaveShape, WorkflowShape, DeleteShape, Seen, KnownTo, GroundOf, Locked, IdsOf, Typed, Table
  <1>6. Parted(rows, tx, 0)
    BY <1>1, <1>3, <1>5 DEF Parted, Table, OneName
  <1>7. Apart(rows, tx)
    BY <1>1, <1>3, <1>5 DEF Apart, SameTable
  <1> QED
    BY <1>2, <1>6, <1>7 DEF TablesInv

LEMMA TablesStep == TablesAssumption /\ TablesInv /\ [Next]_vars => TablesInv'
  <1> SUFFICES ASSUME TablesAssumption, TablesInv, [Next]_vars PROVE TablesInv'
    OBVIOUS
  <1>1. CASE UNCHANGED vars
    BY <1>1 DEF vars, TablesInv
  <1>2. ASSUME NEW t \in Tx, BeginSave(t) \/ BeginSaveWorkflow(t) \/ BeginDelete(t) \/ Run(t) \/ Fail(t)
        PROVE  TablesInv'
    <2>1. CASE BeginSave(t)
      BY <2>1, BeginSaveKeeps
    <2>2. CASE BeginSaveWorkflow(t)
      BY <2>2, BeginSaveWorkflowKeeps
    <2>3. CASE BeginDelete(t)
      BY <2>3, BeginDeleteKeeps
    <2>4. CASE SaveRoot(t)
      BY <2>4, SaveRootKeeps
    <2>5. CASE ReadExisting(t)
      BY <2>5, ReadExistingKeeps
    <2>6. CASE Prune(t)
      BY <2>6, PruneKeeps
    <2>7. CASE SaveVolumes(t)
      BY <2>7, SaveVolumesKeeps
    <2>8. CASE SaveSteps(t)
      BY <2>8, SaveStepsKeeps
    <2>9. CASE Delete(t)
      BY <2>9, DeleteKeeps
    <2>10. CASE Commit(t)
      BY <2>10, CommitKeeps
    <2>11. CASE Fail(t) \/ Deadlock(t)
      BY <2>11, FailKeeps
    <2> QED
      BY <1>2, <2>1, <2>2, <2>3, <2>4, <2>5, <2>6, <2>7, <2>8, <2>9, <2>10, <2>11 DEF Run
  <1> QED
    BY <1>1, <1>2 DEF Next

LEMMA TablesAreTyped == TablesInv => TypeOK
  <1> SUFFICES ASSUME TablesInv PROVE TypeOK
    OBVIOUS
  <1>1. count.id \in Nat /\ Table(rows, count.id) /\ \A t \in Tx : tx[t] \in Columns
    BY DEF TablesInv, Parted
  <1>2. \A r \in rows : r.kind \in Kinds
    BY <1>1, RowHasColumns DEF Table
  <1>3. \A t \in Tx : tx[t].op \in {"none", "save", "workflow", "delete"}
    BY <1>1 DEF Columns
  <1> QED
    BY <1>1, <1>2, <1>3 DEF TypeOK, Table

\* Things with different names are as many as their names.
LEMMA SameCount ==
    ASSUME NEW S, NEW N, IsFiniteSet(N), {r.name : r \in S} = N, \A r, s \in S : r.name = s.name => r = s
    PROVE  Cardinality(S) = Cardinality(N)
  <1> DEFINE f == [n \in N |-> CHOOSE r \in S : r.name = n]
  <1>1. \A n \in N : \E r \in S : r.name = n
    OBVIOUS
  <1>2. \A n \in N : f[n] \in S /\ f[n].name = n
    BY <1>1
  <1>3. \A r \in S : r.name \in N /\ f[r.name] = r
    BY <1>2
  <1>4. f \in Bijection(N, S)
    <2>1. f \in [N -> S] /\ (\A a, b \in N : f[a] = f[b] => a = b) /\ \A r \in S : \E n \in N : f[n] = r
      BY <1>2, <1>3
    <2> QED
      BY <2>1, Fun_IsBij
  <1> HIDE DEF f
  <1> QED
    BY <1>4, FS_Bijection DEF ExistsBijection

LEMMA OnlyCommitWrites ==
    ASSUME [Next]_vars, NEW t \in Tx, TablesInv, tx[t] # NoTx, tx'[t] = NoTx, rows' # rows
    PROVE  rows' = View(t)
  <1>1. PICK u \in Tx : BeginSave(u) \/ BeginSaveWorkflow(u) \/ BeginDelete(u) \/ Run(u) \/ Fail(u)
    BY DEF Next, vars
  <1>2. Commit(u)
    BY <1>1 DEF BeginSave, BeginSaveWorkflow, BeginDelete, Begin, Run, Fail, SaveRoot, ReadExisting, Prune,
                SaveVolumes, SaveSteps, Delete, DeleteFrom, Deadlock
  <1>3. u = t
    BY <1>2, OneOf DEF Commit
  <1> QED
    BY <1>2, <1>3 DEF Commit

\* A save is exact, whatever else runs.
LEMMA WorkflowsExact == TablesInv /\ [Next]_vars => WorkflowsAreExact
  <1> SUFFICES ASSUME TablesInv, [Next]_vars, NEW t \in Tx, tx[t].at = "commit", tx[t].op = "workflow",
                      tx'[t] = NoTx, rows' # rows
               PROVE  /\ tx[t].root \in IdsOf(rows')
                      /\ Parts(rows', tx[t].root) = {r \in tx[t].put : r.kind # "workflow"}
                      /\ IdsOf(tx[t].keep) \subseteq IdsOf(rows')
    BY DEF WorkflowsAreExact
  <1> DEFINE q == tx[t]
  <1>1. rows' = View(t)
    <2>1. tx[t] # NoTx
      BY DEF NoTx
    <2> QED
      BY <2>1, OnlyCommitWrites
  <1>2. q \in Columns /\ Shape(q)
    BY OneOf
  <1>3. /\ \A r : r \in View(t) <=> r \in q.put \/ (r \in rows /\ r.id \notin Locked(q))
        /\ \A r \in rows : r.id \notin Locked(q) => ~ IsPart(r, q.root)
    BY ViewIs, NothingIsLeft
  <1>4. Ground(q) \in q.put /\ Ground(q).id = q.root /\ Ground(q).kind = "workflow"
    BY <1>2, GroundIsLocked, GroundIsTyped
  <1>5. \A r \in q.put \ {Ground(q)} : IsPart(r, q.root)
    BY <1>2 DEF Shape, WorkflowShape
  <1>6. IdsOf(q.keep) \subseteq IdsOf(q.put)
    BY <1>2 DEF Shape, WorkflowShape
  <1>7. \A r : r \in Parts(View(t), q.root) <=> r \in View(t) /\ IsPart(r, q.root)
    BY DEF Parts, Of, IsPart
  <1>8. \A r : r \in Parts(View(t), q.root) <=> r \in q.put /\ r.kind # "workflow"
    BY <1>3, <1>4, <1>5, <1>7 DEF IsPart
  <1>9. q.root \in IdsOf(View(t)) /\ IdsOf(q.put) \subseteq IdsOf(View(t))
    BY <1>3, <1>4 DEF IdsOf
  <1> QED
    BY <1>1, <1>6, <1>8, <1>9

LEMMA VolumesExact == TablesAssumption /\ TablesInv /\ [Next]_vars => VolumesAreExact
  <1> SUFFICES ASSUME TablesAssumption, TablesInv, [Next]_vars, NEW t \in Tx, tx[t].at = "commit", tx[t].op = "save",
                      tx'[t] = NoTx, rows' # rows
               PROVE  LET now == Of(rows', "volume", tx[t].root) IN
                      /\ {r.name : r \in now} = tx[t].names /\ Cardinality(now) = Cardinality(tx[t].names)
                      /\ \A r \in Of(rows, "volume", tx[t].root) : r.name \in tx[t].names => r \in now
    BY DEF VolumesAreExact
  <1> DEFINE q == tx[t]
             now == Of(rows', "volume", q.root)
  <1>1. rows' = View(t)
    <2>1. tx[t] # NoTx
      BY DEF NoTx
    <2> QED
      BY <2>1, OnlyCommitWrites
  <1>2. q \in Columns /\ Shape(q) /\ Seen(q, rows)
    BY OneOf
  <1>3. /\ \A r : r \in View(t) <=> r \in q.put \/ (r \in rows /\ r.id \notin Locked(q))
        /\ \A r \in rows : r.id \notin Locked(q) => ~ IsVolume(r, q.root)
    BY ViewIs, NothingIsLeft
  <1>4. Ground(q) \in q.put /\ Ground(q).kind = "service"
    BY <1>2, GroundIsLocked, GroundIsTyped
  <1>5. \A r \in q.put \ {Ground(q)} : IsVolume(r, q.root)
    BY <1>2 DEF Shape, SaveShape
  <1>6. now = q.put \ {Ground(q)}
    BY <1>1, <1>3, <1>4, <1>5 DEF Of, IsVolume
  <1>7. {r.name : r \in now} = q.names /\ \A r, s \in now : r.name = s.name => r = s
    BY <1>2, <1>6 DEF Seen
  <1>8. IsFiniteSet(q.names)
    <2>1. q.names \in SUBSET Names
      BY <1>2 DEF Columns
    <2> QED
      BY <2>1, FS_Subset DEF TablesAssumption
  <1>9. \A r \in Of(rows, "volume", q.root) : r.name \in q.names => r \in now
    BY <1>2, <1>4, <1>6 DEF Of, IsVolume, Seen
  <1> HIDE DEF now, q
  <1>10. Cardinality(now) = Cardinality(q.names)
    BY <1>7, <1>8, SameCount
  <1> QED
    BY <1>7, <1>9, <1>10 DEF now, q

-----------------------------------------------------------------------------
(* Transactions in turn                                                    *)

LEMMA TurnKeeps ==
    ASSUME TablesInv, TablesInTurn, \A u, v \in Tx : u = v, NEW t \in Tx, NEW q, tx' = [tx EXCEPT ![t] = q],
           rows' = rows, SavesLinked(q, rows), WorkflowLinked(q, rows), DeleteLinked(q, rows)
    PROVE  TablesInTurn'
  <1>1. \A u \in Tx : tx'[u] = q
    BY OneOf
  <1> QED
    BY <1>1 DEF TablesInTurn

\* What TablesInTurn says of the one transaction
LEMMA TheOne ==
    ASSUME TablesInTurn, NEW t \in Tx
    PROVE  Linked(rows) /\ SavesLinked(tx[t], rows) /\ WorkflowLinked(tx[t], rows) /\ DeleteLinked(tx[t], rows)
  BY DEF TablesInTurn

LEMMA BeginInTurn ==
    ASSUME TablesInv, TablesInTurn, \A u, v \in Tx : u = v, NEW t \in Tx,
           BeginSave(t) \/ BeginSaveWorkflow(t) \/ BeginDelete(t)
    PROVE  TablesInTurn'
  <1>1. CASE BeginSave(t)
    <2>1. PICK id, names, twice :
            Begin(t, [NoTx EXCEPT !.op = "save", !.at = "root", !.root = id, !.names = names, !.twice = twice])
      BY <1>1 DEF BeginSave
    <2> DEFINE q == [NoTx EXCEPT !.op = "save", !.at = "root", !.root = id, !.names = names, !.twice = twice]
    <2>2. q.op = "save" /\ q.del = {}
      BY DEF NoTx
    <2>3. tx' = [tx EXCEPT ![t] = q] /\ rows' = rows
      BY <2>1 DEF Begin
    <2> HIDE DEF q
    <2> QED
      BY <2>2, <2>3, TurnKeeps DEF SavesLinked, WorkflowLinked, DeleteLinked
  <1>2. CASE BeginSaveWorkflow(t)
    <2>1. PICK s \in IdsOf(Of(rows, "service", 0)) : \E w \in {0} \cup IdsOf(Of(rows, "workflow", s)) :
            \E keep \in SUBSET Parts(rows, w), new \in BOOLEAN :
              /\ \A r \in keep : r.kind = "task" => \E p \in keep : p.id = r.step
              /\ Begin(t, [NoTx EXCEPT !.op = "workflow", !.at = "root", !.root = w, !.of = s, !.keep = keep, !.new = new])
      BY <1>2 DEF BeginSaveWorkflow
    <2>2. PICK w : \E keep \in SUBSET Parts(rows, w), new \in BOOLEAN :
              /\ \A r \in keep : r.kind = "task" => \E p \in keep : p.id = r.step
              /\ Begin(t, [NoTx EXCEPT !.op = "workflow", !.at = "root", !.root = w, !.of = s, !.keep = keep, !.new = new])
      BY <2>1
    <2>3. PICK keep \in SUBSET Parts(rows, w), new \in BOOLEAN :
              /\ \A r \in keep : r.kind = "task" => \E p \in keep : p.id = r.step
              /\ Begin(t, [NoTx EXCEPT !.op = "workflow", !.at = "root", !.root = w, !.of = s, !.keep = keep, !.new = new])
      BY <2>2
    <2> DEFINE q == [NoTx EXCEPT !.op = "workflow", !.at = "root", !.root = w, !.of = s, !.keep = keep, !.new = new]
    <2>4. q.op = "workflow" /\ q.of = s /\ q.root = w /\ q.keep = keep /\ q.old = {} /\ q.del = {} /\ q.put = {}
      BY DEF NoTx
    <2>5. tx' = [tx EXCEPT ![t] = q] /\ rows' = rows
      BY <2>3 DEF Begin
    <2> HIDE DEF q
    <2>6. \E p \in rows : p.id = s /\ p.kind = "service"
      BY <2>1 DEF IdsOf, Of
    <2>7. \A r \in keep : r \in rows /\ IsPart(r, w)
      BY DEF Parts, Of, IsPart
    <2>8. \A r \in keep : r.kind = "task" => \E p \in keep : p.id = r.step /\ p.kind = "step"
      <3>1. \A r \in keep : r.kind = "task" => \E p \in rows : p.id = r.step /\ p.kind = "step"
        BY <2>7, TheOne DEF Linked
      <3>2. \A r, s_1 \in rows : r.id = s_1.id => r = s_1
        BY OneOf DEF Table
      <3> QED
        BY <2>3, <2>7, <3>1, <3>2
    <2>9. SavesLinked(q, rows) /\ DeleteLinked(q, rows) /\ WorkflowLinked(q, rows)
      BY <2>4, <2>6, <2>7, <2>8 DEF SavesLinked, WorkflowLinked, DeleteLinked
    <2> QED
      BY <2>5, <2>9, TurnKeeps
  <1>3. CASE BeginDelete(t)
    <2>1. PICK s \in IdsOf(Of(rows, "service", 0)) :
            Begin(t, [NoTx EXCEPT !.op = "delete", !.at = "tasks", !.root = s,
                                  !.found = IdsOf(Of(rows, "workflow", s))])
      BY <1>3 DEF BeginDelete
    <2> DEFINE q == [NoTx EXCEPT !.op = "delete", !.at = "tasks", !.root = s,
                                 !.found = IdsOf(Of(rows, "workflow", s))]
    <2>2. q.op = "delete" /\ q.at = "tasks" /\ q.root = s /\ q.del = {} /\ q.found = IdsOf(Of(rows, "workflow", s))
      BY DEF NoTx
    <2>3. tx' = [tx EXCEPT ![t] = q] /\ rows' = rows
      BY <2>1 DEF Begin
    <2> HIDE DEF q
    <2>4. \A r \in rows : r.id = s => r.kind = "service"
      BY OneOf DEF SameTable, IdsOf, Of
    <2>5. SavesLinked(q, rows) /\ DeleteLinked(q, rows) /\ WorkflowLinked(q, rows)
      BY <2>2, <2>4 DEF SavesLinked, WorkflowLinked, DeleteLinked, IdsOf
    <2> QED
      BY <2>3, <2>5, TurnKeeps
  <1> QED
    BY <1>1, <1>2, <1>3

LEMMA RootInTurn ==
    ASSUME TablesInv, TablesInTurn, \A u, v \in Tx : u = v, NEW t \in Tx, SaveRoot(t)
    PROVE  TablesInTurn'
  <1> DEFINE q == tx[t]
             id == IF q.root = 0 THEN count.id + 1 ELSE q.root
             row == IF q.op = "save" THEN Row(id, "service", 0, 0, Unnamed) ELSE Row(id, "workflow", q.of, 0, Unnamed)
             r == [q EXCEPT !.root = id, !.put = {row}, !.at = "read"]
  <1>1. q \in Columns /\ Shape(q) /\ Table(rows, count.id) /\ count.id \in Nat
    BY OneOf
  <1>2. q.at = "root" /\ rows' = rows /\ tx' = [tx EXCEPT ![t] = r]
    BY DEF SaveRoot, Step
  <1>3. q.op \in {"save", "workflow"} /\ q.del = {} /\ q.old = {}
    <2>1. q.op \in {"none", "save", "workflow", "delete"}
      BY <1>1 DEF Columns
    <2> QED
      BY <1>1, <1>2, <2>1 DEF Shape, SaveShape, WorkflowShape, DeleteShape, NoTx
  <1>4. /\ r.op = q.op /\ r.at = "read" /\ r.root = id /\ r.of = q.of /\ r.put = {row} /\ r.del = q.del
        /\ r.keep = q.keep /\ r.old = q.old
    BY <1>1 DEF Columns
  <1>5. Ground(r) = row
    BY <1>4 DEF Ground
  <1>6. q.op = "workflow" => row.kind = "workflow"
    BY DEF Row
  <1> HIDE DEF r, row
  <1>7. q.op = "workflow" => \A k \in q.keep : k \in rows /\ IsPart(k, id)
    <2>1. SUFFICES ASSUME q.op = "workflow", NEW k \in q.keep PROVE k \in rows /\ IsPart(k, id)
      OBVIOUS
    <2>2. k \in rows /\ IsPart(k, q.root)
      BY <2>1, TheOne DEF WorkflowLinked
    <2>3. \E p \in rows : p.id = q.root
      BY <2>2, TheOne DEF Linked, IsPart
    <2>4. q.root # 0
      BY <1>1, <2>3 DEF Table
    <2> QED
      BY <2>2, <2>4
  <1>8. SavesLinked(r, rows) /\ DeleteLinked(r, rows)
    BY <1>3, <1>4 DEF SavesLinked, DeleteLinked
  <1>9. WorkflowLinked(r, rows)
    <2>1. CASE q.op = "workflow"
      <3>1. /\ \E p \in rows : p.id = q.of /\ p.kind = "service"
            /\ \A k \in q.keep : k \in rows /\ IsPart(k, q.root)
            /\ \A k \in q.keep : k.kind = "task" => \E p \in q.keep : p.id = k.step /\ p.kind = "step"
            /\ q.old \subseteq rows
            /\ \A k \in q.put : k.kind = "task" => \E p \in q.put : p.id = k.step /\ p.kind = "step" /\ p.of = k.of
            /\ \A k \in q.put \ {Ground(q)} : \A s \in rows : s.id = k.id => IsPart(s, q.root)
        BY <2>1, TheOne DEF WorkflowLinked
      <3> QED
        BY <1>3, <1>4, <1>5, <1>6, <1>7, <2>1, <3>1 DEF WorkflowLinked
    <2>2. CASE q.op # "workflow"
      BY <2>2, <1>4 DEF WorkflowLinked
    <2> QED
      BY <2>1, <2>2
  <1> QED
    BY <1>2, <1>8, <1>9, TurnKeeps

LEMMA ReadInTurn ==
    ASSUME TablesInv, TablesInTurn, \A u, v \in Tx : u = v, NEW t \in Tx, ReadExisting(t)
    PROVE  TablesInTurn'
  <1> DEFINE q == tx[t]
  <1>1. q \in Columns /\ Shape(q)
    BY OneOf
  <1>2. q.at = "read" /\ rows' = rows
    BY DEF ReadExisting
  <1>3. PICK at, old : /\ tx' = [tx EXCEPT ![t] = [q EXCEPT !.at = at, !.old = old]]
                       /\ q.op = "workflow" => old = Parts(View(t), q.root)
    BY DEF ReadExisting, Step
  <1>4. q.op = "workflow" => q.put = {Ground(q)} /\ q.del = {} /\ Ground(q).kind = "workflow"
    BY <1>1, <1>2, GroundIsTyped DEF Shape, WorkflowShape
  <1>5. q.op \in {"save", "workflow"}
    <2>1. q.op \in {"none", "save", "workflow", "delete"}
      BY <1>1 DEF Columns
    <2> QED
      BY <1>1, <1>2, <2>1 DEF Shape, DeleteShape, NoTx
  <1>6. q.op = "workflow" => old \subseteq rows
    BY <1>3, <1>4, ViewIs DEF Parts, Of
  <1> DEFINE r == [q EXCEPT !.at = at, !.old = old]
  <1>7. /\ r.op = q.op /\ r.root = q.root /\ r.of = q.of /\ r.put = q.put /\ r.del = q.del
        /\ r.keep = q.keep /\ r.old = old
    BY <1>1 DEF Columns
  <1>8. Ground(r) = Ground(q)
    BY <1>7 DEF Ground
  <1>9. tx' = [tx EXCEPT ![t] = r]
    BY <1>3
  <1> HIDE DEF r
  <1>10. SavesLinked(r, rows) /\ DeleteLinked(r, rows)
    BY <1>5, <1>7, TheOne DEF SavesLinked, DeleteLinked
  <1>11. WorkflowLinked(r, rows)
    <2>1. CASE q.op = "workflow"
      <3>1. /\ \E p \in rows : p.id = q.of /\ p.kind = "service"
            /\ \A k \in q.keep : k \in rows /\ IsPart(k, q.root)
            /\ \A k \in q.keep : k.kind = "task" => \E p \in q.keep : p.id = k.step /\ p.kind = "step"
            /\ q.old \subseteq rows
            /\ \A k \in q.put : k.kind = "task" => \E p \in q.put : p.id = k.step /\ p.kind = "step" /\ p.of = k.of
            /\ \A k \in q.put \ {Ground(q)} : \A s \in rows : s.id = k.id => IsPart(s, q.root)
        BY <2>1, TheOne DEF WorkflowLinked
      <3> QED
        BY <1>4, <1>6, <1>7, <1>8, <2>1, <3>1 DEF WorkflowLinked
    <2>2. CASE q.op # "workflow"
      BY <2>2, <1>7 DEF WorkflowLinked
    <2> QED
      BY <2>1, <2>2
  <1> QED
    BY <1>2, <1>9, <1>10, <1>11, TurnKeeps

LEMMA PruneInTurn ==
    ASSUME TablesInv, TablesInTurn, \A u, v \in Tx : u = v, NEW t \in Tx, Prune(t)
    PROVE  TablesInTurn'
  <1> DEFINE q == tx[t]
             D == Pruned(t)
             r == [q EXCEPT !.del = @ \cup D, !.at = IF q.op = "save" THEN "save" ELSE "commit"]
  <1>1. /\ q \in Columns /\ Shape(q) /\ SameTable(rows, KnownTo(q)) /\ SameTable(rows, rows)
    BY OneOf
  <1>2. q.at = "prune" /\ rows' = rows /\ tx' = [tx EXCEPT ![t] = r]
    BY DEF Prune, Step
  <1>3. q.op \in {"save", "workflow"} /\ q.del = {}
    <2>1. q.op \in {"none", "save", "workflow", "delete"}
      BY <1>1 DEF Columns
    <2> QED
      BY <1>1, <1>2, <2>1 DEF Shape, SaveShape, WorkflowShape, DeleteShape, NoTx
  <1>4. /\ r.op = q.op /\ r.root = q.root /\ r.of = q.of /\ r.put = q.put /\ r.del = q.del \cup D
        /\ r.keep = q.keep /\ r.old = q.old
    BY <1>1 DEF Columns
  <1>5. Ground(r) = Ground(q)
    BY <1>4 DEF Ground
  <1>6. q.op = "workflow" => D \subseteq IdsOf(q.old)
    BY DEF Pruned, Dropped
  <1>7. q.op = "save" => \A k \in rows : k.id \in D => k.kind = "volume"
    <2>1. SUFFICES ASSUME q.op = "save", NEW k \in rows, k.id \in D PROVE k.kind = "volume"
      OBVIOUS
    <2>2. \E m \in rows \cup KnownTo(q) : m.id = k.id /\ m.kind = "volume"
      <3>1. CASE q.names = {}
        BY <2>1, <3>1, ViewIs DEF Pruned, IdsOf, Of, KnownTo
      <3>2. CASE q.names # {}
        <4>1. \A m \in q.old : m.kind = "volume" /\ m \in KnownTo(q)
          BY <1>1, <2>1 DEF Shape, SaveShape, IsVolume, KnownTo
        <4> QED
          BY <2>1, <3>2, <4>1 DEF Pruned, IdsOf
      <3> QED
        BY <3>1, <3>2
    <2> QED
      BY <1>1, <2>2 DEF SameTable
  <1> HIDE DEF r, D
  <1>8. SavesLinked(r, rows) /\ DeleteLinked(r, rows)
    BY <1>3, <1>4, <1>7 DEF SavesLinked, DeleteLinked
  <1>9. WorkflowLinked(r, rows)
    <2>1. CASE q.op = "workflow"
      <3>1. /\ \E p \in rows : p.id = q.of /\ p.kind = "service"
            /\ \A k \in q.keep : k \in rows /\ IsPart(k, q.root)
            /\ \A k \in q.keep : k.kind = "task" => \E p \in q.keep : p.id = k.step /\ p.kind = "step"
            /\ q.old \subseteq rows
            /\ \A k \in q.put : k.kind = "task" => \E p \in q.put : p.id = k.step /\ p.kind = "step" /\ p.of = k.of
            /\ \A k \in q.put \ {Ground(q)} : \A s \in rows : s.id = k.id => IsPart(s, q.root)
        BY <2>1, TheOne DEF WorkflowLinked
      <3> QED
        BY <1>3, <1>4, <1>5, <1>6, <2>1, <3>1 DEF WorkflowLinked
    <2>2. CASE q.op # "workflow"
      BY <2>2, <1>4 DEF WorkflowLinked
    <2> QED
      BY <2>1, <2>2
  <1> QED
    BY <1>2, <1>8, <1>9, TurnKeeps

LEMMA VolumesInTurn ==
    ASSUME TablesInv, TablesInTurn, \A u, v \in Tx : u = v, NEW t \in Tx, SaveVolumes(t)
    PROVE  TablesInTurn'
  <1> DEFINE q == tx[t]
  <1>1. q \in Columns
    BY OneOf
  <1>2. q.op = "save" /\ rows' = rows
    BY DEF SaveVolumes
  <1>3. PICK put : tx' = [tx EXCEPT ![t] = [q EXCEPT !.at = "commit", !.put = put]]
    BY DEF SaveVolumes, Step
  <1> DEFINE r == [q EXCEPT !.at = "commit", !.put = put]
  <1>4. r.op = q.op /\ r.del = q.del
    BY <1>1 DEF Columns
  <1>5. tx' = [tx EXCEPT ![t] = r]
    BY <1>3
  <1> HIDE DEF r
  <1> QED
    BY <1>2, <1>4, <1>5, TheOne, TurnKeeps DEF SavesLinked, WorkflowLinked, DeleteLinked

LEMMA StepsInTurn ==
    ASSUME TablesInv, TablesInTurn, \A u, v \in Tx : u = v, NEW t \in Tx, SaveSteps(t)
    PROVE  TablesInTurn'
  <1> DEFINE q == tx[t]
             n == count.id
             step == Row(n + 1, "step", q.root, 0, Unnamed)
             task == Row(n + 2, "task", q.root, n + 1, Unnamed)
             new == IF q.new THEN {step, task} ELSE {}
             moved == {[k EXCEPT !.of = q.root] : k \in q.keep}
             P == q.put \cup moved \cup new
             r == [q EXCEPT !.at = "prune", !.put = P]
  <1>1. q \in Columns /\ Shape(q) /\ Table(rows, n) /\ n \in Nat
    BY OneOf
  <1>2. q.at = "save" /\ q.op = "workflow" /\ rows' = rows /\ tx' = [tx EXCEPT ![t] = r]
    BY DEF SaveSteps, Step
  <1>3. q.put = {Ground(q)} /\ q.del = {} /\ Ground(q).kind = "workflow"
    BY <1>1, <1>2, GroundIsTyped DEF Shape, WorkflowShape
  <1>4. /\ r.op = q.op /\ r.root = q.root /\ r.of = q.of /\ r.put = P /\ r.del = q.del
        /\ r.keep = q.keep /\ r.old = q.old
    BY <1>1 DEF Columns
  <1>5. Ground(r) = Ground(q)
    BY <1>4 DEF Ground
  <1>6. /\ \A k \in q.keep : k \in rows /\ IsPart(k, q.root)
        /\ \A k \in q.keep : k.kind = "task" => \E p \in q.keep : p.id = k.step /\ p.kind = "step"
    BY <1>2, TheOne DEF WorkflowLinked
  <1>7. \A o \in q.keep : /\ [o EXCEPT !.of = q.root] \in moved
                          /\ [o EXCEPT !.of = q.root].id = o.id /\ [o EXCEPT !.of = q.root].kind = o.kind
                          /\ [o EXCEPT !.of = q.root].of = q.root /\ [o EXCEPT !.of = q.root].step = o.step
    <2>1. q.keep \subseteq RowType /\ q.root \in Nat
      BY <1>1 DEF Columns
    <2> QED
      BY <2>1, RowHasColumns
  <1>8. ASSUME NEW k \in moved
        PROVE  /\ k.kind = "task" => \E p \in moved : p.id = k.step /\ p.kind = "step" /\ p.of = k.of
               /\ \A s \in rows : s.id = k.id => IsPart(s, q.root)
    <2>1. PICK o \in q.keep : k = [o EXCEPT !.of = q.root]
      OBVIOUS
    <2>2. k.id = o.id /\ k.kind = o.kind /\ k.of = q.root /\ k.step = o.step
      BY <1>7, <2>1
    <2>3. ASSUME k.kind = "task"
          PROVE  \E p \in moved : p.id = k.step /\ p.kind = "step" /\ p.of = k.of
      <3>1. PICK p \in q.keep : p.id = o.step /\ p.kind = "step"
        BY <1>6, <2>2, <2>3
      <3> QED
        BY <1>7, <2>2, <3>1
    <2>4. \A s \in rows : s.id = k.id => s = o
      BY <1>1, <1>6, <2>2 DEF Table
    <2> QED
      BY <1>6, <2>3, <2>4
  <1> HIDE DEF moved
  <1>9. /\ step.id = n + 1 /\ step.kind = "step" /\ step.of = q.root
        /\ task.id = n + 2 /\ task.kind = "task" /\ task.of = q.root /\ task.step = n + 1
    BY DEF Row
  <1> HIDE DEF step, task
  <1>10. ASSUME NEW k \in new
         PROVE  /\ k.kind = "task" => \E p \in new : p.id = k.step /\ p.kind = "step" /\ p.of = k.of
                /\ \A s \in rows : s.id = k.id => IsPart(s, q.root)
    <2>1. (k = step \/ k = task) /\ step \in new
      OBVIOUS
    <2>2. k.id \notin 1 .. n
      BY <1>1, <1>9, <2>1
    <2> QED
      BY <1>1, <1>9, <2>1, <2>2 DEF Table
  <1> HIDE DEF new
  <1>11. /\ \A k \in P : k.kind = "task" => \E p \in P : p.id = k.step /\ p.kind = "step" /\ p.of = k.of
         /\ \A k \in P \ {Ground(q)} : \A s \in rows : s.id = k.id => IsPart(s, q.root)
    BY <1>3, <1>8, <1>10
  <1> HIDE DEF P, r
  <1>12. WorkflowLinked(r, rows)
    BY <1>2, <1>4, <1>5, <1>11, TheOne DEF WorkflowLinked
  <1>13. SavesLinked(r, rows) /\ DeleteLinked(r, rows)
    BY <1>2, <1>4 DEF SavesLinked, DeleteLinked
  <1> QED
    BY <1>2, <1>12, <1>13, TurnKeeps

LEMMA DeleteFromInTurn ==
    ASSUME TablesInv, TablesInTurn, \A u, v \in Tx : u = v, NEW t \in Tx, NEW label, NEW S \in SUBSET View(t), NEW next,
           DeleteFrom(t, label, S, next),
           \A r \in S : Emptied(r, tx[t]),
           LET gone == tx[t].del \cup IdsOf(S) IN
           /\ next # "tasks" => \A r \in rows : r.kind = "task" /\ r.of \in tx[t].found => r.id \in gone
           /\ next \notin {"tasks", "steps"} => \A r \in rows : r.kind = "step" /\ r.of \in tx[t].found => r.id \in gone
           /\ next \in {"volumes", "service", "commit"} =>
                \A r \in rows : r.kind = "workflow" /\ r.of = tx[t].root => r.id \in gone
           /\ next \in {"service", "commit"} =>
                \A r \in rows : r.kind = "volume" /\ r.of = tx[t].root => r.id \in gone
    PROVE  TablesInTurn'
  <1> DEFINE q == tx[t]
             gone == q.del \cup IdsOf(S)
             r == [q EXCEPT !.del = @ \cup IdsOf(S), !.at = next]
  <1>1. q \in Columns /\ Shape(q) /\ Table(rows, count.id)
    BY OneOf
  <1>2. q.op = "delete" /\ rows' = rows /\ tx' = [tx EXCEPT ![t] = r]
    BY DEF DeleteFrom, Step
  <1>3. r.op = q.op /\ r.root = q.root /\ r.found = q.found /\ r.del = gone /\ r.at = next
    BY <1>1 DEF Columns
  <1>4. q.put = {}
    BY <1>1, <1>2 DEF Shape, DeleteShape
  <1>5. /\ q.found = {k.id : k \in Of(rows, "workflow", q.root)}
        /\ \A k \in rows : (k.id = q.root => k.kind = "service") /\ (k.id \in q.del => Emptied(k, q))
    BY <1>2, TheOne DEF DeleteLinked
  <1>6. \A k \in rows : k.id \in IdsOf(S) => k \in S
    <2>1. S \subseteq rows
      BY <1>4, ViewIs
    <2> QED
      BY <1>1, <2>1 DEF IdsOf, Table
  <1>7. \A k \in rows : (k.id = q.root => k.kind = "service") /\ (k.id \in gone => Emptied(k, r))
    BY <1>3, <1>5, <1>6 DEF Emptied
  <1> HIDE DEF r
  <1>8. DeleteLinked(r, rows)
    BY <1>3, <1>5, <1>7 DEF DeleteLinked
  <1>9. SavesLinked(r, rows) /\ WorkflowLinked(r, rows)
    BY <1>2, <1>3 DEF SavesLinked, WorkflowLinked
  <1> QED
    BY <1>2, <1>8, <1>9, TurnKeeps

LEMMA DeleteInTurn ==
    ASSUME TablesInv, TablesInTurn, \A u, v \in Tx : u = v, NEW t \in Tx, Delete(t)
    PROVE  TablesInTurn'
  <1> DEFINE q == tx[t]
  <1>1. q.op = "delete"
    BY DEF Delete, DeleteFrom
  <1>2. /\ q.at # "tasks" => \A r \in rows : r.kind = "task" /\ r.of \in q.found => r.id \in q.del
        /\ q.at \notin {"tasks", "steps"} => \A r \in rows : r.kind = "step" /\ r.of \in q.found => r.id \in q.del
        /\ q.at \in {"volumes", "service", "commit"} =>
             \A r \in rows : r.kind = "workflow" /\ r.of = q.root => r.id \in q.del
        /\ q.at \in {"service", "commit"} => \A r \in rows : r.kind = "volume" /\ r.of = q.root => r.id \in q.del
    BY <1>1, TheOne DEF DeleteLinked
  <1>3. /\ View(t) = {r \in rows : r.id \notin q.del} /\ Shape(q)
    BY <1>1, OneOf DEF Shape, DeleteShape, View, IdsOf
  <1>4. /\ \A kind : OfFound(t, kind) \in SUBSET View(t) /\ \A s : Of(View(t), kind, s) \in SUBSET View(t)
        /\ {r \in View(t) : r.id = q.root} \in SUBSET View(t)
    BY DEF OfFound, Of
  <1>5. \A kind : /\ \A r \in OfFound(t, kind) : r.kind = kind /\ r.of \in q.found
                  /\ \A r \in rows : r.kind = kind /\ r.of \in q.found => r.id \in q.del \cup IdsOf(OfFound(t, kind))
    BY <1>3 DEF OfFound, IdsOf
  <1>6. \A kind : /\ \A r \in Of(View(t), kind, q.root) : r.kind = kind /\ r.of = q.root
                  /\ \A r \in rows : r.kind = kind /\ r.of = q.root => r.id \in q.del \cup IdsOf(Of(View(t), kind, q.root))
    BY <1>3 DEF Of, IdsOf
  <1>7. CASE DeleteFrom(t, "tasks", OfFound(t, "task"), "steps")
    BY <1>4, <1>5, <1>7, DeleteFromInTurn DEF Emptied
  <1>8. CASE DeleteFrom(t, "steps", OfFound(t, "step"), "workflows")
    <2>1. q.at = "steps"
      BY <1>8 DEF DeleteFrom
    <2> QED
      BY <1>2, <1>4, <1>5, <1>8, <2>1, DeleteFromInTurn DEF Emptied
  <1>9. CASE DeleteFrom(t, "workflows", Of(View(t), "workflow", q.root), "volumes")
    <2>1. q.at = "workflows"
      BY <1>9 DEF DeleteFrom
    <2> DEFINE S == Of(View(t), "workflow", q.root)
               gone == q.del \cup IdsOf(S)
    <2>2. /\ \A r \in S : Emptied(r, q)
          /\ \A r \in rows : r.kind = "task" /\ r.of \in q.found => r.id \in gone
          /\ \A r \in rows : r.kind = "step" /\ r.of \in q.found => r.id \in gone
          /\ \A r \in rows : r.kind = "workflow" /\ r.of = q.root => r.id \in gone
          /\ S \in SUBSET View(t)
      BY <1>2, <1>4, <1>6, <2>1 DEF Emptied
    <2> HIDE DEF S
    <2> QED
      BY <1>9, <2>2, DeleteFromInTurn DEF S
  <1>10. CASE DeleteFrom(t, "volumes", Of(View(t), "volume", q.root), "service")
    <2>1. q.at = "volumes"
      BY <1>10 DEF DeleteFrom
    <2> QED
      BY <1>2, <1>4, <1>6, <1>10, <2>1, DeleteFromInTurn DEF Emptied
  <1>11. CASE DeleteFrom(t, "service", {r \in View(t) : r.id = q.root}, "commit")
    <2>1. q.at = "service"
      BY <1>11 DEF DeleteFrom
    <2> QED
      BY <1>2, <1>4, <1>11, <2>1, DeleteFromInTurn DEF Emptied
  <1> QED
    BY <1>7, <1>8, <1>9, <1>10, <1>11 DEF Delete

\* What a commit leaves has its parents still.
LEMMA CommitInTurn ==
    ASSUME TablesInv, TablesInTurn, \A u, v \in Tx : u = v, NEW t \in Tx, Commit(t)
    PROVE  TablesInTurn'
  <1> DEFINE q == tx[t]
             S == View(t)
  <1>1. /\ q \in Columns /\ Typed(q, count.id) /\ Shape(q) /\ Seen(q, rows) /\ Table(rows, count.id)
        /\ SameTable(rows, rows) /\ SameTable(rows, KnownTo(q)) /\ tx \in [Tx -> Columns]
    BY OneOf
  <1>2. q.at = "commit" /\ rows' = S /\ tx' = [tx EXCEPT ![t] = NoTx]
    BY DEF Commit
  <1>3. /\ \A r : r \in S <=> r \in q.put \/ (r \in rows /\ r.id \notin Locked(q))
        /\ \A r \in rows : r.id \notin Locked(q) => r.id \notin q.del /\ r.id \notin IdsOf(q.put)
        /\ \A r \in rows : r.id \in Locked(q) => r.id \in q.del \/ \E p \in q.put : p.id = r.id
    BY ViewIs DEF Locked, IdsOf
  <1> HIDE DEF S
  <1>4. Linked(rows) /\ SavesLinked(q, rows) /\ WorkflowLinked(q, rows) /\ DeleteLinked(q, rows)
    BY TheOne
  <1>5. \A r \in rows : \A p \in q.put : r.id = p.id => r.kind = p.kind
    BY <1>1 DEF SameTable, KnownTo
  <1>6. ASSUME q.op = "save"
        PROVE  Linked(S)
    <2>1. /\ Ground(q) \in q.put /\ Ground(q).id = q.root /\ Ground(q).kind = "service"
          /\ \A r \in q.put \ {Ground(q)} : r.kind = "volume" /\ r.of = q.root
      BY <1>1, <1>2, <1>6, GroundIsTyped DEF Shape, SaveShape, IsVolume
    <2>2. \A r \in rows : r.id \in q.del => r.kind = "volume"
      BY <1>4, <1>6 DEF SavesLinked
    \* Of the rows that others belong to, the one of the service itself is written over.
    <2>3. \A p \in rows : p.kind \in {"workflow", "step"} => p \in S
      BY <1>3, <1>5, <2>1, <2>2
    <2>4. \A p \in rows : p.kind = "service" => \E o \in S : o.id = p.id /\ o.kind = "service"
      <3>1. \A p \in rows : p.kind = "service" /\ p \notin S => p.id = q.root
        BY <1>3, <1>5, <2>1, <2>2
      <3> QED
        BY <1>3, <2>1, <3>1
    <2>5. ASSUME NEW r \in S
          PROVE  /\ r.kind \in {"workflow", "volume"} => \E p \in S : p.id = r.of /\ p.kind = "service"
                 /\ r.kind \in {"step", "task"} => \E p \in S : p.id = r.of /\ p.kind = "workflow"
                 /\ r.kind = "task" => \E p \in S : p.id = r.step /\ p.kind = "step" /\ p.of = r.of
      <3>1. CASE r \in q.put
        BY <1>3, <2>1, <3>1
      <3>2. CASE r \in rows
        <4>1. /\ r.kind \in {"workflow", "volume"} => \E p \in rows : p.id = r.of /\ p.kind = "service"
              /\ r.kind \in {"step", "task"} => \E p \in rows : p.id = r.of /\ p.kind = "workflow"
              /\ r.kind = "task" => \E p \in rows : p.id = r.step /\ p.kind = "step" /\ p.of = r.of
          BY <1>4, <3>2 DEF Linked
        <4> QED
          BY <2>3, <2>4, <4>1
      <3> QED
        BY <1>3, <3>1, <3>2
    <2> QED
      BY <2>5 DEF Linked
  <1>7. ASSUME q.op = "workflow"
        PROVE  Linked(S)
    <2>1. /\ Ground(q) \in q.put /\ Ground(q).id = q.root /\ Ground(q).kind = "workflow" /\ Ground(q).of = q.of
          /\ \A r \in q.put \ {Ground(q)} : r.kind \in {"step", "task"} /\ r.of = q.root
          /\ \A r \in q.old : IsPart(r, q.root)
      BY <1>1, <1>2, <1>7, GroundIsTyped DEF Shape, WorkflowShape, IsPart
    <2>2. /\ \E p \in rows : p.id = q.of /\ p.kind = "service"
          /\ q.old \subseteq rows /\ q.del \subseteq IdsOf(q.old)
          /\ \A r \in q.put : r.kind = "task" => \E p \in q.put : p.id = r.step /\ p.kind = "step" /\ p.of = r.of
          /\ \A r \in q.put \ {Ground(q)} : \A s \in rows : s.id = r.id => IsPart(s, q.root)
      BY <1>4, <1>7 DEF WorkflowLinked
    <2>3. \A r \in rows : r.id \in q.del => IsPart(r, q.root)
      BY <1>1, <2>1, <2>2 DEF IdsOf, Table
    <2>4. \A r \in rows : r.id \in Locked(q) => IsPart(r, q.root) \/ r.id = q.root
      BY <1>3, <2>1, <2>2, <2>3
    <2>5. \A r \in rows : r.id = q.root => r.kind = "workflow"
      BY <1>5, <2>1
    <2>6. \A p \in rows : p.kind = "service" => p \in S
      BY <1>3, <2>4, <2>5 DEF IsPart
    <2>7. \A p \in rows : p.kind = "workflow" => \E o \in S : o.id = p.id /\ o.kind = "workflow"
      <3>1. \A p \in rows : p.kind = "workflow" /\ p \notin S => p.id = q.root
        BY <1>3, <2>4 DEF IsPart
      <3> QED
        BY <1>3, <2>1, <3>1
    <2>8. \A p \in rows : p.kind = "step" /\ p \notin S => p.of = q.root
      BY <1>3, <2>4, <2>5 DEF IsPart
    <2>9. \A r \in rows : r \in S /\ r \notin q.put => ~ IsPart(r, q.root)
      BY <1>2, <1>3, <1>7, NothingIsLeft
    <2>10. ASSUME NEW r \in S
           PROVE  /\ r.kind \in {"workflow", "volume"} => \E p \in S : p.id = r.of /\ p.kind = "service"
                  /\ r.kind \in {"step", "task"} => \E p \in S : p.id = r.of /\ p.kind = "workflow"
                  /\ r.kind = "task" => \E p \in S : p.id = r.step /\ p.kind = "step" /\ p.of = r.of
      <3>1. CASE r \in q.put
        <4>1. r.kind = "task" => \E p \in S : p.id = r.step /\ p.kind = "step" /\ p.of = r.of
          BY <1>3, <2>2, <3>1
        <4>2. r.kind \in {"workflow", "volume"} => \E p \in S : p.id = r.of /\ p.kind = "service"
          BY <2>1, <2>2, <2>6, <3>1
        <4>3. r.kind \in {"step", "task"} => \E p \in S : p.id = r.of /\ p.kind = "workflow"
          BY <1>3, <2>1, <3>1
        <4> QED
          BY <4>1, <4>2, <4>3
      <3>2. CASE r \in rows /\ r \notin q.put
        <4>1. /\ r.kind \in {"workflow", "volume"} => \E p \in rows : p.id = r.of /\ p.kind = "service"
              /\ r.kind \in {"step", "task"} => \E p \in rows : p.id = r.of /\ p.kind = "workflow"
              /\ r.kind = "task" => \E p \in rows : p.id = r.step /\ p.kind = "step" /\ p.of = r.of
          BY <1>4, <3>2 DEF Linked
        <4>2. r.kind \in {"step", "task"} => r.of # q.root
          BY <2>9, <3>2 DEF IsPart
        <4>3. r.kind = "task" => \E p \in S : p.id = r.step /\ p.kind = "step" /\ p.of = r.of
          BY <2>8, <4>1, <4>2
        <4>4. r.kind \in {"workflow", "volume"} => \E p \in S : p.id = r.of /\ p.kind = "service"
          BY <2>6, <4>1
        <4>5. r.kind \in {"step", "task"} => \E p \in S : p.id = r.of /\ p.kind = "workflow"
          BY <2>7, <4>1
        <4> QED
          BY <4>3, <4>4, <4>5
      <3> QED
        BY <1>3, <3>1, <3>2
    <2> QED
      BY <2>10 DEF Linked
  <1>8. ASSUME q.op = "delete"
        PROVE  Linked(S)
    <2>1. q.put = {}
      BY <1>1, <1>8 DEF Shape, DeleteShape
    <2>2. /\ q.found = {r.id : r \in Of(rows, "workflow", q.root)}
          /\ \A r \in rows : r.id = q.root => r.kind = "service"
          /\ \A r \in rows : r.id \in q.del => Emptied(r, q)
          /\ \A r \in rows : r.kind \in {"step", "task"} /\ r.of \in q.found => r.id \in q.del
          /\ \A r \in rows : r.kind \in {"workflow", "volume"} /\ r.of = q.root => r.id \in q.del
      BY <1>2, <1>4, <1>8 DEF DeleteLinked
    <2>3. \A r : r \in S <=> r \in rows /\ r.id \notin q.del
      BY <1>3, <2>1 DEF Locked, IdsOf
    <2>4. /\ \A p \in rows : p.kind = "service" /\ p \notin S => p.id = q.root
          /\ \A p \in rows : p.kind = "workflow" /\ p \notin S => p.id \in q.found
          /\ \A p \in rows : p.kind = "step" /\ p \notin S => p.of \in q.found
      BY <2>2, <2>3 DEF Emptied, Of
    <2>5. ASSUME NEW r \in S
          PROVE  /\ r.kind \in {"workflow", "volume"} => \E p \in S : p.id = r.of /\ p.kind = "service"
                 /\ r.kind \in {"step", "task"} => \E p \in S : p.id = r.of /\ p.kind = "workflow"
                 /\ r.kind = "task" => \E p \in S : p.id = r.step /\ p.kind = "step" /\ p.of = r.of
      <3>1. /\ r.kind \in {"workflow", "volume"} => \E p \in rows : p.id = r.of /\ p.kind = "service"
            /\ r.kind \in {"step", "task"} => \E p \in rows : p.id = r.of /\ p.kind = "workflow"
            /\ r.kind = "task" => \E p \in rows : p.id = r.step /\ p.kind = "step" /\ p.of = r.of
        BY <1>4, <2>3 DEF Linked
      <3>2. /\ r.kind \in {"workflow", "volume"} => r.of # q.root
            /\ r.kind \in {"step", "task"} => r.of \notin q.found
        BY <2>2, <2>3
      <3> QED
        BY <2>4, <3>1, <3>2
    <2> QED
      BY <2>5 DEF Linked
  <1>9. q.op \in {"save", "workflow", "delete"}
    <2>1. q.op \in {"none", "save", "workflow", "delete"}
      BY <1>1 DEF Columns
    <2> QED
      BY <1>1, <1>2, <2>1 DEF Shape, NoTx
  <1>10. Linked(S)
    BY <1>6, <1>7, <1>8, <1>9
  <1>11. \A u \in Tx : tx'[u].op = "none"
    BY <1>1, <1>2 DEF NoTx
  <1> QED
    BY <1>2, <1>10, <1>11 DEF TablesInTurn, SavesLinked, WorkflowLinked, DeleteLinked

LEMMA InTurnTablesStep ==
    TablesAssumption /\ (\A t, u \in Tx : t = u) /\ TablesInv /\ TablesInTurn /\ [Next]_vars => TablesInTurn'
  <1> SUFFICES ASSUME TablesAssumption, \A t, u \in Tx : t = u, TablesInv, TablesInTurn, [Next]_vars
               PROVE  TablesInTurn'
    OBVIOUS
  <1>1. CASE UNCHANGED vars
    BY <1>1 DEF vars, TablesInTurn
  <1>2. ASSUME NEW t \in Tx, BeginSave(t) \/ BeginSaveWorkflow(t) \/ BeginDelete(t) \/ Run(t) \/ Fail(t)
        PROVE  TablesInTurn'
    <2>1. CASE BeginSave(t) \/ BeginSaveWorkflow(t) \/ BeginDelete(t)
      BY <2>1, BeginInTurn
    <2>2. CASE SaveRoot(t)
      BY <2>2, RootInTurn
    <2>3. CASE ReadExisting(t)
      BY <2>3, ReadInTurn
    <2>4. CASE Prune(t)
      BY <2>4, PruneInTurn
    <2>5. CASE SaveVolumes(t)
      BY <2>5, VolumesInTurn
    <2>6. CASE SaveSteps(t)
      BY <2>6, StepsInTurn
    <2>7. CASE Delete(t)
      BY <2>7, DeleteInTurn
    <2>8. CASE Commit(t)
      BY <2>8, CommitInTurn
    <2>9. CASE Fail(t) \/ Deadlock(t)
      <3>1. tx' = [tx EXCEPT ![t] = NoTx] /\ rows' = rows
        BY <2>9 DEF Fail, Deadlock
      <3>2. SavesLinked(NoTx, rows) /\ WorkflowLinked(NoTx, rows) /\ DeleteLinked(NoTx, rows)
        BY DEF SavesLinked, WorkflowLinked, DeleteLinked, NoTx
      <3> QED
        BY <3>1, <3>2, TurnKeeps
    <2> QED
      BY <1>2, <2>1, <2>2, <2>3, <2>4, <2>5, <2>6, <2>7, <2>8, <2>9 DEF Run
  <1> QED
    BY <1>1, <1>2 DEF Next

LEMMA InTurnTablesBegin == Init => TablesInTurn
  BY DEF Init, NoTx, TablesInTurn, Linked, SavesLinked, WorkflowLinked, DeleteLinked

LEMMA LinkedHasNoOrphans == TablesInv /\ TablesInTurn => NoOrphans
  <1> SUFFICES ASSUME TablesInv, TablesInTurn, NEW r \in rows
               PROVE  /\ r.kind # "service" => r.of \in IdsOf(rows)
                      /\ r.kind = "task" => r.step \in IdsOf(rows)
    BY DEF NoOrphans
  <1>1. r.kind \in Kinds
    BY RowHasColumns DEF TablesInv, Parted, Table
  <1> QED
    BY <1>1 DEF TablesInTurn, Linked, IdsOf, Kinds

-----------------------------------------------------------------------------
(* However many saves and deletes interleave and whichever statements fail: *)
(* a save of a workflow that commits leaves the steps and tasks that it     *)
(* asked for and no other, and a save of a service one volume of each name  *)
(* it lists, with the id it had (data/service.go:103,380).                  *)
THEOREM TablesCorrect ==
    ASSUME TablesAssumption
    PROVE  Spec => []TypeOK /\ [][WorkflowsAreExact /\ VolumesAreExact]_vars
<1>1. Init => TablesInv
  BY TablesBegin
<1>2. TablesInv /\ [Next]_vars => TablesInv'
  BY TablesStep
<1>3. TablesInv => TypeOK
  BY TablesAreTyped
<1>4. TablesInv /\ [Next]_vars => WorkflowsAreExact /\ VolumesAreExact
  BY WorkflowsExact, VolumesExact
<1> QED
  BY <1>1, <1>2, <1>3, <1>4, PTL DEF Spec

(* While transactions come one at a time, no row is without the service,    *)
(* workflow or step that it belongs to, whichever statements fail           *)
(* (data/service.go:313).                                                   *)
THEOREM NoOrphansInTurn ==
    ASSUME TablesAssumption, \A t, u \in Tx : t = u
    PROVE  Spec => []NoOrphans
<1>1. Init => TablesInv /\ TablesInTurn
  BY TablesBegin, InTurnTablesBegin
<1>2. TablesInv /\ TablesInTurn /\ [Next]_vars => (TablesInv /\ TablesInTurn)'
  <2>1. TablesInv /\ [Next]_vars => TablesInv'
    BY TablesStep
  <2>2. TablesInv /\ TablesInTurn /\ [Next]_vars => TablesInTurn'
    BY InTurnTablesStep
  <2> QED
    BY <2>1, <2>2
<1>3. TablesInv /\ TablesInTurn => NoOrphans
  BY LinkedHasNoOrphans
<1> QED
  BY <1>1, <1>2, <1>3, PTL DEF Spec

================================================================================

------------------------------- MODULE LogIndices -------------------------------
(***************************************************************************)
(* The indices of the logs in Elasticsearch (lib/es.go): how a replica     *)
(* makes them when it starts (internal/data/data.go), what a log line is   *)
(* written to (internal/data/cluster.go) and where the lines of a pod or a *)
(* service are looked for, page by page (internal/data/service.go).        *)
(*                                                                         *)
(* A name is the sequence of its parts; a line is its time, its keyword    *)
(* and the day it was written on.  Elasticsearch is external: an index     *)
(* that is written to is made, an index is rolled over when its name ends  *)
(* in a number and it is the one its alias is written to.                  *)
(***************************************************************************)
EXTENDS Naturals, Sequences, FiniteSets

CONSTANTS Replicas, Logs,   \* the prefixes, in the order they are made
          Keys,             \* pods, or services
          Dates,            \* how each day is written
          KeepDays,         \* 7: after so many days an index is deleted
          Window,           \* 10000: the first hits, of which pages are given
          Sizes, MaxLines, MaxFaults

VARIABLES day,
          template,  \* prefix -> the pattern of its template, or none
          index,     \* name -> what is in it, was it made under the template, the day it was rolled over
          alias,     \* name -> the index that is written to under it
          boot,      \* replica -> the step of its start
          reader,    \* of pages
          count      \* lines and faults

vars == <<day, template, index, alias, boot, reader, count>>

None == <<>>
Off == [at |-> "off", left |-> None, first |-> None]
NoReader == [at |-> "no", log |-> "", key |-> "", size |-> 1, page |-> 1, shown |-> {}, owed |-> {}]

Init ==
    /\ day = 1 /\ template = [l \in {} |-> None] /\ index = [n \in {} |-> None]
    /\ alias = [n \in {} |-> None] /\ boot = [r \in Replicas |-> Off]
    /\ reader = NoReader /\ count = [line |-> 0, fault |-> 0]

GetIndexWrite(prefix) == Append(prefix, "write")
GetIndexPatternName(prefix) == Append(prefix, "*")
GetFirstIndexName(prefix) == Append(prefix, Dates[day])

\* The stars of a pattern stand at its end, and stand for dashes too.
Matches(pattern, name) ==
    Len(name) >= Len(pattern) /\ \A i \in DOMAIN pattern : pattern[i] \in {"*", name[i]}

Put(f, k, v) == [x \in DOMAIN f \cup {k} |-> IF x = k THEN v ELSE f[x]]
EmptyIndex(name) == [docs |-> {}, rolled |-> 0, mapped |-> \E l \in DOMAIN template : Matches(template[l], name)]

-----------------------------------------------------------------------------
\* The start of a replica: CreateIndex for each of the logs.

Up(r) == boot[r].at = "up"
LogOf(r) == <<Head(boot[r].left)>>
At(r, step) == boot' = [boot EXCEPT ![r].at = step]

Start(r) ==
    /\ boot[r].at = "off"
    /\ boot' = [boot EXCEPT ![r] = [at |-> "template", left |-> Logs, first |-> None]]
    /\ UNCHANGED <<day, template, index, alias, reader, count>>

\* One that is there is kept, with the policy it was made with.
CreateIndexTemplate(r) ==
    /\ boot[r].at = "template"
    /\ template' = IF Head(boot[r].left) \in DOMAIN template THEN template
                   ELSE Put(template, Head(boot[r].left), GetIndexPatternName(LogOf(r)))
    /\ boot' = [boot EXCEPT ![r].at = "exists", ![r].first = GetFirstIndexName(LogOf(r))]
    /\ UNCHANGED <<day, index, alias, reader, count>>

IndexExists(r) ==
    /\ boot[r].at = "exists"
    /\ At(r, IF boot[r].first \in DOMAIN index THEN "alias" ELSE "create")
    /\ UNCHANGED <<day, template, index, alias, reader, count>>

\* An index that another replica has made since is an error.
CreateFirstIndex(r) ==
    /\ boot[r].at = "create"
    /\ IF boot[r].first \in DOMAIN index THEN boot' = [boot EXCEPT ![r] = Off] /\ UNCHANGED index
       ELSE At(r, "alias") /\ index' = Put(index, boot[r].first, EmptyIndex(boot[r].first))
    /\ UNCHANGED <<day, template, alias, reader, count>>

\* Both aliases are asked for: they are there, or are not, or the answer is
\* lost and they are added again.
Aliases(r) ==
    /\ boot[r].at = "alias"
    /\ \/ GetIndexWrite(LogOf(r)) \in DOMAIN alias /\ At(r, "next") /\ UNCHANGED count
       \/ GetIndexWrite(LogOf(r)) \notin DOMAIN alias /\ At(r, "add") /\ UNCHANGED count
       \/ count.fault < MaxFaults /\ count' = [count EXCEPT !.fault = @ + 1] /\ At(r, "add")
    /\ UNCHANGED <<day, template, index, alias, reader>>

\* An alias has one index that is written to.
AddAliases(r) ==
    /\ boot[r].at = "add"
    /\ LET write == GetIndexWrite(LogOf(r)) IN
       IF write \in DOMAIN alias /\ alias[write] # boot[r].first
       THEN boot' = [boot EXCEPT ![r] = Off] /\ UNCHANGED alias
       ELSE At(r, "next") /\ alias' = Put(alias, write, boot[r].first)
    /\ UNCHANGED <<day, template, index, reader, count>>

NextLog(r) ==
    /\ boot[r].at = "next"
    /\ boot' = [boot EXCEPT ![r] = IF Len(@.left) = 1 THEN [Off EXCEPT !.at = "up"]
                                   ELSE [Off EXCEPT !.at = "template", !.left = Tail(boot[r].left)]]
    /\ UNCHANGED <<day, template, index, alias, reader, count>>

\* The process dies, or Elasticsearch does not answer and the start is given up.
Fail(r) ==
    /\ boot[r].at # "off" /\ count.fault < MaxFaults
    /\ boot' = [boot EXCEPT ![r] = Off] /\ count' = [count EXCEPT !.fault = @ + 1]
    /\ UNCHANGED <<day, template, index, alias, reader>>

-----------------------------------------------------------------------------
\* The log lines.

Lines == UNION {index[n].docs : n \in DOMAIN index}

\* commitPodLogs and commitServiceLogs make the prefix a name to write to,
\* and IndexDocument makes it one again.
IndexDocument(r, l, key) ==
    /\ Up(r) /\ count.line < MaxLines
    /\ LET given == GetIndexWrite(GetIndexWrite(<<l>>))
           name == IF given \in DOMAIN alias THEN alias[given] ELSE given
           doc == [time |-> count.line + 1, key |-> key, day |-> day]
       IN index' = Put(index, name, [IF name \in DOMAIN index THEN index[name] ELSE EmptyIndex(name)
                                        EXCEPT !.docs = @ \cup {doc}])
    /\ count' = [count EXCEPT !.line = @ + 1]
    /\ UNCHANGED <<day, template, alias, boot, reader>>

\* The search is over what the pattern of a pattern matches.
Found(l, key) ==
    {d \in UNION {index[n].docs : n \in {m \in DOMAIN index :
                    Matches(GetIndexPatternName(GetIndexPatternName(<<l>>)), m)}} : d.key = key}

\* Variant: a page begins after its last line.
PageAfter(l, key, page, size) ==
    {d \in Found(l, key) : LET newer == Cardinality({e \in Found(l, key) : e.time > d.time}) IN
                             newer >= page * size /\ newer < (page + 1) * size}

\* The newest first.
Page(l, key, page, size) ==
    {d \in Found(l, key) : LET newer == Cardinality({e \in Found(l, key) : e.time > d.time}) IN
                             newer >= (page - 1) * size /\ newer < page * size}

\* Somebody begins to read.
Open(l, key, size) ==
    /\ reader.at # "reading" /\ \E r \in Replicas : Up(r)
    /\ reader' = [at |-> "reading", log |-> l, key |-> key, size |-> size, page |-> 1,
                  shown |-> {}, owed |-> Found(l, key)]
    /\ UNCHANGED <<day, template, index, alias, boot, count>>

\* SearchByKeyword for the next page, until one is not full; a page past the
\* window is refused.
Read(r) ==
    /\ Up(r) /\ reader.at = "reading"
    /\ LET q == reader  page == Page(q.log, q.key, q.page, q.size) IN
       reader' = IF q.page * q.size > Window THEN [q EXCEPT !.at = "error"]
                 ELSE [q EXCEPT !.shown = @ \cup page, !.page = @ + 1,
                                !.at = IF Cardinality(page) < q.size THEN "done" ELSE "reading"]
    /\ UNCHANGED <<day, template, index, alias, boot, count>>

-----------------------------------------------------------------------------
\* The policy: an index is rolled over after a day, and goes KeepDays later.
Rolls(n) == n[Len(n)] \in {"000001", "000002"} /\ \E a \in DOMAIN alias : alias[a] = n
Kept(n) == index[n].rolled = 0 \/ day < index[n].rolled + KeepDays

Tick ==
    /\ day < Len(Dates) /\ day' = day + 1
    /\ index' = [n \in {m \in DOMAIN index : Kept(m)} |->
                   [index[n] EXCEPT !.rolled = IF @ = 0 /\ Rolls(n) THEN day ELSE @]]
    /\ UNCHANGED <<template, alias, boot, reader, count>>

Step(r) ==
    \/ Start(r) \/ CreateIndexTemplate(r) \/ IndexExists(r) \/ CreateFirstIndex(r)
    \/ Aliases(r) \/ AddAliases(r) \/ NextLog(r)

LogSet == {Logs[i] : i \in DOMAIN Logs}
Next ==
    \/ \E r \in Replicas : Step(r) \/ Fail(r) \/ Read(r)
    \/ \E r \in Replicas, l \in LogSet, key \in Keys : IndexDocument(r, l, key)
    \/ \E l \in LogSet, key \in Keys, size \in Sizes : Open(l, key, size)
    \/ Tick

Spec == Init /\ [][Next]_vars

\* A process that ended is started again, and a start goes on.
FairSpec == Spec /\ \A r \in Replicas : WF_vars(Step(r))

-----------------------------------------------------------------------------
TypeOK ==
    /\ day \in DOMAIN Dates /\ DOMAIN template \subseteq LogSet
    /\ \A a \in DOMAIN alias : alias[a] \in DOMAIN index
    /\ \A r \in Replicas : boot[r].at \in {"alias", "add", "next"} => boot[r].first \in DOMAIN index
    /\ reader.shown \cup reader.owed \subseteq Lines

\* Each line that was written is found under its keyword: what the writer and
\* the reader make of the prefix fits (data/cluster.go:325, data/service.go:544).
EverythingLoggedIsFound ==
    \A d \in Lines : \E l \in LogSet : d \in Found(l, d.key)

\* An index with lines was made under the template of its log: its keywords
\* are keywords (lib/es.go:544).
DocumentsAreMapped == \A n \in DOMAIN index : index[n].docs # {} => index[n].mapped

\* Reading page after page, nothing is left out of what was there at first,
\* though lines keep coming (lib/es.go:215).
PagesMissNothing == reader.at = "done" => reader.owed \subseteq reader.shown

=============================================================================

-------------------------------- MODULE Metrics --------------------------------
(***************************************************************************)
(* What the Prometheus client answers (lib/prometheus.go): a number now,   *)
(* or one for each time of a range, of nodes or of the pods of a service,  *)
(* each metric by a query of its own, and the share of requests that       *)
(* succeeded.                                                              *)
(*                                                                         *)
(* Prometheus is external: what is scraped at a time can be asked for from *)
(* then on.  A mean is the pair of a sum and of how many were added.       *)
(***************************************************************************)
EXTENDS Integers, FiniteSets, FiniteSetsExt, TLC

CONSTANTS Series,     \* what is scraped: of a metric, an instance, a device and a mount point
          Disks,      \* node -> its devices and mount points
          Scrapes,    \* the values that the series may have at a time
          Requests,   \* the requests there may be until a time
          MaxTime, MaxFaults

VARIABLES store,   \* time -> series -> its value, or Absent
          web,     \* time -> all requests to the service, and those that went well
          query,   \* the call that is under way, and what it has so far
          rate,    \* the call for the success rate
          fault

vars == <<store, web, query, rate, fault>>

Absent == -1
Metric == {s.metric : s \in Series}
Nodes == {s.inst : s \in Series}
Now == Cardinality(DOMAIN store)
NoQuery == [at |-> "none", kind |-> "now", of |-> {}, time |-> 0, left |-> {}, got |-> [m \in {} |-> {}]]
NoRate == [at |-> "none", end |-> 0, total |-> {}, success |-> {}, result |-> <<0, 1>>]

Init ==
    /\ store = [t \in {} |-> [s \in Series |-> Absent]] /\ web = [t \in {} |-> [all |-> Absent, good |-> Absent]]
    /\ query = NoQuery /\ rate = NoRate /\ fault = 0

\* A series may be missing; without a request there is no series of requests,
\* and one of those that went well only once one did.
Scrape(values, requests) ==
    /\ Now < MaxTime
    /\ store' = [t \in 1 .. Now + 1 |-> IF t > Now THEN values ELSE store[t]]
    /\ web' = [t \in 1 .. Now + 1 |-> IF t > Now THEN requests ELSE web[t]]
    /\ UNCHANGED <<query, rate, fault>>

-----------------------------------------------------------------------------
\* The series of the nodes; of a disk the device and the mount point have to
\* be of some of them.
Mine(s, m, nodes) ==
    /\ s.metric = m /\ s.inst \in nodes
    /\ m = "disk" => /\ \E n \in nodes : \E d \in Disks[n] : d[1] = s.dev
                     /\ \E n \in nodes : \E d \in Disks[n] : d[2] = s.mnt

Counted(t, m, nodes) == {s \in Series : Mine(s, m, nodes) /\ store[t][s] > 0}

Mean(t, m, nodes) ==
    LET add(s, sum) == sum + store[t][s] IN
    <<FoldSet(add, 0, Counted(t, m, nodes)), Cardinality(Counted(t, m, nodes))>>

\* One point, 0 if none of theirs is above it, and no point when nobody has
\* the metric.
Point(t, m, nodes) ==
    IF \A s \in Series : s.metric = m => store[t][s] = Absent THEN {}
    ELSE {<<t, IF Counted(t, m, nodes) = {} THEN <<0, 1>> ELSE Mean(t, m, nodes)>>}

\* A point for each time that has a value of theirs above 0.
Points(end, m, nodes) ==
    {<<t, Mean(t, m, nodes)>> : t \in {u \in 1 .. end : Counted(u, m, nodes) # {}}}

Ask(kind, nodes) ==
    /\ query.at # "asking" /\ Now > 0
    /\ query' = [NoQuery EXCEPT !.at = "asking", !.kind = kind, !.of = nodes, !.time = Now, !.left = Metric]
    /\ UNCHANGED <<store, web, rate, fault>>

Got(m, points) == query.got @@ (m :> points)

\* The metrics in any order, all for the same time.
Query(m) ==
    /\ query.at = "asking" /\ m \in query.left
    /\ query' = [query EXCEPT !.left = @ \ {m}, !.at = IF query.left = {m} THEN "done" ELSE @,
                   !.got = Got(m, IF query.kind = "now" THEN Point(query.time, m, query.of)
                                  ELSE Points(query.time, m, query.of))]
    /\ UNCHANGED <<store, web, rate, fault>>

\* An error, or a warning, ends the call with what it has.
FailQuery ==
    /\ query.at = "asking" /\ fault < MaxFaults /\ fault' = fault + 1
    /\ query' = [query EXCEPT !.at = "error"]
    /\ UNCHANGED <<store, web, rate>>

-----------------------------------------------------------------------------
\* The success rate: all requests, then those that went well.

Sum(end, f) ==
    LET add(t, sum) == sum + web[t][f] IN FoldSet(add, 0, {t \in 1 .. end : web[t][f] # Absent})
Seen(end, f) == \E t \in 1 .. end : web[t][f] # Absent

AskRate ==
    /\ rate.at \notin {"total", "success"} /\ Now > 0
    /\ rate' = [NoRate EXCEPT !.at = "total", !.end = Now]
    /\ UNCHANGED <<store, web, query, fault>>

QueryTotal ==
    /\ rate.at = "total"
    /\ rate' = [rate EXCEPT !.at = "success", !.total = IF Seen(rate.end, "all") THEN {Sum(rate.end, "all")} ELSE {}]
    /\ UNCHANGED <<store, web, query, fault>>

\* Nothing of one of them is a rate of 0, and no request in all 1.
QuerySuccess ==
    /\ rate.at = "success"
    /\ LET good == IF Seen(rate.end, "good") THEN {Sum(rate.end, "good")} ELSE {} IN
       rate' = [rate EXCEPT !.at = "done", !.success = good,
                  !.result = IF rate.total = {} \/ good = {} THEN <<0, 1>>
                             ELSE IF 0 \in rate.total THEN <<1, 1>>
                             ELSE <<CHOOSE x \in good : TRUE, CHOOSE x \in rate.total : TRUE>>]
    /\ UNCHANGED <<store, web, query, fault>>

Next ==
    \/ \E values \in Scrapes, requests \in Requests : Scrape(values, requests)
    \/ \E kind \in {"now", "range"}, nodes \in SUBSET Nodes \ {{}} : Ask(kind, nodes)
    \/ \E m \in Metric : Query(m)
    \/ FailQuery \/ AskRate \/ QueryTotal \/ QuerySuccess

Spec == Init /\ [][Next]_vars

-----------------------------------------------------------------------------
TypeOK ==
    /\ query.left \subseteq Metric /\ DOMAIN query.got \cap query.left = {}
    /\ \A m \in DOMAIN query.got, p \in UNION {query.got[x] : x \in DOMAIN query.got} : p[2][2] > 0

\* A point is no less than the least and no more than the greatest that the
\* nodes asked for had above 0 at that time, whatever the others had.
PointsAreOfTheNodes ==
    \A m \in DOMAIN query.got : \A p \in query.got[m] : p[2][1] > 0 =>
        LET own == {store[p[1]][s] : s \in {u \in Series : u.metric = m /\ u.inst \in query.of /\ store[p[1]][u] > 0}}
        IN own # {} /\ Min(own) * p[2][2] <= p[2][1] /\ p[2][1] <= Max(own) * p[2][2]

\* The metrics of an answer are all there, and none is newer than the call.
AnswersAreOfOneTime ==
    query.at = "done" => /\ DOMAIN query.got = Metric
                         /\ \A m \in Metric : \A p \in query.got[m] : p[1] <= query.time

\* "Overall success rate (percentage)" (lib/prometheus.go:487): the second
\* query sees no request that the first did not.
RateIsAPercentage == rate.at = "done" => 0 <= rate.result[1] /\ rate.result[1] <= rate.result[2]

=============================================================================

----------------------------- MODULE MCOperations -----------------------------
(***************************************************************************)
(* What runs beside the use cases: the pipeline of logs (TraceLogs), the   *)
(* indices and the metrics that are read, the words of the enumerations,   *)
(* the calls of the autoscaler, and what is done on the machines.  They    *)
(* share no state: `part` says whose behaviour it is, s1 .. s11 are its    *)
(* variables where it is not the pipeline with two partitions.             *)
(***************************************************************************)
EXTENDS TraceLogs, TLC

CONSTANTS OneRoutes, OneLog, OneEs, MaxOneFaults,   \* the pipeline with one partition
          LogReplicas, LogDays, KeepLogDays, LogWindow,   \* who makes indices, days as they are written
          ReadKeys, PageSizes, MaxReadLines, MaxReadFaults,
          StartKeys, StartSizes, MaxStartLines, MaxStartFaults

CONSTANTS Hosts, Chief,         \* machines, and the master of them
          HostRole, HostSays,   \* what each is to be, and what its uname says
          Shells, Resources,    \* the program's local scripts and resources
          MaxHostJobs, MaxHostFaults, MaxHostCuts,
          MaxInstalls, MaxInstallFaults, MaxDownloads, MaxDownloadCuts,
          IpBase, IpRanges,     \* base of an address, first and last ones that are saved
          MaxRangeChanges

ASSUME ReadersAssumption ==
    /\ OneLog \in Seq([type : LogType, body : OneRoutes \cup {"log", "garbled", "ignored"}])
    /\ OneRoutes \cap {"log", "garbled", "ignored"} = {} /\ OneEs \in BOOLEAN /\ MaxOneFaults \in Nat
    /\ DOMAIN LogDays = 1 .. Len(LogDays) /\ Len(LogDays) \in Nat \ {0} /\ LogWindow \in Nat
    /\ \A d \in DOMAIN LogDays : LogDays[d] \notin {"000001", "000002"}
    /\ PageSizes \cup StartSizes \subseteq Nat \ {0}

ASSUME MachinesAssumption ==
    /\ Chief \in Hosts
    /\ IpBase \in Nat \ {0} /\ IpRanges \subseteq [start : Seq(Int), end : Seq(Int)]

VARIABLES part, s1, s2, s3, s4, s5, s6, s7, s8, s9, s10, s11

-----------------------------------------------------------------------------
\* Logs and traces.

Trace(r) == [type |-> "Trace", body |-> r]
Pod == [type |-> "POD", body |-> "log"]
ServiceLog(b) == [type |-> "Service", body |-> b]
Unknown == [type |-> "UNSPECIFIED", body |-> "ignored"]

\* Two partitions with traces of the same services, a log and a message that
\* no handler accepts; one partition with every kind that is handled.
RaceLog == "p1" :> <<Trace("r"), Trace("r"), Pod>> @@ "p2" :> <<Trace("r"), Trace("r"), Unknown>>
SingleLog == <<Trace("ignored"), Trace("r"), Trace("s"), ServiceLog("log"), Trace("r"),
               Trace("garbled"), ServiceLog("garbled")>>

One == INSTANCE TraceLogs WITH
    Partitions <- {"p1"}, Routes <- OneRoutes, Log <- [p \in {"p1"} |-> OneLog], EsClient <- OneEs,
    MaxFaults <- MaxOneFaults,
    produced <- s1, committed <- s2, up <- s3, session <- s4, claim <- s5, rows <- s6, docs <- s7,
    faults <- s8, handled <- s9, counted <- s10, from <- s11

TwoDays == <<"01", "02">>

\* Replicas that make one log's indices and read pages; and both logs'.
Reading == INSTANCE LogIndices WITH
    Replicas <- LogReplicas, Logs <- <<"pod">>, Keys <- ReadKeys, Dates <- LogDays, KeepDays <- KeepLogDays,
    Window <- LogWindow, Sizes <- PageSizes, MaxLines <- MaxReadLines, MaxFaults <- MaxReadFaults,
    day <- s1, template <- s2, index <- s3, alias <- s4, boot <- s5, reader <- s6, count <- s7
Starting == INSTANCE LogIndices WITH
    Replicas <- LogReplicas, Logs <- <<"pod", "service">>, Keys <- StartKeys, Dates <- LogDays, KeepDays <- KeepLogDays,
    Window <- LogWindow, Sizes <- StartSizes, MaxLines <- MaxStartLines, MaxFaults <- MaxStartFaults,
    day <- s1, template <- s2, index <- s3, alias <- s4, boot <- s5, reader <- s6, count <- s7

-----------------------------------------------------------------------------
\* Metrics of two nodes with a disk each; requests to a service.

Cpu(n) == [metric |-> "cpu", inst |-> n, dev |-> "", mnt |-> ""]
Disk(n, dev, mnt) == [metric |-> "disk", inst |-> n, dev |-> dev, mnt |-> mnt]
TwoNodes == {Cpu("a"), Cpu("b"), Disk("a", "sda", "/"), Disk("b", "sdb", "/data")}
TwoDisks == [a |-> {<<"sda", "/">>}, b |-> {<<"sdb", "/data">>}]
Missing == -1
AnyValues == {v \in [TwoNodes -> {Missing, 0, 2}] :
                v[Disk("a", "sda", "/")] = 2 /\ v[Disk("b", "sdb", "/data")] # 0}
NoValues == {[s \in TwoNodes |-> Missing]}
AnyRequests == {r \in [all : {Missing, 0, 2}, good : {Missing, 0, 1, 2}] : r.good <= r.all}
NoRequests == {[all |-> Missing, good |-> Missing]}

Points == INSTANCE Metrics WITH
    Series <- TwoNodes, Disks <- TwoDisks, Scrapes <- AnyValues, Requests <- NoRequests,
    MaxTime <- 2, MaxFaults <- 1,
    store <- s1, web <- s2, query <- s3, rate <- s4, fault <- s5
Rates == INSTANCE Metrics WITH
    Series <- TwoNodes, Disks <- TwoDisks, Scrapes <- NoValues, Requests <- AnyRequests,
    MaxTime <- 2, MaxFaults <- 1,
    store <- s1, web <- s2, query <- s3, rate <- s4, fault <- s5

\* Every enumeration.
V == INSTANCE Words WITH
    Kinds <- {"namespace", "provider", "clusterStatus", "level", "nodeRole", "nodeStatus",
              "groupType", "arch", "gpu", "resource", "tag", "ci", "cd", "service", "pod",
              "workflowType", "workflowStatus", "stepType", "user", "role", "roleResource",
              "action", "workspace"},
    kind <- s1, stored <- s2, form <- s3, fresh <- s4

\* Clusters of two groups of two nodes.
A == INSTANCE Autoscaler WITH
    TargetSize <- 2, Gpu <- <<"", "nvidia-t4">>, Deltas <- {-3, -1, 0, 2},
    given <- s1, call <- s2, result <- s3, answer <- s4

-----------------------------------------------------------------------------
\* On the machines: a master and a worker.

TwoRoles == [m1 |-> "master", m2 |-> "worker"]
TwoUnames == [m1 |-> "x86_64", m2 |-> "aarch64"]
Versions == [kubernetes |-> <<"v1.30.4", "v1.31.2">>, containerd |-> <<"v2.0.0">>, runc |-> <<"v1.2.1">>]
AllResources == [amd64 |-> Versions, arm64 |-> Versions]
M == INSTANCE MachineScripts WITH
    Machines <- Hosts, Master <- Chief, Role <- HostRole, Uname <- HostSays, Shell <- Shells,
    Resource <- Resources, MaxJobs <- MaxHostJobs, MaxFaults <- MaxHostFaults, MaxCuts <- MaxHostCuts,
    machine <- s1, job <- s2, count <- s3

H == INSTANCE Handover WITH
    MaxRuns <- MaxInstalls, MaxFaults <- MaxInstallFaults, script <- s1, disk <- s2, service <- s3, db <- s4, count <- s5

D == INSTANCE Downloads WITH
    MaxRuns <- MaxDownloads, MaxCuts <- MaxDownloadCuts, here <- s1, place <- s2, at <- s3, last <- s4, count <- s5

\* Saves of a range of addresses of four bits: proper ones, the highest, one
\* that lacks a part, one with a part that is no digit, and one whose sum is
\* above the highest.
Addresses == {<<0, 0, 0, 1>>, <<0, 1, 0, 0>>, <<1, 0, 0, 1>>, <<1, 1, 1, 1>>, <<0, 1, 1>>, <<2, 0, 1, 0>>,
              <<0, 0, 1, -1>>}
SmallRanges == [start : Addresses, end : Addresses]
N == INSTANCE NodeRange WITH
    Base <- IpBase, Ranges <- IpRanges, MaxChanges <- MaxRangeChanges,
    range <- s1, loop <- s2, nodes <- s3, count <- s4

-----------------------------------------------------------------------------
Unused == "unused"
From4 == <<s4, s5, s6, s7, s8, s9, s10, s11>>
From5 == <<s5, s6, s7, s8, s9, s10, s11>>
From6 == <<s6, s7, s8, s9, s10, s11>>
From8 == <<s8, s9, s10, s11>>
All == <<s1, s2, s3, s4, s5, s6, s7, s8, s9, s10, s11>>

No8 == s8 = Unused /\ s9 = Unused /\ s10 = Unused /\ s11 = Unused
No6 == s6 = Unused /\ s7 = Unused /\ No8
No5 == s5 = Unused /\ No6
No4 == s4 = Unused /\ No5

OpsInit ==
    /\ Init
    /\ \/ part = "two partitions" /\ s1 = Unused /\ s2 = Unused /\ s3 = Unused /\ No4
       \/ part = "one partition" /\ One!Init
       \/ part = "logs" /\ Reading!Init /\ No8
       \/ part = "indices" /\ Starting!Init /\ No8
       \/ part = "points" /\ Points!Init /\ No6
       \/ part = "rates" /\ Rates!Init /\ No6
       \/ part = "words" /\ V!Init /\ No5
       \/ part = "autoscaler" /\ A!Init /\ No5
       \/ part = "scripts" /\ M!Init /\ No4
       \/ part = "handover" /\ H!Init /\ No6
       \/ part = "downloads" /\ D!Init /\ No6
       \/ part = "range" /\ N!Init /\ No5

TwoPartitions == part = "two partitions" /\ Next /\ UNCHANGED <<part, All>>
OnePartition == part = "one partition" /\ One!Next /\ UNCHANGED <<part, vars>>
ReadLogs == part = "logs" /\ Reading!Next /\ UNCHANGED <<part, From8, vars>>
StartIndices == part = "indices" /\ Starting!Next /\ UNCHANGED <<part, From8, vars>>
ReadPoints == part = "points" /\ Points!Next /\ UNCHANGED <<part, From6, vars>>
ReadRates == part = "rates" /\ Rates!Next /\ UNCHANGED <<part, From6, vars>>
EditWords == part = "words" /\ V!Next /\ UNCHANGED <<part, From5, vars>>
CallAutoscaler == part = "autoscaler" /\ A!Next /\ UNCHANGED <<part, From5, vars>>
RunScripts == part = "scripts" /\ M!Next /\ UNCHANGED <<part, From4, vars>>
HandOver == part = "handover" /\ H!Next /\ UNCHANGED <<part, From6, vars>>
Download == part = "downloads" /\ D!Next /\ UNCHANGED <<part, From6, vars>>
TakeRange == part = "range" /\ N!Next /\ UNCHANGED <<part, From5, vars>>

OpsNext ==
    \/ TwoPartitions \/ OnePartition \/ ReadLogs \/ StartIndices \/ ReadPoints \/ ReadRates
    \/ EditWords \/ CallAutoscaler \/ RunScripts \/ HandOver \/ Download \/ TakeRange

OpsSpec == OpsInit /\ [][OpsNext]_<<part, All, vars>>

-----------------------------------------------------------------------------
\* A log that was handled is in its index, mapped as one, once but for faults,
\* and is found by the reader of its keyword, page by page, while lines keep
\* coming; a count of traces has one row for each claim, and is exact where
\* there is one (data/cluster.go:292,325, lib/es.go:215,544).
LogsAreFound ==
    /\ part = "two partitions" => TypeOK /\ LogsAreIndexed /\ RowsAreBounded
    /\ part = "one partition" => One!NothingSkipped /\ One!CountIsExact
    /\ part = "logs" => Reading!TypeOK /\ Reading!EverythingLoggedIsFound /\ Reading!PagesMissNothing
    /\ part = "indices" => Starting!TypeOK /\ Starting!DocumentsAreMapped

\* What is shown is what there is: points of the nodes asked for, of one time
\* (lib/prometheus.go:487); the words of a value, and the group and the nodes
\* that the autoscaler names (autoscaler.go:92).
Shown ==
    /\ part = "points" => Points!TypeOK /\ Points!PointsAreOfTheNodes /\ Points!AnswersAreOfOneTime
    /\ part = "rates" => Rates!RateIsAPercentage
    /\ part = "words" => V!TypeOK /\ V!WordTellsTheValue /\ V!ListedIsTaken
    /\ part = "autoscaler" => A!TypeOK /\ A!IncreaseAddsToTheGroup /\ A!DeleteTakesTheNamed

\* What is shown is what there is, and a record is not changed by being looked
\* at and saved as it was shown (biz/user.go:99).
ShownIsTrue == []Shown /\ [][part = "words" => V!SavedAsShown]_<<part, All, vars>>

\* Over failing, repeated and interrupted scripts: a machine joins only with its
\* software, all of them one cluster, and leaves it; the program is handed its
\* cluster once; a download that went through is whole; and a range gives each
\* of its machines one node (baremetal.go:181, shell/cloud-copilot-install.sh,
\* shell/downlocal.sh, utils/utils.go:121).
MachinesAreInOrder ==
    /\ part = "scripts" => M!TypeOK /\ M!InOrder /\ M!OneCluster /\ M!UninstalledIsOut
    /\ part = "handover" => H!TypeOK /\ H!SavedOnce
    /\ part = "downloads" => D!TypeOK /\ D!CheckedIsWhole /\ D!NothingIsLeft /\ D!TwoRunsClear
    /\ part = "range" => N!TypeOK /\ N!RangeIsExact /\ N!OneNodePerMachine /\ N!NamesRepeatOverChanges
=============================================================================

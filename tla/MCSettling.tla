------------------------------ MODULE MCSettling ------------------------------
(***************************************************************************)
(* What must come to an end, under the fairness that the code gives: a     *)
(* goroutine that can go on does, and the operator starts a cluster again  *)
(* until it is up.  The parts share no state: `part` says whose behaviour  *)
(* it is, s1 .. s17 are its variables.                                     *)
(***************************************************************************)
EXTENDS Naturals, FiniteSets, Sequences, TLC

VARIABLES part, s1, s2, s3, s4, s5, s6, s7, s8, s9, s10, s11, s12, s13, s14, s15, s16, s17

-----------------------------------------------------------------------------
\* Two partitions of logs with nothing in them that is refused.
Trace == [type |-> "Trace", body |-> "r"]
Ignored == [type |-> "Service", body |-> "ignored"]
FlowLog == "p1" :> <<Ignored, Trace>> @@ "p2" :> <<Trace>>

\* A few types, with groups as the program makes them and with a GPU.
Type(p, f, k, u) == [provider |-> p, family |-> f, size |-> [unit |-> "xlarge", n |-> 1], cpu |-> 4, mem |-> 16,
                     arch |-> "amd64", gpus |-> k, gpu |-> u]
Catalog == {Type("ali", "g7", 0, ""), Type("ali", "g8i", 0, ""), Type("ali", "g6", 0, ""), Type("ali", "gn6i", 1, "T4"),
            Type("aws", "m5", 0, ""), Type("aws", "m7i", 0, ""), Type("aws", "g4dn", 1, "T4")}
Images == {[provider |-> p, id |-> "image", arch |-> "amd64", ubuntu |-> TRUE] : p \in {"ali", "aws"}}
Groups == {[type |-> "NORMAL", arch |-> "amd64", cpu |-> 4, gpus |-> 0, spec |-> ""],
           [type |-> "GPU_ACCELERATERD", arch |-> "amd64", cpu |-> 4, gpus |-> 1, spec |-> ""]}

\* A master and a worker; a proper range of four machines, one machine, and
\* one whose end is above the highest address.
Versions == [kubernetes |-> <<"v1.30.4", "v1.31.2">>, containerd |-> <<"v2.0.0">>, runc |-> <<"v1.2.1">>]
AllScripts == {"nodeinit.sh", "kubernetes-component.sh", "kubernetes-init.sh", "kubernetes-join.sh",
               "kubernetes-reset.sh", "systeminfo.sh", "kubeadm-catoken.sh"}
Addresses == {<<0, 0, 0, 1>>, <<0, 1, 0, 0>>, <<1, 1, 1, 1>>, <<2, 0, 1, 0>>}

G == INSTANCE Gateway WITH
    Clients <- {"a", "b"}, Ids <- {1}, Life <- 2, MaxTime <- 2, MaxRequests <- 2, MaxDeletes <- 1,
    now <- s1, token <- s2, rows <- s3, req <- s4, count <- s5
U == INSTANCE Accounts WITH
    Clients <- {"a", "b"}, Emails <- {"e"}, Roles <- {"r", "s"}, EditEmail <- TRUE, MaxActive <- 2,
    MaxReq <- 3, MaxFaults <- 1, users <- s1, wroles <- s2, req <- s3, count <- s4
T == INSTANCE ServiceTables WITH
    Tx <- {"a", "b"}, Names <- {"n"}, Twice <- FALSE, MaxStarts <- 3, MaxFaults <- 1, rows <- s1,
    tx <- s2, count <- s3
F == INSTANCE TraceLogs WITH
    Partitions <- {"p1", "p2"}, Routes <- {"r"}, Log <- FlowLog, EsClient <- FALSE, MaxFaults <- 1,
    produced <- s1, committed <- s2, up <- s3, session <- s4, claim <- s5, rows <- s6, docs <- s7,
    faults <- s8, handled <- s9, counted <- s10, from <- s11
I == INSTANCE LogIndices WITH
    Replicas <- {"a", "b"}, Logs <- <<"pod", "service">>, Keys <- {"a"}, Dates <- <<"01", "02">>,
    KeepDays <- 1, Window <- 3, Sizes <- {1}, MaxLines <- 1, MaxFaults <- 1, day <- s1,
    template <- s2, index <- s3, alias <- s4, boot <- s5, reader <- s6, count <- s7
N == INSTANCE CloudNodes WITH
    Provider <- "ali", Env <- "local", Ids <- {"i1", "i2", "i3", "i4", "i5", "i6", "i7"},
    TargetSize <- 2, MaxStarts <- 1, MaxStops <- 1, MaxUpdates <- 0, MaxFaults <- 1,
    MaxCrashes <- 0, machines <- s1, cluster <- s2, saved <- s3, at <- s4, path <- s5, todo <- s6,
    seen <- s7, finish <- s8, ranOut <- s9, last <- s10, installers <- s11, lost <- s12,
    starts <- s13, stops <- s14, updates <- s15, faults <- s16, crashes <- s17
\* Networks over two zones with a call that fails, and over one zone where also
\* the process dies.
A == INSTANCE AliNetwork WITH
    Zones <- {"a", "b"}, Ids <- 1 .. 18, MaxPasses <- 2, MaxFaults <- 1, MaxCrashes <- 0,
    cloud <- s1, record <- s2, saved <- s3, at <- s4, seen <- s5, last <- s6, passes <- s7,
    faults <- s8, crashes <- s9
W == INSTANCE AwsNetwork WITH
    Zones <- {"a", "b"}, Ids <- 1 .. 26, MaxPasses <- 2, MaxFaults <- 1, MaxCrashes <- 0,
    cloud <- s1, record <- s2, saved <- s3, at <- s4, seen <- s5, last <- s6, passes <- s7,
    faults <- s8, crashes <- s9
AliRetried == INSTANCE AliNetwork WITH
    Zones <- {"a"}, Ids <- 1 .. 10, MaxPasses <- 3, MaxFaults <- 1, MaxCrashes <- 1,
    cloud <- s1, record <- s2, saved <- s3, at <- s4, seen <- s5, last <- s6, passes <- s7,
    faults <- s8, crashes <- s9
AwsRetried == INSTANCE AwsNetwork WITH
    Zones <- {"a"}, Ids <- 1 .. 14, MaxPasses <- 3, MaxFaults <- 1, MaxCrashes <- 1,
    cloud <- s1, record <- s2, saved <- s3, at <- s4, seen <- s5, last <- s6, passes <- s7,
    faults <- s8, crashes <- s9
Y == INSTANCE InstanceTypes WITH
    MaxPasses <- 2, MaxFaults <- 1, provider <- s1, group <- s2, nodes <- s3, at <- s4, g <- s5,
    image <- s6, found <- s7, left <- s8, passes <- s9, faults <- s10
M == INSTANCE MachineScripts WITH
    Machines <- {"m1", "m2"}, Master <- "m1", Role <- [m1 |-> "master", m2 |-> "worker"],
    Uname <- [m1 |-> "x86_64", m2 |-> "aarch64"], Shell <- AllScripts,
    Resource <- [amd64 |-> Versions, arm64 |-> Versions], MaxJobs <- 2, MaxFaults <- 1,
    MaxCuts <- 1, machine <- s1, job <- s2, count <- s3
H == INSTANCE Handover WITH
    MaxRuns <- 1, MaxFaults <- 2, script <- s1, disk <- s2, service <- s3, db <- s4, count <- s5
R == INSTANCE NodeRange WITH
    Base <- 2, Ranges <- [start : Addresses, end : Addresses], MaxChanges <- 2,
    range <- s1, loop <- s2, nodes <- s3, count <- s4

-----------------------------------------------------------------------------
Unused == "unused"
From4 == <<s4, s5, s6, s7, s8, s9, s10, s11, s12, s13, s14, s15, s16, s17>>
From5 == <<s5, s6, s7, s8, s9, s10, s11, s12, s13, s14, s15, s16, s17>>
From6 == <<s6, s7, s8, s9, s10, s11, s12, s13, s14, s15, s16, s17>>
From8 == <<s8, s9, s10, s11, s12, s13, s14, s15, s16, s17>>
From10 == <<s10, s11, s12, s13, s14, s15, s16, s17>>
From11 == <<s11, s12, s13, s14, s15, s16, s17>>
From12 == <<s12, s13, s14, s15, s16, s17>>
All == <<s1, s2, s3, s4, s5, s6, s7, s8, s9, s10, s11, s12, s13, s14, s15, s16, s17>>

No12 == s12 = Unused /\ s13 = Unused /\ s14 = Unused /\ s15 = Unused /\ s16 = Unused /\ s17 = Unused
No11 == s11 = Unused /\ No12
No10 == s10 = Unused /\ No11
No8 == s8 = Unused /\ s9 = Unused /\ No10
No6 == s6 = Unused /\ s7 = Unused /\ No8
No5 == s5 = Unused /\ No6
No4 == s4 = Unused /\ No5

SettlingInit ==
    \/ part = "requests" /\ G!Init /\ No6
    \/ part = "users" /\ U!Init /\ No5
    \/ part = "tables" /\ T!Init /\ No4
    \/ part = "logs" /\ F!Init /\ No12
    \/ part = "indices" /\ I!Init /\ No8
    \/ part = "nodes" /\ N!Init
    \/ part = "ali network" /\ A!Init /\ No10
    \/ part = "ali retried" /\ AliRetried!Init /\ No10
    \/ part = "aws network" /\ W!Init /\ No10
    \/ part = "aws retried" /\ AwsRetried!Init /\ No10
    \/ part = "types" /\ Y!Init /\ No11
    \/ part = "scripts" /\ M!Init /\ No4
    \/ part = "handover" /\ H!Init /\ No6
    \/ part = "range" /\ R!Init /\ No5

Requests == part = "requests" /\ G!Next /\ UNCHANGED <<part, From6>>
Users == part = "users" /\ U!Next /\ UNCHANGED <<part, From5>>
Tables == part = "tables" /\ T!Next /\ UNCHANGED <<part, From4>>
Logs == part = "logs" /\ F!Next /\ UNCHANGED <<part, From12>>
Indices == part = "indices" /\ I!Next /\ UNCHANGED <<part, From8>>
Nodes == part = "nodes" /\ N!Next /\ UNCHANGED part
AliNetworks == part = "ali network" /\ (A!Start \/ A!Create \/ A!Crash) /\ UNCHANGED <<part, From10>>
AliRetries == part = "ali retried" /\ (AliRetried!Start \/ AliRetried!Create \/ AliRetried!Crash) /\ UNCHANGED <<part, From10>>
AwsNetworks == part = "aws network" /\ (W!Start \/ W!Create \/ W!Crash) /\ UNCHANGED <<part, From10>>
AwsRetries == part = "aws retried" /\ (AwsRetried!Start \/ AwsRetried!Create \/ AwsRetried!Crash) /\ UNCHANGED <<part, From10>>
Types == part = "types" /\ Y!Next /\ UNCHANGED <<part, From11>>
Scripts == part = "scripts" /\ M!Next /\ UNCHANGED <<part, From4>>
Handovers == part = "handover" /\ H!Next /\ UNCHANGED <<part, From6>>
Ranges == part = "range" /\ R!Next /\ UNCHANGED <<part, From5>>

SettlingNext ==
    \/ Requests \/ Users \/ Tables \/ Logs \/ Indices \/ Nodes \/ AliNetworks
    \/ AwsNetworks \/ AliRetries \/ AwsRetries \/ Types \/ Scripts \/ Handovers \/ Ranges

\* A part goes on by itself, as the component's own fairness has it.
Fairness ==
    /\ \A c \in {"a", "b"} : WF_<<part, All>>(part = "requests" /\ G!Step(c) /\ UNCHANGED <<part, From6>>)
    /\ \A c \in {"a", "b"} : WF_<<part, All>>(part = "users" /\ U!Step(c) /\ UNCHANGED <<part, From5>>)
    /\ \A t \in {"a", "b"} : WF_<<part, All>>(part = "tables" /\ T!Run(t) /\ UNCHANGED <<part, From4>>)
    /\ WF_<<part, All>>(part = "logs" /\ F!Consume /\ UNCHANGED <<part, From12>>)
    /\ WF_<<part, All>>(part = "logs" /\ F!SessionEnds /\ UNCHANGED <<part, From12>>)
    /\ WF_<<part, All>>(part = "logs" /\ F!Restart /\ UNCHANGED <<part, From12>>)
    /\ \A p \in {"p1", "p2"} : /\ WF_<<part, All>>(part = "logs" /\ F!ConsumeClaim(p) /\ UNCHANGED <<part, From12>>)
                               /\ WF_<<part, All>>(part = "logs" /\ F!AutoCommit(p) /\ UNCHANGED <<part, From12>>)
    /\ \A r \in {"a", "b"} : WF_<<part, All>>(part = "indices" /\ I!Step(r) /\ UNCHANGED <<part, From8>>)
    /\ WF_<<part, All>>(part = "nodes" /\ N!Handle /\ UNCHANGED part)
    /\ WF_<<part, All>>(part = "nodes" /\ N!RunsOut /\ UNCHANGED part)
    /\ WF_<<part, All>>(part = "ali network" /\ A!Create /\ UNCHANGED <<part, From10>>)
    /\ WF_<<part, All>>(part = "ali retried" /\ AliRetried!Create /\ UNCHANGED <<part, From10>>)
    /\ WF_<<part, All>>(part = "ali network" /\ A!Start /\ UNCHANGED <<part, From10>>)
    /\ WF_<<part, All>>(part = "ali retried" /\ AliRetried!Start /\ UNCHANGED <<part, From10>>)
    /\ WF_<<part, All>>(part = "aws network" /\ W!Create /\ UNCHANGED <<part, From10>>)
    /\ WF_<<part, All>>(part = "aws retried" /\ AwsRetried!Create /\ UNCHANGED <<part, From10>>)
    /\ WF_<<part, All>>(part = "aws network" /\ W!Start /\ UNCHANGED <<part, From10>>)
    /\ WF_<<part, All>>(part = "aws retried" /\ AwsRetried!Start /\ UNCHANGED <<part, From10>>)
    /\ WF_<<part, All>>(part = "types" /\ (Y!NextGroup \/ Y!Done \/ Y!FindImage \/ Y!Page \/ Y!Choose)
            /\ UNCHANGED <<part, From11>>)
    /\ WF_<<part, All>>(part = "scripts" /\ M!Step /\ UNCHANGED <<part, From4>>)
    /\ WF_<<part, All>>(part = "handover" /\ H!Script /\ UNCHANGED <<part, From6>>)
    /\ WF_<<part, All>>(part = "handover" /\ H!Program /\ UNCHANGED <<part, From6>>)
    /\ WF_<<part, All>>(part = "range" /\ R!AppendIp /\ UNCHANGED <<part, From5>>)

SettlingSpec == SettlingInit /\ [][SettlingNext]_<<part, All>> /\ Fairness

-----------------------------------------------------------------------------
Open(c) ==
    \/ part = "requests" /\ G!Busy(c)
    \/ part = "users" /\ U!Open(c)
    \/ part = "tables" /\ T!Open(c)

\* Every request is answered, and every transaction commits or is rolled back,
\* also where two of them wait for each other's rows (data/user.go:43,
\* data/service.go:165) or a handler panics (server/grpc.go:21).
RequestsAreAnswered == \A c \in {"a", "b"} : Open(c) ~> ~Open(c)

\* Logs flow and replicas come up: what filebeat has written to a partition
\* that has an offset is handled and committed, over restarts and rebalances
\* (lib/kafka.go:85); and a replica has made or found its indices, with another
\* one at its side (lib/es.go:77).
LogsKeepFlowing ==
    /\ \A p \in {"p1", "p2"} : \A o \in F!Offsets(p) :
          (part = "logs" /\ F!Written(p, o)) ~> (part = "logs" /\ F!Committed(p, o))
    /\ \A r \in {"a", "b"} : <>[](part = "indices" => I!Up(r))

Underway ==
    \/ part = "nodes" /\ N!Handling
    \/ part = "types" /\ Y!Passing
    \/ part = "scripts" /\ M!Busy
    \/ part = "range" /\ R!Walking

Up ==
    /\ part = "ali network" => A!IsUp
    /\ part = "aws network" => W!IsUp
    /\ part = "ali retried" => AliRetried!IsUp
    /\ part = "aws retried" => AwsRetried!IsUp

Wired ==
    /\ part = "ali network" => A!WiredWhenDone
    /\ part = "ali retried" => AliRetried!WiredWhenDone
    /\ part = "aws network" => W!WiredWhenDone
    /\ part = "aws retried" => AwsRetried!WiredWhenDone

\* What is started comes to its end: the handling of a cluster's machines, a
\* pass over their types, a job on a machine, the walk over a range of them; a
\* network that is started again after failures and a crash is up in the end,
\* and complete in each zone; and a program that was installed is handed its
\* cluster (alicloud.go:96, awscloud.go:74, baremetal.go:53, utils/utils.go:121).
WhatIsStartedEnds ==
    /\ []Wired
    /\ Underway ~> ~Underway
    /\ <>Up
    /\ (part = "handover" /\ H!AtTheService) ~> (part = "handover" /\ H!HandedOver)
=============================================================================

-------------------------------- MODULE Handover --------------------------------
(***************************************************************************)
(* How a cluster gets to the program on its own master: PreInstall runs    *)
(* shell/cloud-copilot-install.sh there, which installs the program and    *)
(* its service; the service prepares its database (data/data.go), reads    *)
(* the cluster from the file that the script left and starts it            *)
(* (biz/cluster.go, NewClusterUseCase).  The service is started before the *)
(* script is through, and systemd starts it again whenever it ends.        *)
(*                                                                         *)
(* The script runs in the home directory: that is where ssh leaves it.     *)
(* External: Linux does not let a program that runs be written over, and   *)
(* mv does not move a directory onto itself.                               *)
(***************************************************************************)
EXTENDS Naturals, Sequences, SequencesExt

CONSTANTS MaxRuns,   \* of the script
          MaxFaults

VARIABLES script,  \* where the script is
          disk,    \* what it has left on the machine
          service, \* where the program is, and the configuration it has read
          db,      \* its database: is it there, saves of the cluster, its starts
          count    \* runs of the script and faults

vars == <<script, disk, service, db, count>>

Steps == <<"check", "package", "configs", "file", "point", "shell", "binary", "unit", "start", "resource">>
NoService == [at |-> "off", cluster |-> FALSE]

Init ==
    /\ script = "none" /\ service = NoService
    /\ disk = [package |-> "no", config |-> "no", file |-> FALSE, binary |-> FALSE, unit |-> FALSE, resource |-> "no"]
    /\ db = [there |-> FALSE, saves |-> 0, starts |-> 0] /\ count = [run |-> 0, fault |-> 0]

-----------------------------------------------------------------------------
\* The script.

Runs == script \in Range(Steps)
After(step) == IF step = Last(Steps) THEN "done" ELSE Steps[CHOOSE i \in DOMAIN Steps : i > 1 /\ Steps[i - 1] = step]
Up == service.at \notin {"off", "down"}   \* the program is running
Does(step) == script = step /\ script' = After(step) /\ UNCHANGED <<service, db, count>>

PreInstall ==
    /\ ~Runs /\ count.run < MaxRuns
    /\ script' = "check" /\ count' = [count EXCEPT !.run = @ + 1]
    /\ UNCHANGED <<disk, service, db>>

\* A machine with the disk, the architecture and the system that it asks for.
Check == Does("check") /\ UNCHANGED disk

\* A directory that is there is taken for the package.
Package ==
    /\ Does("package")
    /\ disk' = [disk EXCEPT !.package = IF @ = "no" THEN "whole" ELSE @]

\* What the package does not have cannot be copied.
Configs ==
    /\ disk.package = "whole" /\ Does("configs")
    /\ disk' = [disk EXCEPT !.config = "plain"]
ClusterFile == Does("file") /\ disk' = [disk EXCEPT !.file = TRUE]
Point == Does("point") /\ disk' = [disk EXCEPT !.config = "cluster"]
ShellAndComponent == disk.package = "whole" /\ Does("shell") /\ UNCHANGED disk
Binary == ~Up /\ disk.package = "whole" /\ Does("binary") /\ disk' = [disk EXCEPT !.binary = TRUE]
Unit == Does("unit") /\ disk' = [disk EXCEPT !.unit = TRUE]
StartService ==
    /\ script = "start" /\ script' = After("start")
    /\ service' = IF Up THEN service ELSE [service EXCEPT !.at = "config"]
    /\ UNCHANGED <<disk, db, count>>

\* Where the archive is unpacked the directory is to be: it cannot be moved.
Resource ==
    /\ script = "resource" /\ UNCHANGED <<service, db, count>>
    /\ IF disk.resource # "no" THEN script' = "done" /\ UNCHANGED disk
       ELSE script' = "failed" /\ disk' = [disk EXCEPT !.resource = "whole"]

ScriptEnds ==
    /\ \/ script \in {"configs", "shell", "binary"} /\ disk.package # "whole"
       \/ script = "binary" /\ Up
    /\ script' = "failed" /\ UNCHANGED <<disk, service, db, count>>

\* A command fails or the connection is lost: what was being unpacked is there
\* in part.
ScriptFails ==
    /\ Runs /\ count.fault < MaxFaults
    /\ script' = "failed" /\ count' = [count EXCEPT !.fault = @ + 1]
    /\ \/ UNCHANGED disk
       \/ script = "package" /\ disk.package = "no" /\ disk' = [disk EXCEPT !.package = "part"]
       \/ script = "resource" /\ disk.resource = "no" /\ disk' = [disk EXCEPT !.resource = "part"]
    /\ UNCHANGED <<service, db>>

Script == Check \/ Package \/ Configs \/ ClusterFile \/ Point \/ ShellAndComponent \/ Binary \/ Unit
            \/ StartService \/ Resource \/ ScriptEnds

-----------------------------------------------------------------------------
\* The program.

Goes(from, to) == service.at = from /\ service' = [service EXCEPT !.at = to] /\ UNCHANGED <<script, disk, count>>

\* main: the configuration is read once.
LoadConfig ==
    /\ service.at = "config"
    /\ service' = [at |-> "database", cluster |-> disk.config = "cluster"]
    /\ UNCHANGED <<script, disk, db, count>>

newDatabase == Goes("database", "cluster") /\ db' = [db EXCEPT !.there = TRUE]

\* Without a cluster in the configuration, without its file, or when Kubernetes
\* is there, as it may be once the cluster was started, the program just serves.  A cluster that was saved is not saved again.
NewClusterUseCase ==
    \/ /\ service.cluster /\ disk.file
       /\ Goes("cluster", "start")
       /\ db' = IF db.saves = 0 THEN [db EXCEPT !.saves = 1] ELSE db
    \/ /\ ~(service.cluster /\ disk.file) \/ db.starts = 1
       /\ Goes("cluster", "serve") /\ UNCHANGED db

StartCluster == Goes("start", "serve") /\ db' = [db EXCEPT !.starts = 1]

\* It ends, or cannot reach its database, and is started again.
Ends ==
    /\ Up /\ count.fault < MaxFaults
    /\ service' = [at |-> "down", cluster |-> FALSE]
    /\ count' = [count EXCEPT !.fault = @ + 1] /\ UNCHANGED <<script, disk, db>>

Restart == Goes("down", "config") /\ UNCHANGED db

Program == LoadConfig \/ newDatabase \/ NewClusterUseCase \/ StartCluster \/ Restart

Next == PreInstall \/ Script \/ ScriptFails \/ Program \/ Ends

Spec == Init /\ [][Next]_vars

\* A script that runs goes on, and so do the program and systemd.
FairSpec == Spec /\ WF_vars(Script) /\ WF_vars(Program)

-----------------------------------------------------------------------------
TypeOK ==
    /\ script \in Range(Steps) \cup {"none", "done", "failed"}
    /\ disk.package \in {"no", "part", "whole"} /\ disk.resource \in {"no", "part", "whole"}
    /\ disk.config \in {"no", "plain", "cluster"}
    /\ Up => disk.binary /\ disk.unit
    /\ service.at \in {"off", "down", "config", "database", "cluster", "start", "serve"}

\* However often the program ends on its way, the cluster is saved once.
SavedOnce == db.saves <= 1

\* A script that got as far as the service leads to this, however often script
\* and program end.
AtTheService == script = "resource"
HandedOver == db.starts = 1

=============================================================================

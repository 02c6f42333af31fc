----------------------------- MODULE MachineScripts -----------------------------
(***************************************************************************)
(* How the program sets up machines (infrastructure/baremetal.go): over    *)
(* SSH it copies its scripts and resources to a machine and runs them      *)
(* there (utils/remoteBash.go, shell/*.sh).  ClusterLifecycle takes a      *)
(* script for one step that works or not; here are the copies that are cut *)
(* off, the scripts that end in the middle, and what a second attempt      *)
(* finds.                                                                  *)
(*                                                                         *)
(* kubeadm is external: it neither makes nor joins a cluster on a machine  *)
(* that is in one.                                                         *)
(***************************************************************************)
EXTENDS Naturals, Sequences, FiniteSets, SequencesExt

CONSTANTS Machines, Master,  \* the one of them that is the master
          Role,        \* machine -> "master" or "worker"
          Uname,       \* machine -> what uname says it is
          Shell,       \* the scripts of the local directory
          Resource,    \* architecture -> part -> its versions, in the order of their names
          MaxJobs, MaxFaults, MaxCuts

VARIABLES machine,  \* what is on each machine
          job,      \* what the program is doing
          count     \* jobs, faults and copies that were cut off

vars == <<machine, job, count>>

System == <<"hostname", "hosts", "forwarding", "swap", "fstab">>
Firewall == <<"firewall">>   \* of the three there may be, a failure of two is passed over
Packages == <<"conntrack and yq", "jq, lvm2 and util-linux">>   \* by apt-get, yum or dnf
Settings == System \o Firewall \o Packages
Containerd == <<"runc", "containerd">>
Software == Containerd \o <<"kubeadm">>
Parts == <<"kubernetes", "containerd", "runc">>
Defaults == <<"v1.31.2", "v2.0.0", "v1.2.1">>
CaToken == "kubeadm-catoken.sh"
Scripts == {"nodeinit.sh", "kubernetes-component.sh", "kubernetes-init.sh", "kubernetes-join.sh",
            "kubernetes-reset.sh", "systeminfo.sh", CaToken}

Out == [role |-> "none", cluster |-> 0]   \* of every cluster
Blank == [files |-> [s \in Scripts |-> "no"], resource |-> "no", set |-> {}, software |-> {},
          kube |-> Out, found |-> "none"]
NoJob == [kind |-> "none", at |-> "none", tasks |-> <<>>, rest |-> {}, faults |-> 0, token |-> FALSE]

Init == /\ machine = [m \in Machines |-> Blank] /\ job = NoJob
        /\ count = [job |-> 0, fault |-> 0, cut |-> 0, cluster |-> 0]

-----------------------------------------------------------------------------
\* The jobs: what is done on which machine.

Do(m, what) == [on |-> m, do |-> what, control |-> FALSE]
\* Variant: the components first.
componentFirst(m) == <<Do(m, "kubernetes-component.sh"), Do(m, "nodeinit.sh")>>

initNode(m) == <<Do(m, "nodeinit.sh"), Do(m, "kubernetes-component.sh")>>

\* A master joins without a word, and any other machine with "controller".
joinCluster(m) ==
    <<Do(m, "resource")>> \o initNode(m) \o <<Do(Master, CaToken), Do(Master, CaToken),
      [Do(m, "kubernetes-join.sh") EXCEPT !.control = Role[m] # "master"]>>

Others == Machines \ {Master}
InstallTasks == <<Do(Master, "resource")>> \o initNode(Master) \o <<Do(Master, "kubernetes-init.sh")>>
ResetTask(m) == <<Do(m, "kubernetes-reset.sh")>>
\* Ten machines at a time, and nothing but their answers is shared.
FindTask(m) == <<Do(m, "systeminfo.sh")>>

\* What a job does on a machine when its turn comes.
TasksOf(kind, m) ==
    CASE kind \in {"install", "join"} -> joinCluster(m)
      [] kind \in {"uninstall", "reset"} -> ResetTask(m)
      [] OTHER -> FindTask(m)

AtTask == job.at \in {"look", "copy", "run"}
Busy == AtTask \/ job.at = "next"
\* The tasks to begin with, and the machines after them.
Start(kind, tasks, rest) ==
    /\ ~Busy /\ count.job < MaxJobs
    /\ count' = [count EXCEPT !.job = @ + 1]
    /\ job' = [NoJob EXCEPT !.kind = kind, !.at = IF tasks = <<>> THEN "next" ELSE "look",
                           !.tasks = tasks, !.rest = rest]
    /\ UNCHANGED machine

\* The names of the versions are compared as strings; those for ARM count for all.
Newest(part) == LET names == Resource["arm64"][part] IN IF names = <<>> THEN "" ELSE names[Len(names)]

\* Without a version of Kubernetes there is no install.
Install == Newest("kubernetes") # "" /\ Start("install", InstallTasks, Others)
UnInstall == Start("uninstall", <<>>, Machines)
GetNodesSystemInfo == Start("find", <<>>, Machines)
HandlerNodes(m) == \/ m # Master /\ Start("join", <<>>, {m})
                   \/ Start("reset", <<>>, {m})

\* The machines come in the order of their rows, which is any.
NextMachine ==
    /\ job.at = "next"
    /\ \/ job.rest = {} /\ job' = [job EXCEPT !.at = "done"]
       \/ \E m \in job.rest :
            job' = [job EXCEPT !.at = "look", !.tasks = TasksOf(job.kind, m), !.rest = @ \ {m},
                                !.token = FALSE]
    /\ UNCHANGED <<machine, count>>

Task == Head(job.tasks)
Next1 == [job EXCEPT !.tasks = Tail(@), !.at = IF Len(job.tasks) = 1 THEN "next" ELSE "look"]
\* A machine whose information cannot be had is passed over; any other failure
\* ends the job.
Failed == IF Task.do = "systeminfo.sh" THEN Next1 ELSE [job EXCEPT !.at = "error", !.tasks = <<>>, !.rest = {}]

-----------------------------------------------------------------------------
\* Scripts and resources are copied once.

There(t) == IF t.do = "resource" THEN machine[t.on].resource ELSE machine[t.on].files[t.do]
WithFile(t, f) == machine' = IF t.do = "resource" THEN [machine EXCEPT ![t.on].resource = f]
                             ELSE [machine EXCEPT ![t.on].files[t.do] = f]

\* What is there, whole or not, is not copied again; a script that the local
\* directory does not have is an error.
Look ==
    /\ job.at = "look"
    /\ IF There(Task) # "no"
       THEN job' = (IF Task.do = "resource" THEN Next1 ELSE [job EXCEPT !.at = "run"]) /\ UNCHANGED machine
       ELSE IF Task.do # "resource" /\ Task.do \notin Shell THEN job' = Failed /\ UNCHANGED machine
       ELSE WithFile(Task, "part") /\ job' = [job EXCEPT !.at = "copy"]
    /\ UNCHANGED count

Copy ==
    /\ job.at = "copy" /\ WithFile(Task, "whole")
    /\ job' = IF Task.do = "resource" THEN Next1 ELSE [job EXCEPT !.at = "run"]
    /\ UNCHANGED count

\* The connection is lost, or the program ends, while it copies.
CutCopy ==
    /\ job.at = "copy" /\ count.cut < MaxCuts
    /\ count' = [count EXCEPT !.cut = @ + 1]
    /\ job' = [Failed EXCEPT !.faults = @ + 1] /\ UNCHANGED machine

-----------------------------------------------------------------------------
\* What a script has done when it got to its step k.

First(s, k) == {s[i] : i \in 1 .. k}
Nodeinit(r, k) == [r EXCEPT !.set = @ \cup First(Settings, k)]
Component(r, k) == [r EXCEPT !.software = @ \cup First(Software, k)]

\* No argument that is empty reaches the script, and the ones after it move up.
Given == SelectSeq([i \in 1 .. 3 |-> Newest(Parts[i])], LAMBDA v : v # "")
Version(i) == IF i <= Len(Given) THEN Given[i] ELSE Defaults[i]
\* The script says amd64 or arm64.
Systeminfo(m) == IF Uname[m] = "aarch64" THEN "arm64" ELSE "amd64"
HasVersions(m) == \A i \in 1 .. 3 : \E v \in Range(Resource[Systeminfo(m)][Parts[i]]) : v = Version(i)

\* getNodeArchByBareMetal knows x86_64, aarch64, arm and arm64.
ArchOf(said) == IF said \in {"aarch64", "arm", "arm64"} THEN "arm64"
                ELSE IF said = "x86_64" THEN "amd64" ELSE "unspecified"

Ready(m) == {"kubeadm", "containerd"} \subseteq machine[m].software

\* The certificates are where an init or a join of a master puts them.
GivesToken(r) == r.kube.role = "control"

\* A script that is whole works if what it needs is there.
Works(t) ==
    LET r == machine[t.on] IN
    /\ t.do = "kubernetes-component.sh" => r.resource = "whole" /\ HasVersions(t.on)
    /\ t.do = "kubernetes-init.sh" => Ready(t.on) /\ r.resource = "whole" /\ r.kube = Out
    /\ t.do = "kubernetes-join.sh" => Ready(t.on) /\ job.token /\ machine[Master].kube # Out /\ r.kube = Out
    /\ t.do = "kubernetes-reset.sh" => "kubeadm" \in r.software
    /\ t.do = CaToken => GivesToken(r)

Initialised(r) == [r EXCEPT !.kube = [role |-> "control", cluster |-> count.cluster + 1]]
Joined(r, control) == [r EXCEPT !.kube = [role |-> IF control THEN "control" ELSE "worker",
                                          cluster |-> machine[Master].kube.cluster]]
Reset(r) == [r EXCEPT !.kube = Out]
Worked(t) ==
    LET r == machine[t.on] IN
    CASE t.do = "nodeinit.sh" -> Nodeinit(r, Len(Settings))
      [] t.do = "kubernetes-component.sh" -> Component(r, Len(Software))
      [] t.do = "kubernetes-init.sh" -> Initialised(r)
      [] t.do = "kubernetes-join.sh" -> Joined(r, t.control)
      [] t.do = "kubernetes-reset.sh" -> Reset(r)
      [] t.do = "systeminfo.sh" -> [r EXCEPT !.found = ArchOf(Systeminfo(t.on))]
      [] OTHER -> r

\* What a script that does not get to its end may leave: its first steps done,
\* and an init or a join undone, if it got as far as kubeadm.
Left(t) ==
    LET r == machine[t.on] IN
    CASE t.do = "nodeinit.sh" -> {Nodeinit(r, k) : k \in 0 .. Len(Settings) - 1}
      [] t.do = "kubernetes-component.sh" -> {Component(r, k) : k \in 0 .. Len(Software) - 1}
      [] t.do \in {"kubernetes-init.sh", "kubernetes-join.sh", "kubernetes-reset.sh"}
           /\ "kubeadm" \in r.software /\ There(t) = "whole" -> {r, Reset(r)}
      [] OTHER -> {r}

\* kubeadm is asked where it is known to refuse, and the script resets the
\* machine.
Refuses(t) ==
    /\ machine[t.on].kube # Out /\ Ready(t.on)
    /\ \/ t.do = "kubernetes-init.sh" /\ machine[t.on].resource = "whole"
       \/ t.do = "kubernetes-join.sh" /\ job.token

\* Two of the scripts are run for what they print, and how they end is dropped.
Quiet(t) == t.do \in {CaToken, "systeminfo.sh"}
AfterFailure == IF Quiet(Task) THEN Next1 ELSE Failed

Becomes(t, r) == machine' = [machine EXCEPT ![t.on] = r]

AnotherCluster(t) == IF t.do = "kubernetes-init.sh" THEN count.cluster + 1 ELSE count.cluster

RunWhole ==
    /\ job.at = "run" /\ There(Task) = "whole"
    /\ IF Works(Task)
       THEN /\ Becomes(Task, Worked(Task))
            /\ job' = IF Task.do = CaToken THEN [Next1 EXCEPT !.token = TRUE] ELSE Next1
            /\ count' = [count EXCEPT !.cluster = AnotherCluster(Task)]
       ELSE /\ \E r \in Left(Task) : (Refuses(Task) => r.kube = Out) /\ Becomes(Task, r)
            /\ job' = AfterFailure
            /\ UNCHANGED count

\* A command of the script fails, even after kubeadm is done, or the connection
\* is lost.
RunFails ==
    /\ job.at = "run" /\ count.fault < MaxFaults
    /\ \/ (\E r \in Left(Task) : Becomes(Task, r)) /\ count' = [count EXCEPT !.fault = @ + 1]
       \/ /\ There(Task) = "whole" /\ Works(Task) /\ Becomes(Task, Worked(Task))
          /\ count' = [count EXCEPT !.fault = @ + 1, !.cluster = AnotherCluster(Task)]
    /\ job' = [AfterFailure EXCEPT !.faults = @ + 1]

\* Of a script that was cut off, the beginning is run, and that is a success.
RunPart ==
    /\ job.at = "run" /\ There(Task) = "part"
    /\ \E r \in Left(Task) : Becomes(Task, r)
    /\ job' = Next1 /\ UNCHANGED count

Step == NextMachine \/ Look \/ Copy \/ RunWhole \/ RunPart
Next ==
    \/ Install \/ UnInstall \/ GetNodesSystemInfo \/ \E m \in Machines : HandlerNodes(m)
    \/ Step \/ CutCopy \/ RunFails

Spec == Init /\ [][Next]_vars

\* The program goes on with what it does.
FairSpec == Spec /\ WF_vars(Step)

-----------------------------------------------------------------------------
TypeOK ==
    /\ job.at \in {"none", "next", "look", "copy", "run", "done", "error"}
    /\ AtTask <=> job.tasks # <<>>
    /\ \A m \in Machines : machine[m].kube.cluster <= count.cluster
                             /\ (machine[m].kube = Out <=> machine[m].kube.role = "none")

\* When nothing was cut off, a machine gets its software only once it is set
\* up, and is in a cluster only with its software.
InOrder ==
    count.cut = 0 => \A m \in Machines :
        /\ machine[m].software # {} => machine[m].set = Range(Settings)
        /\ machine[m].kube # Out => machine[m].software = Range(Software)

\* An install that succeeds leaves all machines in the one cluster of the
\* master, whatever earlier attempts left (baremetal.go:181).
OneCluster ==
    job.kind = "install" /\ job.at = "done" /\ count.cut = 0 =>
        \A m \in Machines : machine[m].kube # Out /\ machine[m].kube.cluster = machine[Master].kube.cluster

\* What is uninstalled is in no cluster, unless a script was cut off.
UninstalledIsOut ==
    job.kind = "uninstall" /\ job.at = "done" /\ count.cut = 0 => \A m \in Machines : machine[m].kube = Out

=============================================================================

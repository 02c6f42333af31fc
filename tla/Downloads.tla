------------------------------- MODULE Downloads -------------------------------
(***************************************************************************)
(* shell/downlocal.sh fills the resource directory: it downloads           *)
(* containerd, runc, kubeadm and kubelet into the directory it is run in,  *)
(* one after the other, and moves them to their places.  It may be cut off *)
(* at any point, and is run again.                                         *)
(***************************************************************************)
EXTENDS Naturals, Sequences

CONSTANTS MaxRuns, MaxCuts

VARIABLES here,   \* file -> what of it is in the directory the script is run in
          place,  \* file -> what of it is in the resource directory
          at,     \* the place of the script in its commands, 0 when it does not run
          last,   \* how the last run ended
          count   \* runs, cuts, and runs that failed since the last cut or success

vars == <<here, place, at, last, count>>

Files == {"containerd", "runc", "kubeadm", "kubelet"}
Do(what, file) == [what |-> what, file |-> file]

download_containerd ==
    <<Do("get", "containerd"), Do("sum", "containerd"), Do("verify", "containerd"), Do("extract", "containerd"),
      Do("clean", "containerd"), Do("get", "runc"), Do("move", "runc")>>
download_kubeadm_kubelet ==
    <<Do("get", "kubeadm"), Do("get", "kubelet"), Do("move", "kubeadm"), Do("move", "kubelet")>>
pull_images == <<Do("images", "kubeadm")>>
Script == download_containerd \o download_kubeadm_kubelet \o pull_images

Init ==
    /\ here = [f \in Files |-> [got |-> "no", sum |-> FALSE]] /\ place = [f \in Files |-> "no"]
    /\ at = 0 /\ last = "none" /\ count = [run |-> 0, cut |-> 0, failed |-> 0]

Start ==
    /\ at = 0 /\ count.run < MaxRuns
    /\ at' = 1 /\ last' = "none" /\ count' = [count EXCEPT !.run = @ + 1]
    /\ UNCHANGED <<here, place>>

Is(what) == at # 0 /\ Script[at].what = what
File == Script[at].file
AtLast == at = Len(Script)
Goes == /\ at' = IF AtLast THEN 0 ELSE at + 1
        /\ last' = IF AtLast THEN "done" ELSE last
        /\ count' = IF AtLast THEN [count EXCEPT !.failed = 0] ELSE count
Ends == at' = 0 /\ last' = "failed" /\ count' = [count EXCEPT !.failed = @ + 1]

\* A file that is there is not fetched, and neither is its checksum then.
Get ==
    /\ Is("get") /\ UNCHANGED place
    /\ IF here[File].got = "no"
       THEN here' = [here EXCEPT ![File].got = "whole"] /\ Goes
       ELSE /\ UNCHANGED <<here, last, count>>
            /\ at' = IF Script[at + 1].what = "sum" THEN at + 2 ELSE at + 1
GetSum == Is("sum") /\ here' = [here EXCEPT ![File].sum = TRUE] /\ Goes /\ UNCHANGED place

\* What has no checksum, or not the right one, is removed.
Verify ==
    /\ Is("verify") /\ UNCHANGED place
    /\ IF here[File].got = "whole" /\ here[File].sum
       THEN Goes /\ UNCHANGED here
       ELSE Ends /\ here' = [here EXCEPT ![File] = [got |-> "no", sum |-> FALSE]]

Extract ==
    /\ Is("extract") /\ UNCHANGED here
    /\ place' = [place EXCEPT ![File] = here[File].got] /\ Goes
Clean == Is("clean") /\ here' = [here EXCEPT ![File] = [got |-> "no", sum |-> FALSE]] /\ Goes /\ UNCHANGED place

Move ==
    /\ Is("move") /\ place' = [place EXCEPT ![File] = here[File].got]
    /\ here' = [here EXCEPT ![File].got = "no"] /\ Goes

\* The images are those that kubeadm lists: without any there is nothing to save.
Images ==
    /\ Is("images") /\ UNCHANGED <<here, place>>
    /\ IF place["kubeadm"] = "whole" THEN Goes ELSE Ends

\* The script is ended while it downloads or unpacks.
Cut ==
    /\ at # 0 /\ count.cut < MaxCuts
    /\ \/ Is("get") /\ here[File].got = "no" /\ here' = [here EXCEPT ![File].got = "part"] /\ UNCHANGED place
       \/ Is("extract") /\ place' = [place EXCEPT ![File] = "part"] /\ UNCHANGED here
       \/ UNCHANGED <<here, place>>
    /\ at' = 0 /\ last' = "failed" /\ count' = [count EXCEPT !.cut = @ + 1, !.failed = 0]

\* A download fails and says so: what there is of it is removed.
DownloadFails ==
    /\ (Is("get") /\ here[File].got = "no") \/ Is("sum")
    /\ count.cut < MaxCuts
    /\ here' = [here EXCEPT ![File].got = "no"] /\ UNCHANGED place
    /\ at' = 0 /\ last' = "failed" /\ count' = [count EXCEPT !.cut = @ + 1, !.failed = 0]

Step == Get \/ GetSum \/ Verify \/ Extract \/ Clean \/ Move \/ Images
Next == Start \/ Step \/ Cut \/ DownloadFails

Spec == Init /\ [][Next]_vars

-----------------------------------------------------------------------------
TypeOK ==
    /\ \A f \in Files : here[f].got \in {"no", "part", "whole"} /\ place[f] \in {"no", "part", "whole"}
    /\ at \in 0 .. Len(Script)
    /\ last \in {"none", "done", "failed"} /\ (at # 0 => last = "none")

\* After a run that went through containerd, whose checksum is looked at, and
\* kubeadm, which is run, are whole, whatever happened before.
CheckedIsWhole == last = "done" => place["containerd"] = "whole" /\ place["kubeadm"] = "whole"

\* A run that went through leaves nothing that the next one would take for its
\* own download.
NothingIsLeft == last = "done" => \A f \in Files : here[f].got = "no"

\* Whatever interruptions left, two runs that fail for it clear it away.
TwoRunsClear == count.failed <= 2

=============================================================================

----------------------------- MODULE AliBalancer -----------------------------
(***************************************************************************)
(* infrastructure/alicloud.go: ManageSLB and its part of DeleteNetwork.    *)
(* A server group is named by the masters and the port it is for: one of   *)
(* another name is deleted with its listener, one of the name is taken to  *)
(* have its listener.                                                      *)
(***************************************************************************)
EXTENDS AccessRules

Init == InitAccess

ManageSLB ==
    /\ at = "balancer"
    /\ \/ /\ lbs # {}
          /\ record' = [record EXCEPT !.lb = IF @ = 0 THEN CHOOSE i \in lbs : TRUE ELSE @]
          /\ GoTo("clear", {}) /\ Calm /\ UNCHANGED lbs
       \/ /\ lbs = {} /\ record.lb = 0
          /\ lbs' = {FreshId(lbs)}
          /\ \/ record' = [record EXCEPT !.lb = FreshId(lbs)] /\ GoTo("clear", {}) /\ Calm
             \/ UNCHANGED record /\ Fails
       \/ lbs = {} /\ record.lb # 0 /\ UNCHANGED <<lbs, record>> /\ End("failed") /\ Calm
       \/ UNCHANGED <<lbs, record>> /\ Fails
    /\ UNCHANGED <<sgs, rules, backends>>

Current(b) == b.lb = record.lb /\ masters # {} /\ b.targets = masters /\ b.port \in Ports
Stale == {b \in backends : b.lb = record.lb /\ ~Current(b)}

(* Variant: a group is known by its port.                                   *)
ClearByPort ==
    /\ at = "clear"
    /\ UNCHANGED <<sgs, rules, lbs, record>>
    /\ \/ \E b \in {x \in Stale : x.port \notin Ports} :
             backends' = backends \ {b} /\ UNCHANGED <<saved, last, at, todo>> /\ Calm
       \/ /\ \A b \in Stale : b.port \in Ports
          /\ GoTo("forward", Ports \ {b.port : b \in backends}) /\ Calm /\ UNCHANGED backends

(* Its listener is deleted before a stale group.                            *)
Clear ==
    /\ at = "clear"
    /\ UNCHANGED <<sgs, rules, lbs, record>>
    /\ \/ \E b \in Stale :
             \/ backends' = backends \ {b} /\ UNCHANGED <<saved, last, at, todo>> /\ Calm
             \/ /\ backends' \in {backends, backends \ {b}, (backends \ {b}) \cup {[b EXCEPT !.listener = "none"]}}
                /\ Fails
       \/ /\ Stale = {} /\ UNCHANGED backends
          /\ GoTo("forward", IF masters = {} THEN {} ELSE Ports \ {b.port : b \in backends}) /\ Calm

NewBackend(port, listener) ==
    [port |-> port, targets |-> masters, lb |-> record.lb, vpc |-> vpc, listener |-> listener]

(* A group, then a listener, which is started at last.                      *)
Forward ==
    /\ at = "forward"
    /\ UNCHANGED <<sgs, rules, lbs, record>>
    /\ \/ \E port \in todo :
             \/ backends' = backends \cup {NewBackend(port, "running")} /\ GoTo("forward", todo \ {port}) /\ Calm
             \/ /\ backends' \in {backends} \cup {backends \cup {NewBackend(port, l)} : l \in {"none", "stopped", "running"}}
                /\ Fails
       \/ /\ todo = {} /\ UNCHANGED backends /\ Calm
          /\ IF stopping THEN GoTo("deleteBalancer", {}) ELSE End("done")

(* A balancer that is gone is only dropped from the record.                 *)
DeleteBalancer ==
    /\ at = "deleteBalancer"
    /\ LET rest == {b \in backends : b.lb # record.lb}
       IN  \/ /\ lbs' = lbs \ {record.lb} /\ backends' = rest
              /\ record' = [record EXCEPT !.lb = 0] /\ GoTo("deleteGroup", {}) /\ Calm
           \/ /\ UNCHANGED record /\ Fails
              /\ \/ lbs' = lbs \ {record.lb} /\ backends' = rest
                 \/ UNCHANGED <<lbs, backends>>
    /\ UNCHANGED <<sgs, rules>>

Next == AccessSteps \/ ManageSLB \/ Clear \/ Forward \/ DeleteBalancer

Spec == Init /\ [][Next]_vars

-----------------------------------------------------------------------------
(* As long as no call failed and the process lived, a pass that reports     *)
(* success has left a running listener to the masters on each public port.  *)
ReachableWhenDone == faults = 0 /\ crashes = 0 => PublicPortsUseSlb

(* Also after failures no port is forwarded to a machine that is not a      *)
(* master any more: a group of other masters loses its listener first.      *)
OnlyMastersServe ==
    last = "done" => \A b \in backends : b.lb = record.lb => b.targets = masters /\ b.port \in Ports

=============================================================================

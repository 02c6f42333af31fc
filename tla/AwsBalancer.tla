----------------------------- MODULE AwsBalancer -----------------------------
(***************************************************************************)
(* infrastructure/awscloud.go: ManageSLB and its part of DeleteNetwork.    *)
(* A target group is known to the balancer only as long as a listener      *)
(* forwards to it, and its name is that of its port alone.                 *)
(***************************************************************************)
EXTENDS AccessRules

Init == InitAccess

(* Target groups stay in the account without their balancer.                *)
Detached(b) == [b EXCEPT !.lb = 0, !.listener = "none"]
Without(lb) == {IF b.lb = lb THEN Detached(b) ELSE b : b \in backends}

(* A balancer that is found by its name is adopted, or deleted if it has    *)
(* none of the recorded zones.                                              *)
ManageSLB ==
    /\ at = "balancer"
    /\ \/ /\ lbs # {} /\ UNCHANGED <<lbs, backends>>
          /\ record' = [record EXCEPT !.lb = IF @ = 0 THEN CHOOSE i \in lbs : TRUE ELSE @]
          /\ GoTo("clear", {}) /\ Calm
       \/ /\ record.lb = 0 /\ Ids \ lbs # {}
          /\ lbs' = {FreshId(lbs)} /\ backends' = {IF b.lb \in lbs THEN Detached(b) ELSE b : b \in backends}
          /\ \/ record' = [record EXCEPT !.lb = FreshId(lbs)] /\ GoTo("clear", {}) /\ Calm
             \/ UNCHANGED record /\ Fails
       \/ lbs = {} /\ record.lb # 0 /\ UNCHANGED <<lbs, backends, record>> /\ End("failed") /\ Calm
       \/ UNCHANGED <<lbs, backends, record>> /\ Fails
    /\ UNCHANGED <<sgs, rules>>

Listening == {b \in backends : b.lb = record.lb}

(* Listeners of other ports are deleted; their target groups are no longer  *)
(* those of the balancer when these are listed.                             *)
Clear ==
    /\ at = "clear"
    /\ UNCHANGED <<sgs, rules, lbs, record>>
    /\ LET other == {b \in Listening : b.port \notin Ports}
       IN  \/ /\ backends' = (backends \ other) \cup {Detached(b) : b \in other}
              /\ GoTo("forward", Ports \ {b.port : b \in Listening}) /\ Calm
           \/ /\ \E gone \in SUBSET other : backends' = (backends \ gone) \cup {Detached(b) : b \in gone}
              /\ Fails

SameName(port) == {b \in backends : b.port = port}

(* A port without a target group at the balancer gets one: the cloud makes  *)
(* it or returns the one of that name, unless that is in another network.   *)
(* The masters are registered with it, which is refused when there is none. *)
Forward ==
    /\ at = "forward"
    /\ UNCHANGED <<sgs, rules, lbs, record>>
    /\ \/ \E port \in todo :
             LET old == IF SameName(port) # {} THEN CHOOSE b \in SameName(port) : TRUE
                        ELSE [port |-> port, targets |-> {}, lb |-> 0, vpc |-> vpc, listener |-> "none"]
                 empty == (backends \ SameName(port)) \cup {old}
                 full == (backends \ SameName(port)) \cup {[old EXCEPT !.targets = @ \cup masters]}
             IN  \/ /\ old.vpc = vpc /\ masters # {}
                    /\ backends' = full /\ GoTo("forward", todo \ {port}) /\ Calm
                 \/ old.vpc = vpc /\ masters = {} /\ backends' = empty /\ End("failed") /\ Calm
                 \/ old.vpc # vpc /\ UNCHANGED backends /\ End("failed") /\ Calm
                 \/ old.vpc = vpc /\ backends' \in {empty, full} /\ Fails
       \/ todo = {} /\ UNCHANGED backends /\ GoTo("listen", Ports \ {b.port : b \in Listening}) /\ Calm
       \/ todo # {} /\ UNCHANGED backends /\ Fails

Attach(port) ==
    LET b == CHOOSE x \in SameName(port) : TRUE
    IN  backends' = (backends \ {b}) \cup {[b EXCEPT !.lb = record.lb, !.listener = "running"]}

Listen ==
    /\ at = "listen"
    /\ UNCHANGED <<sgs, rules, lbs, record>>
    /\ \/ \E port \in todo :
             \/ Attach(port) /\ GoTo("listen", todo \ {port}) /\ Calm
             \/ (Attach(port) \/ UNCHANGED backends) /\ Fails
       \/ /\ todo = {} /\ UNCHANGED backends /\ Calm
          /\ IF stopping THEN GoTo("deleteBalancer", {}) ELSE End("done")

(* The listeners are deleted first, so no target group is listed after.     *)
DeleteBalancer ==
    /\ at = "deleteBalancer"
    /\ \/ /\ lbs' = lbs \ {record.lb} /\ backends' = Without(record.lb)
          /\ record' = [record EXCEPT !.lb = 0] /\ GoTo("deleteGroup", {}) /\ Calm
       \/ /\ UNCHANGED record /\ Fails
          /\ \/ lbs' = lbs \ {record.lb} /\ backends' = Without(record.lb)
             \/ /\ UNCHANGED lbs
                /\ \E gone \in SUBSET Listening :
                      backends' = (backends \ gone) \cup {Detached(b) : b \in gone}
    /\ UNCHANGED <<sgs, rules>>

Next == AccessSteps \/ ManageSLB \/ Clear \/ Forward \/ Listen \/ DeleteBalancer

Spec == Init /\ [][Next]_vars

-----------------------------------------------------------------------------
(* A cluster whose masters and rules stay the same is reachable after any   *)
(* success, whatever call failed and whenever the process died before.      *)
ReachableWhenDone == ~changed => PublicPortsUseSlb

(* After a success no port is open at the balancer that is not public.      *)
OnlyPublicPortsListen ==
    last = "done" => \A b \in backends : b.lb = record.lb /\ b.listener = "running" => b.port \in Ports

=============================================================================

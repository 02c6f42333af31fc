----------------------------- MODULE AccessRules -----------------------------
(***************************************************************************)
(* Who may reach the machines of a cloud cluster: the security group with  *)
(* one rule for each entry of Cluster.Securitys (ManageSecurityGroup), and *)
(* the load balancer that forwards each public port to the masters.  What  *)
(* both providers do alike is here, their balancers are in AliBalancer and *)
(* AwsBalancer.  A pass is one ManageNodeResource, for a stop followed by  *)
(* the deletion of the balancer and the group.                             *)
(*                                                                         *)
(* Abstracted: a rule stands for its protocol, range and port, and a public*)
(* rule has one port.                                                      *)
(***************************************************************************)
EXTENDS Naturals, FiniteSets

CONSTANTS
    Rules,      \* rules of security groups
    Public,     \* those whose Access is PUBLIC
    Releases,   \* what InitSecuritys asks for in the releases of the program
    Masters,    \* machines that may be masters
    Ids,        \* bound: ids of groups and balancers
    MaxPasses, MaxFaults, MaxCrashes, MaxStrays   \* bounds

VARIABLES
    sgs, rules,  \* the security groups of the cloud, and their rules
    lbs,         \* the balancers of the cloud
    backends,    \* what a balancer forwards a port to
    vpc,         \* number of the network: after a stop the next one is used
    record,      \* the group and the balancer in Cluster.CloudResources, 0 for none
    saved,       \* the record in the database
    wanted, masters,  \* Cluster.Securitys, and the machines of the masters
    at, stopping,     \* where the pass is, and whether it is that of a stop
    todo,        \* rules or ports that the pass still has to look at
    last,        \* how the last pass ended
    changed,     \* history: the masters or the rules were others in an earlier pass
    passes, faults, crashes, strays

cluster == <<wanted, masters, changed, stopping>>
counters == <<passes, faults, crashes, strays>>
vars == <<sgs, rules, lbs, backends, vpc, record, saved, cluster, at, todo, last, counters>>

Ports == wanted \cap Public
Backend == [port : Rules, targets : SUBSET Masters, lb : Ids \cup {0}, vpc : 1 .. MaxPasses + 1,
            listener : {"none", "stopped", "running"}]
NoRecord == [sg |-> 0, lb |-> 0]

InitAccess ==
    /\ sgs = {} /\ rules = [i \in Ids |-> {}] /\ lbs = {} /\ backends = {} /\ vpc = 1
    /\ record = NoRecord /\ saved = NoRecord
    /\ wanted = {} /\ masters = {} /\ changed = FALSE
    /\ at = "idle" /\ stopping = FALSE /\ todo = {} /\ last = "none"
    /\ passes = 0 /\ faults = 0 /\ crashes = 0 /\ strays = 0

Manage ==
    /\ at = "idle" /\ passes < MaxPasses
    /\ passes' = passes + 1 /\ at' = "group" /\ last' = "none" /\ todo' = {}
    /\ \E w \in Releases, m \in SUBSET Masters, s \in BOOLEAN :
          /\ wanted' = w /\ masters' = m /\ stopping' = s
          /\ changed' = (changed \/ (passes > 0 /\ <<w, m>> # <<wanted, masters>>))
    /\ UNCHANGED <<sgs, rules, lbs, backends, vpc, record, saved, faults, crashes, strays>>

(* The steps of a pass.                                                     *)
End(result) == at' = "idle" /\ todo' = {} /\ last' = result /\ saved' = record'
GoTo(place, rest) == at' = place /\ todo' = rest /\ UNCHANGED <<saved, last>>
Calm == UNCHANGED <<counters, cluster, vpc>>
Fails == /\ faults < MaxFaults /\ faults' = faults + 1 /\ End("failed")
         /\ UNCHANGED <<passes, crashes, strays, cluster, vpc>>

FreshId(used) == CHOOSE i \in Ids \ used : TRUE

(* A group that is found by its name in the network is the cluster's.       *)
AdoptGroup ==
    /\ sgs # {} /\ UNCHANGED sgs
    /\ record' = [record EXCEPT !.sg = IF @ \in sgs THEN @ ELSE CHOOSE i \in sgs : TRUE]
    /\ GoTo("revoke", {}) /\ Calm

(* Where none is found the record forgets its own, and one is made.         *)
CreateGroup ==
    /\ sgs = {} /\ sgs' = {FreshId(sgs)}
    /\ \/ record' = [record EXCEPT !.sg = FreshId(sgs)] /\ GoTo("revoke", {}) /\ Calm
       \/ record' = [record EXCEPT !.sg = 0] /\ Fails

ManageSecurityGroup ==
    /\ at = "group"
    /\ AdoptGroup \/ CreateGroup \/ (UNCHANGED <<sgs, record>> /\ Fails)
    /\ UNCHANGED <<rules, lbs, backends>>

Set(held) == rules' = [rules EXCEPT ![record.sg] = held]
Held == rules[record.sg]

(* A rule of the group and one of the cluster are compared as one string.   *)
Unwanted == Held \ wanted
Lacking == wanted \ Held

(* Rules that are not wanted are revoked, all or some of them if it fails.  *)
Revoke ==
    /\ at = "revoke"
    /\ UNCHANGED <<sgs, lbs, backends, record>>
    /\ \/ Set(Held \cap wanted) /\ GoTo("authorize", Lacking) /\ Calm
       \/ (\E kept \in SUBSET Unwanted : Set((Held \cap wanted) \cup kept)) /\ Fails

(* Each rule that was not held is authorized; the cloud refuses one that is.*)
Authorize ==
    /\ at = "authorize"
    /\ UNCHANGED <<sgs, lbs, backends, record>>
    /\ \/ \E r \in todo :
             \/ r \notin Held /\ Set(Held \cup {r}) /\ GoTo("authorize", todo \ {r}) /\ Calm
             \/ r \in Held /\ UNCHANGED rules /\ End("failed") /\ Calm
             \/ Set(Held \cup {r}) /\ Fails
       \/ todo = {} /\ UNCHANGED rules /\ GoTo("balancer", {}) /\ Calm
       \/ todo # {} /\ UNCHANGED rules /\ Fails

(* The rules go with the group.                                             *)
Gone(groups) ==
    /\ sgs' = sgs \ groups
    /\ rules' = [i \in Ids |-> IF i \in groups THEN {} ELSE rules[i]]

(* With a success the network goes too.                                     *)
DeleteGroup ==
    /\ at = "deleteGroup"
    /\ \/ /\ Gone({record.sg}) /\ record' = [record EXCEPT !.sg = 0]
          /\ at' = "idle" /\ todo' = {} /\ last' = "down" /\ saved' = record' /\ vpc' = vpc + 1
          /\ UNCHANGED <<lbs, backends, counters, cluster>>
       \/ /\ Gone({}) \/ Gone({record.sg})
          /\ UNCHANGED <<lbs, backends, record>> /\ Fails

(* The operator of the account adds a rule by hand.                         *)
Stray ==
    /\ at = "idle" /\ strays < MaxStrays
    /\ \E i \in sgs, r \in Rules : rules' = [rules EXCEPT ![i] = @ \cup {r}]
    /\ strays' = strays + 1 /\ last' = "none"
    /\ UNCHANGED <<sgs, lbs, backends, vpc, record, saved, cluster, at, todo, passes, faults, crashes>>

Crash ==
    /\ at # "idle" /\ crashes < MaxCrashes
    /\ crashes' = crashes + 1
    /\ record' = saved /\ at' = "idle" /\ todo' = {} /\ last' = "failed"
    /\ UNCHANGED <<sgs, rules, lbs, backends, vpc, saved, cluster, passes, faults, strays>>

AccessSteps == Manage \/ ManageSecurityGroup \/ Revoke \/ Authorize \/ DeleteGroup \/ Stray \/ Crash

-----------------------------------------------------------------------------
TypeOK ==
    /\ sgs \subseteq Ids /\ rules \in [Ids -> SUBSET Rules] /\ lbs \subseteq Ids
    /\ backends \subseteq Backend /\ vpc \in 1 .. MaxPasses + 1
    /\ record \in [sg : Ids \cup {0}, lb : Ids \cup {0}] /\ (at = "idle" => saved = record /\ todo = {})
    /\ at \in {"idle", "group", "revoke", "authorize", "balancer", "clear", "forward", "listen",
               "deleteBalancer", "deleteGroup"}

(* A pass that reports success has left exactly the rules of the cluster,   *)
(* whatever another release, a failed pass or the operator of the account   *)
(* left in the group before.                                                *)
RulesAreExact == last = "done" => rules[record.sg] = wanted

(* Failed calls, lost answers and crashes do not lead to a second group or  *)
(* balancer, and a stop that reports success leaves none.                   *)
MadeOnce ==
    /\ Cardinality(sgs) <= 1 /\ Cardinality(lbs) <= 1
    /\ last = "down" => sgs = {} /\ lbs = {}

(* Access PUBLIC means "use slb" (biz/cluster.go:473): when a pass reports  *)
(* success each public port has a listener that forwards to the masters.    *)
PublicPortsUseSlb ==
    last = "done" /\ masters # {} =>
        \A port \in Ports : \E b \in backends :
            b.port = port /\ b.lb \in lbs /\ b.listener = "running" /\ masters \subseteq b.targets

=============================================================================

---------------------------- MODULE CloudsProofs ----------------------------
(***************************************************************************)
(* Theorems about the access to a cloud cluster in MCClouds, for every set *)
(* of rules, releases, masters and ids and every number of passes, faults  *)
(* and crashes: over all of them the security group comes to have the      *)
(* rules of the cluster, and the balancer leads to its masters.            *)
(*                                                                         *)
(* Both providers share the invariant of the group, and of which group and *)
(* balancer are recorded.  What is behind the balancer is in an invariant  *)
(* of each.                                                                *)
(***************************************************************************)
EXTENDS MCClouds, FiniteSetTheorems, TLAPS

(* The variables of the two parts, by their names in AccessRules.          *)
sgs == s1
rules == s2
lbs == s3
backends == s4
vpc == s5
record == s6
saved == s7
wanted == s8
masters == s9
at == s10
stopping == s11
todo == s12
last == s13
changed == s14
passes == s15
faults == s16
crashes == s17
Named == <<sgs, rules, lbs, backends, vpc, record, saved, wanted, masters, at, stopping, todo, last,
           changed, passes, faults, crashes>>

Places == {"idle", "group", "revoke", "authorize", "balancer", "clear", "forward", "listen",
           "deleteBalancer", "deleteGroup"}
Records == [sg : GroupIds \cup {0}, lb : GroupIds \cup {0}]
Wanted == wanted \cap PublicRules

Shape ==
    /\ sgs \subseteq GroupIds /\ lbs \subseteq GroupIds
    /\ rules \in [GroupIds -> SUBSET PortRules]
    /\ record \in Records /\ saved \in Records
    /\ wanted \subseteq PortRules /\ masters \subseteq MasterNames
    /\ passes \in 0..MaxAccessPasses /\ faults \in Nat /\ crashes \in Nat
    /\ vpc \in 1..(passes + 1) /\ (at # "idle" => vpc <= passes)
    /\ at \in Places
    /\ at = "idle" => saved = record /\ todo = {}
    /\ at # "idle" => last = "none"

(* There is one group and one balancer, and after a stop none.             *)
One ==
    /\ \A i, j \in sgs : i = j
    /\ \A i, j \in lbs : i = j
    /\ last = "down" => sgs = {} /\ lbs = {}

(* From the group on the one there is is recorded; its rules lose what is  *)
(* not wanted, then get what they lack, and are exact from then on.        *)
Opened ==
    /\ at \notin {"idle", "group"} => sgs = {record.sg}
    /\ at = "authorize" => rules[record.sg] \subseteq wanted /\ todo = wanted \ rules[record.sg]
    /\ at \in {"balancer", "clear", "forward", "listen"} \/ last = "done" => rules[record.sg] = wanted

(* A recorded balancer is the one there is, if there is one.               *)
Recorded ==
    /\ record.lb # 0 => lbs \subseteq {record.lb}
    /\ saved.lb # 0 => lbs \subseteq {saved.lb}
    /\ at \in {"idle", "group", "revoke", "authorize", "balancer"} => saved.lb = record.lb
    /\ at \in {"clear", "forward", "listen", "deleteBalancer"} \/ last = "done" => lbs = {record.lb}
    /\ at = "deleteGroup" => lbs = {}

AccessInv == Shape /\ One /\ Opened /\ Recorded

(* Behind a balancer of Alibaba Cloud.                                     *)
AliBackends ==
    /\ backends \subseteq AliAccess!Backend
    /\ \A b \in backends : b.lb \in lbs
    /\ faults = 0 /\ crashes = 0 => \A b \in backends : b.listener = "running"
    /\ at = "forward" \/ last = "done" => \A b \in backends : b.targets = masters /\ b.port \in Wanted
    /\ at = "forward" => todo \subseteq Wanted /\ (masters = {} => todo = {})
    /\ at = "forward" /\ masters # {} => \A p \in Wanted : p \in todo \/ \E b \in backends : b.port = p
    /\ last = "done" /\ masters # {} => \A p \in Wanted : \E b \in backends : b.port = p
    /\ at # "listen"

(* At AWS: a port has one target group; a group that a listener forwards   *)
(* to is that of a balancer, and has the masters of a cluster that has had *)
(* no others.                                                              *)
AwsHeld ==
    /\ backends \subseteq AwsAccess!Backend
    /\ \A b, c \in backends : b.port = c.port => b = c
    /\ \A b \in backends : b.lb # 0 => b.lb \in lbs /\ b.listener = "running"
    /\ ~changed => \A b \in backends : b.lb # 0 => masters \subseteq b.targets
    /\ passes = 0 => backends = {}

(* What a pass has done behind the balancer of AWS.                        *)
AwsListeners ==
    /\ at \in {"forward", "listen"} \/ last = "done" => \A b \in backends : b.lb # 0 => b.port \in Wanted
    /\ at \in {"forward", "listen"} => todo \subseteq Wanted
    /\ at = "forward" =>
         \A p \in Wanted : p \in todo \/ \E b \in backends : b.port = p /\ (b.lb # 0 \/ masters \subseteq b.targets)
    /\ at = "listen" =>
         /\ \A p \in todo : \E b \in backends : b.port = p /\ masters \subseteq b.targets
         /\ \A p \in Wanted : p \in todo \/ \E b \in backends : b.port = p /\ b.lb # 0
    /\ last = "done" => \A p \in Wanted : \E b \in backends : b.port = p /\ b.lb # 0

AwsBackends == AwsHeld /\ AwsListeners

CloudsInv ==
    /\ part = "ali access" => AccessInv /\ AliBackends
    /\ part = "aws access" => AccessInv /\ AwsBackends

-----------------------------------------------------------------------------
USE DEF sgs, rules, lbs, backends, vpc, record, saved, wanted, masters, at, stopping, todo, last,
        changed, passes, faults, crashes

(* The two providers have the same steps around their balancers.           *)
LEMMA SharedSteps == AliAccess!AccessSteps <=> AwsAccess!AccessSteps
  BY Zenon DEF AliAccess!AccessSteps, AliAccess!Manage, AliAccess!ManageSecurityGroup, AliAccess!Revoke,
     AliAccess!Authorize, AliAccess!DeleteGroup, AliAccess!Stray, AliAccess!Crash, AliAccess!AdoptGroup,
     AliAccess!CreateGroup, AliAccess!Gone, AliAccess!Set, AliAccess!Held, AliAccess!Unwanted,
     AliAccess!Lacking, AliAccess!FreshId, AliAccess!End, AliAccess!GoTo, AliAccess!Calm,
     AliAccess!Fails, AliAccess!cluster, AliAccess!counters,
     AwsAccess!AccessSteps, AwsAccess!Manage, AwsAccess!ManageSecurityGroup, AwsAccess!Revoke,
     AwsAccess!Authorize, AwsAccess!DeleteGroup, AwsAccess!Stray, AwsAccess!Crash, AwsAccess!AdoptGroup,
     AwsAccess!CreateGroup, AwsAccess!Gone, AwsAccess!Set, AwsAccess!Held, AwsAccess!Unwanted,
     AwsAccess!Lacking, AwsAccess!FreshId, AwsAccess!End, AwsAccess!GoTo, AwsAccess!Calm,
     AwsAccess!Fails, AwsAccess!cluster, AwsAccess!counters

(* A new pass begins with whatever rules and masters the cluster has now.  *)
LEMMA ManageOpens ==
    ASSUME AccessAssumption, AccessInv, AliAccess!Manage
    PROVE  AccessInv'
<1> USE DEF AliAccess!Manage
<1>1. Shape'
  BY DEF AccessInv, Shape, AccessAssumption, Places, Records
<1>2. One'
  BY DEF AccessInv, One
<1>3. Opened'
  BY DEF AccessInv, Opened
<1>4. Recorded'
  BY DEF AccessInv, Recorded
<1> QED
  BY <1>1, <1>2, <1>3, <1>4 DEF AccessInv

(* A failed call ends the pass with what it recorded.                      *)
LEMMA GroupIsRecorded ==
    ASSUME AccessAssumption, AccessInv, AliAccess!ManageSecurityGroup
    PROVE  AccessInv'
<1> USE DEF AliAccess!ManageSecurityGroup, AliAccess!AdoptGroup, AliAccess!CreateGroup, AliAccess!End,
            AliAccess!GoTo, AliAccess!Calm, AliAccess!Fails, AliAccess!cluster, AliAccess!counters
<1>1. sgs = {} => AliAccess!FreshId(sgs) \in GroupIds
  BY DEF AliAccess!FreshId, AccessAssumption
<1>2. sgs # {} => (CHOOSE i \in sgs : TRUE) \in sgs
  OBVIOUS
<1>3. Shape'
  BY <1>1, <1>2 DEF AccessInv, Shape, AccessAssumption, Places, Records
<1>4. One'
  BY <1>1 DEF AccessInv, One, Shape
<1>5. Opened'
  BY <1>1, <1>2 DEF AccessInv, Opened, One, Shape, Records
<1>6. Recorded'
  BY DEF AccessInv, Recorded, Shape, Records
<1> QED
  BY <1>3, <1>4, <1>5, <1>6 DEF AccessInv

(* The rules lose what is not wanted, and what they lack is to do.         *)
LEMMA UnwantedAreRevoked ==
    ASSUME AccessAssumption, AccessInv, AliAccess!Revoke
    PROVE  AccessInv'
<1> USE DEF AliAccess!Revoke, AliAccess!Set, AliAccess!Held, AliAccess!Unwanted, AliAccess!Lacking,
            AliAccess!End, AliAccess!GoTo, AliAccess!Calm, AliAccess!Fails,
            AliAccess!cluster, AliAccess!counters
<1>1. Shape'
  BY DEF AccessInv, Shape, Places, Records
<1>2. One'
  BY DEF AccessInv, One, Shape
<1>3. Opened'
  BY DEF AccessInv, Opened, One, Shape, Records
<1>4. Recorded'
  BY DEF AccessInv, Recorded, Shape, Records
<1> QED
  BY <1>1, <1>2, <1>3, <1>4 DEF AccessInv

(* With a rule authorized there is one less to do.                         *)
LEMMA RulesAreAuthorized ==
    ASSUME AccessAssumption, AccessInv, AliAccess!Authorize
    PROVE  AccessInv'
<1> USE DEF AliAccess!Authorize, AliAccess!Set, AliAccess!Held,
            AliAccess!End, AliAccess!GoTo, AliAccess!Calm, AliAccess!Fails,
            AliAccess!cluster, AliAccess!counters
<1>0. /\ record.sg \in GroupIds /\ todo \subseteq wanted /\ wanted \subseteq PortRules
      /\ rules[record.sg] \subseteq wanted /\ todo = wanted \ rules[record.sg] /\ at = "authorize"
  BY DEF AccessInv, Shape, Opened
<1>a. \/ rules' = rules
      \/ \E r \in todo : rules' = [rules EXCEPT ![record.sg] = rules[record.sg] \cup {r}]
  BY DEF AliAccess!Authorize
<1>b. rules' \in [GroupIds -> SUBSET PortRules]
  BY <1>0, <1>a DEF AccessInv, Shape
<1>1. Shape'
  BY <1>0, <1>b DEF AccessInv, Shape, Places, Records
<1>2. One'
  BY DEF AccessInv, One, Shape
<1>3. Opened'
  <2>1. UNCHANGED <<sgs, record, wanted>> /\ sgs = {record.sg} /\ last = "none"
    BY <1>0 DEF AccessInv, Opened, Shape
  <2>2. CASE at' = "idle"
    BY <1>0, <2>1, <2>2 DEF Opened
  <2>3. CASE at' = "balancer"
    BY <1>0, <2>1, <2>3 DEF Opened
  <2>4. CASE at' = "authorize"
    <3>1. PICK r \in todo : rules' = [rules EXCEPT ![record.sg] = rules[record.sg] \cup {r}] /\ todo' = todo \ {r}
      BY <2>4
    <3>2. rules'[record.sg] = rules[record.sg] \cup {r}
      BY <1>0, <3>1 DEF AccessInv, Shape
    <3> QED
      BY <1>0, <2>1, <2>4, <3>1, <3>2 DEF Opened
  <2> QED
    BY <1>0, <2>2, <2>3, <2>4
<1>4. Recorded'
  BY DEF AccessInv, Recorded, Shape, Records
<1> QED
  BY <1>1, <1>2, <1>3, <1>4 DEF AccessInv

(* The group is deleted when no balancer is left.                          *)
LEMMA GroupIsDeleted ==
    ASSUME AccessAssumption, AccessInv, AliAccess!DeleteGroup
    PROVE  AccessInv'
<1> USE DEF AliAccess!DeleteGroup, AliAccess!Gone,
            AliAccess!End, AliAccess!GoTo, AliAccess!Calm, AliAccess!Fails,
            AliAccess!cluster, AliAccess!counters
<1>1. Shape'
  BY DEF AccessInv, Shape, Places, Records
<1>2. One'
  BY DEF AccessInv, One, Shape, Opened, Recorded
<1>3. Opened'
  BY DEF AccessInv, Opened, One, Shape, Records
<1>4. Recorded'
  BY DEF AccessInv, Recorded, Shape, Records
<1> QED
  BY <1>1, <1>2, <1>3, <1>4 DEF AccessInv

(* A rule that is added by hand ends the time that a success describes.    *)
LEMMA StraysAreSeen ==
    ASSUME AccessAssumption, AccessInv, AliAccess!Stray
    PROVE  AccessInv'
<1> USE DEF AliAccess!Stray, AliAccess!cluster
<1>1. Shape'
  BY DEF AccessInv, Shape, Places, Records
<1>2. One'
  BY DEF AccessInv, One, Shape
<1>3. Opened'
  BY DEF AccessInv, Opened, One, Shape, Records
<1>4. Recorded'
  BY DEF AccessInv, Recorded, Shape, Records
<1> QED
  BY <1>1, <1>2, <1>3, <1>4 DEF AccessInv

(* After a crash the saved record, which named no other balancer, is read. *)
LEMMA CrashReadsTheRecord ==
    ASSUME AccessAssumption, AccessInv, AliAccess!Crash
    PROVE  AccessInv'
<1> USE DEF AliAccess!Crash, AliAccess!cluster
<1>1. Shape'
  BY DEF AccessInv, Shape, Places, Records
<1>2. One'
  BY DEF AccessInv, One, Shape
<1>3. Opened'
  BY DEF AccessInv, Opened, One, Shape, Records
<1>4. Recorded'
  BY DEF AccessInv, Recorded, Shape, Records
<1> QED
  BY <1>1, <1>2, <1>3, <1>4 DEF AccessInv

LEMMA AccessIsKept ==
    ASSUME AccessAssumption, AccessInv, AliAccess!AccessSteps
    PROVE  AccessInv'
  BY ManageOpens, GroupIsRecorded, UnwantedAreRevoked, RulesAreAuthorized, GroupIsDeleted, StraysAreSeen,
     CrashReadsTheRecord DEF AliAccess!AccessSteps

(* The steps of a pass up to the balancer do nothing behind it, and no     *)
(* success is reported there.                                              *)
Quiet ==
    /\ UNCHANGED <<lbs, backends>>
    /\ at' \notin {"forward", "listen"} /\ last' # "done"
    /\ faults' = 0 /\ crashes' = 0 => faults = 0 /\ crashes = 0
    /\ passes' = 0 => passes = 0
    /\ ~changed' => ~changed /\ (passes = 0 \/ masters' = masters)

LEMMA SharedStepsAreQuiet ==
    ASSUME AccessInv, AliAccess!AccessSteps
    PROVE  Quiet
<1> USE DEF AliAccess!End, AliAccess!GoTo, AliAccess!Calm, AliAccess!Fails, AliAccess!cluster,
            AliAccess!counters
<1>1. CASE AliAccess!Manage
  <2>1. ~changed' => ~changed /\ ~(passes > 0 /\ <<wanted', masters'>> # <<wanted, masters>>)
    BY Zenon, <1>1 DEF AliAccess!Manage
  <2>2. /\ UNCHANGED <<lbs, backends, faults, crashes>> /\ passes' = passes + 1
        /\ passes \in Nat /\ at' = "group" /\ last' = "none"
    BY <1>1 DEF AliAccess!Manage, AccessInv, Shape
  <2>3. ~changed' => ~changed /\ (passes = 0 \/ masters' = masters)
    BY <2>1, <2>2
  <2> QED
    BY <2>2, <2>3 DEF Quiet
<1>2. CASE AliAccess!ManageSecurityGroup
  BY <1>2 DEF AliAccess!ManageSecurityGroup, AliAccess!AdoptGroup, AliAccess!CreateGroup, AccessInv, Shape, Quiet
<1>3. CASE AliAccess!Revoke
  BY <1>3 DEF AliAccess!Revoke, AccessInv, Shape, Quiet
<1>4. CASE AliAccess!Authorize
  <2>1. /\ UNCHANGED <<lbs, backends, passes, crashes, changed, masters>>
        /\ at' \in {"idle", "authorize", "balancer"} /\ last' \in {last, "failed"} /\ last = "none"
        /\ faults' \in {faults, faults + 1} /\ faults \in Nat
    BY <1>4 DEF AliAccess!Authorize, AccessInv, Shape
  <2> QED
    BY <2>1 DEF Quiet
<1>5. CASE AliAccess!DeleteGroup
  BY <1>5 DEF AliAccess!DeleteGroup, AccessInv, Shape, Quiet
<1>6. CASE AliAccess!Stray
  BY <1>6 DEF AliAccess!Stray, AccessInv, Shape, Quiet
<1>7. CASE AliAccess!Crash
  BY <1>7 DEF AliAccess!Crash, AccessInv, Shape, Quiet
<1> QED
  BY <1>1, <1>2, <1>3, <1>4, <1>5, <1>6, <1>7 DEF AliAccess!AccessSteps

LEMMA AliQuietSteps ==
    ASSUME AliBackends, Quiet
    PROVE  AliBackends'
<1>1. AliAccess!Backend' = AliAccess!Backend
  BY DEF AliAccess!Backend
<1> QED
  BY <1>1 DEF AliBackends, Quiet

LEMMA AwsQuietSteps ==
    ASSUME AwsBackends, Quiet
    PROVE  AwsBackends'
<1>1. AwsAccess!Backend' = AwsAccess!Backend
  BY DEF AwsAccess!Backend
<1> QED
  BY <1>1 DEF AwsBackends, AwsHeld, AwsListeners, Quiet

-----------------------------------------------------------------------------

(* Alibaba Cloud: the balancer there is is recorded, or one is made.       *)
LEMMA AliBalancerIsRecorded ==
    ASSUME AccessAssumption, AccessInv, AliBackends, AliAccess!ManageSLB
    PROVE  AccessInv' /\ AliBackends'
<1> USE DEF AliAccess!ManageSLB, AliAccess!End, AliAccess!GoTo, AliAccess!Calm, AliAccess!Fails,
            AliAccess!cluster, AliAccess!counters
<1>0. /\ lbs = {} => AliAccess!FreshId(lbs) \in GroupIds
      /\ lbs # {} => (CHOOSE i \in lbs : TRUE) \in lbs
  BY DEF AliAccess!FreshId, AccessAssumption
<1>1. Shape'
  BY <1>0 DEF AccessInv, Shape, Places, Records
<1>2. One'
  BY <1>0 DEF AccessInv, One, Shape
<1>3. Opened'
  BY DEF AccessInv, Opened, Shape, Records
<1>4. Recorded'
  BY <1>0 DEF AccessInv, Recorded, One, Shape, Records
<1>5. AliAccess!Backend' = AliAccess!Backend
  BY DEF AliAccess!Backend
<1>6. AliBackends'
  BY <1>0, <1>5 DEF AliBackends, AccessInv, Shape, Recorded
<1> QED
  BY <1>1, <1>2, <1>3, <1>4, <1>6 DEF AccessInv

(* What is left behind the balancer is for these masters and ports.        *)
LEMMA AliStaleAreCleared ==
    ASSUME AccessAssumption, AccessInv, AliBackends, AliAccess!Clear
    PROVE  AccessInv' /\ AliBackends'
<1> USE DEF AliAccess!Clear, AliAccess!Stale, AliAccess!Current, AliAccess!Ports, AliAccess!End, AliAccess!GoTo, AliAccess!Calm, AliAccess!Fails,
            AliAccess!cluster, AliAccess!counters
<1>1. Shape'
  BY DEF AccessInv, Shape, Places, Records
<1>2. One'
  BY DEF AccessInv, One, Shape
<1>3. Opened'
  BY DEF AccessInv, Opened, Shape, Records
<1>4. Recorded'
  BY DEF AccessInv, Recorded, One, Shape, Records
<1>5. AliAccess!Backend' = AliAccess!Backend
  BY DEF AliAccess!Backend
<1>6. AliBackends'
  <2>0. /\ at = "clear" /\ last = "none" /\ faults \in Nat /\ UNCHANGED <<lbs, wanted, masters, record>>
        /\ lbs = {record.lb} /\ crashes' = crashes
    BY DEF AccessInv, Shape, Recorded
  <2>1. CASE \E b \in AliAccess!Stale : backends' = backends \ {b} /\ UNCHANGED <<saved, last, at, todo>> /\ AliAccess!Calm
    BY <2>0, <2>1, <1>5 DEF AliBackends
  <2>2. CASE \E b \in AliAccess!Stale :
                /\ backends' \in {backends, backends \ {b}, (backends \ {b}) \cup {[b EXCEPT !.listener = "none"]}}
                /\ AliAccess!Fails
    <3>1. PICK b \in AliAccess!Stale :
                /\ backends' \in {backends, backends \ {b}, (backends \ {b}) \cup {[b EXCEPT !.listener = "none"]}}
                /\ AliAccess!Fails
      BY <2>2
    <3>2. DEFINE bare == [b EXCEPT !.listener = "none"]
    <3>3. bare \in AliAccess!Backend /\ bare.lb \in lbs
      BY DEF AliBackends, AliAccess!Backend
    <3>4. \A x \in backends' : x \in backends \/ x = bare
      BY <3>1
    <3>5. at' = "idle" /\ last' = "failed" /\ faults' # 0
      BY <3>1, <2>0
    <3> HIDE DEF bare
    <3> QED
      BY <3>3, <3>4, <3>5, <2>0, <1>5 DEF AliBackends
  <2>3. CASE /\ AliAccess!Stale = {} /\ UNCHANGED backends /\ AliAccess!Calm /\ at' = "forward" /\ last' = "none"
             /\ todo' = IF masters = {} THEN {} ELSE Wanted \ {b.port : b \in backends}
    <3>1. \A b \in backends : masters # {} /\ b.targets = masters /\ b.port \in Wanted
      BY <2>0, <2>3 DEF AliBackends, Wanted
    <3>2. \A p \in Wanted : masters # {} => p \in todo' \/ \E b \in backends : b.port = p
      BY <2>3
    <3>3. todo' \subseteq Wanted /\ (masters = {} => todo' = {})
      BY <2>3
    <3>4. Wanted' = Wanted
      BY <2>0 DEF Wanted
    <3> QED
      BY <2>0, <2>3, <3>1, <3>2, <3>3, <3>4, <1>5 DEF AliBackends
  <2> QED
    BY <2>0, <2>1, <2>2, <2>3 DEF Wanted
<1> QED
  BY <1>1, <1>2, <1>3, <1>4, <1>6 DEF AccessInv

(* A port that is forwarded is no longer to do.                            *)
LEMMA AliPortsAreForwarded ==
    ASSUME AccessAssumption, AccessInv, AliBackends, AliAccess!Forward
    PROVE  AccessInv' /\ AliBackends'
<1> USE DEF AliAccess!Forward, AliAccess!NewBackend, AliAccess!End, AliAccess!GoTo, AliAccess!Calm, AliAccess!Fails,
            AliAccess!cluster, AliAccess!counters
<1>1. Shape'
  BY DEF AccessInv, Shape, Places, Records
<1>2. One'
  BY DEF AccessInv, One, Shape
<1>3. Opened'
  BY DEF AccessInv, Opened, Shape, Records
<1>4. Recorded'
  BY DEF AccessInv, Recorded, One, Shape, Records
<1>5. AliAccess!Backend' = AliAccess!Backend
  BY DEF AliAccess!Backend
<1>6. AliBackends'
  <2>0. /\ at = "forward" /\ last = "none" /\ faults \in Nat /\ UNCHANGED <<lbs, wanted, masters, record>>
        /\ lbs = {record.lb} /\ crashes' = crashes /\ record.lb \in GroupIds /\ vpc \in 1 .. MaxAccessPasses + 1
        /\ wanted \subseteq PortRules /\ masters \subseteq MasterNames /\ Wanted' = Wanted
    BY DEF AccessInv, Shape, Recorded, Wanted
  <2>1. ASSUME NEW p \in Wanted, NEW l \in {"none", "stopped", "running"}
        PROVE  LET b == AliAccess!NewBackend(p, l)
               IN  b \in AliAccess!Backend /\ b.lb = record.lb /\ b.port = p /\ b.targets = masters /\ b.listener = l
    BY <2>0 DEF AliAccess!Backend, Wanted
  <2>2. CASE \E p \in todo : /\ backends' = backends \cup {AliAccess!NewBackend(p, "running")}
                              /\ at' = "forward" /\ todo' = todo \ {p} /\ UNCHANGED last /\ AliAccess!Calm
    <3>1. PICK p \in todo : /\ backends' = backends \cup {AliAccess!NewBackend(p, "running")}
                            /\ at' = "forward" /\ todo' = todo \ {p} /\ UNCHANGED last /\ AliAccess!Calm
      BY <2>2
    <3>2. p \in Wanted /\ todo \subseteq Wanted
      BY <2>0 DEF AliBackends
    <3> HIDE DEF AliAccess!NewBackend
    <3>3. PICK new : /\ backends' = backends \cup {new} /\ new \in AliAccess!Backend /\ new.lb = record.lb
                     /\ new.port = p /\ new.targets = masters /\ new.listener = "running"
      BY <2>1, <3>1, <3>2
    <3>4. \A q \in Wanted : q \in todo \/ (\E b \in backends : b.port = q)
                              => q \in todo' \/ \E b \in backends' : b.port = q
      BY <3>1, <3>3
    <3>5. masters # {}
      BY <2>0, <3>1 DEF AliBackends
    <3>6. /\ faults' = faults /\ last' = last /\ at' = "forward" /\ todo' = todo \ {p}
      BY <3>1
    <3>7. \A b \in backends' : b \in backends \/ b = new
      BY <3>3
    <3>8. backends' \subseteq AliAccess!Backend' /\ \A b \in backends' : b.lb \in lbs'
      BY <2>0, <3>3, <3>7, <1>5 DEF AliBackends
    <3>9. \A b \in backends' : b.targets = masters' /\ b.port \in Wanted'
      BY <2>0, <3>2, <3>3, <3>7 DEF AliBackends
    <3>10. \A q \in Wanted' : q \in todo' \/ \E b \in backends' : b.port = q
      BY <2>0, <3>4, <3>5 DEF AliBackends
    <3>11. faults' = 0 /\ crashes' = 0 => \A b \in backends' : b.listener = "running"
      BY <2>0, <3>3, <3>6, <3>7 DEF AliBackends
    <3>12. todo' \subseteq Wanted' /\ masters' # {} /\ last' # "done" /\ at' = "forward"
      BY <2>0, <3>2, <3>5, <3>6
    <3> QED
      BY <3>8, <3>9, <3>10, <3>11, <3>12 DEF AliBackends
  <2>3. CASE \E p \in todo :
                /\ backends' \in {backends} \cup {backends \cup {AliAccess!NewBackend(p, l)} : l \in {"none", "stopped", "running"}}
                /\ AliAccess!Fails
    <3>1. PICK p \in todo :
                /\ backends' \in {backends} \cup {backends \cup {AliAccess!NewBackend(p, l)} : l \in {"none", "stopped", "running"}}
                /\ AliAccess!Fails
      BY <2>3
    <3>2. p \in Wanted
      BY <2>0 DEF AliBackends
    <3>3. at' = "idle" /\ last' = "failed" /\ faults' # 0
      BY <3>1, <2>0
    <3> HIDE DEF AliAccess!NewBackend
    <3>4. \A x \in backends' : x \in backends \/ (x \in AliAccess!Backend /\ x.lb = record.lb)
      BY <2>1, <3>1, <3>2
    <3> QED
      BY <2>0, <3>3, <3>4, <1>5 DEF AliBackends
  <2>4. CASE /\ todo = {} /\ UNCHANGED backends /\ AliAccess!Calm
             /\ (at' = "deleteBalancer" /\ last' = last) \/ (at' = "idle" /\ last' = "done")
    BY <2>0, <2>4, <1>5 DEF AliBackends
  <2>5. stopping \/ ~stopping
    BY Zenon
  <2> QED
    BY <2>2, <2>3, <2>4, <2>5
<1> QED
  BY <1>1, <1>2, <1>3, <1>4, <1>6 DEF AccessInv

(* With the balancer goes what is behind it.                               *)
LEMMA AliBalancerIsDeleted ==
    ASSUME AccessAssumption, AccessInv, AliBackends, AliAccess!DeleteBalancer
    PROVE  AccessInv' /\ AliBackends'
<1> USE DEF AliAccess!DeleteBalancer, AliAccess!End, AliAccess!GoTo, AliAccess!Calm, AliAccess!Fails,
            AliAccess!cluster, AliAccess!counters
<1>1. Shape'
  BY DEF AccessInv, Shape, Places, Records
<1>2. One'
  BY DEF AccessInv, One, Shape
<1>3. Opened'
  BY DEF AccessInv, Opened, Shape, Records
<1>4. Recorded'
  BY DEF AccessInv, Recorded, One, Shape, Records
<1>5. AliAccess!Backend' = AliAccess!Backend
  BY DEF AliAccess!Backend
<1>6. AliBackends'
  BY <1>5 DEF AliBackends, AccessInv, Shape, Recorded
<1> QED
  BY <1>1, <1>2, <1>3, <1>4, <1>6 DEF AccessInv

-----------------------------------------------------------------------------

(* AWS: the balancer there is is recorded, or one is made.                 *)
LEMMA AwsBalancerIsRecorded ==
    ASSUME AccessAssumption, AccessInv, AwsAccess!ManageSLB
    PROVE  AccessInv'
<1> USE DEF AwsAccess!ManageSLB, AwsAccess!End, AwsAccess!GoTo, AwsAccess!Calm, AwsAccess!Fails,
            AwsAccess!cluster, AwsAccess!counters
<1>0. /\ GroupIds \ lbs # {} => AwsAccess!FreshId(lbs) \in GroupIds \ lbs
      /\ lbs # {} => (CHOOSE i \in lbs : TRUE) \in lbs
      /\ lbs = {} => GroupIds \ lbs # {}
  BY DEF AwsAccess!FreshId, AccessAssumption
<1>1. Shape'
  BY <1>0 DEF AccessInv, Shape, Places, Records
<1>2. One'
  BY <1>0 DEF AccessInv, One, Shape
<1>3. Opened'
  BY DEF AccessInv, Opened, Shape, Records
<1>4. Recorded'
  BY <1>0 DEF AccessInv, Recorded, One, Shape, Records
<1> QED
  BY <1>1, <1>2, <1>3, <1>4 DEF AccessInv

(* Nothing behind the balancer changes the group or the balancer.          *)
LEMMA AwsOthersAreCleared ==
    ASSUME AccessAssumption, AccessInv, AwsAccess!Clear
    PROVE  AccessInv'
<1> USE DEF AwsAccess!Clear, AwsAccess!End, AwsAccess!GoTo, AwsAccess!Calm, AwsAccess!Fails,
            AwsAccess!cluster, AwsAccess!counters
<1>1. Shape'
  BY DEF AccessInv, Shape, Places, Records
<1>2. One'
  BY DEF AccessInv, One, Shape
<1>3. Opened'
  BY DEF AccessInv, Opened, Shape, Records
<1>4. Recorded'
  BY DEF AccessInv, Recorded, One, Shape, Records
<1> QED
  BY <1>1, <1>2, <1>3, <1>4 DEF AccessInv

(* Nor does a target group that is made ...                                *)
LEMMA AwsPortsAreForwarded ==
    ASSUME AccessAssumption, AccessInv, AwsAccess!Forward
    PROVE  AccessInv'
<1> USE DEF AwsAccess!Forward, AwsAccess!End, AwsAccess!GoTo, AwsAccess!Calm, AwsAccess!Fails,
            AwsAccess!cluster, AwsAccess!counters
<1>0. /\ UNCHANGED <<sgs, rules, lbs, record, wanted, masters, vpc, passes, crashes>>
      /\ at = "forward" /\ faults' \in {faults, faults + 1}
      /\ \/ at' \in {"forward", "listen"} /\ UNCHANGED <<saved, last>>
         \/ at' = "idle" /\ todo' = {} /\ saved' = record /\ last' = "failed"
  OBVIOUS
<1> HIDE DEF AwsAccess!Forward
<1>1. Shape'
  BY <1>0 DEF AccessInv, Shape, Places, Records
<1>2. One'
  BY <1>0 DEF AccessInv, One, Shape
<1>3. Opened'
  BY <1>0 DEF AccessInv, Opened, Shape, Records
<1>4. Recorded'
  BY <1>0 DEF AccessInv, Recorded, One, Shape, Records
<1> QED
  BY <1>1, <1>2, <1>3, <1>4 DEF AccessInv

(* ... or gets its listener; a stop goes on to delete the balancer.        *)
LEMMA AwsPortsListen ==
    ASSUME AccessAssumption, AccessInv, AwsAccess!Listen
    PROVE  AccessInv'
<1> USE DEF AwsAccess!Listen, AwsAccess!End, AwsAccess!GoTo, AwsAccess!Calm, AwsAccess!Fails,
            AwsAccess!cluster, AwsAccess!counters
<1>1. Shape'
  BY DEF AccessInv, Shape, Places, Records
<1>2. One'
  BY DEF AccessInv, One, Shape
<1>3. Opened'
  BY DEF AccessInv, Opened, Shape, Records
<1>4. Recorded'
  BY DEF AccessInv, Recorded, One, Shape, Records
<1> QED
  BY <1>1, <1>2, <1>3, <1>4 DEF AccessInv

(* With the balancer gone none is recorded.                                *)
LEMMA AwsBalancerIsDeleted ==
    ASSUME AccessAssumption, AccessInv, AwsAccess!DeleteBalancer
    PROVE  AccessInv'
<1> USE DEF AwsAccess!DeleteBalancer, AwsAccess!End, AwsAccess!GoTo, AwsAccess!Calm, AwsAccess!Fails,
            AwsAccess!cluster, AwsAccess!counters
<1>1. Shape'
  BY DEF AccessInv, Shape, Places, Records
<1>2. One'
  BY DEF AccessInv, One, Shape
<1>3. Opened'
  BY DEF AccessInv, Opened, Shape, Records
<1>4. Recorded'
  BY DEF AccessInv, Recorded, One, Shape, Records
<1> QED
  BY <1>1, <1>2, <1>3, <1>4 DEF AccessInv

-----------------------------------------------------------------------------
(* Target groups that lose their listener stay, one for each port.         *)
WithDetached(gone) == (backends \ gone) \cup {AwsAccess!Detached(b) : b \in gone}

LEMMA DetachedStay ==
    ASSUME AwsHeld, NEW gone \in SUBSET backends
    PROVE  /\ WithDetached(gone) \subseteq AwsAccess!Backend
           /\ \A b, c \in WithDetached(gone) : b.port = c.port => b = c
           /\ \A b \in WithDetached(gone) : b.lb # 0 => b \in backends \ gone
           /\ \A b \in backends \ gone : b \in WithDetached(gone)
<1>1. ASSUME NEW b \in gone
      PROVE  LET d == AwsAccess!Detached(b)
             IN  d \in AwsAccess!Backend /\ d.port = b.port /\ d.lb = 0
  BY DEF AwsHeld, AwsAccess!Backend, AwsAccess!Detached
<1>2. \A x \in WithDetached(gone) : x \in backends \ gone \/ \E b \in gone : x = AwsAccess!Detached(b)
  BY DEF WithDetached
<1> HIDE DEF AwsAccess!Detached
<1>3. \A b, c \in WithDetached(gone) : b.port = c.port => b = c
  BY <1>1, <1>2 DEF AwsHeld
<1> QED
  BY <1>1, <1>2, <1>3 DEF AwsHeld, WithDetached

LEMMA DetachedByTest ==
    ASSUME NEW gone \in SUBSET backends
    PROVE  {IF b \in gone THEN AwsAccess!Detached(b) ELSE b : b \in backends} = WithDetached(gone)
  BY DEF WithDetached

(* A step within a pass that puts target groups of this kind behind the    *)
(* balancer.                                                               *)
LEMMA HeldAfter ==
    ASSUME AccessInv, AwsHeld, at # "idle", UNCHANGED <<passes, changed, masters>>,
           backends' \subseteq AwsAccess!Backend,
           \A b, c \in backends' : b.port = c.port => b = c,
           \A b \in backends' : b.lb # 0 =>
              b.lb \in lbs' /\ b.listener = "running" /\ (~changed => masters \subseteq b.targets)
    PROVE  AwsHeld'
<1>1. AwsAccess!Backend' = AwsAccess!Backend
  BY DEF AwsAccess!Backend
<1>2. passes # 0
  BY DEF AccessInv, Shape
<1>3. ~changed' => \A b \in backends' : b.lb # 0 => masters' \subseteq b.targets
  BY Zenon
<1> QED
  BY <1>1, <1>2, <1>3 DEF AwsHeld

(* A failure leaves no pass to say anything about.                         *)
LEMMA FailedSaysNothing == at' = "idle" /\ last' = "failed" => AwsListeners'
  BY DEF AwsListeners

(* Only a balancer that the next one replaces loses its target groups.     *)
LEMMA AwsMadeIsBare ==
    ASSUME AccessAssumption, AccessInv, AwsBackends, AwsAccess!ManageSLB
    PROVE  AwsBackends'
<1> USE DEF AwsAccess!End, AwsAccess!GoTo, AwsAccess!Calm, AwsAccess!Fails, AwsAccess!cluster,
            AwsAccess!counters
<1>1. DEFINE gone == {b \in backends : b.lb \in lbs}
<1>2. /\ at = "balancer" /\ UNCHANGED <<passes, changed, masters>>
      /\ \/ at' = "clear" /\ last' = last /\ last = "none"
         \/ at' = "idle" /\ last' = "failed"
      /\ \/ backends' = backends /\ lbs' = lbs
         \/ backends' = {IF b.lb \in lbs THEN AwsAccess!Detached(b) ELSE b : b \in backends}
  BY DEF AwsAccess!ManageSLB, AccessInv, Shape
<1>3. AwsListeners'
  BY <1>2 DEF AwsListeners
<1>4. CASE backends' = backends /\ lbs' = lbs
  BY <1>2, <1>3, <1>4, HeldAfter DEF AwsHeld, AwsBackends
<1>5. CASE backends' = {IF b.lb \in lbs THEN AwsAccess!Detached(b) ELSE b : b \in backends}
  <2>1. {IF b.lb \in lbs THEN AwsAccess!Detached(b) ELSE b : b \in backends}
          = {IF b \in gone THEN AwsAccess!Detached(b) ELSE b : b \in backends}
    OBVIOUS
  <2>2. backends' = WithDetached(gone)
    BY <1>5, <2>1, DetachedByTest
  <2>3. /\ backends' \subseteq AwsAccess!Backend
        /\ \A b, c \in backends' : b.port = c.port => b = c
        /\ \A b \in backends' : b.lb # 0 => b \in backends \ gone
    BY <2>2, DetachedStay DEF AwsBackends
  <2>4. \A b \in backends' : b.lb = 0
    BY <2>3 DEF AwsBackends, AwsHeld
  <2>5. AwsHeld'
    BY <1>2, <2>3, <2>4, HeldAfter DEF AwsBackends
  <2> QED
    BY <1>3, <2>5 DEF AwsBackends
<1> QED
  BY <1>2, <1>4, <1>5

(* The listeners of other ports are deleted, all or some if it fails.      *)
LEMMA AwsOtherPortsAreDetached ==
    ASSUME AccessAssumption, AccessInv, AwsBackends, AwsAccess!Clear
    PROVE  AwsBackends'
<1>1. DEFINE other == {b \in AwsAccess!Listening : b.port \notin AwsAccess!Ports}
<1>2. /\ at = "clear" /\ last = "none" /\ UNCHANGED <<passes, changed, masters, wanted, lbs, record>>
      /\ lbs = {record.lb} /\ record.lb # 0
  BY DEF AwsAccess!Clear, AwsAccess!Calm, AwsAccess!Fails, AwsAccess!cluster, AwsAccess!counters,
         AccessInv, Shape, Recorded, AccessAssumption
<1>3. PICK gone \in SUBSET other :
         /\ backends' = WithDetached(gone)
         /\ \/ at' = "idle" /\ last' = "failed"
            \/ /\ gone = other /\ at' = "forward" /\ last' = last
               /\ todo' = AwsAccess!Ports \ {b.port : b \in AwsAccess!Listening}
  BY DEF AwsAccess!Clear, AwsAccess!GoTo, AwsAccess!Fails, AwsAccess!End, WithDetached
<1>4. gone \in SUBSET backends
  BY DEF AwsAccess!Listening
<1>5. /\ backends' \subseteq AwsAccess!Backend
      /\ \A b, c \in backends' : b.port = c.port => b = c
      /\ \A b \in backends' : b.lb # 0 => b \in backends \ gone
      /\ \A b \in backends \ gone : b \in backends'
  BY <1>3, <1>4, DetachedStay DEF AwsBackends
<1>6. \A b \in backends' : b.lb # 0 => b.lb \in lbs' /\ b.listener = "running" /\ (~changed => masters \subseteq b.targets)
  BY <1>2, <1>5 DEF AwsBackends, AwsHeld
<1>7. AwsHeld'
  BY <1>2, <1>5, <1>6, HeldAfter DEF AwsBackends
<1>8. CASE at' = "idle" /\ last' = "failed"
  BY <1>7, <1>8, FailedSaysNothing DEF AwsBackends
<1>9. CASE /\ gone = other /\ at' = "forward" /\ last' = last
           /\ todo' = AwsAccess!Ports \ {b.port : b \in AwsAccess!Listening}
  <2>1. Wanted' = Wanted /\ AwsAccess!Ports = Wanted /\ todo' \subseteq Wanted'
    BY <1>2, <1>9 DEF Wanted, AwsAccess!Ports
  <2>2. \A b \in backends' : b.lb # 0 => b.port \in Wanted'
    BY <1>2, <1>5, <1>9, <2>1 DEF AwsBackends, AwsHeld, AwsAccess!Listening
  <2>3. ASSUME NEW p \in Wanted, p \notin todo'
        PROVE  \E b \in backends' : b.port = p /\ b.lb # 0
    <3>1. PICK b \in AwsAccess!Listening : b.port = p
      BY <1>9, <2>1, <2>3
    <3>2. b \in backends \ gone /\ b.lb = record.lb
      BY <1>3, <2>1, <3>1 DEF AwsAccess!Listening
    <3> QED
      BY <1>2, <1>5, <3>1, <3>2
  <2>4. AwsListeners'
    BY <1>2, <1>9, <2>1, <2>2, <2>3 DEF AwsListeners
  <2> QED
    BY <1>7, <2>4 DEF AwsBackends
<1> QED
  BY <1>3, <1>8, <1>9

(* The target group of a port as it is found or made.                      *)
Old(p) == IF AwsAccess!SameName(p) # {} THEN CHOOSE b \in AwsAccess!SameName(p) : TRUE
          ELSE [port |-> p, targets |-> {}, lb |-> 0, vpc |-> vpc, listener |-> "none"]
Full(p) == [Old(p) EXCEPT !.targets = @ \cup masters]
Placed(p, b) == (backends \ AwsAccess!SameName(p)) \cup {b}

LEMMA OldIsOfThePort ==
    ASSUME AccessInv, AwsHeld, NEW p \in Wanted
    PROVE  /\ Old(p) \in AwsAccess!Backend /\ Old(p).port = p
           /\ Old(p).lb # 0 => Old(p) \in backends
<1>1. CASE AwsAccess!SameName(p) # {}
  BY <1>1 DEF Old, AwsAccess!SameName, AwsHeld
<1>2. CASE AwsAccess!SameName(p) = {}
  <2>1. vpc \in 1 .. MaxAccessPasses + 1 /\ p \in PortRules
    BY AccessAssumption DEF AccessAssumption, AccessInv, Shape, Wanted
  <2>2. Old(p) = [port |-> p, targets |-> {}, lb |-> 0, vpc |-> vpc, listener |-> "none"]
    BY <1>2 DEF Old
  <2> QED
    BY <2>1, <2>2 DEF AwsAccess!Backend
<1> QED
  BY <1>1, <1>2

LEMMA FullHasTheMasters ==
    ASSUME AccessInv, AwsHeld, NEW p \in Wanted
    PROVE  /\ Full(p) \in AwsAccess!Backend /\ Full(p).port = p /\ Full(p).lb = Old(p).lb
           /\ Full(p).listener = Old(p).listener /\ Full(p).targets = Old(p).targets \cup masters
<1>1. Old(p) \in AwsAccess!Backend /\ Old(p).port = p /\ masters \subseteq MasterNames
  BY OldIsOfThePort DEF AccessInv, Shape
<1> HIDE DEF Old
<1> QED
  BY <1>1 DEF Full, AwsAccess!Backend

LEMMA AwsGroupsAreFilled ==
    ASSUME AccessAssumption, AccessInv, AwsBackends, AwsAccess!Forward
    PROVE  AwsBackends'
<1>0. /\ at = "forward" /\ last = "none" /\ UNCHANGED <<passes, changed, masters, wanted, lbs, record>>
      /\ lbs = {record.lb} /\ record.lb # 0 /\ todo \subseteq Wanted /\ Wanted' = Wanted
  BY DEF AwsAccess!Forward, AwsAccess!Calm, AwsAccess!Fails, AwsAccess!cluster, AwsAccess!counters,
         AccessInv, Shape, Recorded, AccessAssumption, AwsBackends, AwsListeners, Wanted
<1>1. \/ \E p \in todo : \/ /\ backends' \in {Placed(p, Old(p)), Placed(p, Full(p))}
                            /\ at' = "idle" /\ last' = "failed"
                         \/ /\ backends' = Placed(p, Full(p)) /\ todo' = todo \ {p}
                            /\ at' = "forward" /\ last' = last
      \/ backends' = backends /\ at' = "idle" /\ last' = "failed"
      \/ /\ todo = {} /\ backends' = backends /\ at' = "listen" /\ last' = last
         /\ todo' = AwsAccess!Ports \ {b.port : b \in AwsAccess!Listening}
  BY DEF AwsAccess!Forward, AwsAccess!GoTo, AwsAccess!Fails, AwsAccess!End, Old, Full, Placed
<1>2. ASSUME NEW p \in Wanted, NEW new \in {Old(p), Full(p)}, backends' = Placed(p, new)
      PROVE  /\ AwsHeld' /\ new.port = p
             /\ \A b \in backends' : b = new \/ (b \in backends /\ b.port # p)
             /\ \A b \in backends : b.port # p => b \in backends'
             /\ new \in backends'
  <2>1. /\ new \in AwsAccess!Backend /\ new.port = p /\ new.lb = Old(p).lb
        /\ new.listener = Old(p).listener /\ Old(p).targets \subseteq new.targets
    BY OldIsOfThePort, FullHasTheMasters DEF AwsBackends
  <2>2. /\ \A b \in backends' : b = new \/ (b \in backends /\ b.port # p)
        /\ \A b \in backends : b.port # p => b \in backends'
        /\ new \in backends'
    BY <1>2 DEF Placed, AwsAccess!SameName
  <2>3. backends' \subseteq AwsAccess!Backend
    BY <2>1, <2>2 DEF AwsBackends, AwsHeld
  <2>4. \A b, c \in backends' : b.port = c.port => b = c
    BY <2>1, <2>2 DEF AwsBackends, AwsHeld
  <2>5. Old(p).lb # 0 => Old(p) \in backends
    BY OldIsOfThePort DEF AwsBackends
  <2>6. \A b \in backends' : b.lb # 0 => b.lb \in lbs' /\ b.listener = "running" /\ (~changed => masters \subseteq b.targets)
    BY <1>0, <2>1, <2>2, <2>5 DEF AwsBackends, AwsHeld
  <2>7. AwsHeld'
    BY <1>0, <2>3, <2>4, <2>6, HeldAfter DEF AwsBackends
  <2> QED
    BY <2>1, <2>2, <2>7
<1>3. ASSUME backends' = backends
      PROVE  AwsHeld'
  BY <1>0, <1>3, HeldAfter DEF AwsBackends, AwsHeld
<1>4. CASE \E p \in todo : /\ backends' \in {Placed(p, Old(p)), Placed(p, Full(p))}
                           /\ at' = "idle" /\ last' = "failed"
  BY <1>0, <1>2, <1>4, FailedSaysNothing DEF AwsBackends
<1>5. CASE \E p \in todo : /\ backends' = Placed(p, Full(p)) /\ todo' = todo \ {p}
                           /\ at' = "forward" /\ last' = last
  <2>1. PICK p \in todo : /\ backends' = Placed(p, Full(p)) /\ todo' = todo \ {p}
                          /\ at' = "forward" /\ last' = last
    BY <1>5
  <2>2. /\ AwsHeld' /\ Full(p).port = p /\ Full(p) \in backends'
        /\ \A b \in backends' : b = Full(p) \/ (b \in backends /\ b.port # p)
        /\ \A b \in backends : b.port # p => b \in backends'
    BY <1>0, <1>2, <2>1
  <2>3. p \in Wanted /\ masters \subseteq Full(p).targets
    BY <1>0, FullHasTheMasters DEF AwsBackends
  <2>4. \A b \in backends' : b.lb # 0 => b.port \in Wanted
    BY <1>0, <2>2, <2>3 DEF AwsBackends, AwsListeners
  <2>5. ASSUME NEW q \in Wanted
        PROVE  q \in todo' \/ \E b \in backends' : b.port = q /\ (b.lb # 0 \/ masters \subseteq b.targets)
    <3>1. CASE q = p
      BY <2>2, <2>3, <3>1
    <3>2. CASE q # p
      BY <1>0, <2>1, <2>2, <3>2 DEF AwsBackends, AwsListeners
    <3> QED
      BY <3>1, <3>2
  <2>6. AwsListeners'
    BY <1>0, <2>1, <2>4, <2>5 DEF AwsListeners
  <2> QED
    BY <2>2, <2>6 DEF AwsBackends
<1>6. CASE backends' = backends /\ at' = "idle" /\ last' = "failed"
  BY <1>3, <1>6, FailedSaysNothing DEF AwsBackends
<1>7. CASE /\ todo = {} /\ backends' = backends /\ at' = "listen" /\ last' = last
           /\ todo' = AwsAccess!Ports \ {b.port : b \in AwsAccess!Listening}
  <2>1. todo' = Wanted \ {b.port : b \in AwsAccess!Listening}
    BY <1>7 DEF Wanted, AwsAccess!Ports
  <2>2. \A b \in backends : b.lb # 0 => b \in AwsAccess!Listening
    BY <1>0 DEF AwsBackends, AwsHeld, AwsAccess!Listening
  <2>3. \A p \in todo' : \E b \in backends' : b.port = p /\ masters \subseteq b.targets
    BY <1>0, <1>7, <2>1, <2>2 DEF AwsBackends, AwsListeners
  <2>4. \A p \in Wanted : p \in todo' \/ \E b \in backends' : b.port = p /\ b.lb # 0
    BY <1>0, <1>7, <2>1 DEF AwsAccess!Listening
  <2>5. \A b \in backends' : b.lb # 0 => b.port \in Wanted
    BY <1>0, <1>7 DEF AwsBackends, AwsListeners
  <2>6. AwsListeners'
    BY <1>0, <1>7, <2>1, <2>3, <2>4, <2>5 DEF AwsListeners
  <2> QED
    BY <1>3, <1>7, <2>6 DEF AwsBackends
<1> QED
  BY <1>1, <1>4, <1>5, <1>6, <1>7

(* A listener forwards a port to its target group.                         *)
Attached(b) == [b EXCEPT !.lb = record.lb, !.listener = "running"]

LEMMA AwsGroupsGetListeners ==
    ASSUME AccessAssumption, AccessInv, AwsBackends, AwsAccess!Listen
    PROVE  AwsBackends'
<1>0. /\ at = "listen" /\ last = "none" /\ UNCHANGED <<passes, changed, masters, wanted, lbs, record>>
      /\ lbs = {record.lb} /\ record.lb # 0 /\ todo \subseteq Wanted /\ Wanted' = Wanted
      /\ record.lb \in GroupIds
  BY DEF AwsAccess!Listen, AwsAccess!Calm, AwsAccess!Fails, AwsAccess!cluster, AwsAccess!counters,
         AccessInv, Shape, Recorded, AccessAssumption, AwsBackends, AwsListeners, Wanted
<1>1. \/ \E p \in todo : \/ AwsAccess!Attach(p) /\ at' = "listen" /\ last' = last /\ todo' = todo \ {p}
                         \/ /\ AwsAccess!Attach(p) \/ backends' = backends
                            /\ at' = "idle" /\ last' = "failed"
      \/ /\ todo = {} /\ backends' = backends
         /\ \/ at' = "deleteBalancer" /\ last' = last
            \/ at' = "idle" /\ last' = "done"
  <2>1. stopping \/ ~stopping
    BY Zenon
  <2> HIDE DEF AwsAccess!Attach
  <2> QED
    BY <2>1 DEF AwsAccess!Listen, AwsAccess!GoTo, AwsAccess!Fails, AwsAccess!End
<1>2. ASSUME NEW p \in todo, AwsAccess!Attach(p)
      PROVE  /\ AwsHeld'
             /\ \A b \in backends' : b.lb # 0 => b.port \in Wanted
             /\ \E b \in backends' : b.port = p /\ b.lb # 0
             /\ \A b \in backends : b.port # p => b \in backends'
  <2>1. PICK old \in backends : /\ old.port = p /\ masters \subseteq old.targets
                                /\ backends' = (backends \ {old}) \cup {Attached(old)}
    <3>1. PICK x \in backends : x.port = p /\ masters \subseteq x.targets
      BY <1>0 DEF AwsBackends, AwsListeners
    <3>2. DEFINE y == CHOOSE b \in AwsAccess!SameName(p) : TRUE
    <3>3. y \in backends /\ y.port = p
      BY <3>1 DEF AwsAccess!SameName
    <3>4. y = x
      BY <3>1, <3>3 DEF AwsBackends, AwsHeld
    <3>5. backends' = (backends \ {y}) \cup {Attached(y)}
      BY <1>2 DEF AwsAccess!Attach, Attached
    <3> QED
      BY <3>1, <3>4, <3>5
  <2>2. old \in AwsAccess!Backend /\ p \in Wanted
    BY <1>0 DEF AwsBackends, AwsHeld
  <2>3. /\ Attached(old) \in AwsAccess!Backend /\ Attached(old).port = p /\ Attached(old).lb = record.lb
        /\ Attached(old).listener = "running" /\ Attached(old).targets = old.targets
    BY <1>0, <2>1, <2>2 DEF AwsAccess!Backend, Attached
  <2> HIDE DEF Attached
  <2>4. backends' \subseteq AwsAccess!Backend
    BY <2>1, <2>3 DEF AwsBackends, AwsHeld
  <2>5. \A b, c \in backends' : b.port = c.port => b = c
    BY <2>1, <2>3 DEF AwsBackends, AwsHeld
  <2>6. \A b \in backends' : b.lb # 0 => b.lb \in lbs' /\ b.listener = "running" /\ (~changed => masters \subseteq b.targets)
    BY <1>0, <2>1, <2>3 DEF AwsBackends, AwsHeld
  <2>7. AwsHeld'
    BY <1>0, <2>4, <2>5, <2>6, HeldAfter DEF AwsBackends
  <2>8. \A b \in backends' : b.lb # 0 => b.port \in Wanted
    BY <1>0, <2>1, <2>2, <2>3 DEF AwsBackends, AwsListeners
  <2>9. \A b \in backends : b.port # p => b \in backends'
    BY <2>1
  <2>10. \E b \in backends' : b.port = p /\ b.lb # 0
    BY <1>0, <2>1, <2>3
  <2> QED
    BY <2>7, <2>8, <2>9, <2>10
<1>3. ASSUME backends' = backends
      PROVE  AwsHeld'
  BY <1>0, <1>3, HeldAfter DEF AwsBackends, AwsHeld
<1> HIDE DEF AwsAccess!Attach
<1>4. CASE \E p \in todo : AwsAccess!Attach(p) /\ at' = "listen" /\ last' = last /\ todo' = todo \ {p}
  <2>1. PICK p \in todo : AwsAccess!Attach(p) /\ at' = "listen" /\ last' = last /\ todo' = todo \ {p}
    BY <1>4
  <2>2. /\ AwsHeld'
        /\ \A b \in backends' : b.lb # 0 => b.port \in Wanted
        /\ \E b \in backends' : b.port = p /\ b.lb # 0
        /\ \A b \in backends : b.port # p => b \in backends'
    BY <1>2, <2>1
  <2>3. \A q \in todo' : \E b \in backends' : b.port = q /\ masters \subseteq b.targets
    BY <1>0, <2>1, <2>2 DEF AwsBackends, AwsListeners
  <2>4. ASSUME NEW q \in Wanted
        PROVE  q \in todo' \/ \E b \in backends' : b.port = q /\ b.lb # 0
    <3>1. CASE q = p
      BY <2>2, <3>1
    <3>2. CASE q # p
      BY <1>0, <2>1, <2>2, <3>2 DEF AwsBackends, AwsListeners
    <3> QED
      BY <3>1, <3>2
  <2>5. AwsListeners'
    BY <1>0, <2>1, <2>2, <2>3, <2>4 DEF AwsListeners
  <2> QED
    BY <2>2, <2>5 DEF AwsBackends
<1>5. CASE \E p \in todo : (AwsAccess!Attach(p) \/ backends' = backends) /\ at' = "idle" /\ last' = "failed"
  BY <1>2, <1>3, <1>5, FailedSaysNothing DEF AwsBackends
<1>6. CASE /\ todo = {} /\ backends' = backends
           /\ \/ at' = "deleteBalancer" /\ last' = last
              \/ at' = "idle" /\ last' = "done"
  <2>1. \A p \in Wanted : \E b \in backends' : b.port = p /\ b.lb # 0
    BY <1>0, <1>6 DEF AwsBackends, AwsListeners
  <2>2. \A b \in backends' : b.lb # 0 => b.port \in Wanted
    BY <1>0, <1>6 DEF AwsBackends, AwsListeners
  <2>3. AwsListeners'
    BY <1>0, <1>6, <2>1, <2>2 DEF AwsListeners
  <2> QED
    BY <1>3, <1>6, <2>3 DEF AwsBackends
<1> QED
  BY <1>1, <1>4, <1>5, <1>6

(* The target groups of a deleted balancer stay without it.                *)
LEMMA AwsGroupsOutliveTheBalancer ==
    ASSUME AccessAssumption, AccessInv, AwsBackends, AwsAccess!DeleteBalancer
    PROVE  AwsBackends'
<1>1. DEFINE all == {b \in backends : b.lb = record.lb}
<1>2. /\ at = "deleteBalancer" /\ last = "none" /\ UNCHANGED <<passes, changed, masters>>
      /\ lbs = {record.lb} /\ record.lb # 0 /\ at' \in {"idle", "deleteGroup"} /\ last' # "done"
  BY DEF AwsAccess!DeleteBalancer, AwsAccess!Calm, AwsAccess!Fails, AwsAccess!cluster, AwsAccess!counters,
         AwsAccess!End, AwsAccess!GoTo, AccessInv, Shape, Recorded, AccessAssumption
<1>3. \/ lbs' = lbs \ {record.lb}
         /\ backends' = {IF b.lb = record.lb THEN AwsAccess!Detached(b) ELSE b : b \in backends}
      \/ lbs' = lbs /\ \E gone \in SUBSET all : backends' = WithDetached(gone)
  BY DEF AwsAccess!DeleteBalancer, AwsAccess!Without, AwsAccess!Listening, WithDetached
<1>4. PICK gone \in SUBSET all :
         backends' = WithDetached(gone) /\ (lbs' = lbs \/ gone = all)
  <2>1. {IF b.lb = record.lb THEN AwsAccess!Detached(b) ELSE b : b \in backends}
          = {IF b \in all THEN AwsAccess!Detached(b) ELSE b : b \in backends}
    OBVIOUS
  <2>2. {IF b \in all THEN AwsAccess!Detached(b) ELSE b : b \in backends} = WithDetached(all)
    BY DetachedByTest
  <2> QED
    BY <1>3, <2>1, <2>2
<1>5. /\ backends' \subseteq AwsAccess!Backend
      /\ \A b, c \in backends' : b.port = c.port => b = c
      /\ \A b \in backends' : b.lb # 0 => b \in backends \ gone
  BY <1>4, DetachedStay DEF AwsBackends
<1>6. \A b \in backends' : b.lb # 0 => b.lb \in lbs' /\ b.listener = "running" /\ (~changed => masters \subseteq b.targets)
  BY <1>2, <1>4, <1>5 DEF AwsBackends, AwsHeld
<1>7. AwsHeld'
  BY <1>2, <1>5, <1>6, HeldAfter DEF AwsBackends
<1>8. AwsListeners'
  BY <1>2 DEF AwsListeners
<1> QED
  BY <1>7, <1>8 DEF AwsBackends

-----------------------------------------------------------------------------
(* The invariant holds of both parts, whose variables the other parts use  *)
(* for what is theirs.                                                     *)
LEMMA AliStep ==
    ASSUME AccessAssumption, AccessInv, AliBackends, AliAccess!Next
    PROVE  AccessInv' /\ AliBackends'
<1>1. CASE AliAccess!AccessSteps
  BY <1>1, AccessIsKept, SharedStepsAreQuiet, AliQuietSteps
<1> QED
  BY <1>1, AliBalancerIsRecorded, AliStaleAreCleared, AliPortsAreForwarded, AliBalancerIsDeleted
     DEF AliAccess!Next

LEMMA AwsStep ==
    ASSUME AccessAssumption, AccessInv, AwsBackends, AwsAccess!Next
    PROVE  AccessInv' /\ AwsBackends'
<1>1. CASE AwsAccess!AccessSteps
  BY <1>1, SharedSteps, AccessIsKept, SharedStepsAreQuiet, AwsQuietSteps
<1>2. CASE AwsAccess!ManageSLB
  BY <1>2, AwsBalancerIsRecorded, AwsMadeIsBare
<1>3. CASE AwsAccess!Clear
  BY <1>3, AwsOthersAreCleared, AwsOtherPortsAreDetached
<1>4. CASE AwsAccess!Forward
  BY <1>4, AwsPortsAreForwarded, AwsGroupsAreFilled
<1>5. CASE AwsAccess!Listen
  BY <1>5, AwsPortsListen, AwsGroupsGetListeners
<1>6. CASE AwsAccess!DeleteBalancer
  BY <1>6, AwsBalancerIsDeleted, AwsGroupsOutliveTheBalancer
<1> QED
  BY <1>1, <1>2, <1>3, <1>4, <1>5, <1>6 DEF AwsAccess!Next

LEMMA AccessStarts == CloudsInit => CloudsInv
<1>1. ASSUME AliAccess!Init
      PROVE  AccessInv /\ AliBackends
  <2> USE AccessAssumption DEF AccessAssumption
  <2>1. Shape
    BY <1>1 DEF AliAccess!Init, AliAccess!InitAccess, AliAccess!NoRecord, Shape, Places, Records
  <2>2. One /\ Opened /\ Recorded
    BY <1>1 DEF AliAccess!Init, AliAccess!InitAccess, AliAccess!NoRecord, One, Opened, Recorded
  <2>3. AliBackends
    BY <1>1 DEF AliAccess!Init, AliAccess!InitAccess, AliBackends
  <2> QED
    BY <2>1, <2>2, <2>3 DEF AccessInv
<1>2. ASSUME AwsAccess!Init
      PROVE  AccessInv /\ AwsBackends
  <2> USE AccessAssumption DEF AccessAssumption
  <2>1. Shape
    BY <1>2 DEF AwsAccess!Init, AwsAccess!InitAccess, AwsAccess!NoRecord, Shape, Places, Records
  <2>2. One /\ Opened /\ Recorded
    BY <1>2 DEF AwsAccess!Init, AwsAccess!InitAccess, AwsAccess!NoRecord, One, Opened, Recorded
  <2>3. AwsBackends
    BY <1>2 DEF AwsAccess!Init, AwsAccess!InitAccess, AwsBackends, AwsHeld, AwsListeners
  <2> QED
    BY <2>1, <2>2, <2>3 DEF AccessInv
<1> QED
  BY <1>1, <1>2 DEF CloudsInit, CloudsInv

LEMMA AccessStays == CloudsInv /\ [CloudsNext]_<<part, All>> => CloudsInv'
<1> SUFFICES ASSUME CloudsInv, [CloudsNext]_<<part, All>>
             PROVE  CloudsInv'
  OBVIOUS
<1> USE AccessAssumption
<1>1. CASE UNCHANGED <<part, All>>
  <2>1. UNCHANGED <<part, s1, s2, s3, s4, s5, s6, s7, s8, s9, s10, s11, s12, s13, s14, s15, s16, s17, s18>>
    BY <1>1 DEF All, From3, From9, From10, From11
  <2>2. AccessInv => AccessInv'
    BY <2>1 DEF AccessInv, Shape, One, Opened, Recorded
  <2>3. AliBackends => AliBackends'
    BY <2>1 DEF AliBackends, Wanted, AliAccess!Backend
  <2>4. AwsBackends => AwsBackends'
    BY <2>1 DEF AwsBackends, AwsHeld, AwsListeners, Wanted, AwsAccess!Backend
  <2> QED
    BY <2>1, <2>2, <2>3, <2>4 DEF CloudsInv
<1>2. CASE AliAccessPass
  BY <1>2, AliStep DEF AliAccessPass, CloudsInv
<1>3. CASE AwsAccessPass
  BY <1>3, AwsStep DEF AwsAccessPass, CloudsInv
<1>4. CASE part' = part /\ part \notin {"ali access", "aws access"}
  BY <1>4 DEF CloudsInv
<1> QED
  BY <1>1, <1>2, <1>3, <1>4 DEF CloudsNext, AliNetworkPass, AwsNetworkPass, AliMachines, AwsMachines,
     PlanEveryId, PlanSubnets, CompareRanges, TakeZones, FindTypes

(* A set of at most one member has a count of at most one, as the two parts *)
(* count, which is as the library does.                                     *)
LEMMA CountOfOne ==
    ASSUME NEW S, \A i, j \in S : i = j
    PROVE  AliAccess!Cardinality(S) <= 1 /\ AwsAccess!Cardinality(S) <= 1
<1>1. AliAccess!Cardinality(S) = Cardinality(S) /\ AwsAccess!Cardinality(S) = Cardinality(S)
  BY DEF AliAccess!Cardinality, AwsAccess!Cardinality, Cardinality,
         AliAccess!IsFiniteSet, AwsAccess!IsFiniteSet, IsFiniteSet
<1>2. CASE S = {}
  <2>1. Cardinality(S) = 0
    BY <1>2, FS_EmptySet
  <2> QED
    BY <1>1, <2>1
<1>3. CASE S # {}
  <2>1. PICK i \in S : S = {i}
    BY <1>3
  <2>2. Cardinality(S) = 1
    BY <2>1, FS_Singleton
  <2> QED
    BY <1>1, <2>2
<1> QED
  BY <1>2, <1>3

LEMMA AliIsExact ==
    ASSUME AccessAssumption, AccessInv, AliBackends
    PROVE  /\ AliAccess!TypeOK /\ AliAccess!RulesAreExact /\ AliAccess!MadeOnce
           /\ AliAccess!ReachableWhenDone /\ AliAccess!OnlyMastersServe
<1>1. AliAccess!TypeOK
  BY DEF AliAccess!TypeOK, AccessInv, Shape, AliBackends, Places, Records, AccessAssumption
<1>2. AliAccess!RulesAreExact
  BY DEF AliAccess!RulesAreExact, AccessInv, Opened
<1>3. AliAccess!MadeOnce
  <2>1. AliAccess!Cardinality(sgs) <= 1 /\ AwsAccess!Cardinality(sgs) <= 1
    BY CountOfOne DEF AccessInv, One
  <2>2. AliAccess!Cardinality(lbs) <= 1 /\ AwsAccess!Cardinality(lbs) <= 1
    BY CountOfOne DEF AccessInv, One
  <2> QED
    BY <2>1, <2>2 DEF AliAccess!MadeOnce, AccessInv, One
<1>4. AliAccess!ReachableWhenDone
  BY DEF AliAccess!ReachableWhenDone, AliAccess!PublicPortsUseSlb, AliAccess!Ports, Wanted, AliBackends
<1>5. AliAccess!OnlyMastersServe
  BY DEF AliAccess!OnlyMastersServe, AliAccess!Ports, Wanted, AliBackends
<1> QED
  BY <1>1, <1>2, <1>3, <1>4, <1>5

LEMMA AwsIsExact ==
    ASSUME AccessAssumption, AccessInv, AwsBackends
    PROVE  /\ AwsAccess!TypeOK /\ AwsAccess!RulesAreExact /\ AwsAccess!MadeOnce
           /\ AwsAccess!ReachableWhenDone /\ AwsAccess!OnlyPublicPortsListen
<1>1. AwsAccess!TypeOK
  BY DEF AwsAccess!TypeOK, AccessInv, Shape, AwsBackends, AwsHeld, Places, Records, AccessAssumption
<1>2. AwsAccess!RulesAreExact
  BY DEF AwsAccess!RulesAreExact, AccessInv, Opened
<1>3. AwsAccess!MadeOnce
  <2>1. AliAccess!Cardinality(sgs) <= 1 /\ AwsAccess!Cardinality(sgs) <= 1
    BY CountOfOne DEF AccessInv, One
  <2>2. AliAccess!Cardinality(lbs) <= 1 /\ AwsAccess!Cardinality(lbs) <= 1
    BY CountOfOne DEF AccessInv, One
  <2> QED
    BY <2>1, <2>2 DEF AwsAccess!MadeOnce, AccessInv, One
<1>4. AwsAccess!ReachableWhenDone
  BY DEF AwsAccess!ReachableWhenDone, AwsAccess!PublicPortsUseSlb, AwsAccess!Ports, Wanted, AwsBackends, AwsHeld,
         AwsListeners
<1>5. AwsAccess!OnlyPublicPortsListen
  <2>1. last = "done" => record.lb # 0
    BY DEF AccessInv, Recorded, Shape, AccessAssumption
  <2> QED
    BY <2>1 DEF AwsAccess!OnlyPublicPortsListen, AwsAccess!Ports, Wanted, AwsBackends, AwsListeners
<1> QED
  BY <1>1, <1>2, <1>3, <1>4, <1>5

(* In every behaviour of the providers, whatever calls fail, whenever the  *)
(* process dies and however often masters and rules change, a pass that    *)
(* reports success has left the rules of the cluster in its one group, and *)
(* its one balancer leads to the masters on the public ports.              *)
THEOREM AccessAlways == CloudsSpec => []AccessIsExact
<1>1. CloudsInv => AccessIsExact
  BY AccessAssumption, AliIsExact, AwsIsExact DEF CloudsInv, AccessIsExact
<1> QED
  BY <1>1, AccessStarts, AccessStays, PTL DEF CloudsSpec

=============================================================================

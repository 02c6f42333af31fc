---------------------------- MODULE InstanceTypes -----------------------------
(***************************************************************************)
(* The image and the types of the machines that a cloud is asked for: for  *)
(* each group that has a node to be found, FindImage and FindInstanceType  *)
(* of the provider, and what GetCloudtNodesSystemInfo writes into the nodes*)
(* of the group.  The names of the types that are asked for are made of the*)
(* families of the kind of the group and a size for its number of CPUs.    *)
(***************************************************************************)
EXTENDS Naturals, Sequences, FiniteSets, SequencesExt

CONSTANTS
    Catalog,   \* types of the clouds: provider, family, size, cpu, mem, arch, gpus, gpu
    Images,    \* images of the clouds: provider, arch, ubuntu
    Groups,    \* kinds of groups: type, arch, cpu, gpus, spec
    MaxPasses, \* bound: passes over the groups
    MaxFaults  \* bound: calls that fail

VARIABLES
    provider,
    group,     \* of the two groups: what is asked for, and the memory
    nodes,     \* of each node: group, finding, image, type, backups
    at, g,     \* where the pass is, and at which group
    image, found, left,  \* the image, the types of the pages so far and those to come
    passes, faults

pass == <<at, g, image, found, left>>
vars == <<provider, group, nodes, pass, passes, faults>>

NoType == [family |-> "", size |-> [unit |-> "", n |-> 0]]
NodeIds == 1 .. 3  \* one node of the first group, two of the second
NewNode(i) == [group |-> IF i = 1 THEN 1 ELSE 2, finding |-> FALSE, image |-> "", type |-> NoType, backups |-> <<>>]

Init ==
    /\ provider \in {"ali", "aws"}
    /\ group \in [1 .. 2 -> {q @@ [mem |-> 0] : q \in Groups}]
    /\ nodes = [i \in NodeIds |-> NewNode(i)]
    /\ at = "idle" /\ g = 1 /\ image = "" /\ found = <<>> /\ left = {} /\ passes = 0 /\ faults = 0

-----------------------------------------------------------------------------
(* The size of a number of CPUs: "small", "large", "xlarge", and so many    *)
(* "xlarge" that there are enough.                                          *)
InstanceSize(cpu) ==
    CASE cpu = 1 -> [unit |-> "small", n |-> 1]
      [] cpu = 2 -> [unit |-> "large", n |-> 1]
      [] cpu \in 3 .. 4 -> [unit |-> "xlarge", n |-> 1]
      [] cpu > 4 -> [unit |-> "xlarge", n |-> IF cpu % 4 = 0 THEN cpu \div 4 ELSE cpu \div 4 + 1]
      [] OTHER -> [unit |-> "", n |-> 0]

AwsInstanceSize(cpu) == IF cpu = 1 THEN [unit |-> "medium", n |-> 1] ELSE InstanceSize(cpu)

AliFamilies(type) ==
    CASE type = "NORMAL" -> {"g8i", "g7", "g6e", "g6", "g8a", "g8ae", "g7a", "g6a", "g8y"}
      [] type = "HIGH_COMPUTATION" -> {"c8i", "c7", "c6e", "c6", "c8a", "c8ae", "c7a", "c6a", "c8y"}
      [] type = "HIGH_MEMORY" -> {"r8i", "r7p", "r7", "r6e", "r6", "r8a", "r8ae", "r7a", "r6a", "r8y"}
      [] type = "LARGE_HARD_DISK" -> {"d3s", "d3c", "d2c", "d2s", "d1ne"}
      [] type = "LOAD_DISK" -> {"i2", "i2g", "i2ne", "i2gne", "i3g", "i3", "i4", "i4r", "i4g", "i4p"}
      [] type = "GPU_ACCELERATERD" ->
           {"gn8v", "gn8is", "gn7e", "gn7i", "gn7s", "gn7", "gn7r", "gn6i", "gn6e", "gn6v"}
      [] OTHER -> {}

AwsFamilies(type) ==
    CASE type = "NORMAL" ->
           {"m4", "m5a", "m5zn", "m5n", "m5", "m6a", "m6in", "m6i", "m6g", "m7a", "m7i-flex", "m7i", "m7g", "m8g"}
      [] type = "HIGH_COMPUTATION" ->
           {"c8g", "c7g", "c7gn", "c7i", "c7i-flex", "c7a", "c6g", "c6gn", "c6i", "c6in", "c6a", "c5", "c5n", "c5a", "c4"}
      [] type = "HIGH_MEMORY" ->
           {"r4", "r5a", "r5n", "r5", "r6a", "r6in", "r6i", "r6g", "r7a", "r7iz", "r7i", "r7g", "r8g"}
      [] type = "LARGE_HARD_DISK" -> {"h1", "d2", "d3en", "d3"}
      [] type = "LOAD_DISK" -> {"i3en", "i3", "i4i", "is4gen", "im4gn", "i4g", "i7ie", "i8g"}
      [] type = "GPU_ACCELERATERD" -> {"g3s", "g4ad", "g4dn", "g5", "g5g", "g6", "g6e", "p2", "p3", "p4", "p5"}
      [] OTHER -> {}

Name(t) == [family |-> t.family, size |-> t.size]

(* Alibaba Cloud is asked for all names, AWS for those that its library has.*)
Asked(q) ==
    IF provider = "ali" THEN {[family |-> f, size |-> InstanceSize(q.cpu)] : f \in AliFamilies(q.type)}
    ELSE {Name(t) : t \in {x \in Catalog : x.provider = "aws" /\ x.family \in AwsFamilies(q.type)
                                                              /\ x.size = AwsInstanceSize(q.cpu)}}

(* What a cloud answers: an empty list of names asks for any.  GPUs are     *)
(* asked for at Alibaba Cloud; at AWS they are looked for in the answer.    *)
Answer(q) ==
    {t \in Catalog : /\ t.provider = provider /\ (Asked(q) = {} \/ Name(t) \in Asked(q))
                     /\ t.cpu = q.cpu /\ t.arch = q.arch
                     /\ provider = "ali" /\ q.gpus > 0 =>
                          t.gpus = q.gpus /\ (q.spec = "" \/ t.gpu = q.spec)}

-----------------------------------------------------------------------------
Finding(n) == \E i \in NodeIds : nodes[i].group = n /\ nodes[i].finding

(* A start adds nodes to be found, and the handler passes over the groups.  *)
Begin == \E S \in SUBSET NodeIds :
    /\ at = "idle" /\ passes < MaxPasses
    /\ nodes' = [i \in NodeIds |-> IF i \in S THEN [nodes[i] EXCEPT !.finding = TRUE] ELSE nodes[i]]
    /\ passes' = passes + 1 /\ at' = "group" /\ g' = 1
    /\ UNCHANGED <<provider, group, image, found, left, faults>>

(* A group with no node to be found is passed by.                           *)
NextGroup ==
    /\ at = "group"
    /\ CASE g > 2 -> at' = "done" /\ g' = g
         [] g <= 2 /\ Finding(g) -> at' = "image" /\ g' = g
         [] OTHER -> at' = "group" /\ g' = g + 1
    /\ UNCHANGED <<provider, group, nodes, image, found, left, passes, faults>>

(* SetNodeStatusFromTo: what was found is to be created.                    *)
Done ==
    /\ at = "done" /\ at' = "idle"
    /\ nodes' = [i \in NodeIds |-> [nodes[i] EXCEPT !.finding = FALSE]]
    /\ UNCHANGED <<provider, group, g, image, found, left, passes, faults>>

(* Any call may fail: the pass ends, with what it wrote into earlier groups.*)
Fail ==
    /\ at \in {"image", "types"} /\ faults < MaxFaults
    /\ faults' = faults + 1 /\ at' = "idle"
    /\ UNCHANGED <<provider, group, nodes, g, image, found, left, passes>>

Matching(q) ==
    {m \in Images : m.provider = provider /\ m.arch = q.arch /\ m.ubuntu}

(* An image of Ubuntu for the architecture, of whichever page.  AWS's       *)
(* FindImage asks for a name with "amd64" in it and wraps the error there   *)
(* is not into none, when there is no image: the group goes on without.     *)
FindImage ==
    /\ at = "image"
    /\ IF Matching(group[g]) # {}
       THEN /\ \E m \in Matching(group[g]) : image' = m.id
            /\ at' = "types" /\ left' = Answer(group[g])
       ELSE /\ image' = ""
            /\ IF provider = "ali" THEN at' = "idle" /\ UNCHANGED left
               ELSE at' = "types" /\ left' = Answer(group[g])
    /\ found' = <<>> /\ UNCHANGED <<provider, group, nodes, g, passes, faults>>

(* The GPUs at AWS: their number has to be the group's, and with any model  *)
(* none fits: "nvidia-a10" is split at "_", which leaves one part of two.   *)
Fits(q, t) == provider = "aws" /\ q.gpus > 0 => t.gpus = q.gpus /\ q.spec = ""

(* Variant: the pages after the first are not asked for.                    *)
FirstPage == \E S \in SUBSET left : \E page \in SetToSeqs(S) :
    /\ at = "types" /\ S # {} /\ Cardinality(S) <= 2
    /\ found' = found \o SelectSeq(page, LAMBDA t : Fits(group[g], t))
    /\ left' = {} /\ UNCHANGED <<at, provider, group, nodes, g, image, passes, faults>>

(* A page of types, up to two here, 10 at Alibaba Cloud.  A type without    *)
(* GPUs has none to be looked at: the program ends (GpuInfo is nil).        *)
Page == \E S \in SUBSET left : \E page \in SetToSeqs(S) :
    /\ at = "types" /\ S # {} /\ Cardinality(S) <= 2
    /\ IF provider = "aws" /\ group[g].gpus > 0 /\ \E t \in S : t.gpus = 0
       THEN at' = "panic" /\ UNCHANGED <<found, left>>
       ELSE /\ found' = found \o SelectSeq(page, LAMBDA t : Fits(group[g], t))
            /\ left' = left \ S /\ at' = at
    /\ UNCHANGED <<provider, group, nodes, g, image, passes, faults>>

(* The first type and the others as backups go to all nodes of the group,   *)
(* the memory of the last to the group; no type is no error.                *)
Choose ==
    /\ at = "types" /\ left = {}
    /\ group' = IF found = <<>> THEN group ELSE [group EXCEPT ![g].mem = Last(found).mem]
    /\ nodes' = [i \in NodeIds |->
                   IF nodes[i].group # g THEN nodes[i]
                   ELSE [nodes[i] EXCEPT !.image = image, !.type = IF found = <<>> THEN NoType ELSE Name(found[1]),
                                         !.backups = [k \in 1 .. Len(found) - 1 |-> Name(found[k + 1])]]]
    /\ at' = "group" /\ g' = g + 1 /\ UNCHANGED <<provider, image, found, left, passes, faults>>

Next == Begin \/ NextGroup \/ Done \/ Fail \/ FindImage \/ Page \/ Choose

Spec == Init /\ [][Next]_vars /\ WF_vars(NextGroup \/ Done \/ FindImage \/ Page \/ Choose)

-----------------------------------------------------------------------------
TypeOK ==
    /\ group \in [1 .. 2 -> {q @@ [mem |-> m] : q \in Groups, m \in {0} \cup {t.mem : t \in Catalog}}]
    /\ \A i \in NodeIds : \A n \in {nodes[i].type} \cup ToSet(nodes[i].backups) :
          n = NoType \/ \E t \in Catalog : t.provider = provider /\ Name(t) = n
    /\ at \in {"idle", "group", "image", "types", "done", "panic"} /\ g \in 1 .. 3
    /\ left \subseteq Catalog /\ ToSet(found) \subseteq Catalog

TypesOf(i) == {t \in Catalog : t.provider = provider /\ Name(t) \in {nodes[i].type} \cup ToSet(nodes[i].backups)}

(* A node is created on a type with as many CPUs and GPUs as its group asks *)
(* for, of its architecture, and falls back only on such ones.              *)
TypesFit ==
    \A i \in NodeIds : \A t \in TypesOf(i) :
        LET q == group[nodes[i].group]
        IN t.cpu = q.cpu /\ t.arch = q.arch /\ (q.gpus > 0 => t.gpus = q.gpus)

(* A type is not its own backup, and no backup without a type.              *)
BackupsAreOthers ==
    \A i \in NodeIds : /\ \A k \in DOMAIN nodes[i].backups : nodes[i].backups[k] # nodes[i].type
                       /\ nodes[i].type = NoType => nodes[i].backups = <<>>

Cpus(size) == CASE size.unit = "small" -> 1 [] size.unit = "large" -> 2 [] OTHER -> 4 * size.n

(* "generates the instance size based on CPU" (alicloud.go:1836): the       *)
(* least size that has them.                                                *)
SizeIsLeast ==
    \A q \in {group[1], group[2]} : q.cpu > 0 =>
        LET c == Cpus(InstanceSize(q.cpu))
        IN q.cpu <= c /\ \A d \in {1, 2} \cup {4 * n : n \in 1 .. c} : q.cpu <= d => c <= d

(* However the answer is cut into pages, no type that fits is lost.         *)
AllPagesAreRead ==
    Choose => ToSet(found) = {t \in Answer(group[g]) : Fits(group[g], t)}

(* A pass writes only into groups of which a node is to be found.           *)
OthersStay ==
    \A i \in NodeIds : nodes'[i].type # nodes[i].type \/ nodes'[i].image # nodes[i].image
          => Finding(nodes[i].group)

(* A pass that has not ended, by itself or with the program.                *)
Passing == at \notin {"idle", "panic"}
=============================================================================

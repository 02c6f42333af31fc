--------------------------------- MODULE Words ---------------------------------
(***************************************************************************)
(* The values that the program keeps as numbers and tells as words         *)
(* (the String and FromString functions of internal/biz).  A client reads  *)
(* a record, sees the word of a value, and sends the record back with that *)
(* word, with another one, or with one that the program does not know.     *)
(*                                                                         *)
(* An enumeration has its values, the first one with a word, the words in  *)
(* the order of the values, the word of any other value, the words that    *)
(* are read back, in the same order, and the value of any other word; one  *)
(* that is never read back has no such words.                              *)
(***************************************************************************)
EXTENDS Integers, Sequences, SequencesExt

CONSTANT Kinds  \* the enumerations that are looked at

VARIABLES kind,    \* the enumeration of the record
          stored,  \* the value of the record
          form,    \* the word that the client holds, "none" before it asks
          fresh    \* the word is that of the value

vars == <<kind, stored, form, fresh>>

Told(values, first, words, other) == [values |-> values, first |-> first, words |-> words, other |-> other, back |-> <<>>, none |-> 0]
Both(values, first, words, other, back, none) ==
    [values |-> values, first |-> first, words |-> words, other |-> other, back |-> back, none |-> none]

-----------------------------------------------------------------------------
ClusterNamespace == Told(0 .. 4, 0, <<"cloudcopilot", "networking", "storage", "monitoring", "toolkit">>, "default")

ClusterProvider == Both(0 .. 3, 1, <<"baremetal", "aws", "ali_cloud">>, "", <<"baremetal", "aws", "ali_cloud">>, 0)

ClusterStatus ==
    Told(0 .. 7, 1, <<"creating", "starting", "running", "stopping", "stopped", "deleted", "error">>, "unspecified")
ClusterLevel == Told(0 .. 3, 1, <<"basic", "standard", "advanced">>, "unspecified")
NodeRole == Told(0 .. 3, 1, <<"master", "worker", "edge">>, "unspecified")
NodeStatus == Told(0 .. 8, 1, <<"node_ready", "node_finding", "node_creating", "node_pending", "node_running",
                        "node_deleting", "node_deleted", "node_error">>, "unspecified")
NodeGroupType == Told(0 .. 6, 1, <<"normal", "high_computation", "gpu_accelerated", "high_memory",
                           "large_hard_disk", "load_disk">>, "unspecified")
NodeArchType == Both(0 .. 2, 1, <<"amd64", "arm64">>, "unspecified", <<"amd64", "arm64">>, 0)
NodeGPUSpec == Both(0 .. 5, 1, <<"nvidia-a10", "nvidia-v100", "nvidia-t4", "nvidia-p100", "nvidia-p4">>, "",
                    <<"nvidia-a10", "nvidia-v100", "nvidia-t4", "nvidia-p100", "nvidia-p4">>, 0)
ResourceType == Told(0 .. 12, 1, <<"vpc", "subnet", "nat_gateway", "route_table", "security_group", "load_balancer",
                          "elastic_ip", "availability_zones", "key_pair", "region", "storage",
                          "internet_gateway">>, "unspecified")
ResourceTypeKeyValue == Told(0 .. 6, 1, <<"name", "access", "zone_id", "region_id", "access_private", "access_public">>,
                             "unspecified")

Progress == <<"PENDING", "RUNNING", "SUCCESS", "FAILED">>
ContinuousIntegrationStatus == Both(0 .. 4, 1, Progress, "UNSPECIFIED", Progress, 0)
ContinuousDeploymentStatus == Both(0 .. 4, 1, Progress, "UNSPECIFIED", Progress, 0)
ServiceStatus == Both(0 .. 3, 1, <<"STARTING", "RUNNING", "TERMINATED">>, "UNSPECIFIED",
                      <<"STARTING", "RUNNING", "TERMINATED">>, 0)
PodStatus == Both(0 .. 4, 1, <<"PENDING", "RUNNING", "SUCCEEDED", "FAILED">>, "UNSPECIFIED",
                  <<"PENDING", "RUNNING", "SUCCEEDED", "FAILED">>, 0)

WorkflowType == Both(0 .. 2, 1, <<"ContinuousIntegrationType", "ContinuousDeploymentType">>, "",
                     <<"ContinuousIntegrationType", "ContinuousDeploymentType">>, 0)
WorkflowStatus == Both(0 .. 3, 1, <<"PENDING", "SUCCESS", "FAILURE">>, "UNSPECIFIED", <<"PENDING", "SUCCESS", "FAILURE">>, 0)
WorkflowStepType == Both(0 .. 4, 0, <<"Customizable", "CodePull", "ImageRepoAuth", "Build", "Deploy">>, "",
                         <<"Customizable", "CodePull", "ImageRepoAuth", "Build", "Deploy">>, 0)

UserStatus == Both(0 .. 3, 0, <<"USER_INIT", "USER_ENABLE", "USER_DISABLE", "USER_DELETED">>, "UNKNOWN",
                   <<"USER_INIT", "USER_ENABLE", "USER_DISABLE", "USER_DELETED">>, 0)

\* Variant: a custom role is not read back.
RoleWithoutCustom ==
    Both(1 .. 6, 1, <<"SYSTEM_ADMIN", "WORKSPACE_ADMIN", "PROJECT_ADMIN", "DEVELOPER", "VIEWER", "CUSTOM">>, "UNKNOWN",
         <<"SYSTEM_ADMIN", "WORKSPACE_ADMIN", "PROJECT_ADMIN", "DEVELOPER", "VIEWER">>, 1)

RoleType ==
    Both(1 .. 6, 1, <<"SYSTEM_ADMIN", "WORKSPACE_ADMIN", "PROJECT_ADMIN", "DEVELOPER", "VIEWER", "CUSTOM">>, "UNKNOWN",
         <<"SYSTEM_ADMIN", "WORKSPACE_ADMIN", "PROJECT_ADMIN", "DEVELOPER", "VIEWER", "CUSTOM">>, 1)
RoleResourceType ==
    Both(1 .. 6, 1, <<"CLUSTER", "WORKSPACE", "PROJECT", "SERVICE", "SYSTEM", "APP">>, "UNKNOWN",
         <<"CLUSTER", "WORKSPACE", "PROJECT", "SERVICE", "SYSTEM", "APP">>, 1)
ActionType ==
    Both(1 .. 6, 1, <<"VIEW", "CREATE", "UPDATE", "DELETE", "EXECUTE", "MANAGE">>, "UNKNOWN",
         <<"VIEW", "CREATE", "UPDATE", "DELETE", "EXECUTE", "MANAGE">>, 1)
WorkspaceStatus == Told(0 .. 3, 0, <<"creating", "active", "inactive", "deleting">>, "unknown")

-----------------------------------------------------------------------------
Enum(k) ==
    CASE k = "namespace" -> ClusterNamespace [] k = "provider" -> ClusterProvider
      [] k = "clusterStatus" -> ClusterStatus [] k = "level" -> ClusterLevel
      [] k = "nodeRole" -> NodeRole [] k = "nodeStatus" -> NodeStatus
      [] k = "groupType" -> NodeGroupType [] k = "arch" -> NodeArchType
      [] k = "gpu" -> NodeGPUSpec [] k = "resource" -> ResourceType
      [] k = "tag" -> ResourceTypeKeyValue [] k = "ci" -> ContinuousIntegrationStatus
      [] k = "cd" -> ContinuousDeploymentStatus [] k = "service" -> ServiceStatus
      [] k = "pod" -> PodStatus [] k = "workflowType" -> WorkflowType
      [] k = "workflowStatus" -> WorkflowStatus [] k = "stepType" -> WorkflowStepType
      [] k = "user" -> UserStatus [] k = "role" -> RoleType
      [] k = "roleResource" -> RoleResourceType [] k = "action" -> ActionType
      [] k = "workspace" -> WorkspaceStatus

String(e, v) == IF v - e.first + 1 \in DOMAIN e.words THEN e.words[v - e.first + 1] ELSE e.other
FromString(e, w) ==
    IF w \in ToSet(e.back) THEN e.first - 1 + (CHOOSE i \in DOMAIN e.back : e.back[i] = w) ELSE e.none

Values(e) == e.values
ReadBack(e) == e.back # <<>>

\* The values of which the API gives a list.
Listed(k) ==
    CASE k = "clusterStatus" -> {2, 3, 4, 5, 6}
      [] k \in {"provider", "level", "nodeRole", "nodeStatus", "groupType", "resource"} -> Values(Enum(k)) \ {0}
      [] OTHER -> {}

-----------------------------------------------------------------------------
\* A record that is stored first is one that the program has made or has read.
Init ==
    /\ kind \in Kinds
    /\ stored \in Values(Enum(kind))
    /\ form = "none" /\ fresh = FALSE

\* The record is read: the client sees the word.
Show ==
    /\ form' = String(Enum(kind), stored) /\ fresh' = TRUE
    /\ UNCHANGED <<kind, stored>>

\* The program goes on with the record.
Change ==
    /\ stored' \in Values(Enum(kind)) \ {stored}
    /\ fresh' = FALSE
    /\ UNCHANGED <<kind, form>>

\* The client takes a word of a list, or one of its own.
Choose ==
    /\ form # "none" /\ ReadBack(Enum(kind))
    /\ form' \in {String(Enum(kind), v) : v \in Listed(kind)} \cup {"", "other"}
    /\ fresh' = FALSE
    /\ UNCHANGED <<kind, stored>>

\* The record is saved; a provider has to be one.
Save ==
    /\ form # "none" /\ ReadBack(Enum(kind))
    /\ kind = "provider" => FromString(Enum(kind), form) # 0
    /\ stored' = FromString(Enum(kind), form)
    /\ fresh' = FALSE
    /\ UNCHANGED <<kind, form>>

Next == Show \/ Change \/ Choose \/ Save

Spec == Init /\ [][Next]_vars

-----------------------------------------------------------------------------
TypeOK == kind \in Kinds /\ stored \in Values(Enum(kind)) /\ fresh \in BOOLEAN

\* No two values have one word: who has just read a word knows the value,
\* whichever enumeration it is of.
WordTellsTheValue == fresh => \A v \in Values(Enum(kind)) : String(Enum(kind), v) = form => v = stored

\* A record that is sent back as it was read keeps its value: the two
\* functions of every enumeration agree (biz/cluster.go, service.go, user.go,
\* workflow.go).
SavedAsShown == Save /\ fresh => stored' = stored

\* What a list offers is a value with a word, and one that a save takes.
ListedIsTaken ==
    \A v \in Listed(kind) :
        /\ String(Enum(kind), v) # Enum(kind).other
        /\ ReadBack(Enum(kind)) => FromString(Enum(kind), String(Enum(kind), v)) = v

=============================================================================

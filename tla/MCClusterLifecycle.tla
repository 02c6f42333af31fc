------------------------- MODULE MCClusterLifecycle -------------------------
(* Small instances of ClusterLifecycle for TLC.                             *)
EXTENDS ClusterLifecycle, TLC

CONSTANTS ip1, ip2, c1, c2

BothIps == {{ip1, ip2}}
AnyRange == (SUBSET {ip1, ip2}) \ {{}}
Interchangeable == Permutations({ip1, ip2}) \cup Permutations({c1, c2})

InterchangeableMachines == Permutations({ip1, ip2})
=============================================================================

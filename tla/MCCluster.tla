------------------------------ MODULE MCCluster ------------------------------
(* Cluster for TLC: calls, jobs and sessions are interchangeable.           *)
EXTENDS Cluster, TLC

CONSTANTS c1, c2, c3, j1, j2, j3, s1, s2, api

Symmetry == Permutations(Calls) \cup Permutations(Jobs) \cup Permutations(Sessions)
AllOps  == {"deploy", "launch", "scale", "delete"}
ToolOps == {"deploy"}
=============================================================================

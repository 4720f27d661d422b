------------------------------- MODULE MCTools -------------------------------
(* Tools for TLC: calls and contents are interchangeable.                   *)
EXTENDS Tools, TLC

CONSTANTS c1, c2, c3, c4, x, y

Symmetry  == Permutations(Calls)
AllTools  == {"create"} \cup Synced \cup Writes \cup Ports \cup Jobs
SomeTools == {"create", "run", "edit", "write", "port", "job"}

\* A behaviour with a restart or a failure has no commits but those of
\* sandbox-port.
Calm == left["commits"] = 1 \/ left["restarts"] + left["fails"] = 2
=============================================================================

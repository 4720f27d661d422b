------------------------------ MODULE MCSandbox ------------------------------
EXTENDS Sandbox, TLC

CONSTANTS c1, c2, c3, c4, x, y

\* Calls are interchangeable.
Symmetry == Permutations(Calls)
=============================================================================

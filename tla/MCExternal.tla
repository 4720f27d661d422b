----------------------------- MODULE MCExternal -----------------------------
(* External for TLC: calls are interchangeable, and so are workers.        *)
EXTENDS External, TLC

CONSTANTS c1, c2, c3, c4, n1, n2, w1, w2

Symmetry == Permutations(Calls) \cup Permutations(Workers)
=============================================================================

----------------------------- MODULE MCAccounts -----------------------------
(* Accounts for TLC: calls are interchangeable.                             *)
EXTENDS Accounts, TLC

CONSTANTS c1, c2, c3, c4, alice, operator

Symmetry == Permutations(Calls)
=============================================================================

----------------------------- MODULE MCSituations -----------------------------
(* Situations for TLC. *)
EXTENDS Situations, TLC

CONSTANTS t1, t2, d1, d2, g1

Symmetry == Permutations(Threads) \union Permutations(Editors)
=============================================================================

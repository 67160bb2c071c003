------------------------------- MODULE MCSalt -------------------------------
(* Three streams take up to six salts, so that filters of ItemCount 2 are  *)
(* switched twice and the first of them is cleared again.                  *)
EXTENDS SaltContext, TLC

Symmetry == Permutations(Streams) \cup Permutations(Salts)
=============================================================================

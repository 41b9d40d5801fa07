-------------------------- MODULE MCStateObjectStore --------------------------
(* Small instances of StateObjectStore for TLC. *)
EXTENDS StateObjectStore, TLC

CONSTANTS s1, s2, a, b

Symmetry == Permutations(Stores) \cup Permutations(Objects)

===============================================================================

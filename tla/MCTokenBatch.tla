----------------------------- MODULE MCTokenBatch -----------------------------
(* Small instances of TokenBatch for TLC. *)
EXTENDS TokenBatch, TLC

BatchSymmetry == Permutations(Ids) \cup Permutations(Contexts) \cup Permutations(Loaders)

===============================================================================

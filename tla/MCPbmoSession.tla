----------------------------- MODULE MCPbmoSession -----------------------------
(* Small instances of PbmoSession for TLC. *)
EXTENDS PbmoSession, TLC

CONSTANTS s1, s2

Symmetry == Permutations(Sessions)

===============================================================================

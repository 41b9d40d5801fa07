---------------------------- MODULE MCPbmoTraffic ----------------------------
(* Small instances of PbmoTraffic for TLC. *)
EXTENDS PbmoTraffic, TLC

CONSTANTS s1, s2

Symmetry == Permutations(Sessions)

===============================================================================

--------------------------- MODULE MCPiholeBlock ---------------------------
(***************************************************************************)
(* Small instances of PiholeBlock for TLC.                                 *)
(***************************************************************************)
EXTENDS PiholeBlock, TLC

CONSTANTS q1, q2, q3, i1, i2

RequestSymmetry == Permutations(Requests) \cup Permutations(Ips)
=============================================================================

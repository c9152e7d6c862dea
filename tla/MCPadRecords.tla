---------------------------- MODULE MCPadRecords ----------------------------
(* Instances of PadRecords for TLC. *)
EXTENDS PadRecords

CONSTANTS t1, t2

TaskSymmetry == Permutations({t1, t2})
=============================================================================

------------------------------ MODULE MCSched -------------------------------
(* Small machines for TLC: see the .cfg files for the sizes.               *)
EXTENDS Sched

CONSTANTS c1, c2
=============================================================================

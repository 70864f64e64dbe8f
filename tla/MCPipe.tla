------------------------------- MODULE MCPipe -------------------------------
(* Small pipes for TLC: see the .cfg files for the sizes.                  *)
EXTENDS Pipe

CONSTANTS p1, p2, p3
=============================================================================

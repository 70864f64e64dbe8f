------------------------------- MODULE MCProc -------------------------------
(* Small machines for TLC: three slots with everything that can happen, and *)
(* four, so that a process can die between its child and its parent.       *)
EXTENDS Proc

MCMachines ==
  {[slots |-> 3, uses |-> {"kill", "sleep", "fault", "nomem", "setuid"}],
   [slots |-> 4, uses |-> {"fault"}]}
=============================================================================

------------------------------- MODULE TxDisk -------------------------------
(***************************************************************************)
(* What the logging layer promises to the file system: a disk on which     *)
(* file-system operations run inside transactions.  Writes are visible to  *)
(* everyone at once, but reach stable storage in groups of whole           *)
(* operations: a crash never exposes a part of an operation.               *)
(*                                                                         *)
(* This is the abstract specification; Log implements it.                  *)
(***************************************************************************)

CONSTANTS
  Proc,      \* processes that run file-system operations
  Block,     \* home blocks of the file system
  Val        \* contents of a block

VARIABLES
  committed, \* committed[b]: what a crash now would leave in b after recovery
  current,   \* current[b]: what a read of b returns now
  active     \* processes inside an operation

vars == <<committed, current, active>>

Init ==
  /\ committed \in [Block -> Val]
  /\ current = committed
  /\ active = {}

Begin(p) ==
  /\ p \notin active
  /\ active' = active \cup {p}
  /\ UNCHANGED <<committed, current>>

Write(p, b, v) ==
  /\ p \in active
  /\ current' = [current EXCEPT ![b] = v]
  /\ UNCHANGED <<committed, active>>

End(p) ==
  /\ p \in active
  /\ active' = active \ {p}
  /\ UNCHANGED <<committed, current>>

\* Everything written so far becomes durable, and only when it is the work of
\* operations that have all ended.
Commit ==
  /\ active = {}
  /\ committed' = current
  /\ UNCHANGED <<current, active>>

Crash ==
  /\ current' = committed
  /\ active' = {}
  /\ UNCHANGED committed

Next ==
  \/ \E p \in Proc : Begin(p) \/ End(p)
  \/ \E p \in Proc, b \in Block, v \in Val : Write(p, b, v)
  \/ Commit
  \/ Crash

Spec == Init /\ [][Next]_vars
=============================================================================

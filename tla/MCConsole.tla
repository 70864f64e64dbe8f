----------------------------- MODULE MCConsole -----------------------------
(* A console with a small ring and a small screen, for TLC.                *)
EXTENDS Console, TLC

Symmetry == Permutations(Proc)

\* States that differ only in what nothing looks at are one state: the bytes of the
\* ring outside of r and e, what the last read returned to a process that is not in
\* gets, and everything in a kernel that has panicked.
View ==
  IF panicked THEN <<mixed>>
  ELSE <<Slice(r, Minus(e, r)), r, w, e, holder, screenVars, isPrintable, pc, n, target,
         secret, killed, [p \in Proc |-> IF secret[p] = 1 THEN last[p] ELSE "none"]>>
=============================================================================

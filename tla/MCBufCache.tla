----------------------------- MODULE MCBufCache -----------------------------
(* A small buffer cache for TLC: see the .cfg file for the sizes.          *)
EXTENDS BufCache, TLC

Symmetric == Permutations(Proc) \cup Permutations(Block) \cup Permutations(Val)

\* States that differ only in what nothing looks at are one state: the contents of a
\* buffer that is not valid or that a failed read has left as it was, and the place in
\* the list of a buffer in use, which goes to the front when its last user releases it.
View ==
  <<blockno, refcnt, valid, dirty, lock, idequeue, ctl, ready, disk, lost, asleep, pc,
    bp, want, panicked, truth, failed,
    [b \in Buf |-> IF valid[b] = 1 /\ b \notin failed THEN data[b] ELSE None],
    SelectSeq(lru, LAMBDA b : refcnt[b] = 0)>>
=============================================================================

------------------------------ MODULE MCInode -------------------------------
(* Small file systems for TLC: see the .cfg files for the sizes.           *)
EXTENDS Inode, TLC

CONSTANTS p1, p2

\* One process makes links and changes modes and owners, the other writes; both
\* open, create, unlink and close.
MCUses == p1 :> {"link", "chmod", "chown"} @@ p2 :> {"write"}

\* Only open, create, unlink and close.
NoUses == [p \in Proc |-> {}]

\* What the future depends on: of a free entry of the cache only the owner, which
\* sys_chmod may read before the inode is; of a free inode nothing, since ialloc
\* clears it; after a panic nothing.
View ==
  IF panicked # "no" THEN <<panicked>> ELSE
  <<[i \in Inum |-> IF disk[i].type = 0 /\ disk[i].addr = 0 THEN NoInode ELSE disk[i]],
    dir, used,
    [s \in Slot |-> IF icache[s].ref > 0 /\ icache[s].valid = 1 THEN icache[s]
                    ELSE [inum |-> IF icache[s].ref > 0 THEN icache[s].inum ELSE 0,
                          ref |-> icache[s].ref, valid |-> 0,
                          d |-> [NoInode EXCEPT !.uid = icache[s].d.uid]]],
    lock, dlock, fd, fdnum, pc, ip, arg>>

Symmetry == Permutations(Name)
=============================================================================

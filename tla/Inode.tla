------------------------------- MODULE Inode --------------------------------
(***************************************************************************)
(* The inode cache (kernel/fs.c) and the system calls that go through it   *)
(* (kernel/sysfile.c): open, create, link, unlink, write, close, chmod and *)
(* chown, by processes that run concurrently in one directory.             *)
(*                                                                         *)
(* Granularity.  A section under icache.lock is one action, and so is what *)
(* a process does between ilock and iunlock of one inode when it touches   *)
(* no other shared state.  The lock of the directory is explicit (dlock),  *)
(* since create and unlink hold it while they wait for a file.  iput is    *)
(* four steps: it reads ref, frees the inode on disk, and drops ref under  *)
(* three different locks.                                                  *)
(*                                                                         *)
(* Data.  The directory is a function from names to inode numbers, 0 where *)
(* there is no entry.  Its own inode is always cached and is left out.  A  *)
(* file has at most one block.  Log.tla models the transactions.           *)
(***************************************************************************)
EXTENDS Integers, FiniteSets

CONSTANTS
  Proc,     \* processes
  Name,     \* names in the directory
  NINODE,   \* entries of the inode cache
  NINUM,    \* inodes on disk, the directory's apart
  NBLOCK,   \* data blocks
  Mode,     \* modes that chmod may set
  Owner,    \* owners that chown may set
  Uid,      \* users that call chmod and chown
  KeepBound,\* references kept for ever before chmod and chown stop (a bound)
  Uses,     \* Uses[p]: the calls of Calls that p makes
  None

ROOT == 0
DefaultMode == 6 * 64 + 4 * 8 + 4   \* 0644
Slot == 1 .. NINODE
Inum == 1 .. NINUM
Block == 1 .. NBLOCK
\* The calls that an instance may leave out.
Calls == {"link", "write", "chmod", "chown"}

ASSUME InodeAssumption ==
  /\ NINODE \in Nat \ {0} /\ NINUM \in Nat \ {0} /\ NBLOCK \in Nat
  /\ KeepBound \in Nat /\ Uses \in [Proc -> SUBSET Calls] /\ None \notin Proc

VARIABLES
  disk,     \* disk[i]: the dinode i
  dir,      \* dir[n]: inode number of the entry n, or 0
  used,     \* blocks marked in the free bit map
  icache,   \* icache[s]: inum, ref, valid and the copy of the dinode
  lock,     \* lock[s]: holder of the sleep-lock of entry s
  dlock,    \* holder of the sleep-lock of the directory
  fd,       \* fd[p]: f->ip of the open file of p, or 0
  fdnum,    \* fdnum[p]: the inode number p opened (history)
  pc,       \* pc[p]: where p is
  ip,       \* ip[p]: local variable ip, or 0
  arg,      \* arg[p]: name, inode number or value that the call works on
  panicked  \* the panic that stopped the kernel, or "no"

vars == <<disk, dir, used, icache, lock, dlock, fd, fdnum, pc, ip, arg,
          panicked>>

NoInode == [type |-> 0, nlink |-> 0, mode |-> 0, uid |-> 0, addr |-> 0]

\* The first element of S that a scan finds, if there is one.
First(S) == {x \in S : \A y \in S : x <= y}

At(p, l) == panicked = "no" /\ pc[p] = l
Goto(p, l) == pc' = [pc EXCEPT ![p] = l]
Panic(s) == panicked' = s

Init ==
  /\ disk = [i \in Inum |-> NoInode]
  /\ dir = [n \in Name |-> 0]
  /\ used = {}
  /\ icache = [s \in Slot |-> [inum |-> 0, ref |-> 0, valid |-> 0, d |-> NoInode]]
  /\ lock = [s \in Slot |-> None]
  /\ dlock = None
  /\ fd = [p \in Proc |-> 0]
  /\ fdnum = [p \in Proc |-> 0]
  /\ pc = [p \in Proc |-> "user"]
  /\ ip = [p \in Proc |-> 0]
  /\ arg = [p \in Proc |-> <<>>]
  /\ panicked = "no"

-----------------------------------------------------------------------------
(* fs.c: the cache.                                                        *)

Cached(i) == {s \in Slot : icache[s].ref > 0 /\ icache[s].inum = i}
Unused == {s \in Slot : icache[s].ref = 0}

\* The entry that iget(i) returns.
IgetSlot(i) == First(IF Cached(i) # {} THEN Cached(i) ELSE Unused)

\* p calls iget(i) and goes on at l.
Iget(p, i, l) ==
  \/ /\ \E s \in IgetSlot(i) :
          /\ icache' = [icache EXCEPT ![s].inum = i, ![s].ref = @ + 1,
                                      ![s].valid = IF s \in Cached(i) THEN @ ELSE 0]
          /\ ip' = [ip EXCEPT ![p] = s]
     /\ Goto(p, l)
     /\ UNCHANGED panicked
  \/ /\ Cached(i) \cup Unused = {}
     /\ Panic("iget: no inodes")
     /\ UNCHANGED <<icache, ip, pc>>

\* What ilock(s) finds in the entry: its copy, or the inode read from disk.
Ilocked(s) == IF icache[s].valid = 1 THEN icache[s].d
                                     ELSE disk[icache[s].inum]

\* The inode s, locked, is changed to d and written through.
Iupdate(s, d) ==
  /\ icache' = [icache EXCEPT ![s].valid = 1, ![s].d = d]
  /\ disk' = [disk EXCEPT ![icache[s].inum] = d]

\* p locks the inode ip[p]; ilock panics if it is not allocated.  What p does
\* then no longer matters.
IlockPanic(p) == IF Ilocked(ip[p]).type = 0 THEN "ilock: no type" ELSE "no"
Ilock(p, l) ==
  /\ At(p, l) /\ lock[ip[p]] = None
  /\ panicked' = IlockPanic(p)

\* Mutant of IputTest: other references are not looked for.
IputTest_AnyRef(p) ==
  LET s == ip[p] IN
  /\ At(p, "iput")
  /\ lock[s] = None
  /\ IF icache[s].valid = 1 /\ icache[s].d.nlink = 0
     THEN lock' = [lock EXCEPT ![s] = p] /\ Goto(p, "free")
     ELSE lock' = lock /\ Goto(p, "drop")
  /\ UNCHANGED <<disk, dir, used, icache, dlock, fd, fdnum, ip, arg, panicked>>

\* iput, first part: lock the entry and look whether this is the last reference
\* to an inode without links.  The entry is not read from disk here.
IputTest(p) ==
  LET s == ip[p] IN
  /\ At(p, "iput")
  /\ lock[s] = None
  /\ IF icache[s].valid = 1 /\ icache[s].d.nlink = 0 /\ icache[s].ref = 1
     THEN lock' = [lock EXCEPT ![s] = p] /\ Goto(p, "free")
     ELSE lock' = lock /\ Goto(p, "drop")
  /\ UNCHANGED <<disk, dir, used, icache, dlock, fd, fdnum, ip, arg, panicked>>

\* Mutant of IputFree: itrunc does not free the block.
IputFree_NoTrunc(p) ==
  LET s == ip[p] IN
  /\ At(p, "free")
  /\ Iupdate(s, [icache[s].d EXCEPT !.type = 0, !.addr = 0])
  /\ Goto(p, "release")
  /\ UNCHANGED <<dir, used, lock, dlock, fd, fdnum, ip, arg, panicked>>

\* itrunc: the block goes back to the bit map (bfree).
Itrunc(s) == used' = used \ {icache[s].d.addr}

\* itrunc, then type = 0 and iupdate: from here on ialloc may take the inode.
IputFree(p) ==
  LET s == ip[p] IN
  /\ At(p, "free")
  /\ Itrunc(s)
  /\ Iupdate(s, [icache[s].d EXCEPT !.type = 0, !.addr = 0])
  /\ Goto(p, "release")
  /\ UNCHANGED <<dir, lock, dlock, fd, fdnum, ip, arg, panicked>>

IputRelease(p) ==
  LET s == ip[p] IN
  /\ At(p, "release")
  /\ icache' = [icache EXCEPT ![s].valid = 0]
  /\ lock' = [lock EXCEPT ![s] = None]
  /\ Goto(p, "drop")
  /\ UNCHANGED <<disk, dir, used, dlock, fd, fdnum, ip, arg, panicked>>

IputDrop(p) ==
  LET s == ip[p] IN
  /\ At(p, "drop")
  /\ icache' = [icache EXCEPT ![s].ref = @ - 1]
  /\ ip' = [ip EXCEPT ![p] = 0]
  /\ Goto(p, "user")
  /\ UNCHANGED <<disk, dir, used, lock, dlock, fd, fdnum, arg, panicked>>

-----------------------------------------------------------------------------
(* sysfile.c.  A process keeps at most one file open in this model.        *)

\* p calls namei(n), or dirlookup under the lock of the directory, and goes on
\* at l with a reference to the inode found.
Namei(p, n, l) ==
  /\ At(p, "user") /\ dlock = None /\ dir[n] # 0
  /\ Iget(p, dir[n], l)

\* sys_open of a name that exists; create finds it under the same lock.
Open(p, n) ==
  /\ fd[p] = 0
  /\ Namei(p, n, "open")
  /\ UNCHANGED <<disk, dir, used, lock, dlock, fd, fdnum, arg>>

\* ilock, filealloc, fdalloc, iunlock; with no file or descriptor left, iput.
OpenLock(p) ==
  LET s == ip[p] IN
  /\ Ilock(p, "open")
  /\ icache' = [icache EXCEPT ![s].valid = 1, ![s].d = Ilocked(s)]
  /\ \/ /\ fd' = [fd EXCEPT ![p] = s]
        /\ fdnum' = [fdnum EXCEPT ![p] = icache[s].inum]
        /\ ip' = [ip EXCEPT ![p] = 0]
        /\ Goto(p, "user")
     \/ Goto(p, "iput") /\ UNCHANGED <<fd, fdnum, ip>>
  /\ UNCHANGED <<disk, dir, used, lock, dlock, arg>>

\* create: the name is new; ialloc marks the first free inode on disk.
Ialloc(p, n) ==
  LET free == {i \in Inum : disk[i].type = 0} IN
  /\ At(p, "user") /\ fd[p] = 0 /\ dlock = None /\ dir[n] = 0
  /\ \/ /\ \E i \in First(free) :
             /\ disk' = [disk EXCEPT ![i] = [NoInode EXCEPT !.type = 1]]
             /\ arg' = [arg EXCEPT ![p] = <<n, i>>]
        /\ dlock' = p
        /\ Goto(p, "iget")
        /\ UNCHANGED panicked
     \/ /\ free = {}
        /\ Panic("ialloc: no inodes")
        /\ UNCHANGED <<disk, arg, dlock, pc>>
  /\ UNCHANGED <<dir, used, icache, lock, fd, fdnum, ip>>

\* ialloc's iget.
IallocIget(p) ==
  /\ At(p, "iget")
  /\ Iget(p, arg[p][2], "fill")
  /\ UNCHANGED <<disk, dir, used, lock, dlock, fd, fdnum, arg>>

\* create: ilock, nlink = 1, mode = 0644, iupdate, dirlink, unlock the directory;
\* then the descriptor, as in OpenLock.
Create(p) ==
  LET s == ip[p]  n == arg[p][1]  i == arg[p][2] IN
  /\ Ilock(p, "fill")
  /\ Iupdate(s, [Ilocked(s) EXCEPT !.nlink = 1, !.mode = DefaultMode])
  /\ dir' = [dir EXCEPT ![n] = i]
  /\ dlock' = None
  /\ arg' = [arg EXCEPT ![p] = <<>>]
  /\ \/ /\ fd' = [fd EXCEPT ![p] = s]
        /\ fdnum' = [fdnum EXCEPT ![p] = i]
        /\ ip' = [ip EXCEPT ![p] = 0]
        /\ Goto(p, "user")
     \/ Goto(p, "iput") /\ UNCHANGED <<fd, fdnum, ip>>
  /\ UNCHANGED <<used, lock>>

\* sys_close and fileclose; iput follows.
Close(p) ==
  /\ At(p, "user") /\ fd[p] # 0
  /\ ip' = [ip EXCEPT ![p] = fd[p]]
  /\ fd' = [fd EXCEPT ![p] = 0]
  /\ fdnum' = [fdnum EXCEPT ![p] = 0]
  /\ Goto(p, "iput")
  /\ UNCHANGED <<disk, dir, used, icache, lock, dlock, arg, panicked>>

\* sys_link: the reference to the old file.
Link(p, n, new) ==
  /\ "link" \in Uses[p]
  /\ Namei(p, n, "inc")
  /\ arg' = [arg EXCEPT ![p] = <<new>>]
  /\ UNCHANGED <<disk, dir, used, lock, dlock, fd, fdnum>>

\* The link is counted before the entry is made.
LinkInc(p) ==
  LET s == ip[p] IN
  /\ Ilock(p, "inc")
  /\ Iupdate(s, [Ilocked(s) EXCEPT !.nlink = @ + 1])
  /\ Goto(p, "enter")
  /\ UNCHANGED <<dir, used, lock, dlock, fd, fdnum, ip, arg>>

\* dirlink: make the entry, or find that the name exists.  The reference that
\* dirlookup takes in that case is dropped again at once.
LinkEnter(p) ==
  LET n == arg[p][1] IN
  /\ At(p, "enter") /\ dlock = None
  /\ \/ /\ dir[n] = 0
        /\ dir' = [dir EXCEPT ![n] = icache[ip[p]].inum]
        /\ Goto(p, "iput")
        /\ UNCHANGED panicked
     \/ /\ dir[n] # 0
        /\ \E s \in IgetSlot(dir[n]) : lock[s] = None
        /\ Goto(p, "dec")
        /\ UNCHANGED <<dir, panicked>>
     \/ /\ dir[n] # 0
        /\ Cached(dir[n]) \cup Unused = {}
        /\ Panic("iget: no inodes")
        /\ UNCHANGED <<dir, pc>>
  /\ arg' = [arg EXCEPT ![p] = <<>>]
  /\ UNCHANGED <<disk, used, icache, lock, dlock, fd, fdnum, ip>>

\* Mutant of LinkDec: the failed link stays counted.
LinkDec_Kept(p) ==
  /\ Ilock(p, "dec")
  /\ Goto(p, "iput")
  /\ UNCHANGED <<disk, dir, used, icache, lock, dlock, fd, fdnum, ip, arg>>

\* bad: the link is taken back.
LinkDec(p) ==
  LET s == ip[p] IN
  /\ Ilock(p, "dec")
  /\ Iupdate(s, [Ilocked(s) EXCEPT !.nlink = @ - 1])
  /\ Goto(p, "iput")
  /\ UNCHANGED <<dir, used, lock, dlock, fd, fdnum, ip, arg>>

\* sys_unlink: the directory stays locked while p waits for the file.
Unlink(p, n) ==
  /\ Namei(p, n, "unlink")
  /\ arg' = [arg EXCEPT ![p] = <<n>>]
  /\ dlock' = IF panicked' = "no" THEN p ELSE None
  /\ UNCHANGED <<disk, dir, used, lock, fd, fdnum>>

UnlinkLock(p) ==
  LET s == ip[p] IN
  /\ At(p, "unlink") /\ lock[s] = None
  /\ panicked' = IF IlockPanic(p) = "no" /\ Ilocked(s).nlink < 1
                 THEN "unlink: nlink < 1" ELSE IlockPanic(p)
  /\ Iupdate(s, [Ilocked(s) EXCEPT !.nlink = @ - 1])
  /\ dir' = [dir EXCEPT ![arg[p][1]] = 0]
  /\ dlock' = None
  /\ arg' = [arg EXCEPT ![p] = <<>>]
  /\ Goto(p, "iput")
  /\ UNCHANGED <<used, lock, fd, fdnum, ip>>

\* balloc: the first block that the bit map has free.
Balloc == First(Block \ used)

\* writei, with bmap: the file gets its block, and the new size is written through.
Writei(s) ==
  IF Block \ used = {}
  THEN Panic("balloc: out of blocks") /\ UNCHANGED <<used, icache, disk>>
  ELSE /\ \E b \in Balloc :
            /\ used' = used \cup {b}
            /\ Iupdate(s, [Ilocked(s) EXCEPT !.addr = b])
       /\ UNCHANGED panicked

\* filewrite of the first bytes of a file.
FileWrite(p) ==
  LET s == fd[p] IN
  /\ "write" \in Uses[p]
  /\ At(p, "user") /\ s # 0 /\ lock[s] = None
  /\ Ilocked(s).addr = 0
  /\ Writei(s)
  /\ UNCHANGED <<dir, lock, dlock, fd, fdnum, pc, ip, arg>>

\* References that neither an open file nor a call in progress will drop.
Kept == Cardinality(UNION {{s} \X (1 .. icache[s].ref) : s \in Slot})
        - Cardinality({p \in Proc : fd[p] # 0})
        - Cardinality({p \in Proc : ip[p] # 0})

\* sys_chmod: the owner is read before the inode is locked, from whatever the
\* entry holds.  The reference is kept, here and below.
Chmod(p, n, m, u) ==
  /\ "chmod" \in Uses[p] /\ Kept < KeepBound
  /\ Namei(p, n, "chmod")
  /\ arg' = [arg EXCEPT ![p] = <<m, u>>]
  /\ UNCHANGED <<disk, dir, used, lock, dlock, fd, fdnum>>

ChmodCheck(p) ==
  /\ At(p, "chmod")
  /\ IF arg[p][2] \notin {icache[ip[p]].d.uid, ROOT}
     THEN /\ Goto(p, "user")
          /\ ip' = [ip EXCEPT ![p] = 0]
          /\ arg' = [arg EXCEPT ![p] = <<>>]
     ELSE Goto(p, "setmode") /\ UNCHANGED <<ip, arg>>
  /\ UNCHANGED <<disk, dir, used, icache, lock, dlock, fd, fdnum, panicked>>

\* A change of the copy in the cache, by a process that then returns.
SetInode(p, d) ==
  LET s == ip[p] IN
  /\ icache' = [icache EXCEPT ![s].valid = 1, ![s].d = d]
  /\ ip' = [ip EXCEPT ![p] = 0]
  /\ arg' = [arg EXCEPT ![p] = <<>>]
  /\ Goto(p, "user")
  /\ UNCHANGED <<disk, dir, used, lock, dlock, fd, fdnum>>

ChmodSet(p) ==
  /\ Ilock(p, "setmode")
  /\ SetInode(p, [Ilocked(ip[p]) EXCEPT !.mode = arg[p][1]])

\* sys_chown.  A process that is not root keeps the reference and returns.
Chown(p, n, o, u) ==
  /\ "chown" \in Uses[p] /\ Kept < KeepBound
  /\ Namei(p, n, IF u = ROOT THEN "chown" ELSE "denied")
  /\ arg' = [arg EXCEPT ![p] = <<o>>]
  /\ UNCHANGED <<disk, dir, used, lock, dlock, fd, fdnum>>

ChownDenied(p) ==
  /\ At(p, "denied")
  /\ ip' = [ip EXCEPT ![p] = 0]
  /\ arg' = [arg EXCEPT ![p] = <<>>]
  /\ Goto(p, "user")
  /\ UNCHANGED <<disk, dir, used, icache, lock, dlock, fd, fdnum, panicked>>

\* changeOwnerGroup.
ChownSet(p) ==
  /\ Ilock(p, "chown")
  /\ SetInode(p, [Ilocked(ip[p]) EXCEPT !.uid = arg[p][1]])

\* namei finds nothing and chmod or chown goes on with a null inode: ilock
\* panics.  Users other than root get an error instead, unless, for chmod, what
\* lies at address 0 looks like their uid.
NullInode(p, n) ==
  /\ At(p, "user") /\ dlock = None /\ dir[n] = 0
  /\ "chmod" \in Uses[p] \/ "chown" \in Uses[p]
  /\ Panic("ilock")
  /\ UNCHANGED <<disk, dir, used, icache, lock, dlock, fd, fdnum, pc, ip, arg>>

-----------------------------------------------------------------------------
Iput(p) == IputTest(p) \/ IputFree(p) \/ IputRelease(p) \/ IputDrop(p)

Kernel(p) ==
  \/ Iput(p) \/ OpenLock(p) \/ IallocIget(p) \/ Create(p)
  \/ LinkInc(p) \/ LinkEnter(p) \/ LinkDec(p) \/ UnlinkLock(p)
  \/ ChmodCheck(p) \/ ChmodSet(p) \/ ChownDenied(p) \/ ChownSet(p)

User(p) ==
  \/ Close(p) \/ FileWrite(p)
  \/ \E n \in Name : Open(p, n) \/ Ialloc(p, n) \/ Unlink(p, n) \/ NullInode(p, n)
  \/ \E n, new \in Name : Link(p, n, new)
  \/ \E n \in Name, m \in Mode, u \in Uid : Chmod(p, n, m, u)
  \/ \E n \in Name, o \in Owner, u \in Uid : Chown(p, n, o, u)

\* panic() never returns.
Frozen == panicked # "no" /\ UNCHANGED vars

Next == Frozen \/ \E p \in Proc : Kernel(p) \/ User(p)

Spec == Init /\ [][Next]_vars

-----------------------------------------------------------------------------
(* Properties.                                                             *)

\* An open file stays the file that was opened, and allocated: whatever other
\* processes unlink, free and create meanwhile, neither the cache entry nor the
\* inode on disk is given to somebody else.
OpenStaysAllocated ==
  \A p \in Proc : fd[p] # 0 =>
    /\ icache[fd[p]].inum = fdnum[p]
    /\ icache[fd[p]].ref > 0
    /\ disk[fdnum[p]].type # 0

\* The link count on disk is the number of names, plus the links that sys_link
\* has counted and not yet entered or taken back.
LinksCounted ==
  \A i \in Inum :
    disk[i].nlink =
      Cardinality({n \in Name : dir[n] = i})
      + Cardinality({p \in Proc : pc[p] \in {"enter", "dec"} /\ icache[ip[p]].inum = i})

\* A block is marked in the bit map exactly when it belongs to a file, and to one
\* file only: itrunc frees what bmap took, also when the inode is taken again at
\* once by ialloc.
BlocksOwned ==
  /\ used = {disk[i].addr : i \in Inum} \ {0}
  /\ \A i, j \in Inum : disk[i].addr = disk[j].addr /\ i # j => disk[i].addr = 0

\* fs.c, comment on inodes: iput frees an inode if the reference and link counts
\* have fallen to zero.  With nobody inside a system call and no file open, no
\* inode without links stays allocated.
UnlinkedIsFreed ==
  (\A p \in Proc : pc[p] = "user" /\ fd[p] = 0) =>
    \A i \in Inum : disk[i].type # 0 => disk[i].nlink > 0
=============================================================================

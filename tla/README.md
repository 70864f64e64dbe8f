# A verification of xv6 with users and groups

The repository is an xv6 kernel (x86, several processors) extended with users,
groups and file permissions, and the user programs that manage them.  This
directory holds TLA+ models of its components, the TLC configurations that check
them on small instances, and TLAPS proofs for instances of any size.
`PROJECT.json` maps every definition to the source lines it models.

## The system and its parts

| Part | Code | State | Interacts with | Module |
|---|---|---|---|---|
| Write-ahead log | `kernel/log.c` | header, `outstanding`, `committing`, log area on disk | every file-system call, buffer cache, sleep/wakeup | `Log`, `TxDisk`, `LogProofs` |
| Buffer cache, IDE driver | `kernel/bio.c`, `ide.c` | LRU list, reference counts, request queue | log, file system, interrupts | `BufCache`, `BufCacheProofs` |
| Process table | `kernel/proc.c`, `sysproc.c`, `trap.c`, `user/init.c` | `ptable`: state, parent, pid, killed, chan, uid/euid | every component that sleeps | `Proc`, `ProcProofs` |
| Scheduler and locks | `kernel/proc.c`, `spinlock.c`, `sleeplock.c` | per-CPU `proc`, `ncli`, `intena`; lock words | timer interrupts, every sleeper | `Sched`, `SchedProofs` |
| Memory | `kernel/kalloc.c`, `vm.c`, `exec.c` | free list, page tables | fork, exit, sbrk, exec | `Memory`, `MemoryProofs` |
| Pipes | `kernel/pipe.c`, `file.c` | ring of `PIPESIZE` bytes, `nread`, `nwrite`, open flags | fork, kill, close | `Pipe`, `Fifo`, `PipeProofs` |
| Inodes and blocks | `kernel/fs.c`, `sysfile.c` | `icache`, disk inodes, bitmap | log, system calls | `Inode` (one directory, files of one block), `InodeProofs` |
| Directories, paths, permissions | `kernel/fs.c`, `sysfile.c` | entries, link counts, modes, working directories | inode references | `Tree` |
| Shell, open files | `user/sh.c`, `kernel/file.c`, `sysfile.c` | `ftable`, descriptors, the commands still to run | fork, wait, pipes | `Shell` |
| User database, login | `user/userhandler.c`, `grouphandler.c`, `useradd`, `usermod`, `groupadd`, `passwd`, `getty` | `/etc/passwd`, `/etc/group`, homes | file system, crashes | `Users` |
| Console | `kernel/console.c`, `user/getty.c` | input ring, cursor, echo flag | keyboard interrupt, readers | `Console`, `Tty`, `ConsoleProofs` |

## The models

Common conventions.  A section of code under one spin-lock is one action; code
that reads shared state without the lock is an action of its own, so that
everything other processors may do in between is explored.  A `sleep` is the
action that puts the process on its channel; `wakeup` is part of the action of
the code that calls it.  C flags are 0 and 1.  A definition named `X_Something`
just before `X` is a deliberately wrong variant of `X`; no specification uses it.
It serves to confirm that the properties notice such a mistake.

### Log (`kernel/log.c`)

`BeginOp`, `LogWrite`, `LogAppend`, `EndOp`, then `WriteLog`, `WriteHead`,
`Install`, `EraseHead` and `EndCommit` of `commit`, one action per disk write.
`LogWrite` is the unlocked test at the head of `log_write`, `LogAppend` the part
under the lock.  `Crash` may come anywhere and may leave the block being written
torn; the header is written atomically, as it fits in one sector.  `ReadHead`,
`Replay` and `Recovered` are `recover_from_log`, which may crash too.  `Recycle`
is `bget` taking a buffer that is not dirty.

`TxDisk` is the abstract promise: a disk, a group of operations in progress whose
writes become visible at once, and a crash that loses exactly the writes of the
group.  `Log` implements it (`ImplementsTxDisk`).

### Proc (`kernel/proc.c`, `sysproc.c`, `trap.c`, `user/init.c`)

Slots of `ptable` with the program counter of the process in each.  Fork is four
steps, since `allocproc` releases `ptable.lock` before it allocates the kernel
stack and `fork` before it copies memory: `AllocProc`/`NoSlot`, `Kalloc`,
`CopyUvm`, `ForkDone`, with `GiveUp` for the allocation failures.  `Exit`, `Wait`
(`Reap`, `WaitMore`), `Kill`, `SetUid`, the tick loop of `sys_sleep`, and the two
tests of `killed` in `trap`.  Slot 1 is `init`: it forks a getty, waits, and forks
again when the getty is gone; if its fork fails it exits and the kernel panics.

Pids are taken from `0..NPROC+1` by reusing the least one no slot holds, in place
of the counter `nextpid`; two live processes never share a pid either way, and a
pid left in an UNUSED slot is kept, as in the code.

### Sched (`kernel/proc.c`, `spinlock.c`, `sleeplock.c`, `trap.c`)

Each processor runs `scheduler()` or the kernel thread of a process; `swtch`
hands `ptable.lock` over.  `ncli` and `intena` are modelled as in
`pushcli`/`popcli`, and a timer interrupt is possible wherever interrupts are
enabled.  The processes take and release one sleep-lock for ever.

### Pipe (`kernel/pipe.c`)

The counters wrap at `MOD` as the 32-bit ones do at 2^32 (`PIPESIZE` divides
`MOD`).  `PipeWrite` is the loop under the pipe's lock up to the point where it
sleeps or ends; `WriteSleep` and `ReadSleep` are the calls of `sleep`, separated
from the test of `killed` since `kill` does not take the pipe's lock.  Fork
duplicates the two descriptors, close drops them.  `Fifo` is the abstract queue
with an open flag per end; `ImplementsFifo` is the refinement.

### Inode (`kernel/fs.c`, `sysfile.c`)

The entries of `icache` with their sleep-locks, the inodes on disk, the bit map
and one directory.  Each system call is a chain of actions that starts with a
lookup under the directory's lock; `iput` is four steps, because it reads `ref`,
frees the inode and drops `ref` under three different locks.  `sys_chmod` and
`sys_chown` keep the reference `namei` gave them, as the code does; `Kept` counts
such references and `KeepBound` bounds them.  When `namei` finds nothing they go
on with a null pointer (`NullInode`).  The inode of the directory itself is always
cached and left out; transactions are those of `Log`.

### BufCache (`kernel/bio.c`, `ide.c`)

`BgetHit`, `BgetRecycle` and `BgetLock` are `bget` and `bread`; `Iderw`,
`IderwWoken` and `IdeIntr` the driver.  The controller is external: it carries out
the command it was given, or fails.  `ideintr` does not tell the process: after a
failed read the buffer is valid with its old contents, after a failed write it is
clean although the disk has the old block, and a later read shows that.  `lost` (blocks)
and `failed` (buffers) remember both.  `LogWrite` pins a buffer, at most `LogBlocks`
of them.  A process holds one buffer at a time.

### Memory (`kernel/kalloc.c`, `vm.c`, `exec.c`, `proc.c`)

An address space is a directory, the tables of the kernel and of the user, and the
user pages; each loop of `allocuvm`, `copyuvm` and `setupkvm` takes a page per step,
since `kalloc` may fail and other processes allocate in between.  Sizes are bytes
modulo `WORD`.  What a program file holds is data (`Program`): where segments end,
and whether headers, contents and arguments are good.  The first process does not
shrink itself to nothing.

### Tree (`kernel/fs.c`, `sysfile.c`)

Every turn of `namex` is a step, and so are a permission check and what a call does
with the inodes it has locked.  References are those of the processes: working
directories, lookups under way, and `kept`, the ones that the code does not put.  A
directory may be removed while processes are in it.  `create` still makes files there,
and its `..` may lead to an inode that is gone: `adrift` has what was made so, `astray`
the processes that followed such a `..`, and the properties that except them say so.

### Users (`user/userhandler.c`, `grouphandler.c`, the commands, `getty.c`)

A command reads, computes and rewrites a file; a rewrite is one step unless the
machine stops in it, which leaves no file or a prefix of its lines.  The lists of the
library are sequences.  Anyone may run the commands: `validateWrite` lets everybody
rewrite the two files, and only the directory `/home` is root's.  When the machine stops,
homes may have the owner they had first, since `chown` changes only the cached inode.
Undefined behaviour is a choice: a null pointer that `removeUserFromCurrGroup` follows
may end the process, and the member of the group that `useradd` makes is looked up by a
name in freed memory, which is that of any user or of nobody.

### Console (`kernel/console.c`) and Tty

The ring with its three wrapping indices, one action per key and per byte read, the
cursor, and the echo switch around a password, which any process may prompt for and be
killed in.  `sys_clear` does not take `cons.lock`: it is two actions, and output that
comes between them leaves the cursor anywhere (`mixed`), until a clear in which none
does.  `Tty` is the abstract line editor: an edited line and a queue of bytes.

### Shell (`user/sh.c`, `kernel/file.c`, `sysfile.c`)

`Parsecmd` and the operators it uses follow the recursive descent of the source over
tokens.  `Runcmd` turns a command into the system calls that a process makes for it;
each is a step over the descriptors and the table of open files.  `want` and `loose`
are history: the input and output that the command line gives a program, and whether
anybody waits for it.

## What the runs show

| Run | Instance | Result |
|---|---|---|
| `log` | 2 processes, 2 blocks, 2 values, room for 2 operations, crashes, fair | `Log` implements `TxDisk`; what is committed is on disk when nothing is under way; sleepers have a waker and wake |
| `bufcache` | 2 processes, 4 blocks, 3 buffers, 1 pinned, 1 failed command | one buffer per block, counts right, last write seen but for the failure |
| `proc` | 3 slots with kill, sleep, faults, setuid, no memory, or 4 slots with faults (`Init` picks the machine), fair | no leak, parents alive, no sleep beside a zombie, root given up stays given up; the killed die |
| `sched` | 2 processors, 3 processes, fair | one processor per process, interrupt state; a free lock that is wanted is taken |
| `memory` | 2 slots, 13 pages, 5 user pages per process | no page shared, lost or freed twice; pages below the size are mapped |
| `pipe` | 2 processes, 2 bytes of buffer, counters mod 4, fair | `Pipe` implements `Fifo`; no sleep beside data or room; page freed once and late enough; the end of file is seen |
| `inode_safe` | 2 processes, 2 names, 3 inodes, a cache of 2, 1 block | open files stay allocated; links counted; every block has one owner |
| `inode_orphan` | 2 processes, 2 inodes | **violated**: an unlinked file stays allocated |
| `tree` | root and a user, 4 inodes, ten calls | link counts, a tree, live names and working directories; lookups find what the path means |
| `shell` | 6 slots, 5 files, 5 descriptors, six lines, 1 background job, fair | programs connected as typed; lines end; the parser inverts the spelling of every command of depth 2 |
| `users` | 1 command at a time, 2 users, 20 command lines, 1 crash | unique uids and gids, homes owned, a group per user, other lines kept |
| `console` | 2 processes, ring of 2, indices mod 4, screen of 3 by 2 | `Console` implements `Tty`; no sleep beside a line; cursor on the screen |

The bounds are the least that make the interesting cases happen: two operations that
share a commit or wait for each other's space; a process that dies between its child
and its parent; more blocks than buffers and more inodes than cache entries, so that
both are recycled; a write longer than the pipe and counters that wrap while it is
full; a lookup on its way through a directory that is emptied, removed and made
again; so few pages, processes and files that every allocation fails in some run.
`Jobs` bounds background processes when a line is typed, `KeepBound` and `MaxGroups`
references that are kept and groups, `Failures` the blocks and buffers that a failed
command has left wrong at a time.  The command lines of `users` add a third user, change
uids, names, homes and groups, and fail in each of their ways.  In `inode_safe` one process makes links
and changes modes and owners and the other writes, and its `VIEW` leaves out fields
that no later step reads; so do those of `bufcache` and `console`; those of `tree` and
`console` leave out everything after a panic.

Limits of what the runs show.

* Two blocks cannot fill the log of the `log` run.  That the log never overflows and
  that `log_write` does not panic (`LogFits`, `NoPanic`) is proved, for every size.
* A panic of the kernel stops a model, and no run says that there is none: some, such
  as that of `init` without memory or of `iget` without a free entry, do happen.
* The `bufcache` run has a buffer for every process beside the pinned ones, so that
  "bget: no buffers" is not reached.  The kernel has `NBUF = LOGSIZE = 30` and 64
  processes, which does not ensure it.  The theorems hold with and without the panic.
* `LastWriteSeen` excepts buffers that a failed read filled, and reads of a block whose
  last write failed.
* A killed writer that has just filled the pipe returns without waking the readers.  For
  this `NoSleepInVain` of `Pipe` does not ask for an empty pipe beside a sleeping reader
  once any process has been killed.
* `HomeOwned` excepts homes that a `usermod -u` which failed later, or was cut short,
  has given away, and homes whose owner a restart has taken back.  `GroupOfUser` speaks
  of gids, not of names or members, on a machine that has not stopped.
* `users` runs one command at a time.  With two at once `UniqueIds` fails: a useradd
  beside a `usermod -u` gives two users one uid.  The documentation does not speak of
  commands at the same time.
* `CursorOnScreen` excepts output within a clear: then the panic "pos under/overflow" of
  `cgaputc` can be reached, and the model does reach it.
* Nothing is claimed of the echo.  The call only toggles, so two prompts at once, or one
  that is killed, leave the flag the wrong way; the model has both.  Two toggles at the
  same moment, of which one is lost, are not modelled.
* `LookupSafe` excepts a process that has followed the `..` of a directory that has been
  removed (`astray`); `ilock` then may panic.  `IsTree` excepts what is created in a
  removed directory, and that directory (`adrift`).  `WalkResolves` is about lookups
  during which the tree does not change.
* `Connected` is about descriptors; nothing is claimed of which child a `wait` returns for.
* In `Shell` a getty is started as soon as there is a slot; that `init` ends when its fork
  fails is in `Proc`.

Runs without deadlock checking: `pipe` (a process may read from a pipe whose only
write end is its own), `users` (a machine without `/etc/passwd` or `/etc/group` cannot
go on) and `shell` (a line that hangs violates `CommandEnds`).

Fairness.  A kernel thread that can go on does (weak or strong fairness of its kernel
steps: the scheduler is round-robin, and spin-locks are held for bounded code); timer
interrupts go on coming.  User code is not assumed to do anything, with these
exceptions: `init` follows its loop; an operation on the log is ended; in `Shell`
programs end once their input does.  In `Sched` a process that has been woken for the
sleep-lock is assumed not to be preempted by the timer at that point for ever.  The
runs without "fair" in the table state safety only.

## Disagreements with the repository's own words

* `inode_orphan`: "iput() frees if the reference and link counts have fallen to
  zero."  Two processes that drop the last two references at the same time both
  read `ref = 2`, and neither frees the inode.

Others met while modelling, which the models contain and no run states:

* "Kill the process with the given pid."  `kill` also marks UNUSED slots that hold
  the pid (0, or the pid of a fork that failed), and `allocproc` does not clear the
  mark.
* `iupdate` "must be called after every change to an ip->xxx field that lives on
  disk".  `sys_chmod` and `changeOwnerGroup` do not call it.
* "-G option is used to add user to one or more groups."  `addUserToGroups` puts one
  list node into all of them, so that the members behind it in an earlier group are
  replaced by those of the last one.
* "change the uid and gid of homedir files": `sys_updateDirOwner` looks the names up
  from the caller's working directory.

Three observations without a line that says otherwise: `begin_op` reserves against
`LOGSIZE` blocks although `mkfs` counts the header in `nlog = LOGSIZE`, so the proofs
about `Log` need operations of at most 9 blocks (`ReservationCovers`); a kill
between the test of `killed` in `piperead` or `pipewrite` and its `sleep` takes effect
only when the pipe is used again; and the group that
`useradd` makes has the name and the gid of the user, but its member is found by the name
in the `newUser` that `addNewUser` has freed (`useradd.c:62`), and may be another user or
nobody.

## What is proved

`LogProofs`, for any set of processes, blocks and values and any sizes:

* `TypeCorrect`: `Spec => []TypeOK`.
* `LogAlwaysFits` and `NeverPanics`: `[]LogFits` and `[]NoPanic`, if the
  reservations cover the writes (`ReservationCovers`; in the kernel, at most 9
  blocks per operation).
* `NoLostWakeup`: `[]SleepersHaveAWaker`.
* `CrashAtomic`: `Spec => ImplementsTxDisk`, the refinement of `TxDisk`, without a
  condition on the sizes.
* `DurableWhenQuiet`: `[]QuiescentDurable`.

The first four rest on one inductive invariant, `IInv`.  `LogFits` is not inductive:
`log_write` tests the length before it takes the lock, so several processes may
be past the test.  `IInv` therefore counts tokens, one for each block an
operation in progress may still write (`Tokens`), and says that the length of the
log plus the number of tokens stays within what `begin_op` admitted.  A logged
block spends a token, `begin_op` creates at most `OpBlocks` of them after its
test, and `end_op` discards the rest.  The other conjuncts say that
`outstanding` is the number of processes inside an operation and that at most one
process commits, with nobody inside an operation meanwhile.

The refinement needs a second one, `TxInv`, which says where the contents of a block are.
A buffer that is neither pinned nor being changed is a copy of its block, and what is
pinned is in the header in memory (`Clean`).  The header on disk is empty except from the
commit point to the end of the installation, and in recovery (`Headers`), so that copying
to the log area changes nothing a crash would show; at the commit point the log area has
what the buffers have (`Copied`), and what a crash would leave becomes what readers see.
The blocks before `tail` are installed and no longer pinned (`Installed`), so that erasing
the header changes nothing either.  A block that a crash tears is one of the log area
before the commit point, or a home block that the header lists: recovery does not read the
first and overwrites the second.  `CrashAtomic` has one lemma for each action.

The assumptions are `SizeAssumption`, `SentinelAssumption` and
`FiniteAssumption` of `Log`.

`BufCacheProofs`, for any finite set of processes, any blocks and values, and any number
of buffers:

* `CachedOnce`: `Spec => []OneCopy`.
* `NotRecycledInUse`: `[]Referenced`.
* `NoWriteLost`: `[]LastWriteSeen`, with any number of failed reads and writes.
* `SleepersQueued`: `[]RequestQueued`, about the queue of the disk driver.

`LastWriteSeen` speaks only of the holders of buffers, while a write may be on its way
through a buffer nobody holds, the queue, the controller and the disk.  The inductive
invariant `IInv` follows it.  A process from `bget` to `brelse` has a
buffer, which is counted (`Refs`); whoever is past `acquiresleep` has its lock
(`Locked`); the queue has no buffer twice, and each buffer in it has a sleeper that
holds its lock (`Queue`).  So nobody changes a buffer in the queue, the controller's
command stays that of the first one (`Drive`), and a block on the disk is out of date
only while its buffer is dirty or after a failed write (`Contents`).  The assumptions are `SizeAssumption` and
`NoneAssumption` of `BufCache`.

`ProcProofs`, for any size of the process table and any ids:

* `ParentsLive`: `Spec => []ParentAlive`.
* `WaitersWoken`: `[]NoUnreapedSleep`.
* `NothingLeaks`: `[]NoLeak`.
* `RootGivenUp`: `[]DroppedStaysDropped`.

`NoLeak` is not inductive, since `fork` fills a slot in several steps and may give up
after each.  `IInv` adds that an `EMBRYO` slot belongs to exactly one process, which is
`RUNNABLE` and inside `fork` (`Fillers`), and that what the slot owns is what the place
of that process says (`Owned`).  For `ParentAlive` it adds that init is alive, that nobody
is its own parent, and that slots not yet in use have no parent (`Family`): so a zombie
that `wait` frees is nobody's parent, and the parent of a process that exits is another
process, which `exit` wakes.  The assumptions are `NprocAssumption`, `UidAssumption` and
`MachinesAssumption` of `Proc`.

`SchedProofs`, for any processors and any number of processes:

* `RunsOnce`: `Spec => []OneProcessor`.
* `InterruptsBalanced`: `[]InterruptsMatch`.
* `NeverPanics`: `[]NoPanic`: no panic of `acquire`, `release` or `sched`.
* `SleepLockExcludes`: `[]MutualExclusion`.
* `SleepersWoken`: `[]NoLostWakeup`.

The last three are properties of `Sched` that no run checks; `SleepLockExcludes` is all
that is shown of the exclusion by sleep-locks.  `IInv` reads off the place
of a processor, in its scheduler or in the process it runs, which spin-locks it holds and
how deep `ncli` is (`CpuOK`).  This survives `swtch` because a process that does not run
is at a place where it expects to come back with `ptable.lock` held (`Processes`), which
the scheduler then holds.  A process that is about to sleep saw the lock taken, or the
holder has yet to call `wakeup` (`Waking`); `releasesleep` cannot change this in between,
since the sleeper holds `lk->lk` or `ptable.lock` all the while.  A step of a process is
local to it and its processor (`Local`), so that one lemma, `LocalKeeps`, serves fourteen
actions.  The assumption is `SchedAssumption` of `Sched`.

`PipeProofs`, for any processes, any size of the ring, any width of the counters
(`PipeAssumption` of `Pipe`: the size divides `MOD` and is less) and any requests:

* `NobodySleepsInVain`: `Spec => []NoSleepInVain`.
* `FreedOnce`: `[]FreedWhenUnused`.
* `RingIsFifo`: `Spec => ImplementsFifo`, the refinement of `Fifo`.

The first lemmas are about counters that wrap: what one write puts behind the bytes
there are, and one read takes from their front (`Content`), is the same before and after
the counters pass `MOD`, because the position of a byte is taken modulo a divisor of
`MOD`.  With them `RingIsFifo` has one lemma for each kind of step (`WritePuts`,
`ReadTakes`, `OthersKeep`).  `PipeInv` says that an end is open as long as it has a
descriptor or a process that is about to close it, which is one process (`Ends`); that
the reference counts are the numbers of descriptors (`Counted`); and, beyond what
`NoSleepInVain` says of sleepers, that a process between its test and its `sleep` holds
the pipe's lock and still has its reason (`Inside`, `Reasons`).  Numbers of elements are
written as numberings (`HasSize`), which needs no assumption that sets are finite.

`InodeProofs`, for any processes, names, modes and owners
and any numbers of inodes, blocks and cache entries (`InodeAssumption` of `Inode`):

* `FileStaysOpen`: `Spec => []OpenStaysAllocated`.
* `BlocksAccounted`: `[]BlocksOwned`.
* `LinksAreCounted`: `[]LinksCounted`.
* `NoInodePanics`: `[]InodesSound`: neither "ilock: no type" nor "unlink: nlink < 1" is
  reached.  No run checks this one.

`InodeProofs` holds the invariant `IInv`, the lemmas on counting and one lemma per
action; its end turns numberings into `Cardinality`.  None of the properties is inductive,
since an inode is in the cache, on disk and in the directory at once, under three kinds of
lock.  `IInv` says
that `ref` is at least the number of descriptors and of system calls that use an entry
(at least, since `chmod` and `chown` keep references); that an inode has one entry, and
one that has been read agrees with the disk in type, links and block (`Coherent`); that
whoever frees an inode has its only reference and it has no name (`Freeing`); and that an
inode which `create` has allocated and not yet named is known to nobody else but the
process that freed it before and is on its way out of `iput` (`Fresh`).  That process is
why `ialloc` may take an inode whose entry is still in the cache: its entry is marked as
not read before the lock is released.

`MemoryProofs`, for any number of slots, any sizes of pages, tables and addresses, any
program files and any arguments of `sbrk`:

* `PagesExclusive`: `Spec => []Exclusive`.
* `PagesNotLost`: `[]NoLeak`.
* `SizesMapped`: `[]SizeMapped`.
* `NeverPanics`: `[]NoPanic`: no page is freed twice, `mappages` meets no mapped page and
  `copyuvm` finds every page of the parent.  No run checks this one.

Who has a page is a set of claims by owner (`Has`): the space of a process, the space its
`fork` or `exec` builds, its stack.  Every action gives free pages to one owner (`Grows`),
takes pages from one or two (`Shrinks`) or hands a space over (`Moves`), and these three
lemmas keep `Exclusive` and `NoLeak`, given that a page taken becomes one new claim and
that the pages given back are those of the claims dropped.  The first fails if a loop maps
a page that is mapped, the second if sizes and tables disagree; so `IInv` says which pages
a space maps, for a process at rest from its size (`StateOK`, `Maps`), and inside each
loop from the loop's bounds and position (`LocalsOK`, `InLoop`).  It also says that the
child of a `fork` is `EMBRYO`, empty but for its stack, and no other fork's (`Children`).
The assumptions are `SizeAssumption` of `Memory` (`KERNBASE` is a multiple of the page
size and at most half of the addresses, and memory has room for the first processes) and
`ArgAssumption` (the argument of `sbrk` is an `int`).

`ConsoleProofs`, for any processes and reads, any ring, any width of the indices and any
screen of two rows or more:

* `CursorStays`: `Spec => []CursorOnScreen`.
* `ReadersWoken`: `[]NoSleepInVain`.
* `ConsoleIsTty`: `Spec => ImplementsTty`, the refinement of `Tty`.

The refinement needs that the finished bytes and the line together fit into the ring,
although each index wraps by itself, and that the line has no newline (`Ring`): then a
byte that is stored is never one of those still to be read, and `^U`, which stops at a
newline, erases all of the line.  The lemmas on wrapping indices (`MinusAdds`,
`MinusGrows`, `MinusShrinks`, `Place`) turn the distances of `r`, `w` and `e` into lengths,
and those on the bytes in the ring (`InStore`, `InTail`, `InFront`, `InJoin`) say what one
more or one less does to them; there is a lemma for each action.  `IInv` has `Ring`, the
types, `NoSleepInVain`, and for the cursor that it is above the last row in every state
(`Cursor`), with a place of 0 while it is not known: so it is on the screen again when a
clear ends in which no output came.  The assumption of `Console` is `SizeAssumption` (the
size of the ring divides `MOD` and is less; two rows or more).

Everything else is only model-checked.  The liveness properties, and what the recursive
parser of `Shell` and the recursive path lookup of `Tree` compute, are out of the prover's
reach.  The invariants of `Tree`, `Users` and `Shell` have not been proved: those of
`Users` speak of lists read and written by folds, which takes induction over data.

## Not modelled

* Boot, interrupt controllers, multiprocessor discovery and assembly: hardware
  programming in a fixed order.
* Keyboard tables and the serial line; text formatting; `memide.c`.
* System-call argument fetching (`syscall.c`): bounds tests on user addresses.
* That `selectAllUsersFromPasswdFile` leaves no room for a final NUL behind the file it
  reads (`userhandler.c:129`): the files of `Users` are sequences of lines.
* `useradd` with a group file that a crash has left empty: `createGroup` does not set the
  `next` of the only group, and what is written behind it is not known.
* `umalloc.c`, mode strings (`permisionhandler.c`, `chmod.c`, `ls.c`), the layout of
  the image by `mkfs`, the small user programs and the tests: sequential, without shared state.
* Within modelled parts: `bmap`'s indirect block, `readi` and file offsets; `mknod`,
  and links across directories; `fstat`; the real name of a user and the copying of
  files by `usermod -m`; `gettoken`'s scan of characters and `nulterminate`.

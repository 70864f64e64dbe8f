------------------------------ MODULE BufCache ------------------------------
(***************************************************************************)
(* The buffer cache (kernel/bio.c) over the disk driver (kernel/ide.c):    *)
(* bget with its list of buffers by age, bread, bwrite, brelse, the queue  *)
(* of requests, and the interrupt of the controller.                       *)
(*                                                                         *)
(* Granularity.  A section under bcache.lock or idelock is one action.  A  *)
(* process that waits for a buffer's sleep-lock gets it when it is free    *)
(* (Sched models sleep-locks); one that sleeps in iderw is in asleep until *)
(* ideintr wakes it.  A process holds one buffer at a time.                *)
(*                                                                         *)
(* Data.  The contents of a block are one value.  The controller (external *)
(* hardware) works on one command: a write carries the data that idestart  *)
(* sent to it, a read is taken from it by ideintr.  Any command may fail,  *)
(* and a write that fails leaves the block as it was.                      *)
(***************************************************************************)
EXTENDS Naturals, Sequences, FiniteSets

CONSTANTS
  Proc, Block, Val,
  NBUF,          \* buffers
  LogBlocks,     \* bound: blocks that the log keeps dirty in the cache
  Failures,      \* bound: blocks and buffers that are wrong after a failed command
  None           \* no block, no process, no command

Buf == 1 .. NBUF

ASSUME SizeAssumption ==
  NBUF \in Nat /\ LogBlocks \in Nat /\ Failures \in Nat /\ IsFiniteSet(Proc)
ASSUME NoneAssumption == None \notin Block \cup Val \cup Proc

VARIABLES
  blockno, refcnt, data,   \* fields of struct buf
  valid, dirty,            \* its flags B_VALID and B_DIRTY
  lock,        \* holder of b->lock
  lru,         \* the buffers from head.next on
  idequeue,
  ctl,         \* the controller: its command <<"read" | "write", block, data>> or <<>>
  ready,       \* its interrupt: 0 not raised, 1 command done, 2 command failed
  disk,
  lost,        \* history: blocks whose last write to the disk failed
  pc, bp, want,   \* where a process is, the buffer it has, the block it wants
  asleep,      \* the processes asleep in iderw
  panicked,
  truth,       \* history: the contents of each block as last changed by a holder
  failed       \* history: buffers filled by a read that failed, or from a lost block

bufVars == <<blockno, refcnt, lru>>
ideVars == <<idequeue, ctl, ready, disk, lost, asleep>>
vars == <<bufVars, data, valid, dirty, lock, ideVars, pc, bp, want, panicked,
          truth, failed>>

\* binit; the disk has some contents.
Init ==
  /\ blockno = [b \in Buf |-> None]
  /\ refcnt = [b \in Buf |-> 0]
  /\ valid = [b \in Buf |-> 0] /\ dirty = [b \in Buf |-> 0]
  /\ lock = [b \in Buf |-> None]
  /\ lru = [i \in Buf |-> NBUF + 1 - i]
  /\ idequeue = <<>> /\ ctl = <<>> /\ ready = 0
  /\ \E v \in Val : /\ disk = [k \in Block |-> v]
                    /\ data = [b \in Buf |-> v]
  /\ pc = [p \in Proc |-> "user"]
  /\ bp = [p \in Proc |-> 0] /\ want = [p \in Proc |-> None]
  /\ asleep = {} /\ lost = {}
  /\ panicked = 0
  /\ truth = disk
  /\ failed = {}

Goto(p, l) == pc' = [pc EXCEPT ![p] = l]
At(p, l) == panicked = 0 /\ pc[p] = l

-----------------------------------------------------------------------------
(* bget and bread.                                                         *)

\* Mutant of Cached: a buffer that is being read does not count.
Cached_Valid(k) == {b \in Buf : blockno[b] = k /\ valid[b] = 1}

Cached(k) == {b \in Buf : blockno[b] = k}

\* Mutants of Free: a buffer in use, and a buffer that the log has pinned.
Free_InUse == {b \in Buf : dirty[b] = 0}
Free_Dirty == {b \in Buf : refcnt[b] = 0}

Free == {b \in Buf : refcnt[b] = 0 /\ dirty[b] = 0}

\* The block is in the cache.
BgetHit(p, k) ==
  /\ At(p, "user")
  /\ \E b \in Cached(k) : bp' = [bp EXCEPT ![p] = b] /\ refcnt' = [refcnt EXCEPT ![b] = @ + 1]
  /\ want' = [want EXCEPT ![p] = k]
  /\ Goto(p, "lock")
  /\ UNCHANGED <<blockno, lru, data, valid, dirty, lock, ideVars, panicked, truth, failed>>

\* It is not: the oldest buffer that nobody uses and the log has not pinned takes it.
BgetRecycle(p, k) ==
  /\ At(p, "user")
  /\ Cached(k) = {}
  /\ IF Free = {}
     THEN panicked' = 1 /\ UNCHANGED <<blockno, refcnt, valid, dirty, bp, want, pc, failed>>
     ELSE \E i \in Buf :
            LET b == lru[i] IN
            /\ b \in Free /\ \A j \in Buf : j > i => lru[j] \notin Free
            /\ blockno' = [blockno EXCEPT ![b] = k]
            /\ refcnt' = [refcnt EXCEPT ![b] = 1]
            /\ valid' = [valid EXCEPT ![b] = 0]
            /\ dirty' = [dirty EXCEPT ![b] = 0]
            /\ bp' = [bp EXCEPT ![p] = b]
            /\ want' = [want EXCEPT ![p] = k]
            /\ failed' = failed \ {b}
            /\ Goto(p, "lock")
            /\ UNCHANGED panicked
  /\ UNCHANGED <<lru, data, lock, ideVars, truth>>

\* acquiresleep(&b->lock); bread reads a buffer that is not valid.
BgetLock(p) ==
  LET b == bp[p] IN
  /\ At(p, "lock")
  /\ lock[b] = None
  /\ lock' = [lock EXCEPT ![b] = p]
  /\ Goto(p, IF valid[b] = 1 THEN "use" ELSE "iderw")
  /\ UNCHANGED <<bufVars, data, valid, dirty, ideVars, bp, want, panicked, truth, failed>>

-----------------------------------------------------------------------------
(* The disk driver.                                                        *)

\* The command that idestart gives to the controller for b.
Command(b) ==
  IF dirty[b] = 1 THEN <<"write", blockno[b], data[b]>> ELSE <<"read", blockno[b], None>>

\* iderw up to its first sleep: b is appended, and started if it is alone.
Iderw(p) ==
  LET b == bp[p] IN
  /\ At(p, "iderw")
  /\ IF lock[b] # p \/ (valid[b] = 1 /\ dirty[b] = 0)
     THEN panicked' = 1 /\ UNCHANGED <<idequeue, ctl, asleep, pc>>
     ELSE /\ idequeue' = Append(idequeue, b)
          /\ ctl' = IF idequeue = <<>> THEN Command(b) ELSE ctl
          /\ asleep' = asleep \cup {p}
          /\ Goto(p, "wait")
          /\ UNCHANGED panicked
  /\ UNCHANGED <<bufVars, data, valid, dirty, lock, ready, disk, lost, bp, want, truth,
                 failed>>

\* The controller does its command, or fails, and raises the interrupt (external).
Controller(bad) ==
  LET writes == ctl[1] = "write" IN
  /\ ctl # <<>> /\ ready = 0
  /\ bad => Cardinality(lost) + Cardinality(failed) < Failures
  /\ disk' = IF writes /\ ~bad THEN [disk EXCEPT ![ctl[2]] = ctl[3]] ELSE disk
  /\ lost' = IF ~writes THEN lost
             ELSE IF bad THEN lost \cup {ctl[2]} ELSE lost \ {ctl[2]}
  /\ ready' = IF bad THEN 2 ELSE 1
  /\ UNCHANGED <<bufVars, data, valid, dirty, lock, idequeue, ctl, asleep, pc, bp,
                 want, panicked, truth, failed>>

\* The command the controller has when the queue is q.
Started(q) == IF q = <<>> THEN <<>> ELSE Command(q[1])

\* ideintr for the first request.  When the command has failed the data of a read are
\* not fetched; the buffer of a read or a write becomes valid and clean nevertheless.
IdeIntr ==
  LET b == idequeue[1]
      reads == dirty[b] = 0
  IN
  /\ ready # 0 /\ idequeue # <<>> /\ panicked = 0
  /\ idequeue' = Tail(idequeue)
  /\ data' = IF reads /\ ready = 1 THEN [data EXCEPT ![b] = disk[ctl[2]]] ELSE data
  /\ failed' = IF reads /\ (ready = 2 \/ ctl[2] \in lost) THEN failed \cup {b} ELSE failed
  /\ valid' = [valid EXCEPT ![b] = 1]
  /\ dirty' = [dirty EXCEPT ![b] = 0]
  /\ asleep' = {p \in asleep : bp[p] # b}
  /\ ctl' = Started(Tail(idequeue))
  /\ ready' = 0
  /\ UNCHANGED <<bufVars, lock, disk, lost, pc, bp, want, panicked, truth>>

\* The loop of iderw: b is in step with the disk, or p sleeps again.
IderwWoken(p) ==
  LET b == bp[p] IN
  /\ At(p, "wait")
  /\ p \notin asleep
  /\ IF valid[b] = 1 /\ dirty[b] = 0
     THEN Goto(p, "use") /\ UNCHANGED asleep
     ELSE asleep' = asleep \cup {p} /\ UNCHANGED pc
  /\ UNCHANGED <<bufVars, data, valid, dirty, lock, idequeue, ctl, ready, disk, lost,
                 bp, want, panicked, truth, failed>>

-----------------------------------------------------------------------------
(* What the holder of a buffer does with it.                               *)

\* It changes the contents, and writes them (bwrite) ...
Bwrite(p, v) ==
  LET b == bp[p] IN
  /\ At(p, "use")
  /\ data' = [data EXCEPT ![b] = v]
  /\ truth' = [truth EXCEPT ![want[p]] = v]
  /\ dirty' = [dirty EXCEPT ![b] = 1]
  /\ failed' = failed \ {b}
  /\ panicked' = IF lock[b] = p THEN 0 ELSE 1
  /\ Goto(p, "iderw")
  /\ UNCHANGED <<bufVars, valid, lock, ideVars, bp, want>>

\* ... or leaves this to the log (log_write: external), which pins the buffer.
LogWrite(p, v) ==
  LET b == bp[p] IN
  /\ At(p, "use")
  /\ Cardinality({c \in Buf : dirty[c] = 1} \cup {b}) <= LogBlocks
  /\ data' = [data EXCEPT ![b] = v]
  /\ truth' = [truth EXCEPT ![want[p]] = v]
  /\ dirty' = [dirty EXCEPT ![b] = 1]
  /\ failed' = failed \ {b}
  /\ Goto(p, "brelse")
  /\ UNCHANGED <<bufVars, valid, lock, ideVars, bp, want, panicked>>

\* brelse: releasesleep, and then the section under bcache.lock.
Brelse(p) ==
  /\ At(p, "use") \/ At(p, "brelse")
  /\ panicked' = IF lock[bp[p]] = p THEN 0 ELSE 1
  /\ lock' = [lock EXCEPT ![bp[p]] = None]
  /\ Goto(p, "unref")
  /\ UNCHANGED <<bufVars, data, valid, dirty, ideVars, bp, want, truth, failed>>

\* The last user moves the buffer to the front of the list.
BrelseUnref(p) ==
  LET b == bp[p] IN
  /\ At(p, "unref")
  /\ refcnt' = [refcnt EXCEPT ![b] = @ - 1]
  /\ lru' = IF refcnt[b] = 1 THEN <<b>> \o SelectSeq(lru, LAMBDA c : c # b) ELSE lru
  /\ bp' = [bp EXCEPT ![p] = 0]
  /\ want' = [want EXCEPT ![p] = None]
  /\ Goto(p, "user")
  /\ UNCHANGED <<blockno, data, valid, dirty, lock, ideVars, panicked, truth, failed>>

Next ==
  \/ \E p \in Proc :
       \/ \E k \in Block : BgetHit(p, k) \/ BgetRecycle(p, k)
       \/ BgetLock(p) \/ Iderw(p) \/ IderwWoken(p) \/ Brelse(p) \/ BrelseUnref(p)
       \/ \E v \in Val : Bwrite(p, v) \/ LogWrite(p, v)
  \/ \E bad \in BOOLEAN : Controller(bad)
  \/ IdeIntr

Spec == Init /\ [][Next]_vars

-----------------------------------------------------------------------------
(* Properties.                                                             *)

\* "Is the block already cached?": a block is never in two buffers, although it is
\* looked up under bcache.lock and read long after.
OneCopy ==
  \A a, b \in Buf : blockno[a] = blockno[b] /\ blockno[a] # None => a = b

\* refcnt counts the processes that use or wait for a buffer, so that none is
\* recycled under them: they find the block they asked for.
Referenced ==
  /\ \A b \in Buf : refcnt[b] = Cardinality({p \in Proc : bp[p] = b})
  /\ \A p \in Proc : bp[p] # 0 => blockno[bp[p]] = want[p]

\* Whoever holds a buffer sees the contents that the last holder of the block gave
\* it, whether they are on the disk, pinned for the log, or came back from the disk
\* into another buffer.  Only a command that fails is excepted: ideintr makes a buffer
\* valid although its read failed, and clean although its write failed, so that the
\* next read of the block from the disk gets what was there before.
LastWriteSeen ==
  \A p \in Proc : pc[p] \in {"use", "brelse"} /\ bp[p] \notin failed =>
    data[bp[p]] = truth[want[p]]

\* A process that sleeps in iderw has its buffer in the queue, once, and the
\* controller works on the first buffer of the queue, for as long as there is one.
RequestQueued ==
  /\ \A p \in asleep : \E i \in DOMAIN idequeue : idequeue[i] = bp[p]
  /\ \A i, j \in DOMAIN idequeue : idequeue[i] = idequeue[j] => i = j
  /\ idequeue = <<>> <=> ctl = <<>>
  /\ idequeue # <<>> => ctl = Command(idequeue[1])
=============================================================================

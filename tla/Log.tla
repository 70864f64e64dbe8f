-------------------------------- MODULE Log ---------------------------------
(***************************************************************************)
(* The write-ahead log of the xv6 file system (kernel/log.c) on top of the *)
(* buffer cache (kernel/bio.c) and the disk.                               *)
(*                                                                         *)
(* Several processes run file-system operations between begin_op and       *)
(* end_op; the last one to leave commits the writes of all of them.  A     *)
(* crash may happen between, or during, any two disk writes; the next boot *)
(* replays the log.                                                        *)
(*                                                                         *)
(* Granularity.  A section of code under log.lock is one action.  The test *)
(* at the head of log_write reads log.lh.n without the lock, so it is an   *)
(* action of its own.  Each bwrite is one action, and a crash may leave    *)
(* the block it writes torn: a block is several disk sectors.  The log     *)
(* header is the exception, as its (LOGSIZE+1)*4 bytes lie in one sector.  *)
(*                                                                         *)
(* Data.  Blocks of the log area are dlog[1..], the header is the sequence *)
(* dhead of the home block numbers it lists.  A home block is a member of  *)
(* Block and its contents a member of Val.                                 *)
(***************************************************************************)
EXTENDS Naturals, Sequences, FiniteSets

CONSTANTS
  Proc,         \* processes that run file-system operations
  Block,        \* home block numbers
  Val,          \* contents of a block
  Torn,         \* contents of a block whose write was cut by a crash
  NoBuf,        \* the block has no buffer
  MAXOPBLOCKS,  \* blocks begin_op reserves for an operation (param.h)
  LOGSIZE,      \* entries of the log header (param.h)
  NLOG,         \* blocks of the on-disk log, its header included (sb.nlog)
  OpBlocks      \* most blocks an operation really writes

ASSUME SizeAssumption ==
  /\ MAXOPBLOCKS \in Nat \ {0} /\ LOGSIZE \in Nat /\ NLOG \in Nat \ {0}
  /\ OpBlocks \in Nat \ {0}
  /\ OpBlocks <= MAXOPBLOCKS /\ MAXOPBLOCKS <= LOGSIZE

ASSUME SentinelAssumption ==
  /\ Torn \notin Val
  /\ NoBuf \notin Val \cup {Torn}

ASSUME FiniteAssumption == IsFiniteSet(Proc)

VARIABLES
  \* The disk.
  disk,         \* disk[b]: home block b
  dlog,         \* dlog[i]: i-th data block of the log
  dhead,        \* header block of the log: the home blocks it lists
  \* The buffer cache.
  buf,          \* buf[b]: the buffer of home block b, or NoBuf
  dirty,        \* home blocks whose buffer is pinned by B_DIRTY
  \* struct log.
  lh,           \* in-memory header: the home blocks logged so far
  outstanding,  \* number of operations between begin_op and end_op
  committing,   \* 1 while a process is in commit(), else 0
  \* The processes.
  pc,           \* where each process is
  wbuf,         \* wbuf[p]: block whose buffer p holds locked in log_write
  opw,          \* opw[p]: blocks the operation of p has written
  tail,         \* loop variable of write_log and install_trans
  mode          \* "boot", "replay": recovery; "run"; "panic"

diskVars == <<disk, dlog, dhead>>
logVars  == <<lh, outstanding, committing>>
vars == <<disk, dlog, dhead, buf, dirty, lh, outstanding, committing,
          pc, wbuf, opw, tail, mode>>

PC == {"idle", "begin", "sleep", "op", "append",
       "write_log", "install", "done"}

Active == {p \in Proc : pc[p] \in {"op", "append"}}

\* What bread(b) returns: the buffer of b, or a fresh one read from the disk.
Bread(b) == IF buf[b] = NoBuf THEN disk[b] ELSE buf[b]

\* Mutant of Wakeup: the call to wakeup(&log) is missing.
Wakeup_Missing(f) == f

\* wakeup(&log): every process asleep in begin_op runs again.
Wakeup(f) == [p \in Proc |-> IF f[p] = "sleep" THEN "begin" ELSE f[p]]

-----------------------------------------------------------------------------
\* Power on with a file system made by mkfs, whose log is empty.
Init ==
  /\ disk \in [Block -> Val]
  /\ \E v \in Val : dlog = [i \in 1 .. LOGSIZE |-> v]
  /\ dhead = <<>>
  /\ buf = [b \in Block |-> NoBuf]
  /\ dirty = {}
  /\ lh = <<>>
  /\ outstanding = 0
  /\ committing = 0
  /\ pc = [p \in Proc |-> "idle"]
  /\ wbuf = [p \in Proc |-> NoBuf]
  /\ opw = [p \in Proc |-> {}]
  /\ tail = 1
  /\ mode = "boot"

-----------------------------------------------------------------------------
(* Recovery.  initlog runs before the first process returns to user space. *)

\* Mutant of InstallTrans: the loop does not advance.
InstallTrans_Stuck ==
  LET b == lh[tail] IN
  /\ tail <= Len(lh)
  /\ buf' = [buf EXCEPT ![b] = dlog[tail]]
  /\ disk' = [disk EXCEPT ![b] = dlog[tail]]
  /\ dirty' = dirty \ {b}
  /\ tail' = tail

\* One iteration of install_trans.  iderw clears B_DIRTY once b is written.
InstallTrans ==
  LET b == lh[tail] IN
  /\ tail <= Len(lh)
  /\ buf' = [buf EXCEPT ![b] = dlog[tail]]
  /\ disk' = [disk EXCEPT ![b] = dlog[tail]]
  /\ dirty' = dirty \ {b}
  /\ tail' = tail + 1

ReadHead ==
  /\ mode = "boot"
  /\ lh' = dhead
  /\ tail' = 1
  /\ mode' = "replay"
  /\ UNCHANGED <<disk, dlog, dhead, buf, dirty, outstanding, committing,
                 pc, wbuf, opw>>

Replay ==
  /\ mode = "replay"
  /\ InstallTrans
  /\ UNCHANGED <<dlog, dhead, lh, outstanding, committing, pc, wbuf, opw,
                 mode>>

Recovered ==
  /\ mode = "replay"
  /\ tail > Len(lh)
  /\ lh' = <<>>
  /\ dhead' = <<>>
  /\ mode' = "run"
  /\ UNCHANGED <<disk, dlog, buf, dirty, outstanding, committing, pc, wbuf,
                 opw, tail>>

-----------------------------------------------------------------------------
(* Operations.                                                             *)

\* begin_op would overrun the log if every operation used its reservation.
NoLogSpace == Len(lh) + (outstanding + 1) * MAXOPBLOCKS > LOGSIZE

BeginOp(p) ==
  /\ mode = "run"
  /\ pc[p] \in {"idle", "begin"}
  /\ IF committing = 1 \/ NoLogSpace
     THEN /\ pc' = [pc EXCEPT ![p] = "sleep"]
          /\ UNCHANGED <<outstanding, opw>>
     ELSE /\ pc' = [pc EXCEPT ![p] = "op"]
          /\ outstanding' = outstanding + 1
          /\ opw' = [opw EXCEPT ![p] = {}]
  /\ UNCHANGED <<diskVars, buf, dirty, lh, committing, wbuf, tail, mode>>

\* The tests log_write makes before it takes log.lock.
TooBig == Len(lh) >= LOGSIZE \/ Len(lh) + 1 >= NLOG
OutsideOfTrans == outstanding < 1

\* p has the buffer of b locked, changes it, and enters log_write.
LogWrite(p, b, v) ==
  /\ mode = "run"
  /\ pc[p] = "op"
  /\ \A q \in Proc : wbuf[q] # b
  /\ b \in opw[p] \/ Cardinality(opw[p]) < OpBlocks
  /\ buf' = [buf EXCEPT ![b] = v]
  /\ wbuf' = [wbuf EXCEPT ![p] = b]
  /\ pc' = [pc EXCEPT ![p] = "append"]
  /\ mode' = IF TooBig \/ OutsideOfTrans THEN "panic" ELSE mode
  /\ UNCHANGED <<diskVars, dirty, logVars, opw, tail>>

\* Mutant of LogAppend: the buffer is not pinned.
LogAppend_NotPinned(p) ==
  LET b == wbuf[p] IN
  /\ mode = "run"
  /\ pc[p] = "append"
  /\ lh' = IF \E i \in 1 .. Len(lh) : lh[i] = b THEN lh ELSE Append(lh, b)
  /\ opw' = [opw EXCEPT ![p] = @ \cup {b}]
  /\ wbuf' = [wbuf EXCEPT ![p] = NoBuf]
  /\ pc' = [pc EXCEPT ![p] = "op"]
  /\ UNCHANGED <<diskVars, buf, dirty, outstanding, committing, tail, mode>>

\* The rest of log_write, under log.lock, and the caller's brelse.
LogAppend(p) ==
  LET b == wbuf[p] IN
  /\ mode = "run"
  /\ pc[p] = "append"
  /\ lh' = IF \E i \in 1 .. Len(lh) : lh[i] = b THEN lh ELSE Append(lh, b)
  /\ dirty' = dirty \cup {b}
  /\ opw' = [opw EXCEPT ![p] = @ \cup {b}]
  /\ wbuf' = [wbuf EXCEPT ![p] = NoBuf]
  /\ pc' = [pc EXCEPT ![p] = "op"]
  /\ UNCHANGED <<diskVars, buf, outstanding, committing, tail, mode>>

EndOp(p) ==
  /\ mode = "run"
  /\ pc[p] = "op"
  /\ outstanding' = outstanding - 1
  /\ mode' = IF committing = 1 THEN "panic" ELSE mode
  /\ IF outstanding' = 0
     THEN /\ committing' = 1
          /\ pc' = [pc EXCEPT ![p] = IF lh = <<>> THEN "done"
                                                  ELSE "write_log"]
          /\ tail' = 1
     ELSE /\ pc' = Wakeup([pc EXCEPT ![p] = "idle"])
          /\ UNCHANGED <<committing, tail>>
  /\ UNCHANGED <<diskVars, buf, dirty, lh, wbuf, opw>>

-----------------------------------------------------------------------------
(* commit(), by the process that left last.                                *)

WriteLog(p) ==
  /\ mode = "run"
  /\ pc[p] = "write_log"
  /\ tail <= Len(lh)
  /\ dlog' = [dlog EXCEPT ![tail] = Bread(lh[tail])]
  /\ tail' = tail + 1
  /\ UNCHANGED <<disk, dhead, buf, dirty, logVars, pc, wbuf, opw, mode>>

\* Mutant of WriteHead: install_trans does not start from the first block.
WriteHead_NoReset(p) ==
  /\ mode = "run"
  /\ pc[p] = "write_log"
  /\ tail > Len(lh)
  /\ dhead' = lh
  /\ pc' = [pc EXCEPT ![p] = "install"]
  /\ UNCHANGED <<disk, dlog, buf, dirty, logVars, wbuf, opw, tail, mode>>

\* The commit point.
WriteHead(p) ==
  /\ mode = "run"
  /\ pc[p] = "write_log"
  /\ tail > Len(lh)
  /\ dhead' = lh
  /\ tail' = 1
  /\ pc' = [pc EXCEPT ![p] = "install"]
  /\ UNCHANGED <<disk, dlog, buf, dirty, logVars, wbuf, opw, mode>>

Install(p) ==
  /\ mode = "run"
  /\ pc[p] = "install"
  /\ InstallTrans
  /\ UNCHANGED <<dlog, dhead, logVars, pc, wbuf, opw, mode>>

EraseHead(p) ==
  /\ mode = "run"
  /\ pc[p] = "install"
  /\ tail > Len(lh)
  /\ lh' = <<>>
  /\ dhead' = <<>>
  /\ pc' = [pc EXCEPT ![p] = "done"]
  /\ UNCHANGED <<disk, dlog, buf, dirty, outstanding, committing, wbuf, opw,
                 tail, mode>>

EndCommit(p) ==
  /\ mode = "run"
  /\ pc[p] = "done"
  /\ committing' = 0
  /\ pc' = Wakeup([pc EXCEPT ![p] = "idle"])
  /\ UNCHANGED <<diskVars, buf, dirty, lh, outstanding, wbuf, opw, tail,
                 mode>>

-----------------------------------------------------------------------------
(* The environment: buffer recycling and crashes.                          *)

\* bget recycles a buffer that nobody has locked and B_DIRTY does not pin.
Recycle(b) ==
  /\ mode = "run"
  /\ buf[b] # NoBuf
  /\ b \notin dirty
  /\ \A p \in Proc : wbuf[p] # b
  /\ buf' = [buf EXCEPT ![b] = NoBuf]
  /\ UNCHANGED <<diskVars, dirty, logVars, pc, wbuf, opw, tail, mode>>

\* What a crash may do to the block that is being written.
CleanCut == UNCHANGED <<disk, dlog>>

TornLog ==
  /\ \E p \in Proc : pc[p] = "write_log"
  /\ tail <= Len(lh)
  /\ dlog' = [dlog EXCEPT ![tail] = Torn]
  /\ UNCHANGED disk

TornHome ==
  /\ mode = "replay" \/ \E p \in Proc : pc[p] = "install"
  /\ tail <= Len(lh)
  /\ disk' = [disk EXCEPT ![lh[tail]] = Torn]
  /\ UNCHANGED dlog

\* Memory is lost; the machine boots again.
Crash ==
  /\ CleanCut \/ TornLog \/ TornHome
  /\ buf' = [b \in Block |-> NoBuf]
  /\ dirty' = {}
  /\ lh' = <<>>
  /\ outstanding' = 0
  /\ committing' = 0
  /\ pc' = [p \in Proc |-> "idle"]
  /\ wbuf' = [p \in Proc |-> NoBuf]
  /\ opw' = [p \in Proc |-> {}]
  /\ tail' = 1
  /\ mode' = "boot"
  /\ UNCHANGED dhead

Commit(p) ==
  WriteLog(p) \/ WriteHead(p) \/ Install(p) \/ EraseHead(p) \/ EndCommit(p)

Recover == ReadHead \/ Replay \/ Recovered

Next ==
  \/ Recover
  \/ \E p \in Proc : BeginOp(p) \/ LogAppend(p) \/ EndOp(p) \/ Commit(p)
  \/ \E p \in Proc, b \in Block, v \in Val : LogWrite(p, b, v)
  \/ \E b \in Block : Recycle(b)
  \/ Crash

Spec == Init /\ [][Next]_vars

(***************************************************************************)
(* Fairness.  The machine keeps running (no fairness on Crash) and the     *)
(* scheduler runs every runnable process, so whatever a process can do     *)
(* next it does, commit and recovery included.  An operation is a system   *)
(* call: after finitely many log_writes it gets to its end_op, which is    *)
(* strong fairness of EndOp.  Nothing is assumed about who is admitted     *)
(* first by begin_op.                                                      *)
(***************************************************************************)
Fairness ==
  /\ WF_vars(Recover)
  /\ \A p \in Proc : /\ WF_vars(LogAppend(p))
                     /\ WF_vars(Commit(p))
                     /\ SF_vars(EndOp(p))

FairSpec == Spec /\ Fairness

-----------------------------------------------------------------------------
(* Properties.                                                             *)

\* Every variable keeps its type.
TypeOK ==
  /\ disk \in [Block -> Val \cup {Torn}]
  /\ dlog \in [1 .. LOGSIZE -> Val \cup {Torn}]
  /\ dhead \in Seq(Block)
  /\ buf \in [Block -> Val \cup {Torn, NoBuf}]
  /\ dirty \in SUBSET Block
  /\ lh \in Seq(Block)
  /\ outstanding \in Nat
  /\ committing \in {0, 1}
  /\ pc \in [Proc -> PC]
  /\ wbuf \in [Proc -> Block \cup {NoBuf}]
  /\ opw \in [Proc -> SUBSET Block]
  /\ tail \in Nat \ {0}
  /\ mode \in {"boot", "replay", "run", "panic"}

\* The reservation made by begin_op is enough: the logged blocks always fit in
\* the on-disk log, whose first block is the header.  The block after the log
\* is the first inode block, which write_log would overwrite otherwise
\* (log.c:183, log.start+tail+1).
LogFits == Len(lh) < NLOG

\* None of log.c's panics is reached: log_write never finds the log full
\* ("too big a transaction") nor itself outside of a transaction, and no
\* operation ends while a commit runs ("log.committing").
NoPanic == mode # "panic"

\* No lost wakeup on &log: while a process sleeps in begin_op, some operation is
\* still active or some process is committing, and will call wakeup(&log).
SleepersHaveAWaker ==
  (\E p \in Proc : pc[p] = "sleep") => outstanding > 0 \/ committing = 1

\* What a crash now would leave in block b once recovery has replayed the log.
AfterRecovery ==
  [b \in Block |->
     IF \E i \in 1 .. Len(dhead) : dhead[i] = b
     THEN dlog[CHOOSE i \in 1 .. Len(dhead) : dhead[i] = b]
     ELSE disk[b]]

\* What readers see.  Nobody reads before recovery is over.
Visible == IF mode \in {"boot", "replay"} THEN AfterRecovery
                                         ELSE [b \in Block |-> Bread(b)]

\* Durability: once the last operation has returned from end_op, everything
\* written survives a crash.  (An operation that returns while others are
\* active gets this only at the group commit.)
QuiescentDurable ==
  mode = "run" /\ outstanding = 0 /\ committing = 0 => AfterRecovery = Visible

\* Crash atomicity: the log implements a disk with transactions.  A crash at
\* any point, during recovery too, leaves the writes of whole operations only.
TD == INSTANCE TxDisk WITH
        committed <- AfterRecovery, current <- Visible, active <- Active

ImplementsTxDisk == TD!Spec

\* Whoever sleeps in begin_op is woken.
SleepersWake == \A p \in Proc : (pc[p] = "sleep") ~> (pc[p] # "sleep")
=============================================================================

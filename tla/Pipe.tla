-------------------------------- MODULE Pipe --------------------------------
(***************************************************************************)
(* Pipes (kernel/pipe.c), with the reference counts of their two open      *)
(* files (kernel/file.c) and the processes that inherit them through fork, *)
(* block in them and are killed in them (kernel/proc.c).                   *)
(*                                                                         *)
(* Granularity.  What a process does while it holds the pipe's lock is one *)
(* action, up to the point where it returns or calls sleep.  sleep itself  *)
(* takes ptable.lock before it lets go of the pipe's lock, and kill takes  *)
(* only ptable.lock: so a process that has decided to sleep still holds    *)
(* the pipe, in "wsleep" or "rsleep", while it can already be killed.      *)
(*                                                                         *)
(* Data.  nread and nwrite are uint: they wrap at MOD (2^32 in the code).  *)
(* The bytes of a write are arbitrary.  A process has at most one          *)
(* descriptor of each end.                                                 *)
(***************************************************************************)
EXTENDS Naturals, Sequences, FiniteSets

CONSTANTS
  Proc,
  Creator,     \* the process that has called pipe()
  Byte,
  PIPESIZE,
  MOD,         \* where nread and nwrite wrap
  Req,         \* the lengths n that read and write are called with
  None         \* nobody holds the lock

ASSUME PipeAssumption ==
  /\ Creator \in Proc /\ None \notin Proc
  /\ PIPESIZE \in Nat \ {0}
  /\ MOD \in Nat /\ MOD % PIPESIZE = 0 /\ MOD > PIPESIZE
  /\ Req \subseteq Nat

VARIABLES
  data, nread, nwrite, readopen, writeopen,   \* struct pipe
  lock,        \* who holds p->lock between two actions
  freed,       \* how many times the pipe's page has been freed
  rref, wref,  \* ref of the file of the read end, of the write end
  rfd, wfd,    \* the processes with a descriptor of the read, the write end
  born,        \* the processes that exist
  pc, chan,    \* where a process is; the channel it is SLEEPING on, or "none"
  rem,         \* bytes its read or write has still to move
  killed,
  got          \* history: <<s>> when the last step was a read that returned s, else <<>>

pipe == <<data, nread, nwrite, readopen, writeopen, freed>>
files == <<rref, wref, rfd, wfd, born>>
vars == <<pipe, lock, files, pc, chan, rem, killed, got>>

\* The number of bytes in the pipe, and the bytes.
Used == (nwrite + MOD - nread) % MOD
Content == [i \in 1 .. Used |-> data[(nread + i - 1) % PIPESIZE]]

Full == nwrite = (nread + PIPESIZE) % MOD
Empty == nread = nwrite

Goto(p, l) == pc' = [pc EXCEPT ![p] = l]

\* p runs at label l, and nobody holds the pipe's lock.
At(p, l) == pc[p] = l /\ chan[p] = "none"
Enters(p, l) == At(p, l) /\ lock = None

\* The channels after wakeup(c).
Wakeup(c) == [p \in Proc |-> IF chan[p] = c THEN "none" ELSE chan[p]]

Least(m, n) == IF m <= n THEN m ELSE n

-----------------------------------------------------------------------------
Init ==
  /\ data \in [0 .. PIPESIZE - 1 -> Byte]
  /\ nread = 0 /\ nwrite = 0 /\ readopen = 1 /\ writeopen = 1
  /\ lock = None /\ freed = 0
  /\ rref = 1 /\ wref = 1 /\ rfd = {Creator} /\ wfd = {Creator}
  /\ born = {Creator}
  /\ pc = [p \in Proc |-> "user"]
  /\ chan = [p \in Proc |-> "none"]
  /\ rem = [p \in Proc |-> 0]
  /\ killed = [p \in Proc |-> 0]
  /\ got = <<>>

\* The program of p runs and may make a system call.
Calls(p) == At(p, "user") /\ p \in born /\ killed[p] = 0

\* fork: the child gets the descriptors, each with filedup.
Fork(p, c) ==
  /\ Calls(p)
  /\ c \notin born
  /\ born' = born \cup {c}
  /\ rfd' = IF p \in rfd THEN rfd \cup {c} ELSE rfd
  /\ wfd' = IF p \in wfd THEN wfd \cup {c} ELSE wfd
  /\ rref' = IF p \in rfd THEN rref + 1 ELSE rref
  /\ wref' = IF p \in wfd THEN wref + 1 ELSE wref
  /\ got' = <<>>
  /\ UNCHANGED <<pipe, lock, pc, chan, rem, killed>>

\* kill: marks p, and wakes it if it sleeps.
Kill(p) ==
  /\ p \in born
  /\ killed[p] = 0
  /\ killed' = [killed EXCEPT ![p] = 1]
  /\ chan' = [chan EXCEPT ![p] = "none"]
  /\ got' = <<>>
  /\ UNCHANGED <<pipe, lock, files, pc, rem>>

-----------------------------------------------------------------------------
(* write.                                                                  *)

\* sys_write, filewrite.
SysWrite(p, n) ==
  /\ Calls(p)
  /\ p \in wfd
  /\ Goto(p, "write")
  /\ rem' = [rem EXCEPT ![p] = n]
  /\ got' = <<>>
  /\ UNCHANGED <<pipe, lock, files, chan, killed>>

\* The bytes s go into the ring.
Store(s) ==
  /\ data' = [i \in 0 .. PIPESIZE - 1 |->
                LET js == {j \in 1 .. Len(s) : (nwrite + j - 1) % PIPESIZE = i}
                IN  IF js = {} THEN data[i] ELSE s[CHOOSE j \in js : TRUE]]
  /\ nwrite' = (nwrite + Len(s)) % MOD

\* pipewrite, from the lock (or from sleep) on: fill the ring; with all bytes
\* written, wake the readers and return; otherwise the ring is full, and the
\* writer gives up if nobody can read or it has been killed, or wakes the
\* readers and goes on to sleep.
PipeWrite(p) ==
  /\ Enters(p, "write")
  /\ \E s \in [1 .. Least(rem[p], PIPESIZE - Used) -> Byte] :
       LET left == rem[p] - Len(s)
           gaveup == left # 0 /\ (readopen = 0 \/ killed[p] = 1)
           blocks == left # 0 /\ ~gaveup IN
       /\ Store(s)
       /\ rem' = [rem EXCEPT ![p] = IF blocks THEN left ELSE 0]
       /\ Goto(p, IF blocks THEN "wsleep" ELSE "user")
       /\ lock' = IF blocks THEN p ELSE None
       /\ chan' = IF gaveup THEN chan ELSE Wakeup("nread")
  /\ got' = <<>>
  /\ UNCHANGED <<nread, readopen, writeopen, freed, files, killed>>

\* sleep(&p->nwrite, &p->lock) lets go of the pipe and of the processor at once.
WriteSleep(p) ==
  /\ At(p, "wsleep")
  /\ chan' = [chan EXCEPT ![p] = "nwrite"]
  /\ Goto(p, "write")
  /\ lock' = None
  /\ got' = <<>>
  /\ UNCHANGED <<pipe, files, rem, killed>>

-----------------------------------------------------------------------------
(* read.                                                                   *)

\* sys_read, fileread.
SysRead(p, n) ==
  /\ Calls(p)
  /\ p \in rfd
  /\ Goto(p, "read")
  /\ rem' = [rem EXCEPT ![p] = n]
  /\ got' = <<>>
  /\ UNCHANGED <<pipe, lock, files, chan, killed>>

\* piperead while the pipe is empty and has writers.  A killed process gets -1: no
\* read returns.
ReadEmpty(p) ==
  /\ Enters(p, "read")
  /\ Empty /\ writeopen = 1
  /\ IF killed[p] = 1
     THEN Goto(p, "user") /\ rem' = [rem EXCEPT ![p] = 0] /\ UNCHANGED lock
     ELSE Goto(p, "rsleep") /\ lock' = p /\ UNCHANGED rem
  /\ got' = <<>>
  /\ UNCHANGED <<pipe, files, chan, killed>>

ReadSleep(p) ==
  /\ At(p, "rsleep")
  /\ chan' = [chan EXCEPT ![p] = "nread"]
  /\ Goto(p, "read")
  /\ lock' = None
  /\ got' = <<>>
  /\ UNCHANGED <<pipe, files, rem, killed>>

\* Mutant of PipeRead: the writers are not woken.
PipeRead_NoWakeup(p) ==
  LET k == Least(rem[p], Used) IN
  /\ Enters(p, "read")
  /\ ~Empty \/ writeopen = 0
  /\ nread' = (nread + k) % MOD
  /\ got' = <<SubSeq(Content, 1, k)>>
  /\ rem' = [rem EXCEPT ![p] = 0]
  /\ Goto(p, "user")
  /\ UNCHANGED <<data, nwrite, readopen, writeopen, freed, lock, files, chan,
                 killed>>

\* Mutant of PipeRead: the end of the file is not an answer.
PipeRead_WaitsForData(p) ==
  LET k == Least(rem[p], Used) IN
  /\ Enters(p, "read")
  /\ ~Empty
  /\ nread' = (nread + k) % MOD
  /\ got' = <<SubSeq(Content, 1, k)>>
  /\ chan' = Wakeup("nwrite")
  /\ rem' = [rem EXCEPT ![p] = 0]
  /\ Goto(p, "user")
  /\ UNCHANGED <<data, nwrite, readopen, writeopen, freed, lock, files, killed>>

\* Mutant of PipeRead: an empty pipe is not waited for.
PipeRead_NoWait(p) ==
  LET k == Least(rem[p], Used) IN
  /\ Enters(p, "read")
  /\ nread' = (nread + k) % MOD
  /\ got' = <<SubSeq(Content, 1, k)>>
  /\ chan' = Wakeup("nwrite")
  /\ rem' = [rem EXCEPT ![p] = 0]
  /\ Goto(p, "user")
  /\ UNCHANGED <<data, nwrite, readopen, writeopen, freed, lock, files, killed>>

\* piperead: copy what there is and wake the writers.
PipeRead(p) ==
  LET k == Least(rem[p], Used) IN
  /\ Enters(p, "read")
  /\ ~Empty \/ writeopen = 0
  /\ nread' = (nread + k) % MOD
  /\ got' = <<SubSeq(Content, 1, k)>>
  /\ chan' = Wakeup("nwrite")
  /\ rem' = [rem EXCEPT ![p] = 0]
  /\ Goto(p, "user")
  /\ UNCHANGED <<data, nwrite, readopen, writeopen, freed, lock, files, killed>>

-----------------------------------------------------------------------------
(* close, by the program or by exit.                                       *)

\* fileclose under ftable.lock: the last reference goes on to pipeclose.
CloseWrite(p) ==
  /\ At(p, "user") /\ p \in wfd
  /\ wfd' = wfd \ {p}
  /\ wref' = wref - 1
  /\ Goto(p, IF wref = 1 THEN "wclose" ELSE "user")
  /\ got' = <<>>
  /\ UNCHANGED <<pipe, lock, rref, rfd, born, chan, rem, killed>>

CloseRead(p) ==
  /\ At(p, "user") /\ p \in rfd
  /\ rfd' = rfd \ {p}
  /\ rref' = rref - 1
  /\ Goto(p, IF rref = 1 THEN "rclose" ELSE "user")
  /\ got' = <<>>
  /\ UNCHANGED <<pipe, lock, wref, wfd, born, chan, rem, killed>>

\* Mutant of PipeClose: the page is freed with the first end.
PipeClose_FreesEarly(p) ==
  /\ \/ /\ Enters(p, "wclose")
        /\ writeopen' = 0
        /\ chan' = Wakeup("nread")
        /\ UNCHANGED readopen
     \/ /\ Enters(p, "rclose")
        /\ readopen' = 0
        /\ chan' = Wakeup("nwrite")
        /\ UNCHANGED writeopen
  /\ freed' = IF readopen' = 0 \/ writeopen' = 0 THEN freed + 1 ELSE freed
  /\ Goto(p, "user")
  /\ got' = <<>>
  /\ UNCHANGED <<data, nread, nwrite, lock, files, rem, killed>>

\* pipeclose.
PipeClose(p) ==
  /\ \/ /\ Enters(p, "wclose")
        /\ writeopen' = 0
        /\ chan' = Wakeup("nread")
        /\ UNCHANGED readopen
     \/ /\ Enters(p, "rclose")
        /\ readopen' = 0
        /\ chan' = Wakeup("nwrite")
        /\ UNCHANGED writeopen
  /\ freed' = IF readopen' = 0 /\ writeopen' = 0 THEN freed + 1 ELSE freed
  /\ Goto(p, "user")
  /\ got' = <<>>
  /\ UNCHANGED <<data, nread, nwrite, lock, files, rem, killed>>

-----------------------------------------------------------------------------
\* What p does on its own inside the kernel.
Kernel(p) ==
  \/ PipeWrite(p) \/ WriteSleep(p)
  \/ ReadEmpty(p) \/ ReadSleep(p) \/ PipeRead(p)
  \/ PipeClose(p)

\* What its program, or another one, may ask for.
User(p) ==
  \/ \E c \in Proc : Fork(p, c)
  \/ Kill(p)
  \/ \E n \in Req : SysWrite(p, n) \/ SysRead(p, n)
  \/ CloseWrite(p) \/ CloseRead(p)

Next == \E p \in Proc : Kernel(p) \/ User(p)

Spec == Init /\ [][Next]_vars

\* The scheduler runs every RUNNABLE process again and again, and the pipe's lock
\* is free again and again, so whoever spins on it gets it.
Fairness == \A p \in Proc : SF_vars(Kernel(p))

FairSpec == Spec /\ Fairness

-----------------------------------------------------------------------------
(* Properties.                                                             *)

\* pipewrite and piperead, over a ring whose counters wrap, give what a FIFO
\* queue gives: all bytes, in order, once; and a read that asks for bytes returns
\* none only when the last writer is gone (a killed process gets an error instead).
F == INSTANCE Fifo WITH q <- Content, Size <- PIPESIZE,
                        wopen <- writeopen, ropen <- readopen
ImplementsFifo == F!Spec

\* Nobody sleeps in vain: with the lock free, a sleeping reader has an empty pipe
\* with a writer, and a sleeping writer a full pipe with a reader: no change
\* between the test and the sleep is missed.  A killed writer that has filled the
\* pipe returns without a wakeup, so that a reader sleeps on beside its bytes: once
\* any process has been killed, the property does not ask for an empty pipe.
NoSleepInVain ==
  lock = None =>
    \A p \in Proc :
      /\ chan[p] = "nread" =>
           /\ writeopen = 1
           /\ Empty \/ (\E w \in Proc : killed[w] = 1)
      /\ chan[p] = "nwrite" => Full /\ readopen = 1

\* The pipe's page is freed once, and only when no process has a descriptor of it
\* or is still inside one of its functions.
FreedWhenUnused ==
  /\ freed <= 1
  /\ freed = 1 =>
       /\ rfd = {} /\ wfd = {} /\ lock = None
       /\ \A p \in Proc : pc[p] = "user"

\* A reader is not left behind: once the last writer has closed, it returns.
EofSeen ==
  \A p \in Proc : pc[p] = "read" /\ writeopen = 0 ~> pc[p] # "read"
=============================================================================

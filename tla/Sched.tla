-------------------------------- MODULE Sched --------------------------------
(***************************************************************************)
(* The scheduler of every processor, the switch between it and the         *)
(* processes, preemption by the timer, sleep and wakeup, and sleep-locks   *)
(* built on them (kernel/proc.c: scheduler, sched, yield, sleep, wakeup;   *)
(* kernel/sleeplock.c; kernel/spinlock.c; the timer case of trap.c).       *)
(*                                                                         *)
(* Processes do what every user of a buffer or an inode does: acquiresleep *)
(* on one sleep-lock lk, work, releasesleep.  A timer interrupt makes the  *)
(* running process yield, at any point where interrupts are enabled.       *)
(*                                                                         *)
(* Granularity.  Spinning on a spin-lock is a state of its own, with       *)
(* interrupts off.  What is done between taking a lock and the next spin,  *)
(* switch or enabling of interrupts is one action.  ptable.lock is passed  *)
(* from the process to the scheduler, and back, across swtch.              *)
(***************************************************************************)
EXTENDS Naturals

CONSTANTS
  NPROC,       \* processes, all of them alive
  Cpu,
  None         \* no processor

ASSUME SchedAssumption == NPROC \in Nat \ {0} /\ None \notin Cpu

Proc == 1 .. NPROC

VARIABLES
  state,       \* RUNNABLE, RUNNING or SLEEPING (on the channel lk)
  proc,        \* cpu->proc: the process a processor runs, or 0
  spc, scan,   \* where the scheduler of a processor is; its place in the table
  pc,          \* where a process is
  intr,        \* where it is in a timer interrupt that it handles, or "none"
  savedint,    \* the local intena of sched, on the stack of a process
  ptable, lk,  \* holders of ptable.lock and of the spin-lock lk->lk
  locked,      \* lk->locked
  owner,       \* the process between acquiresleep and releasesleep: lk->pid
  ncli, intena, ie,   \* per processor: pushcli depth, saved flag, FL_IF
  panicked

cpuVars == <<ncli, intena, ie>>
lockVars == <<locked, owner>>
vars == <<state, proc, spc, scan, pc, intr, savedint, ptable, lk, lockVars,
          cpuVars, panicked>>

-----------------------------------------------------------------------------
\* pushcli, then the test of acquire: the processor must not hold the lock.
StartAcquire(c, holder) ==
  /\ intena' = IF ncli[c] = 0 THEN [intena EXCEPT ![c] = ie[c]] ELSE intena
  /\ ncli' = [ncli EXCEPT ![c] = @ + 1]
  /\ ie' = [ie EXCEPT ![c] = 0]
  /\ panicked' = IF holder = c THEN 1 ELSE panicked

\* popcli, with e the value of intena it finds.
PopCli(c, e) ==
  /\ ncli' = [ncli EXCEPT ![c] = @ - 1]
  /\ ie' = IF ncli[c] = 1 /\ e = 1 THEN [ie EXCEPT ![c] = 1] ELSE ie

-----------------------------------------------------------------------------
Init ==
  /\ state = [p \in Proc |-> "RUNNABLE"]
  /\ proc = [c \in Cpu |-> 0]
  /\ spc = [c \in Cpu |-> "loop"]
  /\ scan = [c \in Cpu |-> 1]
  /\ pc = [p \in Proc |-> "forkret"]
  /\ intr = [p \in Proc |-> "none"]
  /\ savedint = [p \in Proc |-> 0]
  /\ ptable = None /\ lk = None
  /\ locked = 0 /\ owner = 0
  /\ ncli = [c \in Cpu |-> 0]
  /\ intena = [c \in Cpu |-> 0]
  /\ ie = [c \in Cpu |-> 0]
  /\ panicked = 0

-----------------------------------------------------------------------------
(* The scheduler.                                                          *)

\* sti, then acquire(&ptable.lock).
SchedLoop(c) ==
  /\ spc[c] = "loop"
  /\ intena' = IF ncli[c] = 0 THEN [intena EXCEPT ![c] = 1] ELSE intena
  /\ ncli' = [ncli EXCEPT ![c] = @ + 1]
  /\ ie' = [ie EXCEPT ![c] = 0]
  /\ panicked' = IF ptable = c THEN 1 ELSE panicked
  /\ spc' = [spc EXCEPT ![c] = "spin"]
  /\ UNCHANGED <<state, proc, scan, pc, intr, savedint, ptable, lk, lockVars>>

SchedAcquire(c) ==
  /\ spc[c] = "spin"
  /\ ptable = None
  /\ ptable' = c
  /\ spc' = [spc EXCEPT ![c] = "scan"]
  /\ scan' = [scan EXCEPT ![c] = 1]
  /\ UNCHANGED <<state, proc, pc, intr, savedint, lk, lockVars, cpuVars,
                 panicked>>

\* Mutant of Ahead: a process that runs elsewhere is taken too.
Ahead_NotSleeping(c) == {p \in Proc : scan[c] <= p /\ state[p] # "SLEEPING"}

\* The RUNNABLE processes from the scheduler's place on.
Ahead(c) == {p \in Proc : scan[c] <= p /\ state[p] = "RUNNABLE"}

\* Switch to the next RUNNABLE process.
Dispatch(c) ==
  /\ spc[c] = "scan"
  /\ \E p \in Ahead(c) :
       /\ \A q \in Ahead(c) : p <= q
       /\ proc' = [proc EXCEPT ![c] = p]
       /\ state' = [state EXCEPT ![p] = "RUNNING"]
       /\ scan' = [scan EXCEPT ![c] = p + 1]
  /\ spc' = [spc EXCEPT ![c] = "away"]
  /\ UNCHANGED <<pc, intr, savedint, ptable, lk, lockVars, cpuVars, panicked>>

\* The end of the table: release(&ptable.lock).
SchedRelease(c) ==
  /\ spc[c] = "scan"
  /\ Ahead(c) = {}
  /\ panicked' = IF ptable # c THEN 1 ELSE panicked
  /\ ptable' = None
  /\ PopCli(c, intena[c])
  /\ spc' = [spc EXCEPT ![c] = "loop"]
  /\ UNCHANGED <<state, proc, scan, pc, intr, savedint, lk, lockVars, intena>>

-----------------------------------------------------------------------------
(* What a running process uses: c runs p.                                  *)

Runs(c, p) == proc[c] = p /\ spc[c] = "away"

\* p is at l, not in an interrupt; p is at l of the interrupt it handles.
At(c, p, l) == Runs(c, p) /\ intr[p] = "none" /\ pc[p] = l
AtIntr(c, p, l) == Runs(c, p) /\ intr[p] = l

Goto(p, l) == pc' = [pc EXCEPT ![p] = l]

\* Mutant of Sched: the scheduler loses its place in the table.
Sched_Restart(c, p, st, depth) ==
  /\ state' = [state EXCEPT ![p] = st]
  /\ savedint' = [savedint EXCEPT ![p] = intena[c]]
  /\ spc' = [spc EXCEPT ![c] = "scan"]
  /\ scan' = [scan EXCEPT ![c] = 1]
  /\ proc' = [proc EXCEPT ![c] = 0]
  /\ panicked' = IF ptable # c \/ depth # 1 \/ ie[c] = 1 THEN 1 ELSE panicked

\* sched: p, with its new state st, holds ptable.lock only and goes back to the
\* scheduler of c.  Of the four tests, "sched running" cannot fail since st is
\* not RUNNING.  depth is mycpu()->ncli.
Sched(c, p, st, depth) ==
  /\ state' = [state EXCEPT ![p] = st]
  /\ savedint' = [savedint EXCEPT ![p] = intena[c]]
  /\ spc' = [spc EXCEPT ![c] = "scan"]
  /\ proc' = [proc EXCEPT ![c] = 0]
  /\ UNCHANGED scan
  /\ panicked' = IF ptable # c \/ depth # 1 \/ ie[c] = 1 THEN 1 ELSE panicked

\* Mutant of Resched: intena is left as the processor has it.
Resched_NoRestore(c, p) ==
  /\ panicked' = IF ptable # c THEN 1 ELSE panicked
  /\ ptable' = None
  /\ intena' = intena
  /\ ncli' = [ncli EXCEPT ![c] = @ - 1]

\* Back from sched: restore intena, release(&ptable.lock) with its popcli.
Resched(c, p) ==
  /\ panicked' = IF ptable # c THEN 1 ELSE panicked
  /\ ptable' = None
  /\ intena' = [intena EXCEPT ![c] = savedint[p]]
  /\ ncli' = [ncli EXCEPT ![c] = @ - 1]

\* The first run of a process: forkret releases ptable.lock, and the return to
\* user space enables interrupts.
ForkRet(c, p) ==
  /\ At(c, p, "forkret")
  /\ panicked' = IF ptable # c THEN 1 ELSE panicked
  /\ ptable' = None
  /\ ncli' = [ncli EXCEPT ![c] = @ - 1]
  /\ ie' = [ie EXCEPT ![c] = 1]
  /\ Goto(p, "user")
  /\ UNCHANGED <<state, proc, spc, scan, intr, savedint, lk, lockVars, intena>>

-----------------------------------------------------------------------------
(* The timer interrupt: yield.                                             *)

\* The interrupt gate clears FL_IF; acquire(&ptable.lock).
Timer(c, p) ==
  /\ Runs(c, p) /\ intr[p] = "none" /\ state[p] = "RUNNING"
  /\ ie[c] = 1
  /\ ie' = [ie EXCEPT ![c] = 0]
  /\ intena' = IF ncli[c] = 0 THEN [intena EXCEPT ![c] = 0] ELSE intena
  /\ ncli' = [ncli EXCEPT ![c] = @ + 1]
  /\ panicked' = IF ptable = c THEN 1 ELSE panicked
  /\ intr' = [intr EXCEPT ![p] = "spin"]
  /\ UNCHANGED <<state, proc, spc, scan, pc, savedint, ptable, lk, lockVars>>

YieldAcquire(c, p) ==
  /\ AtIntr(c, p, "spin")
  /\ ptable = None
  /\ ptable' = c
  /\ intr' = [intr EXCEPT ![p] = "yield"]
  /\ UNCHANGED <<state, proc, spc, scan, pc, savedint, lk, lockVars, cpuVars,
                 panicked>>

Yield(c, p) ==
  /\ AtIntr(c, p, "yield")
  /\ Sched(c, p, "RUNNABLE", ncli[c])
  /\ intr' = [intr EXCEPT ![p] = "back"]
  /\ UNCHANGED <<pc, ptable, lk, lockVars, cpuVars>>

\* yield returns, and the interrupt with it: iret sets FL_IF again.
YieldBack(c, p) ==
  /\ AtIntr(c, p, "back")
  /\ Resched(c, p)
  /\ ie' = [ie EXCEPT ![c] = 1]
  /\ intr' = [intr EXCEPT ![p] = "none"]
  /\ UNCHANGED <<state, proc, spc, scan, pc, savedint, lk, lockVars>>

-----------------------------------------------------------------------------
(* acquiresleep(lk), with sleep inside.                                    *)

\* acquire(&lk->lk), at first and again after every sleep.
AcquireSleep(c, p) ==
  /\ At(c, p, "user") \/ At(c, p, "again")
  /\ StartAcquire(c, lk)
  /\ Goto(p, "aspin")
  /\ UNCHANGED <<state, proc, spc, scan, intr, savedint, ptable, lk, lockVars>>

AcquireLk(c, p) ==
  /\ At(c, p, "aspin")
  /\ lk = None
  /\ lk' = c
  /\ Goto(p, "test")
  /\ UNCHANGED <<state, proc, spc, scan, intr, savedint, ptable, lockVars,
                 cpuVars, panicked>>

\* The lock is free: take it, release(&lk->lk).
TakeSleepLock(c, p) ==
  /\ At(c, p, "test")
  /\ locked = 0
  /\ locked' = 1
  /\ owner' = p
  /\ panicked' = IF lk # c THEN 1 ELSE panicked
  /\ lk' = None
  /\ PopCli(c, intena[c])
  /\ Goto(p, "crit")
  /\ UNCHANGED <<state, proc, spc, scan, intr, savedint, ptable, intena>>

\* The lock is taken: sleep(lk, &lk->lk) starts with acquire(&ptable.lock).
MustSleep(c, p) ==
  /\ At(c, p, "test")
  /\ locked = 1
  /\ StartAcquire(c, ptable)
  /\ Goto(p, "sspin")
  /\ UNCHANGED <<state, proc, spc, scan, intr, savedint, ptable, lk, lockVars>>

\* With ptable.lock, release(&lk->lk).
SleepAcquire(c, p) ==
  /\ At(c, p, "sspin")
  /\ ptable = None
  /\ ptable' = c
  /\ panicked' = IF lk # c THEN 1 ELSE panicked
  /\ lk' = None
  /\ PopCli(c, intena[c])
  /\ Goto(p, "sleep")
  /\ UNCHANGED <<state, proc, spc, scan, intr, savedint, lockVars, intena>>

\* SLEEPING, and away.
Sleep(c, p) ==
  /\ At(c, p, "sleep")
  /\ Sched(c, p, "SLEEPING", ncli[c])
  /\ Goto(p, "woken")
  /\ UNCHANGED <<intr, ptable, lk, lockVars, cpuVars>>

\* Woken and running again: release(&ptable.lock); then acquire(lk) again.
SleepBack(c, p) ==
  /\ At(c, p, "woken")
  /\ Resched(c, p)
  /\ ie' = IF ncli'[c] = 0 /\ intena'[c] = 1 THEN [ie EXCEPT ![c] = 1] ELSE ie
  /\ Goto(p, "again")
  /\ UNCHANGED <<state, proc, spc, scan, intr, savedint, lk, lockVars>>

-----------------------------------------------------------------------------
(* releasesleep(lk).                                                       *)

ReleaseSleep(c, p) ==
  /\ At(c, p, "crit")
  /\ StartAcquire(c, lk)
  /\ Goto(p, "rspin")
  /\ UNCHANGED <<state, proc, spc, scan, intr, savedint, ptable, lk, lockVars>>

\* lk->locked = 0; wakeup(lk) starts with acquire(&ptable.lock).
Unlock(c, p) ==
  /\ At(c, p, "rspin")
  /\ lk = None
  /\ lk' = c
  /\ locked' = 0
  /\ owner' = 0
  /\ intena' = intena
  /\ ncli' = [ncli EXCEPT ![c] = @ + 1]
  /\ ie' = ie
  /\ panicked' = IF ptable = c THEN 1 ELSE panicked
  /\ Goto(p, "wspin")
  /\ UNCHANGED <<state, proc, spc, scan, intr, savedint, ptable>>

\* wakeup1 under ptable.lock, which is released again.
Wakeup(c, p) ==
  /\ At(c, p, "wspin")
  /\ ptable = None
  /\ state' = [q \in Proc |-> IF state[q] = "SLEEPING" THEN "RUNNABLE" ELSE state[q]]
  /\ PopCli(c, intena[c])
  /\ Goto(p, "unlk")
  /\ UNCHANGED <<proc, spc, scan, intr, savedint, ptable, lk, lockVars, intena,
                 panicked>>

\* release(&lk->lk).
ReleaseLk(c, p) ==
  /\ At(c, p, "unlk")
  /\ panicked' = IF lk # c THEN 1 ELSE panicked
  /\ lk' = None
  /\ PopCli(c, intena[c])
  /\ Goto(p, "user")
  /\ UNCHANGED <<state, proc, spc, scan, intr, savedint, ptable, lockVars,
                 intena>>

\* kill, by anyone, of a process that sleeps for the lock.
Kill(q) ==
  /\ ptable = None
  /\ state[q] = "SLEEPING"
  /\ state' = [state EXCEPT ![q] = "RUNNABLE"]
  /\ UNCHANGED <<proc, spc, scan, pc, intr, savedint, ptable, lk, lockVars,
                 cpuVars, panicked>>

-----------------------------------------------------------------------------
\* What the processor c does by itself.
Kernel(c) ==
  \/ SchedLoop(c) \/ SchedAcquire(c) \/ Dispatch(c) \/ SchedRelease(c)
  \/ \E p \in Proc :
       \/ ForkRet(c, p)
       \/ YieldAcquire(c, p) \/ Yield(c, p) \/ YieldBack(c, p)
       \/ AcquireLk(c, p) \/ TakeSleepLock(c, p)
       \/ MustSleep(c, p) \/ SleepAcquire(c, p) \/ Sleep(c, p) \/ SleepBack(c, p)
       \/ pc[p] = "again" /\ AcquireSleep(c, p)
       \/ Unlock(c, p) \/ Wakeup(c, p) \/ ReleaseLk(c, p)

\* What the process on c may choose to do.
Choice(c, p) ==
  \/ pc[p] = "user" /\ AcquireSleep(c, p)
  \/ ReleaseSleep(c, p)

Next ==
  \/ \E c \in Cpu : Kernel(c)
  \/ \E c \in Cpu, p \in Proc : Timer(c, p) \/ Choice(c, p)
  \/ \E q \in Proc : Kill(q)

Spec == Init /\ [][Next]_vars

\* Processors do not stop; the timer keeps interrupting each of them; whoever
\* spins on a spin-lock that is free again and again gets it; a time slice is
\* long enough for the process to make a step before the next interrupt.
Fairness ==
  /\ \A c \in Cpu : SF_vars(Kernel(c)) /\ SF_vars(\E p \in Proc : Timer(c, p))
  /\ \A p \in Proc : SF_vars(\E c \in Cpu : pc[p] = "again" /\ AcquireSleep(c, p))

FairSpec == Spec /\ Fairness

-----------------------------------------------------------------------------
(* Properties.                                                             *)

\* A process runs on one processor at a time, and is RUNNING exactly then.
OneProcessor ==
  \A p \in Proc :
    /\ state[p] = "RUNNING" <=> \E c \in Cpu : proc[c] = p
    /\ \A c, d \in Cpu : proc[c] = p /\ proc[d] = p => c = d

\* None of the panics of sched ("sched ptable.lock", "sched locks", "sched
\* interruptible"), acquire and release is reached, although ptable.lock is passed
\* between processes and schedulers, and processes move between processors.
NoPanic == panicked = 0

\* acquiresleep and releasesleep give mutual exclusion, across preemption.
MutualExclusion ==
  \A p, q \in Proc : pc[p] \in {"crit", "rspin"} /\ pc[q] \in {"crit", "rspin"} => p = q

\* No lost wakeup: whoever sleeps for the lock sleeps while it is taken, or while
\* its last holder is about to call wakeup1.
NoLostWakeup ==
  \A p \in Proc : state[p] = "SLEEPING" =>
    locked = 1 \/ \E q \in Proc : pc[q] = "wspin"

\* pushcli and popcli balance on every processor, with the locks that pass through
\* swtch: ncli counts the spin-locks it holds or spins for, interrupts are off
\* while it has one, and code outside locks and handlers runs with them on.
InterruptsMatch ==
  LET one(b) == IF b THEN 1 ELSE 0
      waits(c) == \/ spc[c] = "spin"
                  \/ \E p \in Proc : \/ AtIntr(c, p, "spin")
                                     \/ \E l \in {"aspin", "sspin", "rspin", "wspin"} :
                                          At(c, p, l)
  IN
  \A c \in Cpu :
    /\ ncli[c] = one(ptable = c) + one(lk = c) + one(waits(c))
    /\ ncli[c] > 0 => ie[c] = 0
    /\ ncli[c] = 0 /\ spc[c] = "away" => ie[c] = 1

\* A free sleep-lock that processes compete for is taken by one of them.
FreeLockTaken ==
  locked = 0 /\ (\E p \in Proc : pc[p] \in {"aspin", "test", "woken", "again"})
    ~> locked = 1
=============================================================================

---------------------------- MODULE SchedProofs -----------------------------
(***************************************************************************)
(* Proofs about Sched, for every number of processors and processes.       *)
(*                                                                         *)
(* Where a processor is, in its scheduler or in the process it runs, tells *)
(* which spin-locks it holds and which it spins for; this is kept across   *)
(* swtch, since a process that is not running is at a place where it       *)
(* expects ptable.lock to be held.  So the locks exclude each other, ncli  *)
(* counts them, and none of the panics is reached.                         *)
(***************************************************************************)
EXTENDS Sched, TLAPS

-----------------------------------------------------------------------------
(* The inductive invariant.                                                *)

Places_pc == {"forkret", "user", "again", "aspin", "test", "sspin", "sleep", "woken", "crit",
              "rspin", "wspin", "unlk"}
Places_intr == {"none", "spin", "yield", "back"}

Types ==
  /\ state \in [Proc -> {"RUNNABLE", "RUNNING", "SLEEPING"}]
  /\ proc \in [Cpu -> Proc \cup {0}]
  /\ spc \in [Cpu -> {"loop", "spin", "scan", "away"}]
  /\ scan \in [Cpu -> Nat]
  /\ pc \in [Proc -> Places_pc]
  /\ intr \in [Proc -> Places_intr]
  /\ savedint \in [Proc -> {0, 1}]
  /\ ptable \in Cpu \cup {None} /\ lk \in Cpu \cup {None}
  /\ locked \in {0, 1}
  /\ ncli \in [Cpu -> Nat]
  /\ intena \in [Cpu -> {0, 1}] /\ ie \in [Cpu -> {0, 1}]

\* A process that runs is on one processor.
Places ==
  /\ \A c \in Cpu : spc[c] = "away" <=> proc[c] # 0
  /\ \A c \in Cpu : proc[c] # 0 => state[proc[c]] = "RUNNING"
  /\ \A c, d \in Cpu : proc[c] = proc[d] /\ proc[c] # 0 => c = d
  /\ \A p \in Proc : state[p] = "RUNNING" => \E c \in Cpu : proc[c] = p

\* A process that does not run is where it comes back with ptable.lock held.
Processes ==
  \A p \in Proc :
    /\ intr[p] # "none" => pc[p] \in {"user", "again", "crit"}
    /\ state[p] = "SLEEPING" => intr[p] = "none" /\ pc[p] = "woken"
    /\ state[p] = "RUNNABLE" => intr[p] = "back" \/ (intr[p] = "none" /\ pc[p] \in {"forkret", "woken"})
    /\ pc[p] = "woken" => savedint[p] = 1

\* Places of a process at which its processor holds ptable.lock, holds lk->lk, spins.
TableAt(p) ==
  intr[p] \in {"yield", "back"} \/ (intr[p] = "none" /\ pc[p] \in {"forkret", "sleep", "woken"})
LkAt(p) == intr[p] = "none" /\ pc[p] \in {"test", "sspin", "wspin", "unlk"}
SpinsAt(p) == intr[p] = "spin" \/ (intr[p] = "none" /\ pc[p] \in {"aspin", "sspin", "rspin", "wspin"})

HoldsTable(c) == spc[c] = "scan" \/ (spc[c] = "away" /\ TableAt(proc[c]))
HoldsLk(c) == spc[c] = "away" /\ LkAt(proc[c])
Spins(c) == spc[c] = "spin" \/ (spc[c] = "away" /\ SpinsAt(proc[c]))

One(b) == IF b THEN 1 ELSE 0

\* The locks and the interrupt state of a processor.  intena is 1 in a process between
\* its acquire and its last release outside a handler.
CpuOK(c) ==
  /\ ptable = c <=> HoldsTable(c)
  /\ lk = c <=> HoldsLk(c)
  /\ ncli[c] = One(HoldsTable(c)) + One(HoldsLk(c)) + One(Spins(c))
  /\ ncli[c] > 0 => ie[c] = 0
  /\ ncli[c] = 0 /\ spc[c] = "away" => ie[c] = 1
  /\ spc[c] = "away" /\ intr[proc[c]] = "none"
       /\ pc[proc[c]] \in {"aspin", "test", "sspin", "sleep", "rspin", "wspin", "unlk"}
     => intena[c] = 1

\* The sleep-lock and its owner.
SleepLock == \A p \in Proc : pc[p] \in {"crit", "rspin"} <=> locked = 1 /\ owner = p

\* Who goes to sleep, or sleeps, will be woken.
Waking ==
  \A p \in Proc :
    /\ pc[p] = "sspin" => locked = 1
    /\ pc[p] = "sleep" \/ state[p] = "SLEEPING" => locked = 1 \/ \E q \in Proc : pc[q] = "wspin"

IInv == /\ Types /\ Places /\ Processes /\ SleepLock /\ Waking /\ NoPanic
        /\ \A c \in Cpu : CpuOK(c)

-----------------------------------------------------------------------------
(* Lemmas.                                                                 *)

\* The initial state satisfies the invariant.
LEMMA InitHolds == Init => IInv
<1> SUFFICES ASSUME Init PROVE IInv
  BY Zenon
<1>1. Types /\ Places /\ Processes
  BY Zenon, SchedAssumption DEF Init, Types, Places, Processes, Proc, Places_pc, Places_intr
<1>2. SleepLock /\ Waking /\ NoPanic
  BY SchedAssumption DEF Init, SleepLock, Waking, NoPanic, Proc
<1>3. \A c \in Cpu : CpuOK(c)
  BY SchedAssumption DEF Init, CpuOK, HoldsTable, HoldsLk, Spins, One
<1> QED BY Zenon, <1>1, <1>2, <1>3 DEF IInv

\* A processor is not affected by what others do, if they leave the process it runs,
\* and the locks it holds, alone.
LEMMA OthersKept ==
  ASSUME NEW d \in Cpu, CpuOK(d),
         spc'[d] = spc[d], proc'[d] = proc[d],
         ncli'[d] = ncli[d], intena'[d] = intena[d], ie'[d] = ie[d],
         spc[d] = "away" => pc'[proc[d]] = pc[proc[d]] /\ intr'[proc[d]] = intr[proc[d]],
         ptable' = d <=> ptable = d, lk' = d <=> lk = d
  PROVE  CpuOK(d)'
BY DEF CpuOK, HoldsTable, HoldsLk, Spins, One, TableAt, LkAt, SpinsAt

\* What is known of a processor c that runs p.
LEMMA Running ==
  ASSUME IInv, NEW c \in Cpu, NEW p \in Proc, Runs(c, p)
  PROVE  /\ proc[c] = p /\ p # 0 /\ spc[c] = "away" /\ state[p] = "RUNNING" /\ CpuOK(c)
         /\ \A d \in Cpu : d # c => proc[d] # p
         /\ (ptable = None \/ ptable = c) => \A d \in Cpu : d # c => ptable # d
         /\ (lk = None \/ lk = c) => \A d \in Cpu : d # c => lk # d
BY SchedAssumption DEF IInv, Runs, Places, Proc

\* Spin-locks exclude: a process that goes to sleep has lk->lk or ptable.lock.
LEMMA Going ==
  ASSUME IInv, NEW q \in Proc
  PROVE  /\ pc[q] = "sspin" => lk # None
         /\ pc[q] = "sleep" => ptable # None
<1> SUFFICES ASSUME pc[q] \in {"sspin", "sleep"}
             PROVE  /\ pc[q] = "sspin" => lk # None
                    /\ pc[q] = "sleep" => ptable # None
  BY Zenon
<1>1. intr[q] = "none" /\ state[q] = "RUNNING"
  BY Zenon DEF IInv, Types, Places_pc, Places_intr, Processes
<1>2. PICK d \in Cpu : proc[d] = q
  BY Zenon, <1>1 DEF IInv, Places
<1>3. spc[d] = "away" /\ CpuOK(d)
  BY <1>2, SchedAssumption DEF IInv, Places, Proc
<1> QED BY Zenon, <1>1, <1>2, <1>3, SchedAssumption DEF CpuOK, HoldsTable, HoldsLk, TableAt, LkAt

-----------------------------------------------------------------------------
(* Steps of a process on its processor, and away from it.                  *)

\* What holds of the processor c that runs p.
ProcOK(c, p) ==
  /\ ptable = c <=> TableAt(p)
  /\ lk = c <=> LkAt(p)
  /\ ncli[c] = One(TableAt(p)) + One(LkAt(p)) + One(SpinsAt(p))
  /\ ncli[c] > 0 => ie[c] = 0
  /\ ncli[c] = 0 => ie[c] = 1
  /\ intr[p] = "none" /\ pc[p] \in {"aspin", "test", "sspin", "sleep", "rspin", "wspin", "unlk"}
     => intena[c] = 1

\* A step of p, which stays on c, changes what belongs to p and to c, takes or leaves
\* spin-locks for c, and may wake sleepers.
Local(c, p) ==
  /\ UNCHANGED <<proc, spc, scan, savedint>>
  /\ pc' \in [Proc -> Places_pc] /\ \A q \in Proc \ {p} : pc'[q] = pc[q]
  /\ intr' \in [Proc -> Places_intr] /\ \A q \in Proc \ {p} : intr'[q] = intr[q]
  /\ intr'[p] # "none" => pc'[p] \in {"user", "again", "crit"}
  /\ pc'[p] # "woken"
  /\ state' \in [Proc -> {"RUNNABLE", "RUNNING", "SLEEPING"}]
  /\ \A q \in Proc : state'[q] = state[q] \/ (state[q] = "SLEEPING" /\ state'[q] = "RUNNABLE")
  /\ ncli' \in [Cpu -> Nat] /\ intena' \in [Cpu -> {0, 1}] /\ ie' \in [Cpu -> {0, 1}]
  /\ \A d \in Cpu \ {c} : ncli'[d] = ncli[d] /\ intena'[d] = intena[d] /\ ie'[d] = ie[d]
  /\ ptable' = ptable \/ (ptable \in {c, None} /\ ptable' \in {c, None})
  /\ lk' = lk \/ (lk \in {c, None} /\ lk' \in {c, None})
  /\ locked' \in {0, 1}

\* The invariant says so of every running process.
LEMMA RunningOK ==
  ASSUME IInv, NEW c \in Cpu, NEW p \in Proc, Runs(c, p)
  PROVE  ProcOK(c, p)
<1>1. CpuOK(c) /\ spc[c] = "away" /\ proc[c] = p
  BY Zenon, Running
<1> QED BY Zenon, <1>1 DEF CpuOK, ProcOK, HoldsTable, HoldsLk, Spins, One

\* Such a step keeps what is not about the sleep-lock.
LEMMA LocalKeeps ==
  ASSUME IInv, NEW c \in Cpu, NEW p \in Proc, Runs(c, p), Local(c, p), ProcOK(c, p)'
  PROVE  Types' /\ Places' /\ Processes' /\ \A d \in Cpu : CpuOK(d)'
<1>1. /\ proc[c] = p /\ spc[c] = "away" /\ state[p] = "RUNNING" /\ p # 0
      /\ \A d \in Cpu : d # c => proc[d] # p
  BY Zenon, Running
<1>2. Types'
  BY DEF IInv, Types, Local, Places_pc, Places_intr
<1>3. Places'
  BY DEF IInv, Types, Places, Local
<1>4. Processes'
  <2> SUFFICES ASSUME NEW q \in Proc
               PROVE  /\ intr'[q] # "none" => pc'[q] \in {"user", "again", "crit"}
                      /\ state'[q] = "SLEEPING" => intr'[q] = "none" /\ pc'[q] = "woken"
                      /\ state'[q] = "RUNNABLE" =>
                           intr'[q] = "back" \/ (intr'[q] = "none" /\ pc'[q] \in {"forkret", "woken"})
                      /\ pc'[q] = "woken" => savedint'[q] = 1
    BY Zenon DEF Processes
  <2>1. CASE q = p
    BY Zenon, <1>1, <2>1 DEF Local
  <2>2. CASE q # p
    BY <2>2 DEF Local, IInv, Processes
  <2> QED BY Zenon, <2>1, <2>2
<1>5. CpuOK(c)'
  <2>1. spc'[c] = "away" /\ proc'[c] = p
    BY Zenon, <1>1 DEF Local
  <2> QED BY Zenon, <2>1 DEF CpuOK, ProcOK, HoldsTable, HoldsLk, Spins, One
<1>6. ASSUME NEW d \in Cpu, d # c PROVE CpuOK(d)'
  <2>1. CpuOK(d) /\ (spc[d] = "away" => proc[d] \in Proc \ {p})
    BY <1>1, <1>6 DEF IInv, Types, Places
  <2>2. (ptable' = d <=> ptable = d) /\ (lk' = d <=> lk = d)
    BY <1>6, SchedAssumption DEF Local
  <2>3. /\ spc'[d] = spc[d] /\ proc'[d] = proc[d]
        /\ ncli'[d] = ncli[d] /\ intena'[d] = intena[d] /\ ie'[d] = ie[d]
        /\ spc[d] = "away" => pc'[proc[d]] = pc[proc[d]] /\ intr'[proc[d]] = intr[proc[d]]
    BY Zenon, <1>6, <2>1 DEF Local
  <2> QED BY Zenon, <2>1, <2>2, <2>3, OthersKept
<1> QED BY Zenon, <1>2, <1>3, <1>4, <1>5, <1>6

\* sched, called with ptable.lock held: c is in its scheduler again, p is where it
\* expects to come back.
LEMMA SchedKeeps ==
  ASSUME IInv, NEW c \in Cpu, NEW p \in Proc, Runs(c, p), TableAt(p), ~LkAt(p), ~SpinsAt(p),
         NEW st \in {"RUNNABLE", "SLEEPING"}, Sched(c, p, st, ncli[c]),
         UNCHANGED <<ptable, lk, locked, ncli, intena, ie>>,
         pc' \in [Proc -> Places_pc], \A q \in Proc \ {p} : pc'[q] = pc[q],
         intr' \in [Proc -> Places_intr], \A q \in Proc \ {p} : intr'[q] = intr[q],
         \/ st = "RUNNABLE" /\ intr'[p] = "back" /\ pc'[p] \in {"user", "again", "crit"}
         \/ st = "SLEEPING" /\ intr'[p] = "none" /\ pc'[p] = "woken" /\ intena[c] = 1
  PROVE  Types' /\ Places' /\ Processes' /\ NoPanic' /\ \A d \in Cpu : CpuOK(d)'
<1>1. /\ proc[c] = p /\ spc[c] = "away" /\ state[p] = "RUNNING" /\ p # 0
      /\ \A d \in Cpu : d # c => proc[d] # p
  BY Zenon, Running
<1>2. ptable = c /\ lk # c /\ ncli[c] = 1 /\ ie[c] = 0
  BY RunningOK DEF ProcOK, One
<1>3. /\ state' = [state EXCEPT ![p] = st] /\ savedint' = [savedint EXCEPT ![p] = intena[c]]
      /\ spc' = [spc EXCEPT ![c] = "scan"] /\ proc' = [proc EXCEPT ![c] = 0]
      /\ UNCHANGED scan
  BY Zenon DEF Sched
<1>4. NoPanic'
  BY Zenon, <1>2 DEF Sched, NoPanic, IInv
<1>5. Types'
  BY Zenon, <1>3 DEF IInv, Types, Places_pc, Places_intr
<1>6. Places'
  BY <1>1, <1>3 DEF IInv, Types, Places
<1>7. Processes'
  <2> SUFFICES ASSUME NEW q \in Proc
               PROVE  /\ intr'[q] # "none" => pc'[q] \in {"user", "again", "crit"}
                      /\ state'[q] = "SLEEPING" => intr'[q] = "none" /\ pc'[q] = "woken"
                      /\ state'[q] = "RUNNABLE" =>
                           intr'[q] = "back" \/ (intr'[q] = "none" /\ pc'[q] \in {"forkret", "woken"})
                      /\ pc'[q] = "woken" => savedint'[q] = 1
    BY Zenon DEF Processes
  <2>1. CASE q = p
    BY Zenon, <1>3, <2>1 DEF IInv, Types
  <2>2. CASE q # p
    BY <1>3, <2>2, SMTT(30) DEF IInv, Types, Processes
  <2> QED BY Zenon, <2>1, <2>2
<1>8. CpuOK(c)'
  <2>1. spc'[c] = "scan"
    BY Zenon, <1>3 DEF IInv, Types
  <2> QED BY <1>2, <2>1 DEF CpuOK, HoldsTable, HoldsLk, Spins, One
<1>9. ASSUME NEW d \in Cpu, d # c PROVE CpuOK(d)'
  <2>1. CpuOK(d) /\ (spc[d] = "away" => proc[d] \in Proc \ {p})
    BY <1>1, <1>9 DEF IInv, Types, Places
  <2>2. spc'[d] = spc[d] /\ proc'[d] = proc[d]
    BY Zenon, <1>3, <1>9 DEF IInv, Types
  <2>3. spc[d] = "away" => pc'[proc[d]] = pc[proc[d]] /\ intr'[proc[d]] = intr[proc[d]]
    BY Zenon, <2>1
  <2> QED BY Zenon, <2>1, <2>2, <2>3, OthersKept
<1> QED BY Zenon, <1>4, <1>5, <1>6, <1>7, <1>8, <1>9

-----------------------------------------------------------------------------
(* The steps of a process.  Each proof says what the processor holds       *)
(* before the step, what after it, and that the step is local to both.     *)

\* A new process releases ptable.lock.
LEMMA ForkRetKeeps ==
  ASSUME IInv, NEW c \in Cpu, NEW p \in Proc, ForkRet(c, p)
  PROVE  IInv'
<1>1. Runs(c, p) /\ intr[p] = "none" /\ pc[p] = "forkret"
  BY Zenon DEF ForkRet, At, AtIntr
<1>2. ptable = c /\ lk # c /\ ncli[c] = 1 /\ ie[c] = 0
  BY <1>1, RunningOK DEF ProcOK, One, TableAt, LkAt, SpinsAt
<1>3. /\ ptable' = None /\ lk' = lk
      /\ ncli'[c] = 0 /\ ie'[c] = 1
      /\ pc'[p] = "user" /\ intr'[p] = "none"
  BY <1>1, <1>2 DEF ForkRet, At, AtIntr, Goto, cpuVars, lockVars, IInv, Types
<1>4. Local(c, p)
  BY <1>1, <1>2, <1>3, SMTT(30)
  DEF ForkRet, At, AtIntr, Goto, cpuVars, lockVars, Local, IInv, Types, Places_pc, Places_intr
<1>5. ProcOK(c, p)'
  <2>1. /\ ~TableAt(p)' /\ ~LkAt(p)' /\ ~SpinsAt(p)'
        /\ pc'[p] \in {"user", "again", "crit"}
    BY Zenon, <1>1, <1>2, <1>3 DEF TableAt, LkAt, SpinsAt
  <2> QED BY <1>2, <1>3, <2>1, SchedAssumption DEF ProcOK, One
<1>6. Types' /\ Places' /\ Processes' /\ \A d \in Cpu : CpuOK(d)'
  BY Zenon, <1>1, <1>4, <1>5, LocalKeeps
<1>7. /\ \A q \in Proc : q # p => pc'[q] = pc[q]
      /\ UNCHANGED <<locked, owner>>
      /\ UNCHANGED state
  BY Zenon DEF ForkRet, At, AtIntr, Goto, cpuVars, lockVars, IInv, Types
<1>8. SleepLock' /\ Waking'
  BY Zenon, <1>1, <1>2, <1>3, <1>7 DEF IInv, SleepLock, Waking
<1>9. NoPanic'
  BY Zenon, <1>2 DEF ForkRet, IInv, NoPanic
<1> QED BY Zenon, <1>6, <1>8, <1>9 DEF IInv

\* A timer interrupt.
LEMMA TimerKeeps ==
  ASSUME IInv, NEW c \in Cpu, NEW p \in Proc, Timer(c, p)
  PROVE  IInv'
<1>1. Runs(c, p) /\ intr[p] = "none"
  BY Zenon DEF Timer, At, AtIntr
<1>2. ptable # c /\ lk # c /\ ncli[c] = 0 /\ ie[c] = 1 /\ pc[p] \in {"user", "again", "crit"}
  <2>1. ie[c] = 1 /\ ncli[c] = 0
    BY <1>1, RunningOK, SMTT(30) DEF Timer, ProcOK, IInv, Types
  <2>2. ~TableAt(p) /\ ~LkAt(p) /\ ~SpinsAt(p)
    BY <1>1, <2>1, RunningOK DEF ProcOK, One
  <2>3. pc[p] \in {"user", "again", "crit"}
    BY Zenon, <1>1, <2>2 DEF TableAt, LkAt, SpinsAt, IInv, Types, Places_pc
  <2> QED BY Zenon, <1>1, <2>1, <2>2, <2>3, RunningOK DEF ProcOK
<1>3. /\ ptable' = ptable /\ lk' = lk
      /\ ncli'[c] = 1 /\ ie'[c] = 0
      /\ pc' = pc /\ intr'[p] = "spin"
  BY <1>1, <1>2 DEF Timer, At, AtIntr, Goto, cpuVars, lockVars, IInv, Types
<1>4. Local(c, p)
  BY <1>1, <1>2, <1>3, SMTT(30)
  DEF Timer, At, AtIntr, Goto, cpuVars, lockVars, Local, IInv, Types, Places_pc, Places_intr
<1>5. ProcOK(c, p)'
  <2>1. /\ ~TableAt(p)' /\ ~LkAt(p)' /\ SpinsAt(p)'
        /\ intr'[p] # "none"
    BY Zenon, <1>1, <1>2, <1>3 DEF TableAt, LkAt, SpinsAt
  <2> QED BY <1>2, <1>3, <2>1, SchedAssumption, SMTT(30) DEF ProcOK, One
<1>6. Types' /\ Places' /\ Processes' /\ \A d \in Cpu : CpuOK(d)'
  BY Zenon, <1>1, <1>4, <1>5, LocalKeeps
<1>7. SleepLock' /\ Waking'
  BY Zenon DEF Timer, lockVars, IInv, SleepLock, Waking
<1>8. NoPanic'
  BY Zenon, <1>2 DEF Timer, IInv, NoPanic
<1> QED BY <1>6, <1>7, <1>8 DEF IInv

\* yield has ptable.lock.
LEMMA YieldAcquireKeeps ==
  ASSUME IInv, NEW c \in Cpu, NEW p \in Proc, YieldAcquire(c, p)
  PROVE  IInv'
<1>1. Runs(c, p) /\ intr[p] = "spin"
  BY Zenon DEF YieldAcquire, At, AtIntr
<1>2. ptable # c /\ lk # c /\ ncli[c] = 1 /\ ie[c] = 0
  BY <1>1, RunningOK DEF ProcOK, One, TableAt, LkAt, SpinsAt
<1>3. /\ ptable' = c /\ lk' = lk
      /\ ncli'[c] = 1 /\ ie'[c] = 0
      /\ pc' = pc /\ intr'[p] = "yield"
  BY Zenon, <1>1, <1>2 DEF YieldAcquire, At, AtIntr, Goto, cpuVars, lockVars, IInv, Types
<1>4. Local(c, p)
  BY <1>1, <1>2, <1>3, SMTT(30)
  DEF YieldAcquire, At, AtIntr, Goto, cpuVars, lockVars, Local, IInv, Types, Places_pc,
      Places_intr, Processes
<1>5. ProcOK(c, p)'
  <2>1. /\ TableAt(p)' /\ ~LkAt(p)' /\ ~SpinsAt(p)'
        /\ intr'[p] # "none"
    BY Zenon, <1>1, <1>2, <1>3 DEF TableAt, LkAt, SpinsAt
  <2> QED BY <1>2, <1>3, <2>1, SchedAssumption DEF ProcOK, One
<1>6. Types' /\ Places' /\ Processes' /\ \A d \in Cpu : CpuOK(d)'
  BY Zenon, <1>1, <1>4, <1>5, LocalKeeps
<1>7. SleepLock' /\ Waking'
  BY Zenon DEF YieldAcquire, lockVars, IInv, SleepLock, Waking
<1>8. NoPanic'
  BY Zenon, <1>2 DEF YieldAcquire, IInv, NoPanic
<1> QED BY <1>6, <1>7, <1>8 DEF IInv

\* yield comes back.
LEMMA YieldBackKeeps ==
  ASSUME IInv, NEW c \in Cpu, NEW p \in Proc, YieldBack(c, p)
  PROVE  IInv'
<1>1. Runs(c, p) /\ intr[p] = "back"
  BY Zenon DEF YieldBack, At, AtIntr
<1>2. ptable = c /\ lk # c /\ ncli[c] = 1 /\ ie[c] = 0
  BY <1>1, RunningOK DEF ProcOK, One, TableAt, LkAt, SpinsAt
<1>3. /\ ptable' = None /\ lk' = lk
      /\ ncli'[c] = 0 /\ ie'[c] = 1
      /\ pc' = pc /\ intr'[p] = "none"
  BY <1>1, <1>2 DEF YieldBack, At, AtIntr, Goto, cpuVars, lockVars, Resched, IInv, Types
<1>4. Local(c, p)
  BY <1>1, <1>2, <1>3, SMTT(30)
  DEF YieldBack, At, AtIntr, Goto, cpuVars, lockVars, Resched, Local, IInv, Types, Places_pc,
      Places_intr, Processes
<1>5. ProcOK(c, p)'
  <2>1. /\ ~TableAt(p)' /\ ~LkAt(p)' /\ ~SpinsAt(p)'
        /\ pc'[p] \in {"user", "again", "crit"}
    BY Zenon, <1>1, <1>2, <1>3 DEF TableAt, LkAt, SpinsAt, IInv, Processes
  <2> QED BY <1>2, <1>3, <2>1, SchedAssumption DEF ProcOK, One
<1>6. Types' /\ Places' /\ Processes' /\ \A d \in Cpu : CpuOK(d)'
  BY Zenon, <1>1, <1>4, <1>5, LocalKeeps
<1>7. SleepLock' /\ Waking'
  BY Zenon DEF YieldBack, lockVars, IInv, SleepLock, Waking
<1>8. NoPanic'
  BY Zenon, <1>2 DEF YieldBack, Resched, IInv, NoPanic
<1> QED BY <1>6, <1>7, <1>8 DEF IInv

\* acquire of lk->lk in acquiresleep.
LEMMA AcquireSleepKeeps ==
  ASSUME IInv, NEW c \in Cpu, NEW p \in Proc, AcquireSleep(c, p)
  PROVE  IInv'
<1>1. Runs(c, p) /\ intr[p] = "none" /\ pc[p] \in {"user", "again"}
  BY Zenon DEF AcquireSleep, At, AtIntr
<1>2. ptable # c /\ lk # c /\ ncli[c] = 0 /\ ie[c] = 1
  BY <1>1, RunningOK DEF ProcOK, One, TableAt, LkAt, SpinsAt
<1>3. /\ ptable' = ptable /\ lk' = lk
      /\ ncli'[c] = 1 /\ ie'[c] = 0 /\ intena'[c] = 1
      /\ pc'[p] = "aspin" /\ intr'[p] = "none"
  BY <1>1, <1>2 DEF AcquireSleep, At, AtIntr, Goto, cpuVars, lockVars, StartAcquire, IInv, Types
<1>4. Local(c, p)
  BY <1>1, <1>2, <1>3, SMTT(30)
  DEF AcquireSleep, At, AtIntr, Goto, cpuVars, lockVars, StartAcquire, Local, IInv, Types,
      Places_pc, Places_intr
<1>5. ProcOK(c, p)'
  <2>1. ~TableAt(p)' /\ ~LkAt(p)' /\ SpinsAt(p)'
    BY Zenon, <1>1, <1>2, <1>3 DEF TableAt, LkAt, SpinsAt
  <2> QED BY <1>2, <1>3, <2>1, SchedAssumption DEF ProcOK, One
<1>6. Types' /\ Places' /\ Processes' /\ \A d \in Cpu : CpuOK(d)'
  BY Zenon, <1>1, <1>4, <1>5, LocalKeeps
<1>7. /\ \A q \in Proc : q # p => pc'[q] = pc[q]
      /\ UNCHANGED <<locked, owner>>
      /\ UNCHANGED state
  BY Zenon DEF AcquireSleep, At, AtIntr, Goto, cpuVars, lockVars, StartAcquire, IInv, Types
<1>8. SleepLock' /\ Waking'
  BY Zenon, <1>1, <1>2, <1>3, <1>7 DEF IInv, SleepLock, Waking
<1>9. NoPanic'
  BY Zenon, <1>2 DEF AcquireSleep, StartAcquire, IInv, NoPanic
<1> QED BY <1>6, <1>8, <1>9 DEF IInv

\* acquiresleep has lk->lk.
LEMMA AcquireLkKeeps ==
  ASSUME IInv, NEW c \in Cpu, NEW p \in Proc, AcquireLk(c, p)
  PROVE  IInv'
<1>1. Runs(c, p) /\ intr[p] = "none" /\ pc[p] = "aspin"
  BY Zenon DEF AcquireLk, At, AtIntr
<1>2. ptable # c /\ lk # c /\ ncli[c] = 1 /\ ie[c] = 0 /\ intena[c] = 1
  BY <1>1, RunningOK DEF ProcOK, One, TableAt, LkAt, SpinsAt
<1>3. /\ ptable' = ptable /\ lk' = c
      /\ ncli'[c] = 1 /\ ie'[c] = 0 /\ intena'[c] = 1
      /\ pc'[p] = "test" /\ intr'[p] = "none"
  BY Zenon, <1>1, <1>2 DEF AcquireLk, At, AtIntr, Goto, cpuVars, lockVars, IInv, Types
<1>4. Local(c, p)
  BY Zenon, <1>1, <1>2, <1>3
  DEF AcquireLk, At, AtIntr, Goto, cpuVars, lockVars, Local, IInv, Types, Places_pc, Places_intr
<1>5. ProcOK(c, p)'
  <2>1. ~TableAt(p)' /\ LkAt(p)' /\ ~SpinsAt(p)'
    BY Zenon, <1>1, <1>2, <1>3 DEF TableAt, LkAt, SpinsAt
  <2> QED BY <1>2, <1>3, <2>1, SchedAssumption, SMTT(30) DEF ProcOK, One
<1>6. Types' /\ Places' /\ Processes' /\ \A d \in Cpu : CpuOK(d)'
  BY Zenon, <1>1, <1>4, <1>5, LocalKeeps
<1>7. /\ \A q \in Proc : q # p => pc'[q] = pc[q]
      /\ UNCHANGED <<locked, owner>>
      /\ UNCHANGED state
  BY Zenon DEF AcquireLk, At, AtIntr, Goto, cpuVars, lockVars, IInv, Types
<1>8. SleepLock' /\ Waking'
  BY Zenon, <1>1, <1>2, <1>3, <1>7 DEF IInv, SleepLock, Waking
<1>9. NoPanic'
  BY Zenon, <1>2 DEF AcquireLk, IInv, NoPanic
<1> QED BY <1>6, <1>8, <1>9 DEF IInv

\* acquiresleep takes the lock.
LEMMA TakeSleepLockKeeps ==
  ASSUME IInv, NEW c \in Cpu, NEW p \in Proc, TakeSleepLock(c, p)
  PROVE  IInv'
<1>1. Runs(c, p) /\ intr[p] = "none" /\ pc[p] = "test"
  BY Zenon DEF TakeSleepLock, At, AtIntr
<1>2. ptable # c /\ lk = c /\ ncli[c] = 1 /\ ie[c] = 0 /\ intena[c] = 1
  BY <1>1, RunningOK DEF ProcOK, One, TableAt, LkAt, SpinsAt
<1>3. /\ ptable' = ptable /\ lk' = None
      /\ ncli'[c] = 0 /\ ie'[c] = 1 /\ intena'[c] = 1
      /\ pc'[p] = "crit" /\ intr'[p] = "none"
  BY <1>1, <1>2 DEF TakeSleepLock, At, AtIntr, Goto, cpuVars, lockVars, PopCli, IInv, Types
<1>4. Local(c, p)
  BY <1>1, <1>2, <1>3, SMTT(30)
  DEF TakeSleepLock, At, AtIntr, Goto, cpuVars, lockVars, PopCli, Local, IInv, Types,
      Places_pc, Places_intr
<1>5. ProcOK(c, p)'
  <2>1. /\ ~TableAt(p)' /\ ~LkAt(p)' /\ ~SpinsAt(p)'
        /\ pc'[p] \in {"user", "again", "crit"}
    BY Zenon, <1>1, <1>2, <1>3 DEF TableAt, LkAt, SpinsAt
  <2> QED BY <1>2, <1>3, <2>1, SchedAssumption DEF ProcOK, One
<1>6. Types' /\ Places' /\ Processes' /\ \A d \in Cpu : CpuOK(d)'
  BY Zenon, <1>1, <1>4, <1>5, LocalKeeps
<1>7. /\ \A q \in Proc : q # p => pc'[q] = pc[q]
      /\ locked = 0 /\ locked' = 1 /\ owner' = p
      /\ UNCHANGED state
  BY Zenon DEF TakeSleepLock, At, AtIntr, Goto, cpuVars, lockVars, PopCli, IInv, Types
<1>8. SleepLock' /\ Waking'
  BY <1>1, <1>2, <1>3, <1>7, Going, SchedAssumption DEF IInv, SleepLock, Waking
<1>9. NoPanic'
  BY Zenon, <1>2 DEF TakeSleepLock, IInv, NoPanic
<1> QED BY <1>6, <1>8, <1>9 DEF IInv

\* acquiresleep has to sleep.
LEMMA MustSleepKeeps ==
  ASSUME IInv, NEW c \in Cpu, NEW p \in Proc, MustSleep(c, p)
  PROVE  IInv'
<1>1. Runs(c, p) /\ intr[p] = "none" /\ pc[p] = "test"
  BY Zenon DEF MustSleep, At, AtIntr
<1>2. ptable # c /\ lk = c /\ ncli[c] = 1 /\ ie[c] = 0 /\ intena[c] = 1
  BY <1>1, RunningOK DEF ProcOK, One, TableAt, LkAt, SpinsAt
<1>3. /\ ptable' = ptable /\ lk' = lk
      /\ ncli'[c] = 2 /\ ie'[c] = 0 /\ intena'[c] = 1
      /\ pc'[p] = "sspin" /\ intr'[p] = "none"
  BY <1>1, <1>2, SMTT(30) DEF MustSleep, At, AtIntr, Goto, cpuVars, lockVars, StartAcquire, IInv, Types
<1>4. Local(c, p)
  BY <1>1, <1>2, <1>3, SMTT(30)
  DEF MustSleep, At, AtIntr, Goto, cpuVars, lockVars, StartAcquire, Local, IInv, Types,
      Places_pc, Places_intr
<1>5. ProcOK(c, p)'
  <2>1. ~TableAt(p)' /\ LkAt(p)' /\ SpinsAt(p)'
    BY Zenon, <1>1, <1>2, <1>3 DEF TableAt, LkAt, SpinsAt
  <2> QED BY <1>2, <1>3, <2>1, SchedAssumption, SMTT(30) DEF ProcOK, One
<1>6. Types' /\ Places' /\ Processes' /\ \A d \in Cpu : CpuOK(d)'
  BY <1>1, <1>4, <1>5, LocalKeeps
<1>7. /\ \A q \in Proc : q # p => pc'[q] = pc[q]
      /\ locked = 1 /\ UNCHANGED <<locked, owner>>
      /\ UNCHANGED state
  BY Zenon DEF MustSleep, At, AtIntr, Goto, cpuVars, lockVars, StartAcquire, IInv, Types
<1>8. SleepLock' /\ Waking'
  BY Zenon, <1>1, <1>2, <1>3, <1>7 DEF IInv, SleepLock, Waking
<1>9. NoPanic'
  BY Zenon, <1>2 DEF MustSleep, StartAcquire, IInv, NoPanic
<1> QED BY <1>6, <1>8, <1>9 DEF IInv

\* sleep exchanges lk->lk for ptable.lock.
LEMMA SleepAcquireKeeps ==
  ASSUME IInv, NEW c \in Cpu, NEW p \in Proc, SleepAcquire(c, p)
  PROVE  IInv'
<1>1. Runs(c, p) /\ intr[p] = "none" /\ pc[p] = "sspin"
  BY Zenon DEF SleepAcquire, At, AtIntr
<1>2. ptable # c /\ lk = c /\ ncli[c] = 2 /\ ie[c] = 0 /\ intena[c] = 1
  BY <1>1, RunningOK DEF ProcOK, One, TableAt, LkAt, SpinsAt
<1>3. /\ ptable' = c /\ lk' = None
      /\ ncli'[c] = 1 /\ ie'[c] = 0 /\ intena'[c] = 1
      /\ pc'[p] = "sleep" /\ intr'[p] = "none"
  BY <1>1, <1>2, SMTT(30) DEF SleepAcquire, At, AtIntr, Goto, cpuVars, lockVars, PopCli, IInv, Types
<1>4. Local(c, p)
  BY <1>1, <1>2, <1>3, SMTT(30)
  DEF SleepAcquire, At, AtIntr, Goto, cpuVars, lockVars, PopCli, Local, IInv, Types, Places_pc,
      Places_intr
<1>5. ProcOK(c, p)'
  <2>1. TableAt(p)' /\ ~LkAt(p)' /\ ~SpinsAt(p)'
    BY Zenon, <1>1, <1>2, <1>3 DEF TableAt, LkAt, SpinsAt
  <2> QED BY <1>2, <1>3, <2>1, SchedAssumption DEF ProcOK, One
<1>6. Types' /\ Places' /\ Processes' /\ \A d \in Cpu : CpuOK(d)'
  BY Zenon, <1>1, <1>4, <1>5, LocalKeeps
<1>7. /\ \A q \in Proc : q # p => pc'[q] = pc[q]
      /\ UNCHANGED <<locked, owner>>
      /\ UNCHANGED state
  BY Zenon DEF SleepAcquire, At, AtIntr, Goto, cpuVars, lockVars, PopCli, IInv, Types
<1>8. SleepLock' /\ Waking'
  BY Zenon, <1>1, <1>2, <1>3, <1>7, Going DEF IInv, SleepLock, Waking
<1>9. NoPanic'
  BY Zenon, <1>2 DEF SleepAcquire, IInv, NoPanic
<1> QED BY <1>6, <1>8, <1>9 DEF IInv

\* sleep comes back.
LEMMA SleepBackKeeps ==
  ASSUME IInv, NEW c \in Cpu, NEW p \in Proc, SleepBack(c, p)
  PROVE  IInv'
<1>1. Runs(c, p) /\ intr[p] = "none" /\ pc[p] = "woken"
  BY Zenon DEF SleepBack, At, AtIntr
<1>2. ptable = c /\ lk # c /\ ncli[c] = 1 /\ ie[c] = 0 /\ savedint[p] = 1
  BY <1>1, RunningOK DEF ProcOK, One, TableAt, LkAt, SpinsAt, IInv, Processes
<1>3. /\ ptable' = None /\ lk' = lk
      /\ ncli'[c] = 0 /\ ie'[c] = 1 /\ intena'[c] = 1
      /\ pc'[p] = "again" /\ intr'[p] = "none"
  BY <1>1, <1>2, SMTT(30) DEF SleepBack, At, AtIntr, Goto, cpuVars, lockVars, Resched, IInv, Types
<1>4. Local(c, p)
  BY <1>1, <1>2, <1>3, SMTT(30)
  DEF SleepBack, At, AtIntr, Goto, cpuVars, lockVars, Resched, Local, IInv, Types, Places_pc,
      Places_intr
<1>5. ProcOK(c, p)'
  <2>1. /\ ~TableAt(p)' /\ ~LkAt(p)' /\ ~SpinsAt(p)'
        /\ pc'[p] \in {"user", "again", "crit"}
    BY Zenon, <1>1, <1>2, <1>3 DEF TableAt, LkAt, SpinsAt
  <2> QED BY <1>2, <1>3, <2>1, SchedAssumption DEF ProcOK, One
<1>6. Types' /\ Places' /\ Processes' /\ \A d \in Cpu : CpuOK(d)'
  BY Zenon, <1>1, <1>4, <1>5, LocalKeeps
<1>7. /\ \A q \in Proc : q # p => pc'[q] = pc[q]
      /\ UNCHANGED <<locked, owner>>
      /\ UNCHANGED state
  BY Zenon DEF SleepBack, At, AtIntr, Goto, cpuVars, lockVars, Resched, IInv, Types
<1>8. SleepLock' /\ Waking'
  BY Zenon, <1>1, <1>2, <1>3, <1>7 DEF IInv, SleepLock, Waking
<1>9. NoPanic'
  BY Zenon, <1>2 DEF SleepBack, Resched, IInv, NoPanic
<1> QED BY <1>6, <1>8, <1>9 DEF IInv

\* acquire of lk->lk in releasesleep.
LEMMA ReleaseSleepKeeps ==
  ASSUME IInv, NEW c \in Cpu, NEW p \in Proc, ReleaseSleep(c, p)
  PROVE  IInv'
<1>1. Runs(c, p) /\ intr[p] = "none" /\ pc[p] = "crit"
  BY Zenon DEF ReleaseSleep, At, AtIntr
<1>2. ptable # c /\ lk # c /\ ncli[c] = 0 /\ ie[c] = 1
  BY <1>1, RunningOK DEF ProcOK, One, TableAt, LkAt, SpinsAt
<1>3. /\ ptable' = ptable /\ lk' = lk
      /\ ncli'[c] = 1 /\ ie'[c] = 0 /\ intena'[c] = 1
      /\ pc'[p] = "rspin" /\ intr'[p] = "none"
  BY <1>1, <1>2 DEF ReleaseSleep, At, AtIntr, Goto, cpuVars, lockVars, StartAcquire, IInv, Types
<1>4. Local(c, p)
  BY <1>1, <1>2, <1>3, SMTT(30)
  DEF ReleaseSleep, At, AtIntr, Goto, cpuVars, lockVars, StartAcquire, Local, IInv, Types,
      Places_pc, Places_intr
<1>5. ProcOK(c, p)'
  <2>1. ~TableAt(p)' /\ ~LkAt(p)' /\ SpinsAt(p)'
    BY Zenon, <1>1, <1>2, <1>3 DEF TableAt, LkAt, SpinsAt
  <2> QED BY <1>2, <1>3, <2>1, SchedAssumption DEF ProcOK, One
<1>6. Types' /\ Places' /\ Processes' /\ \A d \in Cpu : CpuOK(d)'
  BY Zenon, <1>1, <1>4, <1>5, LocalKeeps
<1>7. /\ \A q \in Proc : q # p => pc'[q] = pc[q]
      /\ UNCHANGED <<locked, owner>>
      /\ UNCHANGED state
  BY Zenon DEF ReleaseSleep, At, AtIntr, Goto, cpuVars, lockVars, StartAcquire, IInv, Types
<1>8. SleepLock' /\ Waking'
  BY Zenon, <1>1, <1>2, <1>3, <1>7 DEF IInv, SleepLock, Waking
<1>9. NoPanic'
  BY Zenon, <1>2 DEF ReleaseSleep, StartAcquire, IInv, NoPanic
<1> QED BY <1>6, <1>8, <1>9 DEF IInv

\* releasesleep frees the lock.
LEMMA UnlockKeeps ==
  ASSUME IInv, NEW c \in Cpu, NEW p \in Proc, Unlock(c, p)
  PROVE  IInv'
<1>1. Runs(c, p) /\ intr[p] = "none" /\ pc[p] = "rspin"
  BY Zenon DEF Unlock, At, AtIntr
<1>2. ptable # c /\ lk # c /\ ncli[c] = 1 /\ ie[c] = 0 /\ intena[c] = 1
  BY <1>1, RunningOK DEF ProcOK, One, TableAt, LkAt, SpinsAt
<1>3. /\ ptable' = ptable /\ lk' = c
      /\ ncli'[c] = 2 /\ ie'[c] = 0 /\ intena'[c] = 1
      /\ pc'[p] = "wspin" /\ intr'[p] = "none"
  BY <1>1, <1>2, SMTT(30) DEF Unlock, At, AtIntr, Goto, cpuVars, lockVars, IInv, Types
<1>4. Local(c, p)
  BY <1>1, <1>2, <1>3, SMTT(30)
  DEF Unlock, At, AtIntr, Goto, cpuVars, lockVars, Local, IInv, Types, Places_pc, Places_intr
<1>5. ProcOK(c, p)'
  <2>1. ~TableAt(p)' /\ LkAt(p)' /\ SpinsAt(p)'
    BY Zenon, <1>1, <1>2, <1>3 DEF TableAt, LkAt, SpinsAt
  <2> QED BY <1>2, <1>3, <2>1, SchedAssumption DEF ProcOK, One
<1>6. Types' /\ Places' /\ Processes' /\ \A d \in Cpu : CpuOK(d)'
  BY Zenon, <1>1, <1>4, <1>5, LocalKeeps
<1>7. /\ \A q \in Proc : q # p => pc'[q] = pc[q]
      /\ locked' = 0 /\ owner' = 0
      /\ UNCHANGED state
  BY Zenon DEF Unlock, At, AtIntr, Goto, cpuVars, lockVars, IInv, Types
<1>8. SleepLock' /\ Waking'
  BY <1>1, <1>2, <1>3, <1>7, Going, SchedAssumption, SMTT(30) DEF Unlock, IInv, SleepLock, Waking, Proc
<1>9. NoPanic'
  BY Zenon, <1>2 DEF Unlock, IInv, NoPanic
<1> QED BY <1>6, <1>8, <1>9 DEF IInv

\* wakeup makes the sleepers RUNNABLE.
LEMMA WakeupKeeps ==
  ASSUME IInv, NEW c \in Cpu, NEW p \in Proc, Wakeup(c, p)
  PROVE  IInv'
<1>1. Runs(c, p) /\ intr[p] = "none" /\ pc[p] = "wspin"
  BY Zenon DEF Wakeup, At, AtIntr
<1>2. ptable # c /\ lk = c /\ ncli[c] = 2 /\ ie[c] = 0 /\ intena[c] = 1
  BY <1>1, RunningOK DEF ProcOK, One, TableAt, LkAt, SpinsAt
<1>3. /\ ptable' = ptable /\ lk' = lk
      /\ ncli'[c] = 1 /\ ie'[c] = 0 /\ intena'[c] = 1
      /\ pc'[p] = "unlk" /\ intr'[p] = "none"
  BY <1>1, <1>2, SMTT(30) DEF Wakeup, At, AtIntr, Goto, cpuVars, lockVars, PopCli, IInv, Types
<1>4. Local(c, p)
  BY <1>1, <1>2, <1>3, SMTT(30)
  DEF Wakeup, At, AtIntr, Goto, cpuVars, lockVars, PopCli, Local, IInv, Types, Places_pc,
      Places_intr
<1>5. ProcOK(c, p)'
  <2>1. ~TableAt(p)' /\ LkAt(p)' /\ ~SpinsAt(p)'
    BY Zenon, <1>1, <1>2, <1>3 DEF TableAt, LkAt, SpinsAt
  <2> QED BY <1>2, <1>3, <2>1, SchedAssumption DEF ProcOK, One
<1>6. Types' /\ Places' /\ Processes' /\ \A d \in Cpu : CpuOK(d)'
  BY Zenon, <1>1, <1>4, <1>5, LocalKeeps
<1>7. /\ \A q \in Proc : q # p => pc'[q] = pc[q]
      /\ UNCHANGED <<locked, owner>>
      /\ \A q \in Proc : state'[q] # "SLEEPING"
  BY Zenon DEF Wakeup, At, AtIntr, Goto, cpuVars, lockVars, PopCli, IInv, Types
<1>8. SleepLock' /\ Waking'
  BY Zenon, <1>1, <1>2, <1>3, <1>7, Going DEF Wakeup, IInv, SleepLock, Waking
<1>9. NoPanic'
  BY Zenon, <1>2 DEF Wakeup, IInv, NoPanic
<1> QED BY <1>6, <1>8, <1>9 DEF IInv

\* releasesleep releases lk->lk.
LEMMA ReleaseLkKeeps ==
  ASSUME IInv, NEW c \in Cpu, NEW p \in Proc, ReleaseLk(c, p)
  PROVE  IInv'
<1>1. Runs(c, p) /\ intr[p] = "none" /\ pc[p] = "unlk"
  BY Zenon DEF ReleaseLk, At, AtIntr
<1>2. ptable # c /\ lk = c /\ ncli[c] = 1 /\ ie[c] = 0 /\ intena[c] = 1
  BY <1>1, RunningOK, SMTT(30) DEF ProcOK, One, TableAt, LkAt, SpinsAt
<1>3. /\ ptable' = ptable /\ lk' = None
      /\ ncli'[c] = 0 /\ ie'[c] = 1 /\ intena'[c] = 1
      /\ pc'[p] = "user" /\ intr'[p] = "none"
  BY <1>1, <1>2, SMTT(30) DEF ReleaseLk, At, AtIntr, Goto, cpuVars, lockVars, PopCli, IInv, Types
<1>4. Local(c, p)
  BY <1>1, <1>2, <1>3, SMTT(30)
  DEF ReleaseLk, At, AtIntr, Goto, cpuVars, lockVars, PopCli, Local, IInv, Types, Places_pc,
      Places_intr
<1>5. ProcOK(c, p)'
  <2>1. /\ ~TableAt(p)' /\ ~LkAt(p)' /\ ~SpinsAt(p)'
        /\ pc'[p] \in {"user", "again", "crit"}
    BY Zenon, <1>1, <1>2, <1>3 DEF TableAt, LkAt, SpinsAt
  <2> QED BY <1>2, <1>3, <2>1, SchedAssumption, SMTT(30) DEF ProcOK, One
<1>6. Types' /\ Places' /\ Processes' /\ \A d \in Cpu : CpuOK(d)'
  BY <1>1, <1>4, <1>5, LocalKeeps, Zenon
<1>7. /\ \A q \in Proc : q # p => pc'[q] = pc[q]
      /\ UNCHANGED <<locked, owner>>
      /\ UNCHANGED state
  BY Zenon DEF ReleaseLk, At, AtIntr, Goto, cpuVars, lockVars, PopCli, IInv, Types
<1>8. SleepLock' /\ Waking'
  BY Zenon, <1>1, <1>2, <1>3, <1>7 DEF IInv, SleepLock, Waking
<1>9. NoPanic'
  BY Zenon, <1>2 DEF ReleaseLk, IInv, NoPanic
<1> QED BY <1>6, <1>8, <1>9 DEF IInv

-----------------------------------------------------------------------------
(* The steps of the schedulers, and the switches.                          *)

\* The scheduler starts to acquire ptable.lock.
LEMMA SchedLoopKeeps ==
  ASSUME IInv, NEW c \in Cpu, SchedLoop(c)
  PROVE  IInv'
<1> USE DEF SchedLoop, lockVars, cpuVars
<1>1. CpuOK(c) /\ spc[c] # "away" /\ proc[c] = 0
  BY Zenon DEF IInv, Places
<1>2. Types'
  BY <1>1, SMTT(30) DEF IInv, Types, CpuOK, One, HoldsTable, HoldsLk, Spins, TableAt, LkAt, SpinsAt
<1>3. Places' /\ Processes'
  BY <1>1, SMTT(30) DEF IInv, Types, Places, Processes
<1>4. CpuOK(c)'
  BY <1>1, SchedAssumption, SMTT(30) DEF IInv, Types, CpuOK, HoldsTable, HoldsLk, Spins, One
<1>5. \A e \in Cpu : e # c => CpuOK(e)'
  BY <1>1, OthersKept, SchedAssumption, SMTT(30) DEF IInv, Types, CpuOK, HoldsTable
<1>6. SleepLock' /\ Waking'
  BY Zenon DEF IInv, Types, SleepLock, Waking
<1>7. NoPanic'
  BY Zenon, <1>1 DEF IInv, Types, NoPanic, CpuOK, HoldsTable
<1> QED BY Zenon, <1>2, <1>3, <1>4, <1>5, <1>6, <1>7 DEF IInv

\* The scheduler has ptable.lock.
LEMMA SchedAcquireKeeps ==
  ASSUME IInv, NEW c \in Cpu, SchedAcquire(c)
  PROVE  IInv'
<1> USE DEF SchedAcquire, lockVars, cpuVars
<1>1. CpuOK(c) /\ spc[c] # "away" /\ proc[c] = 0
  BY Zenon DEF IInv, Places
<1>2. Types'
  BY Zenon, <1>1 DEF IInv, Types, CpuOK, One, HoldsTable, HoldsLk, Spins, TableAt, LkAt, SpinsAt
<1>3. Places' /\ Processes'
  BY <1>1, SMTT(30) DEF IInv, Types, Places, Processes
<1>4. CpuOK(c)'
  BY <1>1, SchedAssumption, SMTT(30) DEF IInv, Types, CpuOK, HoldsTable, HoldsLk, Spins, One
<1>5. \A e \in Cpu : e # c => CpuOK(e)'
  BY <1>1, OthersKept, SchedAssumption, SMTT(30) DEF IInv, Types, CpuOK, HoldsTable
<1>6. SleepLock' /\ Waking'
  BY Zenon DEF IInv, Types, SleepLock, Waking
<1>7. NoPanic'
  BY Zenon, <1>1 DEF IInv, Types, NoPanic, CpuOK, HoldsTable
<1> QED BY Zenon, <1>2, <1>3, <1>4, <1>5, <1>6, <1>7 DEF IInv

\* The scheduler releases ptable.lock.
LEMMA SchedReleaseKeeps ==
  ASSUME IInv, NEW c \in Cpu, SchedRelease(c)
  PROVE  IInv'
<1> USE DEF SchedRelease, lockVars, cpuVars, PopCli
<1>1. CpuOK(c) /\ spc[c] # "away" /\ proc[c] = 0
  BY Zenon DEF IInv, Places
<1>2. Types'
  BY <1>1, SMTT(30) DEF IInv, Types, CpuOK, One, HoldsTable, HoldsLk, Spins, TableAt, LkAt, SpinsAt
<1>3. Places' /\ Processes'
  BY <1>1, SMTT(30) DEF IInv, Types, Places, Processes
<1>4. CpuOK(c)'
  BY <1>1, SchedAssumption, SMTT(30) DEF IInv, Types, CpuOK, HoldsTable, HoldsLk, Spins, One
<1>5. \A e \in Cpu : e # c => CpuOK(e)'
  BY <1>1, OthersKept, SchedAssumption, SMTT(30) DEF IInv, Types, CpuOK, HoldsTable
<1>6. SleepLock' /\ Waking'
  BY Zenon DEF IInv, Types, SleepLock, Waking
<1>7. NoPanic'
  BY Zenon, <1>1 DEF IInv, Types, NoPanic, CpuOK, HoldsTable
<1> QED BY Zenon, <1>2, <1>3, <1>4, <1>5, <1>6, <1>7 DEF IInv

\* yield switches to the scheduler.
LEMMA YieldKeeps ==
  ASSUME IInv, NEW c \in Cpu, NEW p \in Proc, Yield(c, p)
  PROVE  IInv'
<1>1. Runs(c, p) /\ intr[p] = "yield"
  BY Zenon DEF Yield, At, AtIntr
<1>2. TableAt(p) /\ ~LkAt(p) /\ ~SpinsAt(p)
  BY Zenon, <1>1 DEF TableAt, LkAt, SpinsAt
<1>3. intr'[p] = "back" /\ pc'[p] \in {"user", "again", "crit"}
  BY Zenon, <1>1 DEF Yield, IInv, Types, Processes
<1>4. /\ pc' \in [Proc -> Places_pc] /\ \A q \in Proc \ {p} : pc'[q] = pc[q]
      /\ intr' \in [Proc -> Places_intr] /\ \A q \in Proc \ {p} : intr'[q] = intr[q]
      /\ UNCHANGED <<ptable, lk, locked, owner, ncli, intena, ie>>
      /\ Sched(c, p, "RUNNABLE", ncli[c])
  BY Zenon DEF Yield, Goto, lockVars, cpuVars, IInv, Types, Places_pc, Places_intr
<1>5. Types' /\ Places' /\ Processes' /\ NoPanic' /\ \A d \in Cpu : CpuOK(d)'
  BY Zenon, <1>1, <1>2, <1>3, <1>4, SchedKeeps
<1>6. state' = [state EXCEPT ![p] = "RUNNABLE"]
  BY Zenon, <1>4 DEF Sched
<1>7. SleepLock' /\ Waking'
  BY <1>4, <1>6 DEF Yield, IInv, Types, SleepLock, Waking
<1> QED BY Zenon, <1>5, <1>7 DEF IInv

\* sleep switches to the scheduler.
LEMMA SleepKeeps ==
  ASSUME IInv, NEW c \in Cpu, NEW p \in Proc, Sleep(c, p)
  PROVE  IInv'
<1>1. Runs(c, p) /\ intr[p] = "none" /\ pc[p] = "sleep"
  BY Zenon DEF Sleep, At, AtIntr
<1>2. TableAt(p) /\ ~LkAt(p) /\ ~SpinsAt(p)
  BY Zenon, <1>1 DEF TableAt, LkAt, SpinsAt
<1>3. intr'[p] = "none" /\ pc'[p] = "woken" /\ intena[c] = 1
  BY Zenon, <1>1, RunningOK DEF Sleep, Goto, ProcOK, IInv, Types
<1>4. /\ pc' \in [Proc -> Places_pc] /\ \A q \in Proc \ {p} : pc'[q] = pc[q]
      /\ intr' \in [Proc -> Places_intr] /\ \A q \in Proc \ {p} : intr'[q] = intr[q]
      /\ UNCHANGED <<ptable, lk, locked, owner, ncli, intena, ie>>
      /\ Sched(c, p, "SLEEPING", ncli[c])
  BY Zenon DEF Sleep, Goto, lockVars, cpuVars, IInv, Types, Places_pc, Places_intr
<1>5. Types' /\ Places' /\ Processes' /\ NoPanic' /\ \A d \in Cpu : CpuOK(d)'
  BY <1>1, <1>2, <1>3, <1>4, SchedKeeps, ZenonT(30)
<1>6. state' = [state EXCEPT ![p] = "SLEEPING"]
  BY Zenon, <1>4 DEF Sched
<1>7. SleepLock' /\ Waking'
  BY <1>1, <1>3, <1>4, <1>6 DEF IInv, Types, SleepLock, Waking
<1> QED BY <1>5, <1>7 DEF IInv

\* The scheduler switches to a process.
LEMMA DispatchKeeps ==
  ASSUME IInv, NEW c \in Cpu, Dispatch(c)
  PROVE  IInv'
<1> USE DEF lockVars, cpuVars
<1>1. PICK p \in Ahead(c) : /\ proc' = [proc EXCEPT ![c] = p]
                            /\ state' = [state EXCEPT ![p] = "RUNNING"]
                            /\ scan' = [scan EXCEPT ![c] = p + 1]
  BY Zenon DEF Dispatch
<1>2. /\ spc[c] = "scan" /\ spc' = [spc EXCEPT ![c] = "away"]
      /\ UNCHANGED <<pc, intr, savedint, ptable, lk, lockVars, cpuVars, panicked>>
  BY Zenon DEF Dispatch
<1>3. /\ p \in Proc /\ p # 0 /\ state[p] = "RUNNABLE" /\ proc[c] = 0 /\ CpuOK(c)
      /\ \A e \in Cpu : proc[e] # p
  BY <1>1, <1>2, SchedAssumption, SMTT(30) DEF Ahead, IInv, Places, Proc
<1>4. Types'
  BY <1>1, <1>2, <1>3, SMTT(30) DEF IInv, Types, Proc
<1>5. Places'
  <2>1. \A q \in Proc : state'[q] = "RUNNING" => \E e \in Cpu : proc'[e] = q
    <3> SUFFICES ASSUME NEW q \in Proc, state'[q] = "RUNNING" PROVE \E e \in Cpu : proc'[e] = q
      BY Zenon
    <3>1. CASE q = p
      BY Zenon, <1>1, <3>1 DEF IInv, Types
    <3>2. CASE q # p
      <4>1. PICK e \in Cpu : proc[e] = q
        BY Zenon, <1>1, <3>2 DEF IInv, Types, Places
      <4>2. e # c
        BY <1>3, <4>1, SchedAssumption, SMTT(30) DEF Proc
      <4> QED BY Zenon, <1>1, <4>1, <4>2 DEF IInv, Types
    <3> QED BY Zenon, <3>1, <3>2
  <2>2. \A e \in Cpu : spc'[e] = "away" <=> proc'[e] # 0
    BY Zenon, <1>1, <1>2, <1>3 DEF IInv, Types, Places
  <2>3. \A e \in Cpu : proc'[e] # 0 => state'[proc'[e]] = "RUNNING"
    BY <1>1, <1>2, <1>3, SMTT(30) DEF IInv, Types, Places
  <2>4. \A e, d \in Cpu : proc'[e] = proc'[d] /\ proc'[e] # 0 => e = d
    BY <1>1, <1>2, <1>3, SMTT(30) DEF IInv, Types, Places
  <2> QED BY Zenon, <2>1, <2>2, <2>3, <2>4 DEF Places
<1>6. Processes' /\ SleepLock' /\ Waking' /\ NoPanic'
  <2>1. Processes'
    BY Zenon, <1>1, <1>2, <1>3 DEF IInv, Types, Processes
  <2>2. SleepLock'
    BY Zenon, <1>1, <1>2, <1>3 DEF IInv, Types, SleepLock
  <2>3. Waking'
    BY Zenon, <1>1, <1>2, <1>3 DEF IInv, Types, Waking
  <2>4. NoPanic'
    BY Zenon, <1>2 DEF IInv, NoPanic
  <2> QED BY Zenon, <2>1, <2>2, <2>3, <2>4
<1>7. CpuOK(c)'
  BY <1>1, <1>2, <1>3, SMTT(30)
  DEF IInv, Types, Processes, CpuOK, HoldsTable, HoldsLk, Spins, One, TableAt, LkAt, SpinsAt
<1>8. \A e \in Cpu : e # c => CpuOK(e)'
  BY Zenon, <1>1, <1>2, <1>3, OthersKept DEF IInv, Types
<1> QED BY Zenon, <1>4, <1>5, <1>6, <1>7, <1>8 DEF IInv

\* kill wakes a process.
LEMMA KillKeeps ==
  ASSUME IInv, NEW q \in Proc, Kill(q)
  PROVE  IInv'
<1> USE DEF Kill, lockVars, cpuVars
<1>1. Types' /\ Places' /\ Processes' /\ NoPanic'
  BY DEF IInv, Types, Places, Processes, NoPanic
<1>2. SleepLock' /\ Waking'
  BY Zenon DEF IInv, Types, SleepLock, Waking
<1>3. \A e \in Cpu : CpuOK(e)'
  BY OthersKept, Zenon DEF IInv
<1> QED BY Zenon, <1>1, <1>2, <1>3 DEF IInv

\* Every step keeps the invariant.
LEMMA NextHolds == IInv /\ [Next]_vars => IInv'
<1> SUFFICES ASSUME IInv, [Next]_vars PROVE IInv'
  BY Zenon
<1>1. CASE UNCHANGED vars
  <2> USE <1>1 DEF vars, lockVars, cpuVars
  <2>1. Types' /\ Places' /\ Processes' /\ NoPanic'
    BY SMTT(30) DEF IInv, Types, Places, Processes, NoPanic
  <2>2. SleepLock' /\ Waking'
    BY Zenon DEF IInv, SleepLock, Waking
  <2>3. \A e \in Cpu : CpuOK(e)'
    BY Zenon, OthersKept DEF IInv
  <2> QED BY Zenon, <2>1, <2>2, <2>3 DEF IInv
<1>2. ASSUME NEW c \in Cpu, Kernel(c) PROVE IInv'
  <2>1. ASSUME SchedLoop(c) \/ SchedAcquire(c) \/ Dispatch(c) \/ SchedRelease(c) PROVE IInv'
    BY Zenon, <2>1, SchedLoopKeeps, SchedAcquireKeeps, DispatchKeeps, SchedReleaseKeeps
  <2>2. ASSUME NEW p \in Proc,
               ForkRet(c, p) \/ YieldAcquire(c, p) \/ Yield(c, p) \/ YieldBack(c, p)
        PROVE  IInv'
    BY Zenon, <2>2, ForkRetKeeps, YieldAcquireKeeps, YieldKeeps, YieldBackKeeps
  <2>3. ASSUME NEW p \in Proc,
               \/ AcquireLk(c, p) \/ TakeSleepLock(c, p) \/ MustSleep(c, p)
               \/ SleepAcquire(c, p) \/ Sleep(c, p) \/ SleepBack(c, p)
        PROVE  IInv'
    BY Zenon, <2>3, AcquireLkKeeps, TakeSleepLockKeeps, MustSleepKeeps, SleepAcquireKeeps, SleepKeeps,
       SleepBackKeeps
  <2>4. ASSUME NEW p \in Proc,
               AcquireSleep(c, p) \/ Unlock(c, p) \/ Wakeup(c, p) \/ ReleaseLk(c, p)
        PROVE  IInv'
    BY Zenon, <2>4, AcquireSleepKeeps, UnlockKeeps, WakeupKeeps, ReleaseLkKeeps
  <2> QED BY Zenon, <1>2, <2>1, <2>2, <2>3, <2>4 DEF Kernel
<1>3. ASSUME NEW c \in Cpu, NEW p \in Proc, Timer(c, p) \/ Choice(c, p) PROVE IInv'
  BY Zenon, <1>3, TimerKeeps, AcquireSleepKeeps, ReleaseSleepKeeps DEF Choice
<1>4. ASSUME NEW q \in Proc, Kill(q) PROVE IInv'
  BY Zenon, <1>4, KillKeeps
<1> QED BY Zenon, <1>1, <1>2, <1>3, <1>4 DEF Next

-----------------------------------------------------------------------------
(* Theorems.                                                               *)

\* In every reachable state.
LEMMA Invariant == Spec => []IInv
BY InitHolds, NextHolds, PTL DEF Spec

\* A process runs on one processor at a time, and is RUNNING exactly then (scheduler,
\* sched).
THEOREM RunsOnce == Spec => []OneProcessor
<1>1. IInv => OneProcessor
  <2> SUFFICES ASSUME IInv, NEW p \in Proc
               PROVE  /\ state[p] = "RUNNING" <=> \E c \in Cpu : proc[c] = p
                      /\ \A c, d \in Cpu : proc[c] = p /\ proc[d] = p => c = d
    BY Zenon DEF OneProcessor
  <2> QED BY SchedAssumption DEF IInv, Places, Proc
<1> QED BY <1>1, Invariant, PTL

\* pushcli and popcli balance with the spin-locks that a processor holds or spins for,
\* across every switch, and interrupts are on exactly outside of them.
THEOREM InterruptsBalanced == Spec => []InterruptsMatch
<1>1. IInv => InterruptsMatch
  <2> SUFFICES ASSUME IInv PROVE InterruptsMatch
    BY Zenon
  <2>1. ASSUME NEW c \in Cpu
        PROVE  Spins(c) <=> \/ spc[c] = "spin"
                            \/ \E p \in Proc : \/ AtIntr(c, p, "spin")
                                               \/ \E l \in {"aspin", "sspin", "rspin", "wspin"} :
                                                    At(c, p, l)
    <3>1. spc[c] = "away" => proc[c] \in Proc
      BY DEF IInv, Types, Places
    <3> QED BY Zenon, <3>1 DEF Spins, SpinsAt, AtIntr, At, Runs
  <2> QED BY Zenon, <2>1 DEF IInv, CpuOK, One, InterruptsMatch
<1> QED BY <1>1, Invariant, PTL

\* None of the panics of acquire, release and sched is reached.
THEOREM NeverPanics == Spec => []NoPanic
<1>1. IInv => NoPanic
  BY Zenon DEF IInv
<1> QED BY <1>1, Invariant, PTL

\* One process at a time is between acquiresleep and releasesleep.
THEOREM SleepLockExcludes == Spec => []MutualExclusion
<1>1. IInv => MutualExclusion
  BY Zenon DEF IInv, SleepLock, MutualExclusion
<1> QED BY <1>1, Invariant, PTL

\* Whoever sleeps for the sleep-lock does so while it is taken, or while wakeup is
\* about to be called (sleep takes ptable.lock before it releases lk->lk).
THEOREM SleepersWoken == Spec => []NoLostWakeup
<1>1. IInv => NoLostWakeup
  BY Zenon DEF IInv, Waking, NoLostWakeup
<1> QED BY <1>1, Invariant, PTL
=============================================================================

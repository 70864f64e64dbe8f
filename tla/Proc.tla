-------------------------------- MODULE Proc --------------------------------
(***************************************************************************)
(* The life of processes in the process table (kernel/proc.c, with the     *)
(* system calls of kernel/sysproc.c, the system-call path of kernel/trap.c *)
(* and the loop of user/init.c): allocproc, fork, exit, wait, kill, sleep  *)
(* on ticks, and the uid and euid that processes carry.                    *)
(*                                                                         *)
(* Granularity.  A section under ptable.lock is one action; what a system  *)
(* call does between two such sections is interleaved with everyone else.  *)
(* RUNNABLE stands for RUNNABLE and RUNNING.                               *)
(*                                                                         *)
(* Data.  Memory is the set of slots that own a kernel stack and the set   *)
(* that own an address space, and an allocation may fail at any time.      *)
(* nextpid only grows, so that a new pid differs from every pid in the     *)
(* table: NewPid takes the least such number, which keeps the model finite *)
(* (the wrap of nextpid at 2^31 is left out).                              *)
(***************************************************************************)
EXTENDS Naturals

CONSTANTS
  NPROC,       \* slots of the largest process table
  Uid,         \* user ids
  Machines     \* [slots, uses]: sizes of the process table, each with what its programs
               \* meet beside fork, exit and wait

ROOT == 0

ASSUME NprocAssumption == NPROC \in Nat \ {0}
ASSUME UidAssumption == Uid \subseteq Nat /\ ROOT \in Uid
ASSUME MachinesAssumption ==
  Machines \subseteq [slots : 1 .. NPROC,
                      uses : SUBSET {"kill", "sleep", "fault", "nomem", "setuid"}]

Slot == 1 .. NPROC
Init1 == 1                 \* initproc
Pid == 0 .. NPROC + 1
Ticks == NPROC + 1         \* the channel &ticks; &proc[s] is s, none is 0

VARIABLES
  state, pid, parent, killed, chan, uid, euid,   \* fields of struct proc
  kstack,      \* slots that own a kernel stack
  vm,          \* slots that own an address space
  pc,          \* where the process of a slot is
  np,          \* np[p]: the slot p is filling in fork, or 0
  getty,       \* pid of the getty that init waits for, or 0 (user/init.c)
  panicked,    \* 1 once the kernel has panicked
  dropped,     \* history: slots that gave up root, or inherited this
  machine      \* the machine of this behaviour; it never changes

vars == <<state, pid, parent, killed, chan, uid, euid, kstack, vm, pc, np,
          getty, panicked, dropped>>
procVars == <<uid, euid, dropped>>
memVars == <<kstack, vm>>

Table == 1 .. machine.slots
Uses == machine.uses

Alive(s) == state[s] \in {"SLEEPING", "RUNNABLE"}
Children(p) == {s \in Slot : parent[s] = p}

\* The first slot of S in the order the kernel scans the table, if S has one.
First(S) == {s \in S : \A t \in S : s <= t}

\* p runs, at label l.
At(p, l) == panicked = 0 /\ state[p] = "RUNNABLE" /\ pc[p] = l

\* p runs in user space: it can make a system call unless it has been killed.
Calls(p) == At(p, "user") /\ killed[p] = 0

Goto(p, l) == pc' = [pc EXCEPT ![p] = l]

\* sleep, up to the switch away from p; a process that comes back from sleep
\* resets its channel.
Sleep(p, c) ==
  /\ state' = [state EXCEPT ![p] = "SLEEPING"]
  /\ chan' = [chan EXCEPT ![p] = c]
ChanReset(p) == chan' = [chan EXCEPT ![p] = 0]

\* The states after wakeup1(c): whoever sleeps on channel c runs again.
Wakeup1(st, c) ==
  [s \in Slot |-> IF st[s] = "SLEEPING" /\ chan[s] = c THEN "RUNNABLE" ELSE st[s]]

-----------------------------------------------------------------------------
\* userinit has made the first process.
Init ==
  /\ state = [s \in Slot |-> IF s = Init1 THEN "RUNNABLE" ELSE "UNUSED"]
  /\ pid = [s \in Slot |-> IF s = Init1 THEN 1 ELSE 0]
  /\ parent = [s \in Slot |-> 0]
  /\ killed = [s \in Slot |-> 0]
  /\ chan = [s \in Slot |-> 0]
  /\ uid = [s \in Slot |-> ROOT]
  /\ euid = [s \in Slot |-> ROOT]
  /\ kstack = {Init1}
  /\ vm = {Init1}
  /\ pc = [s \in Slot |-> IF s = Init1 THEN "user" ELSE "none"]
  /\ np = [s \in Slot |-> 0]
  /\ getty = 0
  /\ panicked = 0
  /\ dropped = {}
  /\ machine \in Machines

-----------------------------------------------------------------------------
(* fork.                                                                   *)

\* fork returns -1, upon which init calls exit.
ForkFails(p) == Goto(p, IF p = Init1 THEN "exit" ELSE "ret")

\* init forks only when it has no getty to wait for.
MayFork(p) == Calls(p) /\ (p = Init1 => getty = 0)

NewPid == CHOOSE n \in First({m \in Pid \ {0} : \A s \in Slot : pid[s] # m}) : TRUE

Free == {s \in Table : state[s] = "UNUSED"}

NoSlot(p) ==
  /\ MayFork(p)
  /\ Free = {}
  /\ ForkFails(p)
  /\ UNCHANGED <<state, pid, parent, killed, chan, procVars, memVars, np,
                 getty, panicked>>

\* allocproc up to the release of ptable.lock.  p->killed keeps its value.
AllocProc(p) ==
  /\ MayFork(p)
  /\ \E s \in First(Free) :
       /\ state' = [state EXCEPT ![s] = "EMBRYO"]
       /\ pid' = [pid EXCEPT ![s] = NewPid]
       /\ np' = [np EXCEPT ![p] = s]
  /\ Goto(p, "kalloc")
  /\ UNCHANGED <<parent, killed, chan, procVars, memVars, getty, panicked>>

\* The slot goes back to UNUSED, without the lock, and keeps its pid.
GiveUp(p) ==
  /\ "nomem" \in Uses
  /\ state' = [state EXCEPT ![np[p]] = "UNUSED"]
  /\ np' = [np EXCEPT ![p] = 0]
  /\ ForkFails(p)
  /\ UNCHANGED <<pid, parent, killed, chan, procVars, getty, panicked>>

\* The kernel stack.
Kalloc(p) ==
  /\ At(p, "kalloc")
  /\ \/ /\ kstack' = kstack \cup {np[p]}
        /\ Goto(p, "copyuvm")
        /\ UNCHANGED <<state, pid, parent, killed, chan, procVars, vm, np,
                       getty, panicked>>
     \/ GiveUp(p) /\ UNCHANGED memVars

\* The address space; if this fails, the kernel stack is freed again.
CopyUvm(p) ==
  /\ At(p, "copyuvm")
  /\ \/ /\ vm' = vm \cup {np[p]}
        /\ Goto(p, "copy")
        /\ UNCHANGED <<state, pid, parent, killed, chan, procVars, kstack, np,
                       getty, panicked>>
     \/ /\ GiveUp(p)
        /\ kstack' = kstack \ {np[p]}
        /\ UNCHANGED vm

\* Mutant of ForkDone: the child keeps the uid of the slot's last process.
ForkDone_NoUid(p) ==
  LET s == np[p] IN
  /\ At(p, "copy")
  /\ parent' = [parent EXCEPT ![s] = p]
  /\ state' = [state EXCEPT ![s] = "RUNNABLE"]
  /\ pc' = [pc EXCEPT ![s] = "user", ![p] = "ret"]
  /\ np' = [np EXCEPT ![p] = 0]
  /\ getty' = IF p = Init1 THEN pid[s] ELSE getty
  /\ dropped' = IF p \in dropped THEN dropped \cup {s} ELSE dropped \ {s}
  /\ UNCHANGED <<pid, killed, chan, uid, euid, memVars, panicked>>

\* The rest of fork: the child gets the credentials of its parent and runs.
ForkDone(p) ==
  LET s == np[p] IN
  /\ At(p, "copy")
  /\ uid' = [uid EXCEPT ![s] = uid[p]]
  /\ euid' = [euid EXCEPT ![s] = euid[p]]
  /\ parent' = [parent EXCEPT ![s] = p]
  /\ state' = [state EXCEPT ![s] = "RUNNABLE"]
  /\ pc' = [pc EXCEPT ![s] = "user", ![p] = "ret"]
  /\ np' = [np EXCEPT ![p] = 0]
  /\ getty' = IF p = Init1 THEN pid[s] ELSE getty
  /\ dropped' = IF p \in dropped THEN dropped \cup {s} ELSE dropped \ {s}
  /\ UNCHANGED <<pid, killed, chan, memVars, panicked>>

-----------------------------------------------------------------------------
(* Returning to user space, and exit.                                      *)

\* The end of a system call, or of an interrupt: a killed process exits.
SysRet(p) ==
  /\ At(p, "ret")
  /\ Goto(p, IF killed[p] = 1 THEN "exit" ELSE "user")
  /\ UNCHANGED <<state, pid, parent, killed, chan, procVars, memVars, np,
                 getty, panicked>>

\* A trap from user space finds that the process has been killed.
UserTrap(p) ==
  /\ At(p, "user")
  /\ killed[p] = 1
  /\ Goto(p, "exit")
  /\ UNCHANGED <<state, pid, parent, killed, chan, procVars, memVars, np,
                 getty, panicked>>

\* The program faults: trap marks it killed and makes it exit.
Fault(p) ==
  /\ Calls(p)
  /\ p # Init1
  /\ killed' = [killed EXCEPT ![p] = 1]
  /\ Goto(p, "exit")
  /\ UNCHANGED <<state, pid, parent, chan, procVars, memVars, np, getty,
                 panicked>>

\* The program calls exit.
SysExit(p) ==
  /\ Calls(p)
  /\ p # Init1
  /\ Goto(p, "exit")
  /\ UNCHANGED <<state, pid, parent, killed, chan, procVars, memVars, np,
                 getty, panicked>>

\* Mutant of Exit: init is not woken for the zombies it inherits.
Exit_NoInitWakeup(p) ==
  /\ At(p, "exit")
  /\ IF p = Init1
     THEN panicked' = 1 /\ UNCHANGED <<state, parent, pc>>
     ELSE /\ state' = [Wakeup1(state, parent[p]) EXCEPT ![p] = "ZOMBIE"]
          /\ parent' = [s \in Slot |-> IF parent[s] = p THEN Init1 ELSE parent[s]]
          /\ Goto(p, "none")
          /\ UNCHANGED panicked
  /\ UNCHANGED <<pid, killed, chan, procVars, memVars, np, getty>>

\* Mutant of Exit: the children keep their dead parent.
Exit_NoReparent(p) ==
  /\ At(p, "exit")
  /\ IF p = Init1
     THEN panicked' = 1 /\ UNCHANGED <<state, pc>>
     ELSE /\ state' = [Wakeup1(state, parent[p]) EXCEPT ![p] = "ZOMBIE"]
          /\ Goto(p, "none")
          /\ UNCHANGED panicked
  /\ UNCHANGED <<pid, parent, killed, chan, procVars, memVars, np, getty>>

\* exit.  init must not exit.  Open files and the working directory have been
\* released; then, under the lock: wake the parent, pass the children to init
\* and wake it if one of them is dead already, become a zombie.
Exit(p) ==
  LET orphans == Children(p)
      woken == Wakeup1(state, parent[p])
      woken2 == IF \E s \in orphans : state[s] = "ZOMBIE"
                THEN Wakeup1(woken, Init1) ELSE woken
  IN
  /\ At(p, "exit")
  /\ IF p = Init1
     THEN panicked' = 1 /\ UNCHANGED <<state, parent, pc>>
     ELSE /\ state' = [woken2 EXCEPT ![p] = "ZOMBIE"]
          /\ parent' = [s \in Slot |-> IF s \in orphans THEN Init1 ELSE parent[s]]
          /\ Goto(p, "none")
          /\ UNCHANGED panicked
  /\ UNCHANGED <<pid, killed, chan, procVars, memVars, np, getty>>

-----------------------------------------------------------------------------
(* wait.                                                                   *)

Zombies(p) == {s \in Children(p) : state[s] = "ZOMBIE"}

\* p enters wait, or runs again in its loop.  init waits for its getty only.
InWait(p) ==
  \/ Calls(p) /\ (p = Init1 => getty # 0)
  \/ At(p, "wait")

\* init forks a new getty when wait has returned the old one, or -1.
InitSees(p, wpid) == getty' = IF p = Init1 /\ wpid \in {0, getty} THEN 0 ELSE getty

\* Mutant of Reap: the address space is not freed.
Reap_Leak(p) ==
  /\ InWait(p)
  /\ \E s \in First(Zombies(p)) :
       /\ kstack' = kstack \ {s}
       /\ pid' = [pid EXCEPT ![s] = 0]
       /\ parent' = [parent EXCEPT ![s] = 0]
       /\ killed' = [killed EXCEPT ![s] = 0]
       /\ state' = [state EXCEPT ![s] = "UNUSED"]
       /\ InitSees(p, pid[s])
  /\ ChanReset(p)
  /\ Goto(p, "ret")
  /\ UNCHANGED <<procVars, vm, np, panicked>>

\* A dead child: free its memory and its slot.
Reap(p) ==
  /\ InWait(p)
  /\ \E s \in First(Zombies(p)) :
       /\ kstack' = kstack \ {s}
       /\ vm' = vm \ {s}
       /\ pid' = [pid EXCEPT ![s] = 0]
       /\ parent' = [parent EXCEPT ![s] = 0]
       /\ killed' = [killed EXCEPT ![s] = 0]
       /\ state' = [state EXCEPT ![s] = "UNUSED"]
       /\ InitSees(p, pid[s])
  /\ ChanReset(p)
  /\ Goto(p, "ret")
  /\ UNCHANGED <<procVars, np, panicked>>

\* No dead child: return -1, or sleep on the channel curproc.
WaitMore(p) ==
  /\ InWait(p)
  /\ Zombies(p) = {}
  /\ IF Children(p) = {} \/ killed[p] = 1
     THEN /\ Goto(p, "ret")
          /\ InitSees(p, 0)
          /\ ChanReset(p)
          /\ UNCHANGED state
     ELSE /\ Sleep(p, p)
          /\ Goto(p, "wait")
          /\ UNCHANGED getty
  /\ UNCHANGED <<pid, parent, killed, procVars, memVars, np, panicked>>

-----------------------------------------------------------------------------
(* sleep on ticks, kill, setuid.                                           *)

\* sys_sleep's loop under tickslock: the time is over, or p has been killed, or
\* p goes on to sleep.
TickCheck(p) ==
  /\ At(p, "ticks") \/ (Calls(p) /\ p # Init1)
  /\ \/ Goto(p, "ret")
     \/ killed[p] = 0 /\ Goto(p, "sleep")
  /\ ChanReset(p)
  /\ UNCHANGED <<state, pid, parent, killed, procVars, memVars, np,
                 getty, panicked>>

\* sleep(&ticks, &tickslock): under ptable.lock, without a look at p->killed.
TickSleep(p) ==
  /\ At(p, "sleep")
  /\ Sleep(p, Ticks)
  /\ Goto(p, "ticks")
  /\ UNCHANGED <<pid, parent, killed, procVars, memVars, np, getty, panicked>>

\* The timer interrupt needs tickslock, which a process holds from its test of
\* ticks until it sleeps.
TimerTick ==
  /\ panicked = 0
  /\ \A p \in Slot : pc[p] # "sleep"
  /\ \E p \in Slot : state[p] = "SLEEPING" /\ chan[p] = Ticks
  /\ state' = Wakeup1(state, Ticks)
  /\ UNCHANGED <<pid, parent, killed, chan, procVars, memVars, pc, np, getty,
                 panicked>>

\* Mutant of Kill: a sleeping victim is not woken.
Kill_NoWakeup(p, n) ==
  /\ Calls(p)
  /\ p # Init1
  /\ \E s \in First({t \in Table : pid[t] = n}) :
       killed' = [killed EXCEPT ![s] = 1]
  /\ Goto(p, "ret")
  /\ UNCHANGED <<state, pid, parent, chan, procVars, memVars, np, getty,
                 panicked>>

\* kill(n): the first slot with this pid, whatever its state.  If there is none,
\* kill changes nothing.
Kill(p, n) ==
  /\ Calls(p)
  /\ p # Init1
  /\ \E s \in First({t \in Table : pid[t] = n}) :
       /\ killed' = [killed EXCEPT ![s] = 1]
       /\ state' = IF state[s] = "SLEEPING" THEN [state EXCEPT ![s] = "RUNNABLE"]
                                            ELSE state
  /\ Goto(p, "ret")
  /\ UNCHANGED <<pid, parent, chan, procVars, memVars, np, getty, panicked>>

\* Only root may change its ids; any other process gets -1 and no change.
SetUid(p, u) ==
  /\ Calls(p)
  /\ p # Init1
  /\ uid[p] = ROOT
  /\ uid' = [uid EXCEPT ![p] = u]
  /\ euid' = [euid EXCEPT ![p] = u]
  /\ dropped' = IF u # ROOT THEN dropped \cup {p} ELSE dropped
  /\ Goto(p, "ret")
  /\ UNCHANGED <<state, pid, parent, killed, chan, memVars, np, getty, panicked>>

\* panic loops for ever.
Frozen == panicked = 1 /\ UNCHANGED vars

-----------------------------------------------------------------------------
Wait(p) == Reap(p) \/ WaitMore(p)

\* What p does next on its own once it is inside the kernel, or killed.
Kernel(p) ==
  \/ Kalloc(p) \/ CopyUvm(p) \/ ForkDone(p)
  \/ SysRet(p) \/ UserTrap(p) \/ Exit(p)
  \/ pc[p] = "wait" /\ Wait(p)
  \/ pc[p] = "ticks" /\ TickCheck(p)
  \/ TickSleep(p)

\* What its program may ask for.
User(p) ==
  \/ NoSlot(p) \/ AllocProc(p)
  \/ SysExit(p)
  \/ "fault" \in Uses /\ Fault(p)
  \/ pc[p] = "user" /\ Wait(p)
  \/ "sleep" \in Uses /\ pc[p] = "user" /\ TickCheck(p)
  \/ "kill" \in Uses /\ \E n \in Pid : Kill(p, n)
  \/ "setuid" \in Uses /\ \E u \in Uid : SetUid(p, u)

Next ==
  /\ UNCHANGED machine
  /\ \/ \E p \in Slot : Kernel(p) \/ User(p)
     \/ TimerTick
     \/ Frozen

Spec == Init /\ [][Next]_<<vars, machine>>

\* The round-robin scheduler runs every RUNNABLE process again and again, so a
\* process inside the kernel, or killed, goes on; init never stops calling fork
\* and wait; tickslock is free again and again, and the timer gets it.  Nothing
\* is assumed of what other programs do.
Fairness ==
  /\ \A p \in Slot : WF_vars(Kernel(p))
  /\ WF_vars(User(Init1))
  /\ SF_vars(TimerTick)

FairSpec == Spec /\ Fairness

-----------------------------------------------------------------------------
(* Properties.                                                             *)

\* The parent of a process can still wait for it: exit hands the children of the
\* dying process to init, whatever fork, exit and wait run beside it.
ParentAlive ==
  \A s \in Slot : Alive(s) \/ state[s] = "ZOMBIE" =>
    \/ s = Init1 /\ parent[s] = 0
    \/ parent[s] # 0 /\ Alive(parent[s])

\* Nobody sleeps in wait() while a child of its is dead: the wakeups of exit (of
\* the parent, and of init for inherited zombies) are never lost.
NoUnreapedSleep ==
  \A p \in Slot : state[p] = "SLEEPING" /\ chan[p] = p => Zombies(p) = {}

\* fork, its failure paths, exit and wait together never lose or share memory: a
\* kernel stack and an address space belong to a process that lives, to a zombie,
\* or to a slot that exactly one process is filling; no slot stays EMBRYO without
\* a process that fills it.
NoLeak ==
  LET fillers(s) == {p \in Slot : np[p] = s /\ Alive(p)}
      filled(s, ls) == \E p \in fillers(s) : pc[p] \in ls
      grown(s) == Alive(s) \/ state[s] = "ZOMBIE"
  IN
  \A s \in Slot :
    /\ s \in kstack <=> grown(s) \/ filled(s, {"copyuvm", "copy"})
    /\ s \in vm <=> grown(s) \/ filled(s, {"copy"})
    /\ state[s] = "EMBRYO" <=> fillers(s) # {}
    /\ \A p, q \in fillers(s) : p = q

\* A process that gave up root with setuid, or descends from one that did, never
\* has root's uid or euid again: fork copies both ids into whatever slot the
\* child gets, and setuid refuses.
DroppedStaysDropped ==
  \A s \in dropped : Alive(s) => uid[s] # ROOT /\ euid[s] # ROOT

\* A killed process exits, wherever the kill meets it: in user space, between its
\* test of killed and its sleep on ticks, asleep, or half way through fork.
KilledDies ==
  \A s \in Slot \ {Init1} :
    Alive(s) /\ killed[s] = 1 ~> state[s] = "ZOMBIE" \/ panicked = 1
=============================================================================

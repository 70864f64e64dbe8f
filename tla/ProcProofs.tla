----------------------------- MODULE ProcProofs -----------------------------
(***************************************************************************)
(* Proofs about Proc, for every size of the process table.                 *)
(*                                                                         *)
(* The argument.  A slot that is being filled by fork belongs to one       *)
(* process, which stays RUNNABLE until it is done; every other slot in use *)
(* has a living parent, since whoever dies passes its children to init,    *)
(* which cannot die.  So wait finds every zombie, and nothing else owns    *)
(* memory.                                                                 *)
(***************************************************************************)
EXTENDS Proc, TLAPS

Filling == {"kalloc", "copyuvm", "copy"}

-----------------------------------------------------------------------------
(* The inductive invariant.                                                *)

Types ==
  /\ state \in [Slot -> {"UNUSED", "EMBRYO", "SLEEPING", "RUNNABLE", "ZOMBIE"}]
  /\ parent \in [Slot -> Slot \cup {0}]
  /\ killed \in [Slot -> {0, 1}]
  /\ chan \in [Slot -> 0 .. NPROC + 1]
  /\ uid \in [Slot -> Uid] /\ euid \in [Slot -> Uid]
  /\ kstack \subseteq Slot /\ vm \subseteq Slot
  /\ pc \in [Slot -> Filling \cup {"none", "user", "ret", "exit", "wait", "ticks", "sleep"}]
  /\ np \in [Slot -> Slot \cup {0}]
  /\ dropped \subseteq Slot
  /\ machine \in Machines

\* init lives, and so does the parent of everyone else.
Family ==
  /\ Alive(Init1) /\ parent[Init1] = 0
  /\ \A s \in Slot : parent[s] # s
  /\ \A s \in Slot : state[s] \in {"UNUSED", "EMBRYO"} => parent[s] = 0
  /\ ParentAlive

\* One process fills a slot that is EMBRYO, and it is in fork.
Fillers ==
  /\ \A p \in Slot : np[p] # 0 => state[p] = "RUNNABLE" /\ pc[p] \in Filling /\ state[np[p]] = "EMBRYO"
  /\ \A p \in Slot : pc[p] \in Filling => np[p] # 0
  /\ \A p, q \in Slot : np[p] = np[q] /\ np[p] # 0 => p = q
  /\ \A s \in Slot : state[s] = "EMBRYO" => \E p \in Slot : np[p] = s

\* s is a process, or a zombie; s is filled by a process that is at one of labels.
Grown(s) == Alive(s) \/ state[s] = "ZOMBIE"
Filled(s, labels) == \E p \in Slot : np[p] = s /\ pc[p] \in labels

Owned ==
  \A s \in Slot : /\ s \in kstack <=> Grown(s) \/ Filled(s, {"copyuvm", "copy"})
                  /\ s \in vm <=> Grown(s) \/ Filled(s, {"copy"})

IInv == Types /\ Family /\ NoUnreapedSleep /\ Fillers /\ Owned /\ DroppedStaysDropped

-----------------------------------------------------------------------------
(* Lemmas.                                                                 *)

\* init has a slot, and the table of a machine is part of the largest one.
LEMMA Slots == /\ Init1 \in Slot /\ 0 \notin Slot /\ Ticks \notin Slot /\ Ticks # 0
               /\ Types => Table \subseteq Slot
<1>1. Init1 \in Slot /\ 0 \notin Slot /\ Ticks \notin Slot /\ Ticks # 0
  BY NprocAssumption DEF Init1, Slot, Ticks
<1>2. ASSUME Types PROVE Table \subseteq Slot
  <2>1. machine.slots \in 1 .. NPROC
    BY Zenon, <1>2, MachinesAssumption DEF Types
  <2> QED BY <2>1, NprocAssumption DEF Table, Slot
<1> QED BY Zenon, <1>1, <1>2

\* The initial state satisfies the invariant (userinit).
LEMMA InitHolds == Init => IInv
<1> SUFFICES ASSUME Init PROVE IInv
  BY Zenon
<1>1. Types
  BY NprocAssumption, UidAssumption DEF Init, Types, Slot, Init1, Filling
<1>2. Family /\ NoUnreapedSleep
  BY Zenon, Slots DEF Init, Family, ParentAlive, NoUnreapedSleep, Alive
<1>3. Fillers /\ Owned /\ DroppedStaysDropped
  BY Zenon, Slots DEF Init, Fillers, Filling, Owned, Grown, Filled, Alive, DroppedStaysDropped
<1> QED BY Zenon, <1>1, <1>2, <1>3 DEF IInv

\* A step that starts or ends no life, and leaves fork alone, keeps the invariant if
\* who goes to sleep in wait has no dead child.
LEMMA QuietStep ==
  ASSUME IInv, Types', DroppedStaysDropped',
         UNCHANGED <<parent, kstack, vm, np>>,
         \A s \in Slot : state'[s] = state[s] \/ (Alive(s) /\ Alive(s)'),
         \A s \in Slot : np[s] # 0 => state'[s] = "RUNNABLE",
         \A s \in Slot : pc'[s] = pc[s] \/ (pc[s] \notin Filling /\ pc'[s] \notin Filling),
         \A s \in Slot : state'[s] = "SLEEPING" /\ chan'[s] = s => Zombies(s) = {}
  PROVE  IInv'
<1>1. \A s \in Slot : Alive(s)' = Alive(s) /\ \A x \in {"UNUSED", "EMBRYO", "ZOMBIE"} :
                        state'[s] = x <=> state[s] = x
  BY DEF Alive
<1>2. Family'
  BY <1>1, Slots DEF IInv, Types, Family, ParentAlive
<1>3. NoUnreapedSleep'
  BY <1>1 DEF NoUnreapedSleep, Zombies, Children
<1>4. Fillers'
  BY <1>1 DEF IInv, Types, Fillers
<1>5. \A s \in Slot : \A labels \in SUBSET Filling : Filled(s, labels)' <=> Filled(s, labels)
  BY Zenon DEF Filled
<1>6. Owned'
  <2>1. {"copyuvm", "copy"} \in SUBSET Filling /\ {"copy"} \in SUBSET Filling
    BY Zenon DEF Filling
  <2>2. \A s \in Slot : Grown(s)' <=> Grown(s)
    BY Zenon, <1>1 DEF Grown
  <2> QED BY Zenon, <1>5, <2>1, <2>2 DEF IInv, Owned
<1> QED BY Zenon, <1>2, <1>3, <1>4, <1>6 DEF IInv

\* Nobody who lives changes ids, so nobody gets root back.
LEMMA IdsKept ==
  ASSUME DroppedStaysDropped, UNCHANGED <<uid, euid, dropped>>,
         \A s \in dropped : Alive(s)' => Alive(s)
  PROVE  DroppedStaysDropped'
BY Zenon DEF DroppedStaysDropped

-----------------------------------------------------------------------------
(* Every step keeps the invariant.                                         *)

\* What is known of a process that runs at a place outside fork.
LEMMA NotFilling ==
  ASSUME IInv, NEW p \in Slot, pc[p] \notin Filling
  PROVE  np[p] = 0
BY Zenon DEF IInv, Fillers

\* The steps that change where a process is, and marks.
LEMMA MovesKeep ==
  ASSUME IInv, UNCHANGED machine, NEW p \in Slot,
         \/ NoSlot(p) \/ SysRet(p) \/ UserTrap(p) \/ Fault(p) \/ SysExit(p)
         \/ TickCheck(p)
  PROVE  IInv'
<1>1. /\ state[p] = "RUNNABLE" /\ pc[p] \notin Filling
      /\ UNCHANGED <<state, parent, kstack, vm, np, uid, euid, dropped>>
      /\ killed' = killed \/ killed' = [killed EXCEPT ![p] = 1]
      /\ chan' = chan \/ chan' = [chan EXCEPT ![p] = 0]
      /\ \/ pc' = [pc EXCEPT ![p] = "exit"] \/ pc' = [pc EXCEPT ![p] = "ret"]
         \/ pc' = [pc EXCEPT ![p] = "user"] \/ pc' = [pc EXCEPT ![p] = "sleep"]
  BY Zenon DEF NoSlot, SysRet, UserTrap, Fault, SysExit, TickCheck, MayFork, Calls, At, Goto,
     ForkFails, ChanReset, procVars, memVars, Filling
<1>2. Types'
  BY <1>1, NprocAssumption DEF IInv, Types
<1>3. DroppedStaysDropped'
  BY Zenon, <1>1, IdsKept DEF IInv, Alive
<1>4. \A s \in Slot : pc'[s] = pc[s] \/ (pc[s] \notin Filling /\ pc'[s] \notin Filling)
  BY <1>1 DEF IInv, Types, Filling
<1>5. \A s \in Slot : state'[s] = "SLEEPING" /\ chan'[s] = s => Zombies(s) = {}
  BY <1>1, Slots DEF IInv, Types, NoUnreapedSleep
<1> QED BY Zenon, <1>1, <1>2, <1>3, <1>4, <1>5, QuietStep DEF IInv, Fillers

\* setuid.
LEMMA SetUidKeeps ==
  ASSUME IInv, UNCHANGED machine, NEW p \in Slot, NEW u \in Uid, SetUid(p, u)
  PROVE  IInv'
<1> USE DEF SetUid, Calls, At, Goto, memVars
<1>1. Types'
  BY Zenon DEF IInv, Types
<1>2. p \notin dropped
  BY Zenon DEF IInv, DroppedStaysDropped, Alive
<1>3. DroppedStaysDropped'
  BY <1>2 DEF IInv, Types, DroppedStaysDropped, Alive
<1>4. \A s \in Slot : pc'[s] = pc[s] \/ (pc[s] \notin Filling /\ pc'[s] \notin Filling)
  BY Zenon DEF IInv, Types, Filling
<1> QED BY Zenon, <1>1, <1>3, <1>4, QuietStep DEF IInv, Fillers, NoUnreapedSleep

\* sleep on ticks.
LEMMA TickSleepKeeps ==
  ASSUME IInv, UNCHANGED machine, NEW p \in Slot, TickSleep(p)
  PROVE  IInv'
<1> USE DEF TickSleep, At, Goto, Sleep, memVars, procVars
<1>1. Types'
  BY NprocAssumption DEF IInv, Types, Ticks
<1>2. DroppedStaysDropped'
  BY Zenon, IdsKept DEF IInv, Types, Alive
<1>3. \A s \in Slot : pc'[s] = pc[s] \/ (pc[s] \notin Filling /\ pc'[s] \notin Filling)
  BY Zenon DEF IInv, Types, Filling
<1>4. \A s \in Slot : state'[s] = "SLEEPING" /\ chan'[s] = s => Zombies(s) = {}
  BY Zenon, Slots DEF IInv, Types, NoUnreapedSleep
<1>5. np[p] = 0
  BY Zenon, NotFilling DEF Filling
<1>6. \A s \in Slot : state'[s] = state[s] \/ (Alive(s) /\ Alive(s)')
  BY Zenon DEF IInv, Types, Alive
<1>7. \A s \in Slot : np[s] # 0 => state'[s] = "RUNNABLE"
  BY Zenon, <1>5 DEF IInv, Types, Fillers
<1> QED BY Zenon, <1>1, <1>2, <1>3, <1>4, <1>6, <1>7, QuietStep

\* wait, without a dead child.
LEMMA WaitMoreKeeps ==
  ASSUME IInv, UNCHANGED machine, NEW p \in Slot, WaitMore(p)
  PROVE  IInv'
<1>1. /\ state[p] = "RUNNABLE" /\ pc[p] \notin Filling /\ Zombies(p) = {}
      /\ UNCHANGED <<parent, killed, kstack, vm, np, uid, euid, dropped>>
      /\ \/ /\ pc' = [pc EXCEPT ![p] = "ret"] /\ chan' = [chan EXCEPT ![p] = 0]
            /\ UNCHANGED state
         \/ /\ pc' = [pc EXCEPT ![p] = "wait"] /\ chan' = [chan EXCEPT ![p] = p]
            /\ state' = [state EXCEPT ![p] = "SLEEPING"]
  BY Zenon DEF WaitMore, InWait, Calls, At, Goto, Sleep, ChanReset, procVars, memVars, Filling
<1>2. Types'
  <2>1. p \in 0 .. NPROC + 1 /\ 0 \in 0 .. NPROC + 1
    BY NprocAssumption DEF Slot
  <2> QED BY <1>1, <2>1 DEF IInv, Types
<1>3. DroppedStaysDropped'
  BY Zenon, <1>1, IdsKept DEF IInv, Types, Alive
<1>4. \A s \in Slot : pc'[s] = pc[s] \/ (pc[s] \notin Filling /\ pc'[s] \notin Filling)
  BY <1>1 DEF IInv, Types, Filling
<1>5. \A s \in Slot : state'[s] = "SLEEPING" /\ chan'[s] = s => Zombies(s) = {}
  BY <1>1, Slots DEF IInv, Types, NoUnreapedSleep
<1>6. np[p] = 0
  BY Zenon, <1>1, NotFilling
<1>7. \A s \in Slot : state'[s] = state[s] \/ (Alive(s) /\ Alive(s)')
  BY Zenon, <1>1 DEF IInv, Types, Alive
<1>8. \A s \in Slot : np[s] # 0 => state'[s] = "RUNNABLE"
  BY <1>1, <1>6, SMTT(30) DEF IInv, Types, Fillers
<1> QED BY Zenon, <1>1, <1>2, <1>3, <1>4, <1>5, <1>7, <1>8, QuietStep

\* The timer wakes whoever sleeps on ticks.
LEMMA TimerTickKeeps ==
  ASSUME IInv, UNCHANGED machine, TimerTick
  PROVE  IInv'
<1> USE DEF TimerTick, Wakeup1, procVars, memVars
<1>1. Types'
  BY Zenon DEF IInv, Types
<1>2. \A s \in Slot : state'[s] = state[s] \/ (Alive(s) /\ Alive(s)')
  BY Zenon DEF Alive
<1>3. DroppedStaysDropped'
  BY Zenon, <1>2, IdsKept DEF IInv, Types, Alive
<1>4. \A s \in Slot : state'[s] = "SLEEPING" => state[s] = "SLEEPING"
  BY Zenon
<1> QED BY Zenon, <1>1, <1>2, <1>3, <1>4, QuietStep DEF IInv, Types, Fillers, NoUnreapedSleep

\* kill.
LEMMA KillKeeps ==
  ASSUME IInv, UNCHANGED machine, NEW p \in Slot, NEW n, Kill(p, n)
  PROVE  IInv'
<1>1. PICK v \in Slot :
        /\ killed' = [killed EXCEPT ![v] = 1]
        /\ state' = IF state[v] = "SLEEPING" THEN [state EXCEPT ![v] = "RUNNABLE"] ELSE state
  BY Slots, Zenon DEF Kill, First, IInv
<1>2. /\ pc[p] = "user"
      /\ pc' = [pc EXCEPT ![p] = "ret"]
      /\ UNCHANGED <<parent, chan, uid, euid, dropped, kstack, vm, np>>
  BY Zenon DEF Kill, Calls, At, Goto, procVars, memVars
<1>3. Types'
  BY Zenon, <1>1, <1>2 DEF IInv, Types
<1>4. \A s \in Slot : state'[s] = state[s] \/ (Alive(s) /\ Alive(s)')
  BY Zenon, <1>1, <1>2 DEF IInv, Types, Alive
<1>5. DroppedStaysDropped'
  BY Zenon, <1>2, <1>4, IdsKept DEF IInv, Types, Alive
<1>6. \A s \in Slot : pc'[s] = pc[s] \/ (pc[s] \notin Filling /\ pc'[s] \notin Filling)
  BY Zenon, <1>2 DEF IInv, Types, Filling
<1>7. \A s \in Slot : state'[s] = "SLEEPING" => state[s] = "SLEEPING"
  BY Zenon, <1>1, <1>2 DEF IInv, Types
<1>8. \A s \in Slot : np[s] # 0 => state'[s] = "RUNNABLE"
  BY <1>1, <1>2 DEF IInv, Types, Fillers
<1> QED BY Zenon, <1>2, <1>3, <1>4, <1>5, <1>6, <1>7, <1>8, QuietStep DEF IInv, NoUnreapedSleep

\* allocproc takes a free slot.
LEMMA AllocProcKeeps ==
  ASSUME IInv, UNCHANGED machine, NEW p \in Slot, AllocProc(p)
  PROVE  IInv'
<1>1. PICK s \in Slot :
        /\ state[s] = "UNUSED"
        /\ state' = [state EXCEPT ![s] = "EMBRYO"] /\ np' = [np EXCEPT ![p] = s]
  BY Slots, Zenon DEF AllocProc, IInv, Free, First
<1>2. /\ state[p] = "RUNNABLE" /\ pc[p] = "user"
      /\ state' = [state EXCEPT ![s] = "EMBRYO"] /\ np' = [np EXCEPT ![p] = s]
      /\ pc' = [pc EXCEPT ![p] = "kalloc"]
      /\ UNCHANGED <<parent, killed, chan, uid, euid, dropped, kstack, vm>>
  BY <1>1, Zenon DEF AllocProc, MayFork, Calls, At, Goto, procVars, memVars
<1>3. Types'
  BY <1>1, <1>2 DEF IInv, Types, Filling
<1>4. np[p] = 0 /\ \A q \in Slot : np[q] # s
  BY <1>1, <1>2, Slots DEF IInv, Fillers, Filling
<1>5. \A t \in Slot : (Alive(t)' <=> Alive(t)) /\ (state'[t] = "ZOMBIE" <=> state[t] = "ZOMBIE")
  BY Zenon, <1>1, <1>2 DEF IInv, Types, Alive
<1>6. Family'
  BY <1>1, <1>2, <1>5, Slots DEF IInv, Types, Family, ParentAlive
<1>7. NoUnreapedSleep'
  BY <1>1, <1>2, <1>5 DEF IInv, Types, NoUnreapedSleep, Zombies, Children
<1>8. Fillers'
  <2>1. \A q \in Slot : np'[q] # 0 =>
          state'[q] = "RUNNABLE" /\ pc'[q] \in Filling /\ state'[np'[q]] = "EMBRYO"
    BY <1>1, <1>2, <1>4 DEF IInv, Types, Fillers, Filling
  <2>2. \A q \in Slot : pc'[q] \in Filling => np'[q] # 0
    BY <1>1, <1>2, Slots DEF IInv, Types, Fillers
  <2>3. \A q, r \in Slot : np'[q] = np'[r] /\ np'[q] # 0 => q = r
    BY <1>2, <1>4 DEF IInv, Types, Fillers
  <2>4. \A t \in Slot : state'[t] = "EMBRYO" => \E q \in Slot : np'[q] = t
    <3> SUFFICES ASSUME NEW t \in Slot, state'[t] = "EMBRYO" PROVE \E q \in Slot : np'[q] = t
      BY Zenon
    <3>1. CASE t = s
      BY Zenon, <1>2, <3>1 DEF IInv, Types
    <3>2. CASE t # s
      <4>1. PICK q \in Slot : np[q] = t
        BY <1>2, <3>2 DEF IInv, Types, Fillers
      <4>2. q # p
        BY Zenon, <1>4, <4>1, Slots
      <4> QED BY Zenon, <1>2, <4>1, <4>2 DEF IInv, Types
    <3> QED BY Zenon, <3>1, <3>2
  <2> QED BY Zenon, <2>1, <2>2, <2>3, <2>4 DEF Fillers
<1>9. Owned'
  <2>1. \A t \in Slot : Filled(t, {"copyuvm", "copy"})' <=> Filled(t, {"copyuvm", "copy"})
    BY <1>2, <1>4, Slots DEF IInv, Types, Filled
  <2>2. \A t \in Slot : Filled(t, {"copy"})' <=> Filled(t, {"copy"})
    BY <1>2, <1>4, Slots DEF IInv, Types, Filled
  <2> QED BY Zenon, <1>2, <1>5, <2>1, <2>2 DEF IInv, Owned, Grown
<1>10. DroppedStaysDropped'
  BY Zenon, <1>2, <1>5, IdsKept DEF IInv, Types
<1> QED BY Zenon, <1>3, <1>6, <1>7, <1>8, <1>9, <1>10 DEF IInv

\* fork goes on with the slot: kalloc and copyuvm.
LEMMA ForkGoesOn ==
  ASSUME IInv, UNCHANGED machine, NEW p \in Slot,
         UNCHANGED <<state, parent, killed, chan, uid, euid, dropped, np>>,
         \/ /\ pc[p] = "kalloc" /\ pc' = [pc EXCEPT ![p] = "copyuvm"]
            /\ kstack' = kstack \cup {np[p]} /\ vm' = vm
         \/ /\ pc[p] = "copyuvm" /\ pc' = [pc EXCEPT ![p] = "copy"]
            /\ vm' = vm \cup {np[p]} /\ kstack' = kstack
  PROVE  IInv'
<1>1. np[p] \in Slot
  BY DEF IInv, Types, Fillers, Filling
<1>2. Types'
  BY <1>1 DEF IInv, Types, Filling
<1>3. Family' /\ NoUnreapedSleep' /\ DroppedStaysDropped'
  BY DEF IInv, Family, ParentAlive, Alive, NoUnreapedSleep, Zombies, Children, DroppedStaysDropped
<1>4. Fillers'
  BY DEF IInv, Types, Fillers, Filling
<1>5. \A q \in Slot : np[q] = np[p] => q = p
  BY <1>1, Slots DEF IInv, Fillers
<1>6. Owned'
  <2> SUFFICES ASSUME NEW s \in Slot
               PROVE  /\ s \in kstack' <=> Grown(s) \/ Filled(s, {"copyuvm", "copy"})'
                      /\ s \in vm' <=> Grown(s) \/ Filled(s, {"copy"})'
    BY Zenon DEF Owned, Grown, Alive
  <2>1. CASE s = np[p]
    BY <1>1, <1>5, <2>1, SMTT(30) DEF IInv, Types, Owned, Filled
  <2>2. CASE s # np[p]
    <3>1. Filled(s, {"copyuvm", "copy"})' <=> Filled(s, {"copyuvm", "copy"})
      BY Zenon, <2>2 DEF IInv, Types, Filled
    <3>2. Filled(s, {"copy"})' <=> Filled(s, {"copy"})
      BY Zenon, <2>2 DEF IInv, Types, Filled
    <3> QED BY Zenon, <2>2, <3>1, <3>2 DEF IInv, Owned
  <2> QED BY Zenon, <2>1, <2>2
<1> QED BY Zenon, <1>2, <1>3, <1>4, <1>6 DEF IInv

\* fork gives up: the slot is UNUSED again, and what it had is freed.
LEMMA GiveUpKeeps ==
  ASSUME IInv, UNCHANGED machine, NEW p \in Slot, GiveUp(p),
         \/ pc[p] = "kalloc" /\ UNCHANGED memVars
         \/ pc[p] = "copyuvm" /\ kstack' = kstack \ {np[p]} /\ UNCHANGED vm
  PROVE  IInv'
<1> DEFINE s == np[p]
<1>1. s \in Slot /\ state[s] = "EMBRYO" /\ state[p] = "RUNNABLE"
  BY DEF IInv, Types, Fillers, Filling
<1>2. /\ state' = [state EXCEPT ![s] = "UNUSED"] /\ np' = [np EXCEPT ![p] = 0]
      /\ pc' = [pc EXCEPT ![p] = "exit"] \/ pc' = [pc EXCEPT ![p] = "ret"]
      /\ UNCHANGED <<parent, killed, chan, uid, euid, dropped>>
  BY Zenon DEF GiveUp, ForkFails, Goto, procVars
<1>3. /\ kstack' = kstack \/ kstack' = kstack \ {s}
      /\ vm' = vm /\ s \notin kstack' /\ s \notin vm
  <2>1. ~Grown(s) /\ \A q \in Slot : np[q] = s => q = p
    BY Zenon, <1>1, Slots DEF IInv, Fillers, Grown, Alive
  <2>2. s \notin vm /\ (pc[p] = "kalloc" => s \notin kstack)
    BY <1>1, <2>1 DEF IInv, Owned, Filled
  <2> QED BY Zenon, <2>2 DEF memVars
<1>4. Types'
  BY Zenon, <1>1, <1>2, <1>3 DEF IInv, Types
<1>5. \A t \in Slot : (Alive(t)' <=> Alive(t)) /\ (state'[t] = "ZOMBIE" <=> state[t] = "ZOMBIE")
  BY Zenon, <1>1, <1>2 DEF IInv, Types, Alive
<1>6. Family'
  BY <1>1, <1>2, <1>5, Slots DEF IInv, Types, Family, ParentAlive
<1>7. NoUnreapedSleep'
  BY <1>1, <1>2, <1>5 DEF IInv, Types, NoUnreapedSleep, Zombies, Children
<1>8. DroppedStaysDropped'
  BY Zenon, <1>2, <1>5, IdsKept DEF IInv, Types
<1>9. \A q \in Slot : q # p => np[q] # s
  BY <1>1, Slots DEF IInv, Fillers
<1>10. Fillers'
  <2>1. \A q \in Slot : np'[q] # 0 =>
          state'[q] = "RUNNABLE" /\ pc'[q] \in Filling /\ state'[np'[q]] = "EMBRYO"
    BY <1>1, <1>2, <1>9 DEF IInv, Types, Fillers
  <2>2. \A q \in Slot : pc'[q] \in Filling => np'[q] # 0
    BY <1>2 DEF IInv, Types, Fillers, Filling
  <2>3. \A q, r \in Slot : np'[q] = np'[r] /\ np'[q] # 0 => q = r
    BY <1>2 DEF IInv, Types, Fillers
  <2>4. \A t \in Slot : state'[t] = "EMBRYO" => \E q \in Slot : np'[q] = t
    <3> SUFFICES ASSUME NEW t \in Slot, state'[t] = "EMBRYO" PROVE \E q \in Slot : np'[q] = t
      BY Zenon
    <3>1. PICK q \in Slot : np[q] = t
      BY <1>1, <1>2 DEF IInv, Types, Fillers
    <3>2. q # p
      BY Zenon, <1>1, <1>2, <3>1 DEF IInv, Types
    <3> QED BY Zenon, <1>2, <3>1, <3>2 DEF IInv, Types
  <2> QED BY Zenon, <2>1, <2>2, <2>3, <2>4 DEF Fillers
<1>11. Owned'
  <2> SUFFICES ASSUME NEW t \in Slot
               PROVE  /\ t \in kstack' <=> Grown(t) \/ Filled(t, {"copyuvm", "copy"})'
                      /\ t \in vm' <=> Grown(t) \/ Filled(t, {"copy"})'
    BY Zenon, <1>5 DEF Owned, Grown
  <2>1. CASE t = s
    BY <1>1, <1>2, <1>3, <1>9, <2>1, Slots, SMTT(30) DEF IInv, Types, Grown, Alive, Filled
  <2>2. CASE t # s
    <3>1. \A q \in Slot : np'[q] = t <=> np[q] = t
      BY Zenon, <1>2, <2>2, Slots DEF IInv, Types
    <3>2. \A q \in Slot : np[q] = t => pc'[q] = pc[q]
      BY Zenon, <1>2, <2>2 DEF IInv, Types
    <3> QED BY <1>3, <2>2, <3>1, <3>2 DEF IInv, Owned, Filled
  <2> QED BY Zenon, <2>1, <2>2
<1> QED BY Zenon, <1>4, <1>6, <1>7, <1>8, <1>10, <1>11 DEF IInv

\* The end of fork: the child runs.
LEMMA ForkDoneKeeps ==
  ASSUME IInv, UNCHANGED machine, NEW p \in Slot, ForkDone(p)
  PROVE  IInv'
<1>0. PICK s \in Slot : s = np[p]
  BY DEF ForkDone, At, IInv, Types, Fillers, Filling
<1>1. /\ s \in Slot /\ state[s] = "EMBRYO" /\ state[p] = "RUNNABLE" /\ pc[p] = "copy" /\ s # p
      /\ s # Init1 /\ Alive(p) /\ s \in kstack /\ s \in vm
  <2>1. s \in Slot /\ state[s] = "EMBRYO" /\ state[p] = "RUNNABLE" /\ pc[p] = "copy"
    BY Zenon, <1>0 DEF ForkDone, At, IInv, Types, Fillers, Filling
  <2>2. s # Init1
    BY Zenon, <2>1 DEF IInv, Family, Alive
  <2>3. s \in kstack /\ s \in vm
    BY <1>0, <2>1 DEF IInv, Owned, Filled
  <2> QED BY Zenon, <2>1, <2>2, <2>3 DEF Alive
<1>2. /\ uid' = [uid EXCEPT ![s] = uid[p]] /\ euid' = [euid EXCEPT ![s] = euid[p]]
      /\ parent' = [parent EXCEPT ![s] = p] /\ state' = [state EXCEPT ![s] = "RUNNABLE"]
      /\ pc' = [pc EXCEPT ![s] = "user", ![p] = "ret"] /\ np' = [np EXCEPT ![p] = 0]
      /\ dropped' = IF p \in dropped THEN dropped \cup {s} ELSE dropped \ {s}
      /\ UNCHANGED <<killed, chan, kstack, vm>>
  BY Zenon, <1>0 DEF ForkDone, memVars
<1>3. Types'
  BY Zenon, <1>1, <1>2 DEF IInv, Types
<1>4. \A t \in Slot : t # s => (Alive(t)' <=> Alive(t)) /\ (state'[t] = "ZOMBIE" <=> state[t] = "ZOMBIE")
  BY Zenon, <1>1, <1>2 DEF IInv, Types, Alive
<1>5. Alive(s)' /\ ~Alive(s) /\ state[s] # "ZOMBIE"
  BY Zenon, <1>1, <1>2 DEF IInv, Types, Alive
<1>6. Family'
  <2>1. Alive(Init1)' /\ parent'[Init1] = 0
    BY <1>1, <1>2, <1>4, Slots DEF IInv, Types, Family
  <2>2. \A t \in Slot : parent'[t] # t
    BY Zenon, <1>1, <1>2 DEF IInv, Types, Family
  <2>3. \A t \in Slot : state'[t] \in {"UNUSED", "EMBRYO"} => parent'[t] = 0
    BY Zenon, <1>1, <1>2 DEF IInv, Types, Family
  <2>4. ParentAlive'
    <3> SUFFICES ASSUME NEW t \in Slot, Alive(t)' \/ state'[t] = "ZOMBIE"
                 PROVE  \/ t = Init1 /\ parent'[t] = 0
                        \/ parent'[t] # 0 /\ Alive(parent[t])'
      BY Zenon DEF ParentAlive, Alive
    <3>1. CASE t = s
      BY Zenon, <1>1, <1>2, <1>4, <3>1, Slots DEF IInv, Types, Alive
    <3>2. CASE t # s
      BY <1>1, <1>2, <1>4, <1>5, <3>2 DEF IInv, Types, Family, ParentAlive, Alive
    <3> QED BY Zenon, <3>1, <3>2
  <2> QED BY Zenon, <2>1, <2>2, <2>3, <2>4 DEF Family
<1>7. NoUnreapedSleep'
  BY <1>1, <1>2 DEF IInv, Types, NoUnreapedSleep, Zombies, Children
<1>8. np[s] = 0 /\ \A q \in Slot : q # p => np[q] # s
  BY <1>0, <1>1, Slots DEF IInv, Fillers
<1>9. Fillers'
  <2>1. \A q \in Slot : np'[q] # 0 =>
          state'[q] = "RUNNABLE" /\ pc'[q] \in Filling /\ state'[np'[q]] = "EMBRYO"
    BY <1>1, <1>2, <1>8 DEF IInv, Types, Fillers
  <2>2. \A q \in Slot : pc'[q] \in Filling => np'[q] # 0
    BY <1>1, <1>2 DEF IInv, Types, Fillers, Filling
  <2>3. \A q, r \in Slot : np'[q] = np'[r] /\ np'[q] # 0 => q = r
    BY <1>2 DEF IInv, Types, Fillers
  <2>4. \A t \in Slot : state'[t] = "EMBRYO" => \E q \in Slot : np'[q] = t
    <3> SUFFICES ASSUME NEW t \in Slot, state'[t] = "EMBRYO" PROVE \E q \in Slot : np'[q] = t
      OBVIOUS
    <3>1. t # s
      BY Zenon, <1>1, <1>2 DEF IInv, Types
    <3>2. PICK q \in Slot : np[q] = t
      BY <1>1, <1>2, <3>1 DEF IInv, Types, Fillers
    <3> QED BY Zenon, <1>0, <1>2, <3>1, <3>2 DEF IInv, Types
  <2> QED BY <2>1, <2>2, <2>3, <2>4 DEF Fillers
<1>10. Owned'
  <2> SUFFICES ASSUME NEW t \in Slot
               PROVE  /\ t \in kstack <=> Grown(t)' \/ Filled(t, {"copyuvm", "copy"})'
                      /\ t \in vm <=> Grown(t)' \/ Filled(t, {"copy"})'
    BY Zenon, <1>2 DEF Owned
  <2>1. CASE t = s
    BY Zenon, <1>1, <1>5, <2>1 DEF Grown
  <2>2. CASE t # s
    <3>1. \A q \in Slot : np'[q] = t <=> np[q] = t
      BY Zenon, <1>0, <1>2, <2>2, Slots DEF IInv, Types
    <3>2. \A q \in Slot : np[q] = t => pc'[q] = pc[q]
      BY Zenon, <1>0, <1>2, <1>8, <2>2, Slots DEF IInv, Types
    <3>3. Grown(t)' <=> Grown(t)
      BY Zenon, <1>4, <2>2 DEF Grown
    <3> QED BY <3>1, <3>2, <3>3 DEF IInv, Owned, Filled
  <2> QED BY Zenon, <2>1, <2>2
<1>11. DroppedStaysDropped'
  BY <1>1, <1>2, <1>4 DEF IInv, Types, DroppedStaysDropped
<1> QED BY <1>3, <1>6, <1>7, <1>9, <1>10, <1>11 DEF IInv

\* exit: the process becomes a zombie, its children go to init.
LEMMA ExitKeeps ==
  ASSUME IInv, UNCHANGED machine, NEW p \in Slot, Exit(p)
  PROVE  IInv'
<1>1. /\ state[p] = "RUNNABLE" /\ pc[p] = "exit" /\ np[p] = 0
      /\ UNCHANGED <<killed, chan, uid, euid, dropped, kstack, vm, np>>
  BY Zenon, NotFilling DEF Exit, At, procVars, memVars, Filling
<1>2. CASE p = Init1
  <2>1. UNCHANGED <<state, parent, pc>>
    BY Zenon, <1>2 DEF Exit
  <2>2. Types' /\ DroppedStaysDropped'
    BY Zenon, <1>1, <2>1 DEF IInv, Types, DroppedStaysDropped, Alive
  <2> QED BY Zenon, <1>1, <2>1, <2>2, QuietStep DEF IInv, Fillers, NoUnreapedSleep
<1>3. CASE p # Init1
  <2>1. /\ parent' = [s \in Slot |-> IF parent[s] = p THEN Init1 ELSE parent[s]]
        /\ pc' = [pc EXCEPT ![p] = "none"]
        /\ state'[p] = "ZOMBIE"
        /\ state' \in [Slot -> {"UNUSED", "EMBRYO", "SLEEPING", "RUNNABLE", "ZOMBIE"}]
    <3>1. parent' = [s \in Slot |-> IF parent[s] = p THEN Init1 ELSE parent[s]]
      BY Zenon, <1>3 DEF Exit, Children
    <3>2. pc' = [pc EXCEPT ![p] = "none"]
      BY Zenon, <1>3 DEF Exit, Goto
    <3>3. /\ state'[p] = "ZOMBIE"
          /\ state' \in [Slot -> {"UNUSED", "EMBRYO", "SLEEPING", "RUNNABLE", "ZOMBIE"}]
      BY <1>3, Zenon DEF Exit, Wakeup1, IInv, Types
    <3> QED BY Zenon, <3>1, <3>2, <3>3
  <2>2. \A s \in Slot \ {p} : state'[s] = state[s] \/ (state[s] = "SLEEPING" /\ state'[s] = "RUNNABLE")
    BY <1>3, Zenon DEF Exit, Wakeup1
  <2>3. \A s \in Slot \ {p} : state'[s] = "SLEEPING" =>
          /\ chan[s] # parent[p]
          /\ (\E t \in Slot : parent[t] = p /\ state[t] = "ZOMBIE") => chan[s] # Init1
    BY <1>3, Zenon DEF Exit, Wakeup1, Children
  <2>4. Types'
    BY Zenon, <1>1, <2>1, Slots DEF IInv, Types
  <2>5. \A s \in Slot \ {p} : Alive(s)' = Alive(s) /\ \A x \in {"UNUSED", "EMBRYO", "ZOMBIE"} :
                                state'[s] = x <=> state[s] = x
    BY <2>2 DEF Alive
  <2>6. Family'
    <3>1. Alive(Init1)' /\ parent'[Init1] = 0
      BY Zenon, <1>3, <2>1, <2>5, Slots DEF IInv, Family
    <3>2. \A s \in Slot : parent'[s] # s
      BY Zenon, <2>1, Slots DEF IInv, Family
    <3>3. \A s \in Slot : state'[s] \in {"UNUSED", "EMBRYO"} => parent'[s] = 0
      BY Zenon, <2>1, <2>5, Slots DEF IInv, Family
    <3>4. ParentAlive'
      <4> SUFFICES ASSUME NEW s \in Slot, Alive(s)' \/ state'[s] = "ZOMBIE"
                   PROVE  \/ s = Init1 /\ parent'[s] = 0
                          \/ parent'[s] # 0 /\ Alive(parent[s])'
        BY Zenon DEF ParentAlive, Alive
      <4>1. Grown(s)
        BY Zenon, <1>1, <2>5 DEF Grown, Alive
      <4>2. CASE parent[s] = p
        <5>1. parent'[s] = Init1
          BY Zenon, <2>1, <4>2
        <5> QED BY Zenon, <3>1, <5>1, Slots DEF Alive
      <4>3. CASE parent[s] # p
        <5>1. parent'[s] = parent[s]
          BY Zenon, <2>1, <4>3
        <5>2. (s = Init1 /\ parent[s] = 0) \/ (parent[s] # 0 /\ Alive(parent[s]))
          BY Zenon, <4>1 DEF IInv, Family, ParentAlive, Grown, Alive
        <5>3. parent[s] # 0 => parent[s] \in Slot \ {p}
          BY Zenon, <4>3 DEF IInv, Types
        <5>4. \A r \in Slot \ {p} : Alive(r) => state'[r] \in {"SLEEPING", "RUNNABLE"}
          BY Zenon, <2>2 DEF Alive
        <5> QED BY Zenon, <5>1, <5>2, <5>3, <5>4 DEF Alive
      <4> QED BY Zenon, <4>2, <4>3
    <3> QED BY Zenon, <3>1, <3>2, <3>3, <3>4 DEF Family
  <2>7. NoUnreapedSleep'
    <3> SUFFICES ASSUME NEW s \in Slot, state'[s] = "SLEEPING", chan[s] = s,
                        NEW z \in Slot, parent'[z] = s, state'[z] = "ZOMBIE"
                 PROVE  FALSE
      BY Zenon, <1>1 DEF NoUnreapedSleep, Zombies, Children
    <3>1. s # p /\ state[s] = "SLEEPING" /\ Zombies(s) = {}
      BY <2>1, <2>2 DEF IInv, NoUnreapedSleep
    <3>2. s # parent[p]
      BY Zenon, <2>3, <3>1
    <3>3. parent[p] # p
      BY Zenon DEF IInv, Family
    <3>4. z # p
      BY Zenon, <2>1, <3>2, <3>3
    <3>5. state[z] = "ZOMBIE"
      BY Zenon, <2>5, <3>4
    <3>6. parent[z] = p /\ s = Init1
      BY Zenon, <2>1, <3>1, <3>5 DEF Zombies, Children
    <3> QED BY Zenon, <2>3, <3>1, <3>5, <3>6
  <2>8. Fillers'
    <3>1. \A q \in Slot : np[q] # 0 => np[q] \in Slot /\ np[q] # p /\ q # p
      BY <1>1 DEF IInv, Types, Fillers
    <3>2. \A q \in Slot : np[q] # 0 =>
            state'[q] = "RUNNABLE" /\ pc'[q] \in Filling /\ state'[np[q]] = "EMBRYO"
      BY <2>1, <2>2, <2>5, <3>1 DEF IInv, Types, Fillers
    <3>3. \A q \in Slot : pc'[q] \in Filling => np[q] # 0
      BY <2>1 DEF IInv, Types, Fillers, Filling
    <3>4. \A s \in Slot : state'[s] = "EMBRYO" => \E q \in Slot : np[q] = s
      BY Zenon, <2>1, <2>5 DEF IInv, Fillers
    <3> QED BY <1>1, <3>2, <3>3, <3>4 DEF IInv, Fillers
  <2>9. Owned'
    <3>1. \A s \in Slot : Grown(s)' <=> Grown(s)
      BY Zenon, <1>1, <2>1, <2>5 DEF Grown, Alive
    <3>2. \A s \in Slot, q \in Slot : np[q] = s => pc'[q] = pc[q]
      BY Zenon, <1>1, <2>1, Slots DEF IInv, Types
    <3> QED BY <1>1, <3>1, <3>2 DEF IInv, Owned, Filled
  <2>10. DroppedStaysDropped'
    BY Zenon, <1>1, <2>1, <2>5, IdsKept DEF IInv, Types, Alive
  <2> QED BY Zenon, <2>4, <2>6, <2>7, <2>8, <2>9, <2>10 DEF IInv
<1> QED BY Zenon, <1>2, <1>3

\* wait frees a dead child.
LEMMA ReapKeeps ==
  ASSUME IInv, UNCHANGED machine, NEW p \in Slot, Reap(p)
  PROVE  IInv'
<1>1. PICK z \in Slot :
        /\ parent[z] = p /\ state[z] = "ZOMBIE"
        /\ kstack' = kstack \ {z} /\ vm' = vm \ {z}
        /\ parent' = [parent EXCEPT ![z] = 0] /\ killed' = [killed EXCEPT ![z] = 0]
        /\ state' = [state EXCEPT ![z] = "UNUSED"]
  BY Zenon DEF Reap, First, Zombies, Children
<1>2. /\ state[p] = "RUNNABLE" /\ pc[p] \notin Filling /\ np[p] = 0
      /\ kstack' = kstack \ {z} /\ vm' = vm \ {z}
      /\ parent' = [parent EXCEPT ![z] = 0] /\ killed' = [killed EXCEPT ![z] = 0]
      /\ state' = [state EXCEPT ![z] = "UNUSED"]
      /\ chan' = [chan EXCEPT ![p] = 0] /\ pc' = [pc EXCEPT ![p] = "ret"]
      /\ UNCHANGED <<uid, euid, dropped, np>>
  BY <1>1, NotFilling, Zenon DEF Reap, InWait, Calls, At, Goto, ChanReset, procVars, Filling
<1>3. z # p /\ z # Init1 /\ \A s \in Slot : parent[s] # z
  <2>1. z # Init1 /\ z # p
    BY Zenon, <1>1, <1>2 DEF IInv, Family, Alive
  <2>2. ASSUME NEW s \in Slot, parent[s] = z PROVE FALSE
    <3>1. z # 0
      BY Zenon, Slots
    <3>2. Grown(s)
      BY Zenon, <2>2, <3>1 DEF IInv, Types, Family, Grown, Alive
    <3>3. Alive(z)
      BY Zenon, <2>2, <3>1, <3>2 DEF IInv, Family, ParentAlive, Grown
    <3> QED BY Zenon, <1>1, <3>3 DEF Alive
  <2> QED BY Zenon, <2>1, <2>2
<1>4. Types'
  BY <1>2, NprocAssumption DEF IInv, Types
<1>5. \A s \in Slot : (Alive(s)' <=> Alive(s))
  BY Zenon, <1>1, <1>2 DEF IInv, Types, Alive
<1>6. Family'
  <2>1. Alive(Init1)' /\ parent'[Init1] = 0
    BY Zenon, <1>2, <1>3, <1>5, Slots DEF IInv, Types, Family
  <2>2. \A s \in Slot : parent'[s] # s
    BY Zenon, <1>2, Slots DEF IInv, Types, Family
  <2>3. \A s \in Slot : state'[s] \in {"UNUSED", "EMBRYO"} => parent'[s] = 0
    BY Zenon, <1>2 DEF IInv, Types, Family
  <2>4. ParentAlive'
    <3> SUFFICES ASSUME NEW s \in Slot, Alive(s)' \/ state'[s] = "ZOMBIE"
                 PROVE  \/ s = Init1 /\ parent'[s] = 0
                        \/ parent'[s] # 0 /\ Alive(parent[s])'
      BY DEF ParentAlive, Alive
    <3>1. s # z
      BY Zenon, <1>1, <1>2 DEF IInv, Types, Alive
    <3>2. parent'[s] = parent[s] /\ Grown(s)
      BY Zenon, <1>2, <1>5, <3>1 DEF IInv, Types, Grown
    <3>3. (s = Init1 /\ parent[s] = 0) \/ (parent[s] # 0 /\ Alive(parent[s]))
      BY Zenon, <3>2 DEF IInv, Family, ParentAlive, Grown, Alive
    <3>4. parent[s] # 0 => parent[s] \in Slot /\ parent[s] # z
      BY Zenon, <1>3 DEF IInv, Types
    <3> QED BY Zenon, <1>2, <3>2, <3>3, <3>4 DEF IInv, Types, Alive
  <2> QED BY <2>1, <2>2, <2>3, <2>4 DEF Family
<1>7. NoUnreapedSleep'
  BY <1>1, <1>2, <1>3, Slots DEF IInv, Types, NoUnreapedSleep, Zombies, Children
<1>8. Fillers'
  BY <1>1, <1>2, <1>3 DEF IInv, Types, Fillers, Filling
<1>9. Owned'
  <2> SUFFICES ASSUME NEW s \in Slot
               PROVE  /\ s \in kstack' <=> Grown(s)' \/ Filled(s, {"copyuvm", "copy"})'
                      /\ s \in vm' <=> Grown(s)' \/ Filled(s, {"copy"})'
    BY Zenon DEF Owned
  <2>1. \A q \in Slot : np[q] = s => pc'[q] = pc[q]
    BY Zenon, <1>2, Slots DEF IInv, Types
  <2>2. CASE s = z
    <3>1. \A q \in Slot : np[q] # z
      BY <1>1, Slots, SMTT(30) DEF IInv, Fillers
    <3> QED BY <1>1, <1>2, <2>2, <3>1 DEF IInv, Types, Grown, Alive, Filled
  <2>3. CASE s # z
    <3>1. Grown(s)' <=> Grown(s)
      BY Zenon, <1>2, <2>3 DEF IInv, Types, Grown, Alive
    <3> QED BY <1>2, <2>1, <2>3, <3>1 DEF IInv, Owned, Filled
  <2> QED BY Zenon, <2>2, <2>3
<1>10. DroppedStaysDropped'
  BY Zenon, <1>2, <1>5, IdsKept DEF IInv, Types
<1> QED BY <1>4, <1>6, <1>7, <1>8, <1>9, <1>10 DEF IInv

\* Every step keeps the invariant.
LEMMA NextHolds == IInv /\ [Next]_<<vars, machine>> => IInv'
<1> SUFFICES ASSUME IInv, [Next]_<<vars, machine>> PROVE IInv'
  BY Zenon
<1>1. CASE UNCHANGED <<vars, machine>>
  <2>1. UNCHANGED <<state, parent, killed, chan, uid, euid, kstack, vm, pc, np, dropped, machine>>
    BY Zenon, <1>1 DEF vars
  <2>2. Types' /\ DroppedStaysDropped'
    BY Zenon, <2>1 DEF IInv, Types, DroppedStaysDropped, Alive
  <2> QED BY Zenon, <2>1, <2>2, QuietStep DEF IInv, Fillers, NoUnreapedSleep
<1>2. ASSUME UNCHANGED machine, NEW p \in Slot, Kernel(p) PROVE IInv'
  <2>1. CASE Kalloc(p)
    <3>1. pc[p] = "kalloc"
      BY Zenon, <2>1 DEF Kalloc, At
    <3>2. CASE GiveUp(p) /\ UNCHANGED memVars
      BY <1>2, <3>1, <3>2, GiveUpKeeps, Zenon
    <3>3. CASE ~(GiveUp(p) /\ UNCHANGED memVars)
      <4>1. /\ UNCHANGED <<state, parent, killed, chan, uid, euid, dropped, np>>
            /\ pc' = [pc EXCEPT ![p] = "copyuvm"] /\ kstack' = kstack \cup {np[p]} /\ vm' = vm
        BY <2>1, <3>3, Zenon DEF Kalloc, Goto, procVars
      <4> QED BY <1>2, <3>1, <4>1, ForkGoesOn, Zenon
    <3> QED BY <3>2, <3>3, Zenon
  <2>2. CASE CopyUvm(p)
    <3>1. pc[p] = "copyuvm"
      BY Zenon, <2>2 DEF CopyUvm, At
    <3>2. CASE GiveUp(p) /\ kstack' = kstack \ {np[p]} /\ UNCHANGED vm
      BY <1>2, <3>1, <3>2, GiveUpKeeps, Zenon
    <3>3. CASE ~(GiveUp(p) /\ kstack' = kstack \ {np[p]} /\ UNCHANGED vm)
      <4>1. /\ UNCHANGED <<state, parent, killed, chan, uid, euid, dropped, np>>
            /\ pc' = [pc EXCEPT ![p] = "copy"] /\ vm' = vm \cup {np[p]} /\ kstack' = kstack
        BY <2>2, <3>3, Zenon DEF CopyUvm, Goto, procVars
      <4> QED BY <1>2, <3>1, <4>1, ForkGoesOn, Zenon
    <3> QED BY <3>2, <3>3, Zenon
  <2>3. CASE ForkDone(p)
    BY Zenon, <1>2, <2>3, ForkDoneKeeps
  <2>4. CASE SysRet(p) \/ UserTrap(p) \/ TickCheck(p)
    BY Zenon, <1>2, <2>4, MovesKeep
  <2>5. CASE Exit(p)
    BY <1>2, <2>5, ExitKeeps
  <2>6. CASE Wait(p)
    BY Zenon, <1>2, <2>6, ReapKeeps, WaitMoreKeeps DEF Wait
  <2>7. CASE TickSleep(p)
    BY <1>2, <2>7, TickSleepKeeps
  <2> QED BY Zenon, <1>2, <2>1, <2>2, <2>3, <2>4, <2>5, <2>6, <2>7 DEF Kernel
<1>3. ASSUME UNCHANGED machine, NEW p \in Slot, User(p) PROVE IInv'
  <2>1. CASE NoSlot(p) \/ SysExit(p) \/ Fault(p) \/ TickCheck(p)
    BY Zenon, <1>3, <2>1, MovesKeep
  <2>2. CASE AllocProc(p)
    BY <1>3, <2>2, AllocProcKeeps
  <2>3. CASE Wait(p)
    BY <1>3, <2>3, ReapKeeps, WaitMoreKeeps DEF Wait
  <2>4. ASSUME NEW n, Kill(p, n) PROVE IInv'
    BY Zenon, <1>3, <2>4, KillKeeps
  <2>5. ASSUME NEW u \in Uid, SetUid(p, u) PROVE IInv'
    BY Zenon, <1>3, <2>5, SetUidKeeps
  <2> QED BY Zenon, <1>3, <2>1, <2>2, <2>3, <2>4, <2>5 DEF User
<1>4. ASSUME UNCHANGED machine, TimerTick PROVE IInv'
  BY Zenon, <1>4, TimerTickKeeps
<1>5. ASSUME UNCHANGED machine, Frozen PROVE IInv'
  BY Zenon, <1>1, <1>5 DEF Frozen
<1> QED BY Zenon, <1>1, <1>2, <1>3, <1>4, <1>5 DEF Next

-----------------------------------------------------------------------------
(* Theorems.                                                               *)

\* In every reachable state.
LEMMA Invariant == Spec => []IInv
BY InitHolds, NextHolds, PTL DEF Spec

\* Whoever is in the table, alive or dead, has a living parent that can wait for it
\* (exit passes the children of a dying process to init).
THEOREM ParentsLive == Spec => []ParentAlive
<1>1. IInv => ParentAlive
  BY Zenon DEF IInv, Family
<1> QED BY <1>1, Invariant, PTL

\* Nobody sleeps in wait while a child of its is dead (the two wakeups of exit).
THEOREM WaitersWoken == Spec => []NoUnreapedSleep
<1>1. IInv => NoUnreapedSleep
  BY Zenon DEF IInv
<1> QED BY <1>1, Invariant, PTL

\* fork, its failure paths, exit and wait neither lose nor share kernel stacks and
\* address spaces.
THEOREM NothingLeaks == Spec => []NoLeak
<1>1. IInv => NoLeak
  <2> SUFFICES ASSUME IInv, NEW s \in Slot
               PROVE  /\ s \in kstack <=> \/ Alive(s) \/ state[s] = "ZOMBIE"
                                          \/ \E p \in {q \in Slot : np[q] = s /\ Alive(q)} :
                                               pc[p] \in {"copyuvm", "copy"}
                      /\ s \in vm <=> \/ Alive(s) \/ state[s] = "ZOMBIE"
                                      \/ \E p \in {q \in Slot : np[q] = s /\ Alive(q)} :
                                           pc[p] \in {"copy"}
                      /\ state[s] = "EMBRYO" <=> {q \in Slot : np[q] = s /\ Alive(q)} # {}
                      /\ \A p, q \in {r \in Slot : np[r] = s /\ Alive(r)} : p = q
    BY Zenon DEF NoLeak
  <2>1. \A q \in Slot : np[q] = s => Alive(q)
    BY Zenon, Slots DEF IInv, Fillers, Alive
  <2>2. state[s] = "EMBRYO" <=> \E q \in Slot : np[q] = s
    BY Zenon, Slots DEF IInv, Fillers
  <2>3. \A p, q \in Slot : np[p] = s /\ np[q] = s => p = q
    BY Slots DEF IInv, Fillers
  <2> QED BY Zenon, <2>1, <2>2, <2>3 DEF IInv, Owned, Grown, Filled
<1> QED BY <1>1, Invariant, PTL

\* Who has given up root with setuid, and whoever descends from it, never has root's
\* ids again, whatever slots fork takes for them.
THEOREM RootGivenUp == Spec => []DroppedStaysDropped
<1>1. IInv => DroppedStaysDropped
  BY Zenon DEF IInv
<1> QED BY <1>1, Invariant, PTL
=============================================================================

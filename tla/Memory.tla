------------------------------- MODULE Memory -------------------------------
(***************************************************************************)
(* Physical pages and address spaces: kalloc and kfree (kernel/kalloc.c),  *)
(* page tables (kernel/vm.c), and what fork, exec, sbrk, exit and wait do  *)
(* with them, down to every way an allocation can fail half-way.           *)
(*                                                                         *)
(* Granularity.  Processes run on several CPUs.  One iteration of the      *)
(* loops of setupkvm, copyuvm and allocuvm is one action; what is done     *)
(* when an iteration fails, and freeing an address space, is part of it.   *)
(*                                                                         *)
(* Data.  A page is its number, its contents are left out.  The free list  *)
(* is a set: its order tells nothing about who owns a page.  An address    *)
(* space has a directory page, KPT pages of tables for the kernel, a table *)
(* page for every NPT user pages that are in use, and the user pages.      *)
(* A program file is what exec asks of it: for each of its segments the    *)
(* end address and whether its header is right and its bytes can be read.  *)
(***************************************************************************)
EXTENDS Naturals, Sequences, FiniteSets

CONSTANTS
  NPROC, NPAGE,     \* process slots, physical pages
  PGSIZE, NPT, KPT, \* bytes of a page, pages that a table maps, kernel tables
  KERNBASE, WORD,   \* first kernel address; addresses are modulo WORD
  Program,          \* set of [segs, args]; segs a sequence of [end, header, bytes]
  Delta             \* arguments of sbrk: set of <<sign, bytes>>

Slot == 1 .. NPROC
Page == 1 .. NPAGE
Va == 0 .. (KERNBASE \div PGSIZE) - 1    \* user pages by number
Pde == 0 .. (KERNBASE \div PGSIZE - 1) \div NPT

ASSUME SizeAssumption ==
  /\ NPROC \in Nat \ {0} /\ PGSIZE \in Nat \ {0} /\ NPT \in Nat \ {0}
  /\ NPAGE \in Nat /\ KPT \in Nat /\ NPAGE > 2 * (KPT + 4)
  /\ KERNBASE \in Nat \ {0} /\ KERNBASE % PGSIZE = 0
  /\ WORD \in Nat /\ 2 * KERNBASE <= WORD

\* What a program file says is not checked here; the argument of sbrk is an int.
ASSUME ArgAssumption ==
  /\ Program \subseteq [segs : Seq([end : Nat, header : BOOLEAN, bytes : BOOLEAN]), args : BOOLEAN]
  /\ Delta \subseteq {"+", "-"} \X (1 .. WORD \div 2)
  /\ \A d \in Delta : d[1] = "+" => d[2] < WORD \div 2

VARIABLES
  freelist,
  proc,      \* struct proc: [state, kstack, pgdir, sz]
  t,         \* locals of the system call of a process, see Idle
  panicked

vars == <<freelist, proc, t, panicked>>

None == <<>>     \* no address space

-----------------------------------------------------------------------------
(* Page tables.                                                            *)

PgRoundUp(n) == (n + PGSIZE - 1) \div PGSIZE     \* in pages

First(free) == CHOOSE pg \in free : TRUE

EmptySpace(dir) ==
  [dir |-> dir, ktab |-> {}, tab |-> [d \in Pde |-> 0], pte |-> [v \in Va |-> 0], guard |-> {}]

\* kalloc and mappages (walkpgdir with alloc) for user page v; when there is no
\* page for the table, mem is freed again.
AllocPage(s, v, free) ==
  LET mem == First(free)
      table == s.tab[v \div NPT]
      more == free \ {mem}
  IN IF free = {} \/ (table = 0 /\ more = {}) THEN [ok |-> FALSE, s |-> s, free |-> free]
     ELSE [ok |-> TRUE,
           s |-> [s EXCEPT !.pte[v] = mem,
                           !.tab[v \div NPT] = IF table = 0 THEN First(more) ELSE table],
           free |-> IF table = 0 THEN more \ {First(more)} ELSE more]

\* Mutant of Dropped: the page that newsz ends in is freed too.
Dropped_Down(s, oldsz, newsz) ==
  {v \in Va : newsz \div PGSIZE <= v /\ v * PGSIZE < oldsz /\ s.pte[v] # 0}

\* The user pages that deallocuvm(oldsz, newsz) frees.
Dropped(s, oldsz, newsz) ==
  {v \in Va : PgRoundUp(newsz) <= v /\ v * PGSIZE < oldsz /\ s.pte[v] # 0}

Deallocuvm(s, oldsz, newsz) ==
  [s EXCEPT !.pte = [v \in Va |-> IF v \in Dropped(s, oldsz, newsz) THEN 0 ELSE s.pte[v]],
            !.guard = @ \ Dropped(s, oldsz, newsz)]

Freed(s, oldsz, newsz) == {s.pte[v] : v \in Dropped(s, oldsz, newsz)}

\* freevm: all user pages, all tables, the directory.
Freevm(s) == Freed(s, KERNBASE, 0) \cup ({s.tab[d] : d \in Pde} \ {0}) \cup s.ktab \cup {s.dir}

\* Pages go back to the free list; kfree of a free page would corrupt it.
Kfree(pages) ==
  /\ freelist' = freelist \cup pages
  /\ panicked' = IF pages \cap freelist = {} THEN panicked ELSE 1

-----------------------------------------------------------------------------
\* A process in user space: the address space it builds and its size, the child of
\* fork, the program and segment of exec, oldsz, newsz and next page of a loop.
Idle == [pc |-> "user", new |-> None, nsz |-> 0, child |-> 0, prog |-> None, seg |-> 0,
         lo |-> 0, hi |-> 0, a |-> 0]

Unused == [state |-> "UNUSED", kstack |-> 0, pgdir |-> None, sz |-> 0]

\* inituvm: the one page of initcode.
Inituvm(s, free) == AllocPage(s, 0, free)

\* userinit: the first process has one page of code.
Init ==
  /\ LET s == [EmptySpace(2) EXCEPT !.ktab = 3 .. 2 + KPT]
         r == Inituvm(s, Page \ (1 .. 2 + KPT))
     IN /\ proc = [p \in Slot |-> IF p = 1
                    THEN [state |-> "RUN", kstack |-> 1, pgdir |-> r.s, sz |-> PGSIZE]
                    ELSE Unused]
        /\ freelist = r.free
  /\ t = [p \in Slot |-> Idle]
  /\ panicked = 0

At(p, labels) == panicked = 0 /\ proc[p].state = "RUN" /\ t[p].pc \in labels

\* The locals of a loop over the pages from oldsz to newsz.
Loop(p, l, oldsz, newsz) ==
  [t[p] EXCEPT !.pc = l, !.lo = oldsz, !.hi = newsz, !.a = PgRoundUp(oldsz)]

More(p) == t[p].a * PGSIZE < t[p].hi

-----------------------------------------------------------------------------
(* growproc.                                                               *)

\* A positive argument: allocuvm, which refuses an end in the kernel.
Grow(p, n) ==
  LET newsz == (proc[p].sz + n) % WORD IN
  /\ At(p, {"user"})
  /\ newsz < KERNBASE
  /\ t' = [t EXCEPT ![p] = Loop(p, "grow", proc[p].sz, newsz)]
  /\ UNCHANGED <<freelist, proc, panicked>>

\* A negative one: deallocuvm.  An end below 0 wraps, and nothing is freed.  A size
\* of 0 is taken for an error: sz stays, and the process, without code, dies (the
\* first process keeps its code).
Shrink(p, n) ==
  LET s == proc[p].pgdir
      oldsz == proc[p].sz
      newsz == (oldsz + WORD - n) % WORD
  IN
  /\ At(p, {"user"})
  /\ newsz < oldsz /\ (newsz = 0 => p # 1)
  /\ Kfree(Freed(s, oldsz, newsz))
  /\ proc' = [proc EXCEPT ![p].pgdir = Deallocuvm(s, oldsz, newsz),
                          ![p].sz = IF newsz = 0 THEN @ ELSE newsz]
  /\ t' = [t EXCEPT ![p].pc = IF newsz = 0 THEN "dying" ELSE "user"]

\* The loop of allocuvm; when it fails, what it had mapped is freed.
GrowPage(p) ==
  LET s == proc[p].pgdir
      r == AllocPage(s, t[p].a, freelist)
  IN
  /\ At(p, {"grow"}) /\ More(p)
  /\ panicked' = IF s.pte[t[p].a] = 0 THEN 0 ELSE 1
  /\ IF r.ok
     THEN /\ freelist' = r.free
          /\ proc' = [proc EXCEPT ![p].pgdir = r.s]
          /\ t' = [t EXCEPT ![p].a = @ + 1]
     ELSE /\ freelist' = r.free \cup Freed(s, t[p].hi, t[p].lo)
          /\ proc' = [proc EXCEPT ![p].pgdir = Deallocuvm(s, t[p].hi, t[p].lo)]
          /\ t' = [t EXCEPT ![p] = Idle]

GrowDone(p) ==
  /\ At(p, {"grow"}) /\ ~More(p)
  /\ proc' = [proc EXCEPT ![p].sz = t[p].hi]
  /\ t' = [t EXCEPT ![p] = Idle]
  /\ UNCHANGED <<freelist, panicked>>

-----------------------------------------------------------------------------
(* fork, exit and wait.                                                    *)

\* allocproc takes a slot and a page for its stack; copyuvm begins with setupkvm.
Fork(p) ==
  /\ At(p, {"user"})
  /\ freelist # {}
  /\ \E q \in Slot :
       /\ proc[q].state = "UNUSED"
       /\ \A r \in Slot : r < q => proc[r].state # "UNUSED"
       /\ proc' = [proc EXCEPT ![q].state = "EMBRYO", ![q].kstack = First(freelist)]
       /\ t' = [t EXCEPT ![p].pc = "forkdir", ![p].child = q]
  /\ freelist' = freelist \ {First(freelist)}
  /\ UNCHANGED panicked

\* Mutant of Bad: fork keeps the stack of the child that it could not copy.
Bad_KeepsStack(p) ==
  LET q == t[p].child
      s == t[p].new
  IN
  /\ Kfree(IF s = None THEN {} ELSE Freevm(s))
  /\ proc' = IF q = 0 THEN proc ELSE [proc EXCEPT ![q] = Unused]
  /\ t' = [t EXCEPT ![p] = Idle]

\* The failure exits: copyuvm and exec free the new address space, fork the stack
\* and the slot of the child.
Bad(p) ==
  LET q == t[p].child
      s == t[p].new
  IN
  /\ Kfree((IF s = None THEN {} ELSE Freevm(s)) \cup (IF q = 0 THEN {} ELSE {proc[q].kstack}))
  /\ proc' = IF q = 0 THEN proc ELSE [proc EXCEPT ![q] = Unused]
  /\ t' = [t EXCEPT ![p] = Idle]

\* setupkvm, a page at a time: the directory, then the kernel's tables.
Setupkvm(p) ==
  LET s == t[p].new
      pg == First(freelist)
  IN
  /\ At(p, {"forkdir", "execdir"})
  /\ s # None => Cardinality(s.ktab) < KPT
  /\ IF freelist = {} THEN Bad(p)
     ELSE /\ freelist' = freelist \ {pg}
          /\ t' = [t EXCEPT ![p].new = IF s = None THEN EmptySpace(pg)
                                       ELSE [s EXCEPT !.ktab = @ \cup {pg}]]
          /\ UNCHANGED <<proc, panicked>>

SetupDone(p) ==
  /\ At(p, {"forkdir", "execdir"})
  /\ t[p].new # None /\ Cardinality(t[p].new.ktab) = KPT
  /\ t' = [t EXCEPT ![p] = IF @.pc = "forkdir" THEN Loop(p, "copy", 0, proc[p].sz)
                           ELSE [@ EXCEPT !.pc = "header", !.seg = 1]]
  /\ UNCHANGED <<freelist, proc, panicked>>

\* Mutant of Copied: the page of the parent is shared.
Copied_Shares(r, s, v) == [ok |-> TRUE, s |-> [r.s EXCEPT !.pte[v] = s.pte[v]], free |-> r.free]

\* copyuvm keeps the flags of the page that it copies.
Copied(r, s, v) == [r EXCEPT !.s.guard = @ \cup (s.guard \cap {v})]

\* The loop of copyuvm: every page below sz must be there.
CopyPage(p) ==
  LET v == t[p].a
      s == proc[p].pgdir
      r == AllocPage(t[p].new, v, freelist)
      c == Copied(r, s, v)
  IN
  /\ At(p, {"copy"}) /\ More(p)
  /\ IF s.pte[v] = 0 THEN panicked' = 1 /\ UNCHANGED <<freelist, proc, t>>
     ELSE IF ~r.ok THEN Bad(p)
     ELSE /\ freelist' = c.free
          /\ t' = [t EXCEPT ![p].new = c.s, ![p].a = v + 1]
          /\ UNCHANGED <<proc, panicked>>

\* The child becomes runnable.
ForkDone(p) ==
  /\ At(p, {"copy"}) /\ ~More(p)
  /\ proc' = [proc EXCEPT ![t[p].child].state = "RUN",
                          ![t[p].child].pgdir = t[p].new,
                          ![t[p].child].sz = proc[p].sz]
  /\ t' = [t EXCEPT ![p] = Idle]
  /\ UNCHANGED <<freelist, panicked>>

\* exit leaves the memory to wait.
Exit(p) ==
  /\ At(p, {"user", "dying"})
  /\ p # 1
  /\ proc' = [proc EXCEPT ![p].state = "ZOMBIE"]
  /\ t' = [t EXCEPT ![p] = Idle]
  /\ UNCHANGED <<freelist, panicked>>

Wait(p, q) ==
  /\ At(p, {"user"}) /\ proc[q].state = "ZOMBIE"
  /\ Kfree({proc[q].kstack} \cup Freevm(proc[q].pgdir))
  /\ proc' = [proc EXCEPT ![q] = Unused]
  /\ UNCHANGED t

-----------------------------------------------------------------------------
(* exec.                                                                   *)

\* The ELF header is right: setupkvm.
Exec(p, f) ==
  /\ At(p, {"user"})
  /\ t' = [t EXCEPT ![p].pc = "execdir", ![p].prog = f]
  /\ UNCHANGED <<freelist, proc, panicked>>

\* The next program header, and allocuvm from sz to its end; or, after the last one,
\* allocuvm for the two pages of the stack.  allocuvm fails for an end in the kernel
\* and, as 0 is its error value, for an empty image.
Header(p) ==
  LET segs == t[p].prog.segs
      h == segs[t[p].seg]
      base == PgRoundUp(t[p].nsz) * PGSIZE
      top == base + 2 * PGSIZE
  IN
  /\ At(p, {"header"})
  /\ IF t[p].seg > Len(segs)
     THEN IF top >= KERNBASE THEN Bad(p)
          ELSE /\ t' = [t EXCEPT ![p] = Loop(p, "stack", base, top)]
               /\ UNCHANGED <<freelist, proc, panicked>>
     ELSE IF ~h.header \/ h.end >= KERNBASE \/ (h.end = 0 /\ t[p].nsz = 0) THEN Bad(p)
     ELSE /\ t' = [t EXCEPT ![p] = Loop(p, "segment", t[p].nsz, h.end)]
          /\ UNCHANGED <<freelist, proc, panicked>>

\* The loop of allocuvm for a segment or for the stack.
ImagePage(p) ==
  LET r == AllocPage(t[p].new, t[p].a, freelist) IN
  /\ At(p, {"segment", "stack"}) /\ More(p)
  /\ IF t[p].new.pte[t[p].a] # 0 THEN panicked' = 1 /\ UNCHANGED <<freelist, proc, t>>
     ELSE IF ~r.ok THEN Bad(p)
     ELSE /\ freelist' = r.free
          /\ t' = [t EXCEPT ![p].new = r.s, ![p].a = @ + 1]
          /\ UNCHANGED <<proc, panicked>>

\* allocuvm returns oldsz for an end below it.
SegmentSize(l) == IF l.hi < l.lo THEN l.lo ELSE l.hi

\* loaduvm reads the segment.
SegmentDone(p) ==
  /\ At(p, {"segment"}) /\ ~More(p)
  /\ IF ~t[p].prog.segs[t[p].seg].bytes THEN Bad(p)
     ELSE /\ t' = [t EXCEPT ![p].nsz = SegmentSize(t[p]), ![p].seg = @ + 1, ![p].pc = "header"]
          /\ UNCHANGED <<freelist, proc, panicked>>

\* clearpteu: the process cannot use page v.
Clearpteu(s, v) == [s EXCEPT !.guard = @ \cup {v}]

\* clearpteu on the first page of the stack, the arguments, and the new image takes
\* the place of the old one, which is freed.
ExecCommit(p) ==
  /\ At(p, {"stack"}) /\ ~More(p)
  /\ IF ~t[p].prog.args THEN Bad(p)
     ELSE /\ proc' = [proc EXCEPT
               ![p].pgdir = Clearpteu(t[p].new, t[p].hi \div PGSIZE - 2),
               ![p].sz = t[p].hi]
          /\ Kfree(Freevm(proc[p].pgdir))
          /\ t' = [t EXCEPT ![p] = Idle]

Next ==
  \E p \in Slot :
    \/ \E d \in Delta : IF d[1] = "+" THEN Grow(p, d[2]) ELSE Shrink(p, d[2])
    \/ GrowPage(p) \/ GrowDone(p)
    \/ Fork(p) \/ Setupkvm(p) \/ SetupDone(p) \/ CopyPage(p) \/ ForkDone(p)
    \/ Exit(p) \/ \E q \in Slot : Wait(p, q)
    \/ \E f \in Program : Exec(p, f)
    \/ Header(p) \/ ImagePage(p) \/ SegmentDone(p) \/ ExecCommit(p)

Spec == Init /\ [][Next]_vars

-----------------------------------------------------------------------------
(* Properties.                                                             *)

\* The claims on pages: who has a page, as what.
ClaimsOf(owner, s) ==
  IF s = None THEN {}
  ELSE {<<owner, "dir", 0, s.dir>>} \cup {<<owner, "kernel", 0, pg>> : pg \in s.ktab}
       \cup {<<owner, "table", d, s.tab[d]>> : d \in {d \in Pde : s.tab[d] # 0}}
       \cup {<<owner, "user", v, s.pte[v]>> : v \in {v \in Va : s.pte[v] # 0}}

Claims ==
  UNION {ClaimsOf(<<p, "pgdir">>, proc[p].pgdir) \cup ClaimsOf(<<p, "new">>, t[p].new)
         \cup (IF proc[p].kstack = 0 THEN {} ELSE {<<<<p, "kstack">>, "stack", 0, proc[p].kstack>>})
         : p \in Slot}

\* A page is used for one thing by one process, or it is free: never two of these.
Exclusive ==
  \A c, d \in Claims : c[4] \notin freelist /\ (c[4] = d[4] => c = d)

\* No page is lost, whichever allocation of fork, exec or sbrk failed, and in
\* whatever order the processes allocate.
NoLeak == freelist \cup {c[4] : c \in Claims} = Page

\* The user pages of a process are the pages below its size, which is what
\* copyuvm, deallocuvm and the checks of system call arguments take for granted.
SizeMapped ==
  \A p \in Slot :
    proc[p].state = "RUN" /\ t[p].pc \notin {"grow", "dying"} =>
      \A v \in Va : proc[p].pgdir.pte[v] # 0 <=> v * PGSIZE < proc[p].sz
=============================================================================

---------------------------- MODULE MemoryProofs ----------------------------
(***************************************************************************)
(* Proofs about Memory, for any number of slots and pages, any page size   *)
(* and any programs.                                                       *)
(*                                                                         *)
(* The argument.  Who has a page is a set of claims, by owner: the space   *)
(* of a process, the space that its fork or exec builds, its stack.  A     *)
(* step moves pages between the free list and one or two owners, or a      *)
(* whole space from one owner to another, so it is enough to know that the *)
(* pages given back are those of the claims dropped, and that a page taken *)
(* becomes one new claim.  For the second, a loop must find its next page  *)
(* not mapped, and for copyuvm every page of the parent must be: so the    *)
(* invariant says which pages a space maps, for every size and for every   *)
(* place in every loop.                                                    *)
(***************************************************************************)
EXTENDS Memory, Integers, TLAPS

-----------------------------------------------------------------------------
(* Sizes in pages.                                                         *)

\* Division.
LEMMA DivFacts ==
  ASSUME NEW m \in Nat, NEW d \in Nat \ {0}
  PROVE  m \div d \in Nat /\ d * (m \div d) <= m /\ m < d * (m \div d) + d
  OBVIOUS

\* A multiple of d below another is below it by d.
LEMMA MulLess ==
  ASSUME NEW a \in Nat, NEW b \in Nat, NEW d \in Nat \ {0}
  PROVE  a < b <=> d * a + d <= d * b
  OBVIOUS

\* Page v begins below size n when v is below the number of pages of n: the test of the
\* loops of allocuvm, deallocuvm and copyuvm.
LEMMA RoundUp ==
  ASSUME NEW n \in Nat, NEW v \in Nat
  PROVE  /\ PgRoundUp(n) \in Nat 
         /\ v * PGSIZE < n <=> v < PgRoundUp(n)
<1> DEFINE q == PgRoundUp(n)
<1>1. PGSIZE \in Nat \ {0}
  BY SizeAssumption
<1>2. q \in Nat /\ PGSIZE * q <= n + PGSIZE - 1 /\ n + PGSIZE - 1 < PGSIZE * q + PGSIZE
  BY <1>1, DivFacts DEF PgRoundUp
<1>3. v < q <=> PGSIZE * v + PGSIZE <= PGSIZE * q
  BY <1>1, <1>2, MulLess
<1> HIDE DEF q
<1>4. v * PGSIZE = PGSIZE * v /\ PGSIZE * v \in Nat /\ PGSIZE * q \in Nat
  BY <1>1, <1>2
<1>5. v < q <=> PGSIZE * v < n
  <2>1. CASE v < q
    BY <1>1, <1>2, <1>3, <1>4, <2>1
  <2>2. CASE ~(v < q)
    <3>1. q < v + 1 
      BY <2>2, <1>2
    <3>2. PGSIZE * q <= PGSIZE * v
      BY <1>1, <1>2, <3>1, MulLess
    <3> QED BY <1>1, <1>2, <1>4, <3>2, <2>2
  <2> QED BY <2>1, <2>2
<1> QED BY <1>2, <1>4, <1>5 DEF q

\* Of two sizes the larger one has no fewer pages.
LEMMA RoundUpGrows ==
  ASSUME NEW m \in Nat, NEW n \in Nat, m <= n
  PROVE  PgRoundUp(m) <= PgRoundUp(n)
<1>1. PgRoundUp(m) \in Nat /\ PgRoundUp(n) \in Nat
  BY RoundUp
<1> DEFINE v == PgRoundUp(n)
<1>2. v \in Nat /\ ~(v * PGSIZE < n)
  BY <1>1, RoundUp
<1> HIDE DEF v
<1>3. v * PGSIZE \in Nat
  BY <1>2, SizeAssumption
<1>4. ~(v * PGSIZE < m)
  BY <1>2, <1>3
<1>5. ~(v < PgRoundUp(m))
  BY <1>2, <1>4, RoundUp
<1> QED BY <1>1, <1>2, <1>5 DEF v

\* A size of k pages has k pages.
LEMMA RoundUpWhole ==
  ASSUME NEW k \in Nat
  PROVE  k * PGSIZE \in Nat /\ PgRoundUp(k * PGSIZE) = k
<1>1. k * PGSIZE \in Nat
  BY SizeAssumption
<1> DEFINE q == PgRoundUp(k * PGSIZE)
<1>2. q \in Nat /\ ~(k < q)
  BY <1>1, RoundUp
<1>3. ASSUME q < k PROVE FALSE
  <2>1. q * PGSIZE < k * PGSIZE
    BY <1>2, <1>3, MulLess, SizeAssumption
  <2>2. q < q
    BY <1>1, <1>2, <2>1, RoundUp
  <2> QED BY <1>2, <2>2
<1> HIDE DEF q
<1>4. q = k
  BY <1>2, <1>3
<1> QED BY <1>1, <1>4 DEF q

\* The pages of user space, and their tables.
LEMMA UserPages ==
  /\ PgRoundUp(KERNBASE) \in Nat \ {0}
  /\ \A v : v \in Va <=> v \in Nat /\ v < PgRoundUp(KERNBASE)
  /\ \A v \in Va : v \div NPT \in Pde
<1> DEFINE k == KERNBASE \div PGSIZE
<1>1. k \in Nat /\ KERNBASE = k * PGSIZE
  BY SizeAssumption, DivFacts
<1>2. PgRoundUp(KERNBASE) = k
  BY <1>1, RoundUpWhole
<1>3. k # 0
  BY <1>1, SizeAssumption
<1>4. Va = 0 .. k - 1 /\ Pde = 0 .. (k - 1) \div NPT
  BY DEF Va, Pde
<1> HIDE DEF k
<1>5. ASSUME NEW v \in Va PROVE v \div NPT \in Pde
  <2>1. v \in Nat /\ k - 1 \in Nat /\ v <= k - 1 /\ NPT \in Nat \ {0}
    BY <1>1, <1>3, <1>4, SizeAssumption
  <2>2. v \div NPT \in Nat /\ (k - 1) \div NPT \in Nat /\ v \div NPT <= (k - 1) \div NPT
    BY <2>1
  <2> QED BY <1>4, <2>2
<1>6. PgRoundUp(KERNBASE) \in Nat \ {0}
  BY <1>1, <1>2, <1>3
<1>7. ASSUME NEW v PROVE v \in Va <=> v \in Nat /\ v < PgRoundUp(KERNBASE)
  BY <1>1, <1>2, <1>3, <1>4
<1> QED BY <1>5, <1>6, <1>7

-----------------------------------------------------------------------------
(* Who has which pages.                                                    *)

\* The three things of a slot that hold pages.
Owner == Slot \X {"pgdir", "new", "kstack"}

\* What the thing o holds, as claims.
Has(o) ==
  IF o[2] = "kstack"
  THEN IF proc[o[1]].kstack = 0 THEN {} ELSE {<<o, "stack", 0, proc[o[1]].kstack>>}
  ELSE ClaimsOf(o, IF o[2] = "pgdir" THEN proc[o[1]].pgdir ELSE t[o[1]].new)

\* The pages of a set of claims, and that no two claims are for one page.
Pages(C) == {c[4] : c \in C}

Distinct(C) == \A c, d \in C : c[4] = d[4] => c = d

\* Exclusive and NoLeak in one: the free pages and the claims divide up the pages.
Owned == Exclusive /\ NoLeak

\* Space s has page pg as thing i of kind k.
Uses(s, k, i, pg) ==
  \/ k = "dir" /\ i = 0 /\ pg = s.dir
  \/ k = "kernel" /\ i = 0 /\ pg \in s.ktab
  \/ k = "table" /\ i \in Pde /\ pg = s.tab[i] /\ pg # 0
  \/ k = "user" /\ i \in Va /\ pg = s.pte[i] /\ pg # 0

\* The claims of an address space.
LEMMA ClaimIs ==
  ASSUME NEW o, NEW s, s # None, NEW c
  PROVE  c \in ClaimsOf(o, s) <=> \E k, i, pg : c = <<o, k, i, pg>> /\ Uses(s, k, i, pg)
<1>1. ASSUME c \in ClaimsOf(o, s) PROVE \E k, i, pg : c = <<o, k, i, pg>> /\ Uses(s, k, i, pg)
  BY <1>1 DEF ClaimsOf, Uses
<1>2. ASSUME NEW k, NEW i, NEW pg, c = <<o, k, i, pg>>, Uses(s, k, i, pg) PROVE c \in ClaimsOf(o, s)
  BY <1>2 DEF ClaimsOf, Uses
<1> QED BY Zenon, <1>1, <1>2

\* The claims of Memory are what the owners have, and each one names its owner.
ClaimsAreHad ==
  /\ \A c : c \in Claims <=> \E o \in Owner : c \in Has(o)
  /\ \A o \in Owner : \A c \in Has(o) : c[1] = o

\* In every state.
LEMMA ClaimsAre == ClaimsAreHad
<1>1. ASSUME NEW c, c \in Claims PROVE \E o \in Owner : c \in Has(o)
  <2>1. PICK p \in Slot : c \in ClaimsOf(<<p, "pgdir">>, proc[p].pgdir) \cup ClaimsOf(<<p, "new">>, t[p].new)
         \cup (IF proc[p].kstack = 0 THEN {} ELSE {<<<<p, "kstack">>, "stack", 0, proc[p].kstack>>})
    BY Zenon, <1>1 DEF Claims
  <2>2. <<p, "pgdir">> \in Owner /\ <<p, "new">> \in Owner /\ <<p, "kstack">> \in Owner
    BY DEF Owner
  <2>3. CASE c \in ClaimsOf(<<p, "pgdir">>, proc[p].pgdir)
    BY <2>2, <2>3 DEF Has
  <2>4. CASE c \in ClaimsOf(<<p, "new">>, t[p].new)
    BY <2>2, <2>4 DEF Has
  <2>5. CASE c \in IF proc[p].kstack = 0 THEN {} ELSE {<<<<p, "kstack">>, "stack", 0, proc[p].kstack>>}
    BY <2>2, <2>5 DEF Has
  <2> QED BY Zenon, <2>1, <2>3, <2>4, <2>5
<1>2. ASSUME NEW o \in Owner, NEW c \in Has(o) PROVE c \in Claims
  <2>1. PICK p \in Slot, k \in {"pgdir", "new", "kstack"} : o = <<p, k>>
    BY DEF Owner
  <2>2. o[1] = p /\ o[2] = k
    BY <2>1
  <2>3. c \in ClaimsOf(<<p, "pgdir">>, proc[p].pgdir) \cup ClaimsOf(<<p, "new">>, t[p].new)
         \cup (IF proc[p].kstack = 0 THEN {} ELSE {<<<<p, "kstack">>, "stack", 0, proc[p].kstack>>})
    BY <2>1, <2>2 DEF Has
  <2> QED BY Zenon, <2>3 DEF Claims
<1>3. ASSUME NEW o \in Owner, NEW c \in Has(o) PROVE c[1] = o
  <2>1. CASE o[2] = "kstack"
    BY <1>3, <2>1 DEF Has
  <2>2. CASE o[2] # "kstack"
    <3> DEFINE s == IF o[2] = "pgdir" THEN proc[o[1]].pgdir ELSE t[o[1]].new
    <3>1. c \in ClaimsOf(o, s)
      BY Zenon, <1>3, <2>2 DEF Has
    <3> HIDE DEF s
    <3>2. s # None
      BY Zenon, <3>1 DEF ClaimsOf
    <3>3. PICK k, i, pg : c = <<o, k, i, pg>> /\ Uses(s, k, i, pg)
      BY Zenon, <3>1, <3>2, ClaimIs
    <3> QED BY <3>3
  <2> QED BY <2>1, <2>2
<1> QED BY Zenon, <1>1, <1>2, <1>3 DEF ClaimsAreHad

\* In every next state.
LEMMA ClaimsAreNext == ClaimsAreHad'
  BY ClaimsAre, PTL

\* A step in which one owner gets pages from the free list.
LEMMA Grows ==
  ASSUME Owned, NEW x \in Owner, \A o \in Owner : o # x => Has(o)' = Has(o),
         Has(x) \subseteq Has(x)', Distinct(Has(x)' \ Has(x)),
         freelist' \subseteq freelist, Pages(Has(x)' \ Has(x)) = freelist \ freelist'
  PROVE  Owned'
<1> DEFINE G == Has(x)' \ Has(x)
<1>1. \A c : c \in Claims' <=> c \in Claims \/ c \in G
  <2>1. ASSUME NEW c, c \in Claims' PROVE c \in Claims \/ c \in G
    <3>1. PICK o \in Owner : c \in Has(o)'
      BY Zenon, <2>1, ClaimsAreNext DEF ClaimsAreHad
    <3>2. c \in Has(o) \/ c \in G
      BY Zenon, <3>1
    <3> QED BY Zenon, <3>2, ClaimsAre DEF ClaimsAreHad
  <2>2. ASSUME NEW c, c \in Claims PROVE c \in Claims'
    <3>1. PICK o \in Owner : c \in Has(o)
      BY Zenon, <2>2, ClaimsAre DEF ClaimsAreHad
    <3>2. c \in Has(o)'
      BY Zenon, <3>1
    <3> QED BY Zenon, <3>2, ClaimsAreNext DEF ClaimsAreHad
  <2>3. ASSUME NEW c, c \in G PROVE c \in Claims'
    BY Zenon, <2>3, ClaimsAreNext DEF ClaimsAreHad
  <2> QED BY Zenon, <2>1, <2>2, <2>3
<1>2. \A c \in Claims : c[4] \notin freelist
  BY Zenon DEF Owned, Exclusive
<1>3. \A c \in G : c[4] \in freelist /\ c[4] \notin freelist'
  BY Zenon DEF Pages
<1>4. Distinct(G)
  BY Zenon
<1> HIDE DEF G
<1>5. Exclusive'
  BY Zenon, <1>1, <1>2, <1>3, <1>4 DEF Owned, Exclusive, Distinct
<1>6. freelist' \cup {c[4] : c \in Claims'} = freelist \cup {c[4] : c \in Claims}
  <2>1. \A pg : pg \in freelist => pg \in freelist' \/ \E c \in G : pg = c[4]
    BY Zenon DEF Pages, G
  <2> QED BY Zenon, <1>1, <1>3, <2>1
<1> QED BY Zenon, <1>5, <1>6 DEF Owned, NoLeak

\* A step in which two owners give back pages.
LEMMA Shrinks ==
  ASSUME Owned, NEW x \in Owner, NEW y \in Owner, \A o \in Owner : o # x /\ o # y => Has(o)' = Has(o),
         Has(x)' \subseteq Has(x), Has(y)' \subseteq Has(y),
         freelist' = freelist \cup Pages(Has(x) \ Has(x)') \cup Pages(Has(y) \ Has(y)')
  PROVE  Owned'
<1> DEFINE G == (Has(x) \ Has(x)') \cup (Has(y) \ Has(y)')
<1>1. \A c : c \in Claims' => c \in Claims /\ c \notin G
  <2> SUFFICES ASSUME NEW c, c \in Claims' PROVE c \in Claims /\ c \notin G
    OBVIOUS
  <2>1. PICK o \in Owner : c \in Has(o)'
    BY Zenon, ClaimsAre, ClaimsAreNext DEF ClaimsAreHad
  <2>2. c \in Has(o)
    BY Zenon, <2>1
  <2>3. o = c[1] 
    BY Zenon, <2>2, ClaimsAre, ClaimsAreNext DEF ClaimsAreHad
  <2>4. c \notin G
    BY Zenon, <2>1, <2>3, ClaimsAre, ClaimsAreNext DEF ClaimsAreHad
  <2> QED BY Zenon, <2>2, <2>4, ClaimsAre, ClaimsAreNext DEF ClaimsAreHad
<1>2. \A c : c \in Claims => c \in Claims' \/ c \in G
  <2> SUFFICES ASSUME NEW c, c \in Claims PROVE c \in Claims' \/ c \in G
    BY Zenon
  <2>1. PICK o \in Owner : c \in Has(o)
    BY Zenon, ClaimsAre DEF ClaimsAreHad
  <2>2. c \in Has(o)' \/ c \in G
    BY Zenon, <2>1
  <2> QED BY Zenon, <2>2, ClaimsAreNext DEF ClaimsAreHad
<1>3. G \subseteq Claims
  BY Zenon, ClaimsAre, ClaimsAreNext DEF ClaimsAreHad
<1>4. freelist' = freelist \cup Pages(G)
  BY Zenon DEF Pages
<1> HIDE DEF G
<1>5. Exclusive'
  <2> SUFFICES ASSUME NEW c \in Claims', NEW d \in Claims' PROVE c[4] \notin freelist' /\ (c[4] = d[4] => c = d)
    BY Zenon DEF Exclusive
  <2>1. c \in Claims /\ d \in Claims /\ c \notin G
    BY Zenon, <1>1
  <2>2. c[4] \notin freelist /\ (c[4] = d[4] => c = d)
    BY Zenon, <2>1 DEF Owned, Exclusive
  <2>3. c[4] \notin Pages(G)
    BY Zenon, <2>1, <1>3 DEF Pages, Owned, Exclusive
  <2> QED BY Zenon, <2>2, <2>3, <1>4
<1>6. freelist' \cup {c[4] : c \in Claims'} = freelist \cup {c[4] : c \in Claims}
  BY Zenon, <1>1, <1>2, <1>3, <1>4 DEF Pages
<1> QED BY Zenon, <1>5, <1>6 DEF Owned, NoLeak

\* A step in which y takes over what x has, and gives back what it had itself.
LEMMA Moves ==
  ASSUME Owned, NEW x \in Owner, NEW y \in Owner, x # y,
         \A o \in Owner : o # x /\ o # y => Has(o)' = Has(o),
         Has(x)' = {}, Distinct(Has(y)'), Pages(Has(y)') = Pages(Has(x)),
         freelist' = freelist \cup Pages(Has(y))
  PROVE  Owned'
<1> DEFINE A == {c \in Claims : c[1] # x /\ c[1] # y}
<1>1. \A c : c \in Claims' <=> c \in A \/ c \in Has(y)'
  <2>1. ASSUME NEW c, c \in Claims' PROVE c \in A \/ c \in Has(y)'
    <3>1. PICK o \in Owner : c \in Has(o)' /\ c[1] = o
      BY Zenon, <2>1, ClaimsAreNext DEF ClaimsAreHad
    <3>2. o # x
      BY Zenon, <3>1
    <3>3. CASE o # y
      BY Zenon, <3>1, <3>2, <3>3, ClaimsAre DEF ClaimsAreHad
    <3> QED BY Zenon, <3>1, <3>3
  <2>2. ASSUME NEW c, c \in A PROVE c \in Claims'
    <3>1. PICK o \in Owner : c \in Has(o) /\ o # x /\ o # y
      BY Zenon, <2>2, ClaimsAre DEF ClaimsAreHad
    <3>2. c \in Has(o)'
      BY Zenon, <3>1
    <3> QED BY Zenon, <3>2, ClaimsAreNext DEF ClaimsAreHad
  <2>3. ASSUME NEW c, c \in Has(y)' PROVE c \in Claims'
    BY Zenon, <2>3, ClaimsAreNext DEF ClaimsAreHad
  <2> QED BY Zenon, <2>1, <2>2, <2>3
<1>2. \A c : c \in Claims <=> c \in A \/ c \in Has(x) \/ c \in Has(y)
  BY Zenon, ClaimsAre, ClaimsAreNext DEF ClaimsAreHad
<1>3. /\ \A c \in Has(x) : c[1] = x 
      /\ \A c \in Has(y) : c[1] = y
      /\ \A c \in A : c[1] # x /\ c[1] # y
  BY Zenon, ClaimsAre, ClaimsAreNext DEF ClaimsAreHad
<1> HIDE DEF A
<1>4. \A c \in Claims' : c[4] \notin freelist'
  <2> SUFFICES ASSUME NEW c \in Claims', c[4] \in freelist' PROVE FALSE
    BY Zenon
  <2>1. PICK d \in Claims : d[4] = c[4] /\ (d \in A \/ d \in Has(x))
    BY Zenon, <1>1, <1>2 DEF Pages
  <2>2. c[4] \notin freelist
    BY Zenon, <2>1 DEF Owned, Exclusive
  <2>3. PICK e \in Has(y) : e[4] = c[4]
    BY Zenon, <2>2 DEF Pages
  <2>4. e = d
    BY Zenon, <2>1, <2>3, <1>2 DEF Owned, Exclusive
  <2> QED BY Zenon, <2>1, <2>3, <2>4, <1>3
<1>5. \A c, d \in Claims' : c[4] = d[4] => c = d
  <2> SUFFICES ASSUME NEW c \in Claims', NEW d \in Claims', c[4] = d[4] PROVE c = d
    BY Zenon
  <2>1. ASSUME NEW e \in A, NEW f \in Has(y)', e[4] = f[4] PROVE FALSE
    <3>1. PICK g \in Has(x) : g[4] = e[4]
      BY ZenonT(30), <2>1 DEF Pages
    <3>2. g = e
      BY Zenon, <3>1, <1>2 DEF Owned, Exclusive
    <3> QED BY Zenon, <3>1, <3>2, <1>3
  <2>2. CASE c \in A /\ d \in A
    BY Zenon, <2>2, <1>2 DEF Owned, Exclusive
  <2>3. CASE c \in Has(y)' /\ d \in Has(y)'
    BY Zenon, <2>3 DEF Distinct
  <2> QED BY Zenon, <1>1, <2>1, <2>2, <2>3
<1>6. freelist' \cup {c[4] : c \in Claims'} = freelist \cup {c[4] : c \in Claims}
  BY ZenonT(30), <1>1, <1>2 DEF Pages
<1> QED BY Zenon, <1>4, <1>5, <1>6 DEF Owned, Exclusive, NoLeak

-----------------------------------------------------------------------------
(* Address spaces.                                                         *)

Space == [dir : Page, ktab : SUBSET Page, tab : [Pde -> Page \cup {0}],
          pte : [Va -> Page \cup {0}], guard : SUBSET Int]

\* The user pages of s are the first n.
Maps(s, n) == \A v \in Va : s.pte[v] # 0 <=> v < n

\* None is not an address space.
LEMMA SpaceIsSome ==
  ASSUME NEW s \in Space
  PROVE  s # None
<1>1. DOMAIN s = {"dir", "ktab", "tab", "pte", "guard"}
  BY Zenon DEF Space
<1>2. DOMAIN None = {}
  BY DEF None
<1> QED BY Zenon, <1>1, <1>2

\* A claim on behalf of a space is a use of the page by it.
LEMMA ClaimShape ==
  ASSUME NEW s \in Space, NEW o
  PROVE  /\ \A k, i, pg : <<o, k, i, pg>> \in ClaimsOf(o, s) <=> Uses(s, k, i, pg)
         /\ \A c \in ClaimsOf(o, s) : c = <<o, c[2], c[3], c[4]>> /\ Uses(s, c[2], c[3], c[4])
<1>1. s # None
  BY SpaceIsSome
<1>2. ASSUME NEW k, NEW i, NEW pg PROVE <<o, k, i, pg>> \in ClaimsOf(o, s) <=> Uses(s, k, i, pg)
  <2>1. \A l, j, qg : <<o, k, i, pg>> = <<o, l, j, qg>> => k = l /\ i = j /\ pg = qg
    OBVIOUS
  <2>2. <<o, k, i, pg>> \in ClaimsOf(o, s) <=> \E l, j, qg : <<o, k, i, pg>> = <<o, l, j, qg>> /\ Uses(s, l, j, qg)
    BY Zenon, <1>1, ClaimIs
  <2> QED BY Zenon, <2>1, <2>2
<1>3. ASSUME NEW c \in ClaimsOf(o, s) PROVE c = <<o, c[2], c[3], c[4]>> /\ Uses(s, c[2], c[3], c[4])
  <2>1. PICK k, i, pg : c = <<o, k, i, pg>> /\ Uses(s, k, i, pg)
    BY Zenon, <1>1, <1>3, ClaimIs
  <2> QED BY <2>1
<1> QED BY Zenon, <1>2, <1>3

\* The parts of a claim.
LEMMA ClaimParts ==
  ASSUME NEW s \in Space, NEW o, NEW c \in ClaimsOf(o, s)
  PROVE  \E k, i, pg : c = <<o, k, i, pg>> /\ c[4] = pg /\ Uses(s, k, i, pg)
<1>1. c = <<o, c[2], c[3], c[4]>> /\ Uses(s, c[2], c[3], c[4])
  BY Zenon, ClaimShape
<1> QED BY Zenon, <1>1

\* The claims of a space under another owner are the same pages.
LEMMA Relabel ==
  ASSUME NEW s \in Space, NEW x, NEW y, Distinct(ClaimsOf(x, s))
  PROVE  Distinct(ClaimsOf(y, s)) /\ Pages(ClaimsOf(y, s)) = Pages(ClaimsOf(x, s))
<1>1. ASSUME NEW o, NEW r, NEW c \in ClaimsOf(o, s)
      PROVE  c = <<o, c[2], c[3], c[4]>> /\ <<r, c[2], c[3], c[4]>> \in ClaimsOf(r, s)
  <2>1. c = <<o, c[2], c[3], c[4]>> /\ Uses(s, c[2], c[3], c[4])
    BY Zenon, <1>1, ClaimShape
  <2> QED BY Zenon, <2>1, ClaimShape
<1>4. Distinct(ClaimsOf(y, s))
  <2> SUFFICES ASSUME NEW c \in ClaimsOf(y, s), NEW d \in ClaimsOf(y, s), c[4] = d[4] PROVE c = d
    BY Zenon DEF Distinct
  <2>1. <<x, c[2], c[3], c[4]>> \in ClaimsOf(x, s) /\ <<x, d[2], d[3], d[4]>> \in ClaimsOf(x, s)
    BY Zenon, <1>1
  <2>2. <<x, c[2], c[3], c[4]>>[4] = <<x, d[2], d[3], d[4]>>[4]
    OBVIOUS
  <2>3. <<x, c[2], c[3], c[4]>> = <<x, d[2], d[3], d[4]>>
    BY Zenon, <2>1, <2>2 DEF Distinct
  <2>4. c[2] = d[2] /\ c[3] = d[3]
    BY <2>3
  <2>5. c = <<y, c[2], c[3], c[4]>> /\ d = <<y, d[2], d[3], d[4]>>
    BY Zenon, <1>1
  <2> QED BY <2>4, <2>5
<1>5. ASSUME NEW o, NEW r PROVE Pages(ClaimsOf(o, s)) \subseteq Pages(ClaimsOf(r, s))
  <2> SUFFICES ASSUME NEW c \in ClaimsOf(o, s) PROVE \E d \in ClaimsOf(r, s) : d[4] = c[4]
    BY Zenon DEF Pages
  <2>1. <<r, c[2], c[3], c[4]>> \in ClaimsOf(r, s)
    BY Zenon, <1>1
  <2>2. <<r, c[2], c[3], c[4]>>[4] = c[4]
    OBVIOUS
  <2> QED BY Zenon, <2>1, <2>2
<1>6. Pages(ClaimsOf(y, s)) = Pages(ClaimsOf(x, s))
  BY <1>5
<1> QED BY Zenon, <1>4, <1>6

\* The pages that a space uses, without their tuples.
LEMMA SpacePages ==
  ASSUME NEW s \in Space, NEW o, NEW pg
  PROVE  pg \in Pages(ClaimsOf(o, s)) <=> \E k, i : Uses(s, k, i, pg)
<1>1. ASSUME NEW c \in ClaimsOf(o, s), pg = c[4] PROVE \E k, i : Uses(s, k, i, pg)
  BY Zenon, <1>1, ClaimShape
<1>2. ASSUME NEW k, NEW i, Uses(s, k, i, pg) PROVE \E c \in ClaimsOf(o, s) : c[4] = pg
  <2>1. <<o, k, i, pg>> \in ClaimsOf(o, s)
    BY Zenon, <1>2, ClaimShape
  <2>2. <<o, k, i, pg>>[4] = pg
    OBVIOUS
  <2> QED BY Zenon, <2>1, <2>2
<1> QED BY Zenon, <1>1, <1>2 DEF Pages

\* deallocuvm frees the pages from the new end to the old one.
LEMMA DroppedIs ==
  ASSUME NEW s, NEW oldsz \in Nat, NEW newsz \in Nat, NEW v
  PROVE  v \in Dropped(s, oldsz, newsz) <=>
           v \in Va /\ PgRoundUp(newsz) <= v /\ v < PgRoundUp(oldsz) /\ s.pte[v] # 0
<1>1. v \in Va => v \in Nat
  BY UserPages
<1>2. v \in Nat => (v * PGSIZE < oldsz <=> v < PgRoundUp(oldsz))
  BY RoundUp
<1> QED BY Zenon, <1>1, <1>2 DEF Dropped

\* freevm frees all that the space uses.
LEMMA FreevmFrees ==
  ASSUME NEW s \in Space, NEW o
  PROVE  Freevm(s) = Pages(ClaimsOf(o, s))
<1>1. Freed(s, KERNBASE, 0) = {s.pte[v] : v \in {v \in Va : s.pte[v] # 0}}
  <2>1. KERNBASE \in Nat /\ 0 \in Nat /\ PgRoundUp(0) = 0
    <3>1. 0 * PGSIZE = 0
      BY SizeAssumption
    <3> QED BY <3>1, RoundUpWhole, SizeAssumption
  <2>2. ASSUME NEW v \in Va PROVE v \in Dropped(s, KERNBASE, 0) <=> s.pte[v] # 0
    <3>1. v \in Nat /\ v < PgRoundUp(KERNBASE) /\ 0 <= v
      BY UserPages
    <3> QED BY Zenon, <2>1, <3>1, DroppedIs
  <2> QED BY Zenon, <2>2 DEF Freed, Dropped
<1>2. ASSUME NEW pg PROVE pg \in Freevm(s) <=> \E k, i : Uses(s, k, i, pg)
  <2>1. pg \in Freevm(s) <=> \/ \E v \in Va : s.pte[v] # 0 /\ pg = s.pte[v]
                             \/ pg # 0 /\ \E d \in Pde : pg = s.tab[d]
                             \/ pg \in s.ktab
                             \/ pg = s.dir
    BY Zenon, <1>1 DEF Freevm
  <2> QED BY Zenon, <2>1 DEF Uses
<1> QED BY Zenon, <1>2, SpacePages

\* The fields of a space, and that a page number is not 0.
LEMMA SpaceFields ==
  ASSUME NEW s \in Space
  PROVE  /\ s = [dir |-> s.dir, ktab |-> s.ktab, tab |-> s.tab, pte |-> s.pte, guard |-> s.guard]
         /\ s.dir \in Page /\ s.ktab \subseteq Page /\ s.guard \subseteq Int
         /\ s.tab \in [Pde -> Page \cup {0}] /\ s.pte \in [Va -> Page \cup {0}]
  BY DEF Space

\* The claims that a change from s to s2 takes away or adds, by the uses.
LEMMA ClaimDifference ==
  ASSUME NEW s \in Space, NEW s2 \in Space, NEW o
  PROVE  /\ (\A k, i, pg : Uses(s2, k, i, pg) => Uses(s, k, i, pg)) => ClaimsOf(o, s2) \subseteq ClaimsOf(o, s)
         /\ \A pg : pg \in Pages(ClaimsOf(o, s) \ ClaimsOf(o, s2)) <=>
                      \E k, i : Uses(s, k, i, pg) /\ ~Uses(s2, k, i, pg)
<1>1. ASSUME \A k, i, pg : Uses(s2, k, i, pg) => Uses(s, k, i, pg), NEW c \in ClaimsOf(o, s2)
      PROVE  c \in ClaimsOf(o, s)
  <2>1. PICK k, i, pg : c = <<o, k, i, pg>> /\ c[4] = pg /\ Uses(s2, k, i, pg)
    BY Zenon, <1>1, ClaimParts
  <2>2. <<o, k, i, pg>> \in ClaimsOf(o, s)
    BY Zenon, <1>1, <2>1, ClaimShape
  <2> QED BY Zenon, <2>1, <2>2
<1>2. ASSUME NEW c \in ClaimsOf(o, s), c \notin ClaimsOf(o, s2)
      PROVE  \E k, i : Uses(s, k, i, c[4]) /\ ~Uses(s2, k, i, c[4])
  <2>1. PICK k, i, pg : c = <<o, k, i, pg>> /\ c[4] = pg /\ Uses(s, k, i, pg)
    BY Zenon, <1>2, ClaimParts
  <2>2. <<o, k, i, pg>> \notin ClaimsOf(o, s2)
    BY Zenon, <1>2, <2>1
  <2>3. ~Uses(s2, k, i, pg)
    BY Zenon, <2>2, ClaimShape
  <2> QED BY Zenon, <2>1, <2>3
<1>3. ASSUME NEW k, NEW i, NEW pg, Uses(s, k, i, pg), ~Uses(s2, k, i, pg)
      PROVE  \E c \in ClaimsOf(o, s) \ ClaimsOf(o, s2) : pg = c[4]
  <2>1. <<o, k, i, pg>> \in ClaimsOf(o, s) /\ <<o, k, i, pg>> \notin ClaimsOf(o, s2)
    BY Zenon, <1>3, ClaimShape
  <2>2. <<o, k, i, pg>>[4] = pg
    OBVIOUS
  <2> QED BY Zenon, <2>1, <2>2
<1>4. ASSUME NEW pg
      PROVE  pg \in Pages(ClaimsOf(o, s) \ ClaimsOf(o, s2)) <=> \E k, i : Uses(s, k, i, pg) /\ ~Uses(s2, k, i, pg)
  <2>1. pg \in Pages(ClaimsOf(o, s) \ ClaimsOf(o, s2)) <=> \E c \in ClaimsOf(o, s) \ ClaimsOf(o, s2) : pg = c[4]
    BY Zenon DEF Pages
  <2>2. ASSUME NEW c \in ClaimsOf(o, s) \ ClaimsOf(o, s2), pg = c[4]
        PROVE  \E k, i : Uses(s, k, i, pg) /\ ~Uses(s2, k, i, pg)
    BY Zenon, <1>2, <2>2
  <2>3. ASSUME NEW k, NEW i, Uses(s, k, i, pg), ~Uses(s2, k, i, pg)
        PROVE  pg \in Pages(ClaimsOf(o, s) \ ClaimsOf(o, s2))
    BY Zenon, <1>3, <2>1, <2>3
  <2> QED BY Zenon, <2>1, <2>2, <2>3
<1> QED BY Zenon, <1>1, <1>4

\* Owner o of s gives up the pages from oldsz down to newsz, which makes s2.
GivesUp(o, s, oldsz, newsz, s2) ==
  /\ s2 \in Space
  /\ ClaimsOf(o, s2) \subseteq ClaimsOf(o, s)
  /\ Pages(ClaimsOf(o, s) \ ClaimsOf(o, s2)) = Freed(s, oldsz, newsz)
  /\ \A n \in Nat : Maps(s, n) /\ PgRoundUp(newsz) <= n /\ n <= PgRoundUp(oldsz) => Maps(s2, PgRoundUp(newsz))

\* What deallocuvm does to a space: it gives up the pages that it frees.
LEMMA DeallocGives ==
  ASSUME NEW s \in Space, NEW oldsz \in Nat, NEW newsz \in Nat, NEW o
  PROVE  GivesUp(o, s, oldsz, newsz, Deallocuvm(s, oldsz, newsz))
<1> DEFINE s2 == Deallocuvm(s, oldsz, newsz)
           D == Dropped(s, oldsz, newsz)
           f == [v \in Va |-> IF v \in D THEN 0 ELSE s.pte[v]]
<1>1. s2 = [dir |-> s.dir, ktab |-> s.ktab, tab |-> s.tab, pte |-> f, guard |-> s.guard \ D]
  <2>1. s2 = [s EXCEPT !.pte = f, !.guard = s.guard \ D]
    BY Zenon DEF Deallocuvm
  <2> HIDE DEF s2, f, D
  <2> QED BY Zenon, <2>1, SpaceFields DEF Space
<1> HIDE DEF s2
<1>2. f \in [Va -> Page \cup {0}] /\ s.guard \ D \subseteq Int
  BY SpaceFields
<1>3. s2 \in Space
  BY <1>1, <1>2, SpaceFields DEF Space
<1>4. D \subseteq Va /\ \A v \in D : s.pte[v] # 0
  BY Zenon DEF Dropped
<1>5. /\ s2.dir = s.dir /\ s2.ktab = s.ktab /\ s2.tab = s.tab 
      /\ \A v \in Va : s2.pte[v] = IF v \in D THEN 0 ELSE s.pte[v]
  BY <1>1
<1> HIDE DEF f, D
<1>6. \A k, i, pg : Uses(s2, k, i, pg) => Uses(s, k, i, pg)
  BY ZenonT(30), <1>5 DEF Uses
<1>7. ASSUME NEW pg PROVE (\E k, i : Uses(s, k, i, pg) /\ ~Uses(s2, k, i, pg)) <=> (\E v \in D : pg = s.pte[v])
  <2>1. ASSUME NEW k, NEW i, Uses(s, k, i, pg), ~Uses(s2, k, i, pg) PROVE i \in D /\ pg = s.pte[i]
    BY Zenon, <1>5, <2>1 DEF Uses
  <2>2. ASSUME NEW v \in D, pg = s.pte[v] PROVE Uses(s, "user", v, pg) /\ ~Uses(s2, "user", v, pg)
    BY <1>4, <1>5, <2>2 DEF Uses
  <2> QED BY Zenon, <2>1, <2>2
<1>8. Freed(s, oldsz, newsz) = {s.pte[v] : v \in D}
  BY Zenon DEF Freed, D
<1>9. Pages(ClaimsOf(o, s) \ ClaimsOf(o, s2)) = Freed(s, oldsz, newsz)
  <2>1. ASSUME NEW pg PROVE pg \in Pages(ClaimsOf(o, s) \ ClaimsOf(o, s2)) <=> pg \in Freed(s, oldsz, newsz)
    <3>1. pg \in Freed(s, oldsz, newsz) <=> \E v \in D : pg = s.pte[v]
      BY Zenon, <1>8
    <3>2. pg \in Pages(ClaimsOf(o, s) \ ClaimsOf(o, s2)) <=> \E k, i : Uses(s, k, i, pg) /\ ~Uses(s2, k, i, pg)
      BY Zenon, <1>3, ClaimDifference
    <3> QED BY Zenon, <1>7, <3>1, <3>2
  <2> QED BY Zenon, <2>1
<1>10. ASSUME NEW n \in Nat, Maps(s, n), PgRoundUp(newsz) <= n, n <= PgRoundUp(oldsz)
       PROVE  Maps(s2, PgRoundUp(newsz))
  <2> SUFFICES ASSUME NEW v \in Va PROVE s2.pte[v] # 0 <=> v < PgRoundUp(newsz)
    BY Zenon DEF Maps
  <2>1. s.pte[v] # 0 <=> v < n
    BY Zenon, <1>10 DEF Maps
  <2>2. v \in D <=> PgRoundUp(newsz) <= v /\ v < PgRoundUp(oldsz) /\ s.pte[v] # 0
    BY Zenon, DroppedIs DEF D
  <2>3. v \in Nat /\ PgRoundUp(newsz) \in Nat /\ PgRoundUp(oldsz) \in Nat
    BY UserPages, RoundUp
  <2> QED BY <1>5, <1>10, <2>1, <2>2, <2>3
<1>11. ClaimsOf(o, s2) \subseteq ClaimsOf(o, s)
  BY Zenon, <1>3, <1>6, ClaimDifference
<1>12. GivesUp(o, s, oldsz, newsz, s2)
  BY Zenon, <1>3, <1>9, <1>10, <1>11 DEF GivesUp
<1> QED BY Zenon, <1>12 DEF s2

\* Owner o of s gets user page v, which is free, from the free list, or nothing: result r.
Gets(o, s, v, free, r) ==
  /\ r.ok \in BOOLEAN
  /\ ~r.ok => r.free = free
  /\ r.ok => /\ r.s \in Space
             /\ r.free \subseteq free
             /\ ClaimsOf(o, s) \subseteq ClaimsOf(o, r.s)
             /\ Distinct(ClaimsOf(o, r.s) \ ClaimsOf(o, s))
             /\ Pages(ClaimsOf(o, r.s) \ ClaimsOf(o, s)) = free \ r.free
             /\ Maps(s, v) => Maps(r.s, v + 1)

\* What kalloc and mappages do for a user page: they fail and change nothing, or the

\* space uses one or two pages more, which come from the free list.
LEMMA AllocGets ==
  ASSUME NEW s \in Space, NEW v \in Va, s.pte[v] = 0, NEW free \in SUBSET Page, NEW o
  PROVE  Gets(o, s, v, free, AllocPage(s, v, free))
<1> DEFINE r == AllocPage(s, v, free)
           mem == First(free)
           d == v \div NPT
           more == free \ {mem}
           tb == First(more)
<1>1. CASE free = {} \/ (s.tab[d] = 0 /\ more = {})
  BY <1>1 DEF AllocPage, Gets
<1>2. CASE ~(free = {} \/ (s.tab[d] = 0 /\ more = {}))
  <2>1. d \in Pde /\ mem \in free /\ mem \in Page
    <3>1. mem \in free
      BY Zenon, <1>2 DEF First
    <3> QED BY Zenon, <3>1, UserPages
  <2>2. s.tab[d] = 0 => tb \in more /\ tb \in Page
    <3>1. s.tab[d] = 0 => tb \in more
      BY Zenon, <1>2 DEF First
    <3> QED BY Zenon, <3>1
  <2>3. /\ r.ok = TRUE
        /\ r.s = [s EXCEPT !.pte[v] = mem, !.tab[d] = IF s.tab[d] = 0 THEN tb ELSE s.tab[d]]
        /\ r.free = IF s.tab[d] = 0 THEN more \ {tb} ELSE more
    BY <1>2 DEF AllocPage
  <2> HIDE DEF mem, d, tb, r
  <2> DEFINE s2 == r.s
             pt == [s.pte EXCEPT ![v] = mem]
             ta == [s.tab EXCEPT ![d] = IF s.tab[d] = 0 THEN tb ELSE s.tab[d]]
  <2>4. s2 = [dir |-> s.dir, ktab |-> s.ktab, tab |-> ta, pte |-> pt, guard |-> s.guard]
    <3>1. s2 = [s EXCEPT !.pte = pt, !.tab = ta]
      BY <2>3, SpaceFields
    <3> HIDE DEF s2, pt, ta
    <3> QED BY Zenon, <3>1, SpaceFields DEF Space
  <2> HIDE DEF s2
  <2>5. pt \in [Va -> Page \cup {0}] /\ ta \in [Pde -> Page \cup {0}]
    BY <2>1, <2>2, SpaceFields
  <2>6. s2 \in Space
    BY <2>4, <2>5, SpaceFields DEF Space
  <2>7. /\ s2.dir = s.dir /\ s2.ktab = s.ktab
        /\ \A i \in Va : s2.pte[i] = IF i = v THEN mem ELSE s.pte[i]
        /\ \A i \in Pde : s2.tab[i] = IF i = d /\ s.tab[d] = 0 THEN tb ELSE s.tab[i]
    BY <2>1, <2>4, SpaceFields
  <2> HIDE DEF pt, ta
  <2>8. mem # 0 /\ (s.tab[d] = 0 => tb # 0 /\ tb # mem)
    BY <2>1, <2>2 DEF Page
  <2>9. \A k, i, pg : Uses(s, k, i, pg) => Uses(s2, k, i, pg)
    BY ZenonT(30), <2>7, <2>8 DEF Uses
  <2>10. ASSUME NEW k, NEW i, NEW pg
         PROVE  Uses(s2, k, i, pg) /\ ~Uses(s, k, i, pg) <=>
                  \/ k = "user" /\ i = v /\ pg = mem
                  \/ k = "table" /\ i = d /\ pg = tb /\ s.tab[d] = 0
    BY <2>1, <2>7, <2>8 DEF Uses
  <2>11. Pages(ClaimsOf(o, s2) \ ClaimsOf(o, s)) = free \ r.free
    <3>1. ASSUME NEW pg PROVE pg \in Pages(ClaimsOf(o, s2) \ ClaimsOf(o, s)) <=> pg = mem \/ (pg = tb /\ s.tab[d] = 0)
      <4>1. pg \in Pages(ClaimsOf(o, s2) \ ClaimsOf(o, s)) <=> \E k, i : Uses(s2, k, i, pg) /\ ~Uses(s, k, i, pg)
        BY Zenon, <2>6, ClaimDifference
      <4>2. Uses(s2, "user", v, mem) /\ ~Uses(s, "user", v, mem)
        BY Zenon, <2>10
      <4>3. s.tab[d] = 0 => Uses(s2, "table", d, tb) /\ ~Uses(s, "table", d, tb)
        BY Zenon, <2>10
      <4>4. ASSUME NEW k, NEW i, Uses(s2, k, i, pg) /\ ~Uses(s, k, i, pg) PROVE pg = mem \/ (pg = tb /\ s.tab[d] = 0)
        BY <2>10, <4>4
      <4> QED BY Zenon, <4>1, <4>2, <4>3, <4>4
    <3>2. ASSUME NEW pg PROVE pg \in free \ r.free <=> pg = mem \/ (pg = tb /\ s.tab[d] = 0)
      <4>1. CASE s.tab[d] = 0
        BY Zenon, <2>1, <2>2, <2>3, <4>1
      <4>2. CASE s.tab[d] # 0
        BY Zenon, <2>1, <2>3, <4>2
      <4> QED BY Zenon, <4>1, <4>2
    <3> QED BY Zenon, <3>1, <3>2
  <2>12. Distinct(ClaimsOf(o, s2) \ ClaimsOf(o, s))
    <3> SUFFICES ASSUME NEW c \in ClaimsOf(o, s2) \ ClaimsOf(o, s), NEW e \in ClaimsOf(o, s2) \ ClaimsOf(o, s), c[4] = e[4]
                 PROVE  c = e
      BY Zenon DEF Distinct
    <3>1. ASSUME NEW b \in ClaimsOf(o, s2) \ ClaimsOf(o, s)
          PROVE  b = <<o, "user", v, mem>> \/ (b = <<o, "table", d, tb>> /\ s.tab[d] = 0)
      <4>1. PICK k, i, pg : b = <<o, k, i, pg>> /\ b[4] = pg /\ Uses(s2, k, i, pg)
        BY Zenon, <2>6, <3>1, ClaimParts
      <4>2. <<o, k, i, pg>> \notin ClaimsOf(o, s)
        BY Zenon, <3>1, <4>1
      <4>3. ~Uses(s, k, i, pg)
        BY Zenon, <4>2, ClaimShape
      <4>4. \/ k = "user" /\ i = v /\ pg = mem
            \/ k = "table" /\ i = d /\ pg = tb /\ s.tab[d] = 0
        BY Zenon, <2>10, <4>1, <4>3
      <4> QED BY Zenon, <4>1, <4>4
    <3>2. <<o, "user", v, mem>>[4] = mem /\ <<o, "table", d, tb>>[4] = tb
      OBVIOUS
    <3> QED BY Zenon, <2>8, <3>1, <3>2
  <2>13. ASSUME Maps(s, v) PROVE Maps(s2, v + 1)
    <3>1. v \in Nat /\ \A i \in Va : i \in Nat
      BY UserPages
    <3> QED BY <2>7, <2>8, <2>13, <3>1 DEF Maps
  <2>14. r.free \subseteq free
    BY Zenon, <2>3
  <2>15. ClaimsOf(o, s) \subseteq ClaimsOf(o, s2)
    BY Zenon, <2>6, <2>9, ClaimDifference
  <2>16. Gets(o, s, v, free, r)
    BY Zenon, <2>3, <2>6, <2>11, <2>12, <2>13, <2>14, <2>15 DEF s2, Gets
  <2> QED BY Zenon, <2>16 DEF r
<1> QED BY Zenon, <1>1, <1>2

-----------------------------------------------------------------------------
(* The inductive invariant.                                                *)

\* The records of Memory.
ProcRec == [state : {"UNUSED", "EMBRYO", "RUN", "ZOMBIE"}, kstack : Page \cup {0},
            pgdir : Space \cup {None}, sz : Nat]

Labels == {"user", "dying", "grow", "forkdir", "copy", "execdir", "header", "segment", "stack"}

Locals == [pc : Labels, new : Space \cup {None}, nsz : Nat, child : Slot \cup {0},
           prog : Program \cup {None}, seg : Nat, lo : Nat, hi : Nat, a : Nat]

Shape == proc \in [Slot -> ProcRec] /\ t \in [Slot -> Locals] /\ panicked = 0

\* A space that setupkvm is making.
Blank(s) == s = None \/ (s \in Space /\ Maps(s, 0))

\* A loop over pages that has come to page a of space s.
InLoop(s, l) ==
  /\ PgRoundUp(l.lo) <= l.a /\ (l.a <= PgRoundUp(l.lo) \/ l.a <= PgRoundUp(l.hi))
  /\ l.hi <= KERNBASE /\ Maps(s, l.a)

\* A process by its state: only a running one is in a system call, and what it maps is
\* what its size says, but for a loop of sbrk under way and after an sbrk to 0.
StateOK(r, l) ==
  /\ r.sz <= KERNBASE
  /\ IF r.state = "UNUSED" THEN r = Unused ELSE r.kstack # 0
  /\ r.state = "EMBRYO" => r.pgdir = None
  /\ r.state \in {"RUN", "ZOMBIE"} => r.pgdir \in Space
  /\ r.state # "RUN" => l = Idle
  /\ r.state = "RUN" /\ l.pc \notin {"grow", "dying"} => Maps(r.pgdir, PgRoundUp(r.sz))

\* The locals of a process by where it is.
LocalsOK(r, l) ==
  /\ l.pc = "user" => l = Idle
  /\ l.pc = "dying" => l.new = None
  /\ l.pc = "grow" => l.new = None /\ l.lo = r.sz /\ l.lo <= l.hi /\ InLoop(r.pgdir, l)
  /\ l.pc \in {"forkdir", "execdir"} => Blank(l.new) /\ l.nsz = 0
  /\ l.pc = "copy" => l.lo = 0 /\ l.hi = r.sz
  /\ l.pc \in {"copy", "segment", "stack"} => InLoop(l.new, l)
  /\ l.pc \in {"copy", "header", "segment", "stack"} => l.new \in Space
  /\ l.pc \in {"execdir", "header", "segment", "stack"} => l.prog \in Program
  /\ l.pc = "header" => l.nsz <= KERNBASE /\ l.seg # 0 /\ Maps(l.new, PgRoundUp(l.nsz))
  /\ l.pc = "segment" => l.lo = l.nsz /\ l.nsz <= KERNBASE /\ l.seg # 0 /\ l.seg <= Len(l.prog.segs)
  /\ l.pc = "stack" => l.lo <= l.hi
  /\ l.child # 0 <=> l.pc \in {"forkdir", "copy"}

Good == \A p \in Slot : StateOK(proc[p], t[p]) /\ LocalsOK(proc[p], t[p])

\* A child that fork is making belongs to that fork alone.
Children ==
  \A p \in Slot : t[p].child # 0 =>
    proc[t[p].child].state = "EMBRYO" /\ \A q \in Slot : t[q].child = t[p].child => q = p

\* The inductive invariant.
IInv == Shape /\ Owned /\ Good /\ Children

-----------------------------------------------------------------------------
(* Frames.                                                                 *)

\* What the three owners of a slot have.
HadBySlot ==
  \A p \in Slot :
    /\ Has(<<p, "pgdir">>) = ClaimsOf(<<p, "pgdir">>, proc[p].pgdir)
    /\ Has(<<p, "new">>) = ClaimsOf(<<p, "new">>, t[p].new)
    /\ Has(<<p, "kstack">>) =
         IF proc[p].kstack = 0 THEN {} ELSE {<<<<p, "kstack">>, "stack", 0, proc[p].kstack>>}

\* What a slot has, in every state.
LEMMA HasIs == HadBySlot
<1> SUFFICES ASSUME NEW p \in Slot
             PROVE  /\ Has(<<p, "pgdir">>) = ClaimsOf(<<p, "pgdir">>, proc[p].pgdir)
                    /\ Has(<<p, "new">>) = ClaimsOf(<<p, "new">>, t[p].new)
                    /\ Has(<<p, "kstack">>) =
                         IF proc[p].kstack = 0 THEN {} ELSE {<<<<p, "kstack">>, "stack", 0, proc[p].kstack>>}
  BY Zenon DEF HadBySlot
<1> QED BY DEF Has

\* What a slot has, in every next state.
LEMMA HasIsNext == HadBySlot'
  BY HasIs, PTL

\* The owners of a slot.
LEMMA Owners ==
  /\ \A p \in Slot : <<p, "pgdir">> \in Owner /\ <<p, "new">> \in Owner /\ <<p, "kstack">> \in Owner
  /\ \A o \in Owner : \E p \in Slot : o = <<p, "pgdir">> \/ o = <<p, "new">> \/ o = <<p, "kstack">>
  BY DEF Owner

\* What a step does not change, its owner keeps.
LEMMA Frame ==
  ASSUME NEW X,
         \A q \in Slot :
           /\ <<q, "pgdir">> \notin X => proc'[q].pgdir = proc[q].pgdir
           /\ <<q, "new">> \notin X => t'[q].new = t[q].new
           /\ <<q, "kstack">> \notin X => proc'[q].kstack = proc[q].kstack
  PROVE  \A o \in Owner : o \notin X => Has(o)' = Has(o)
<1> SUFFICES ASSUME NEW o \in Owner, o \notin X PROVE Has(o)' = Has(o)
  BY Zenon
<1>1. PICK q \in Slot : o = <<q, "pgdir">> \/ o = <<q, "new">> \/ o = <<q, "kstack">>
  BY Zenon, Owners
<1>2. CASE o = <<q, "pgdir">>
  BY Zenon, <1>2, HasIs, HasIsNext DEF HadBySlot
<1>3. CASE o = <<q, "new">>
  BY Zenon, <1>3, HasIs, HasIsNext DEF HadBySlot
<1>4. CASE o = <<q, "kstack">>
  BY Zenon, <1>4, HasIs, HasIsNext DEF HadBySlot
<1> QED BY Zenon, <1>1, <1>2, <1>3, <1>4

\* A step in which no page changes hands.
LEMMA Keeps ==
  ASSUME Owned, freelist' = freelist,
         \A q \in Slot : proc'[q].pgdir = proc[q].pgdir /\ t'[q].new = t[q].new /\ proc'[q].kstack = proc[q].kstack
  PROVE  Owned'
<1> DEFINE X == {}
<1>0. \A q \in Slot :
        /\ <<q, "pgdir">> \notin X => proc'[q].pgdir = proc[q].pgdir
        /\ <<q, "new">> \notin X => t'[q].new = t[q].new
        /\ <<q, "kstack">> \notin X => proc'[q].kstack = proc[q].kstack
  BY Zenon
<1>1. \A o \in Owner : Has(o)' = Has(o)
  <2>1. \A o \in Owner : o \notin X
    BY Zenon
  <2> HIDE DEF X
  <2> QED BY Zenon, <1>0, <2>1, Frame
<1>2. \A c : c \in Claims' <=> c \in Claims
  <2> SUFFICES ASSUME NEW c PROVE c \in Claims' <=> c \in Claims
    BY Zenon
  <2>1. \A o \in Owner : c \in Has(o)' <=> c \in Has(o)
    BY Zenon, <1>1
  <2> QED BY Zenon, <2>1, ClaimsAre, ClaimsAreNext DEF ClaimsAreHad
<1>3. Claims' = Claims
  BY Zenon, <1>2
<1> QED BY Zenon, <1>3 DEF Owned, Exclusive, NoLeak

\* A page that someone has is not free.
LEMMA HeldNotFree ==
  ASSUME Owned, NEW o \in Owner, NEW C, C \subseteq Has(o)
  PROVE  Pages(C) \cap freelist = {}
<1>1. \A c \in C : c[4] \notin freelist
  BY Zenon, ClaimsAre DEF ClaimsAreHad, Owned, Exclusive
<1> QED BY Zenon, <1>1 DEF Pages

\* All that a slot has is held without being shared.
LEMMA HeldOnce ==
  ASSUME Owned, NEW o \in Owner
  PROVE  Distinct(Has(o))
  BY Zenon, ClaimsAre DEF ClaimsAreHad, Owned, Exclusive, Distinct

\* Free pages are pages.
LEMMA FreeArePages ==
  ASSUME Owned
  PROVE  freelist \in SUBSET Page
  BY Zenon DEF Owned, NoLeak

\* A step of p that changes its own record and locals.
LEMMA OwnStep ==
  ASSUME IInv, NEW p \in Slot, proc[p].state = "RUN", NEW r \in ProcRec, NEW l \in Locals,
         proc' = [proc EXCEPT ![p] = r], t' = [t EXCEPT ![p] = l], panicked' = 0,
         StateOK(r, l), LocalsOK(r, l), l.child \in {0, t[p].child}, Owned'
  PROVE  IInv'
<1> USE DEF IInv, Shape
<1>1. Shape'
  BY Zenon
<1>2. /\ proc'[p] = r /\ t'[p] = l
      /\ \A q \in Slot : q # p => proc'[q] = proc[q] /\ t'[q] = t[q]
  BY Zenon
<1>3. Good'
  BY Zenon, <1>2 DEF Good
<1>4. Children'
  <2> SUFFICES ASSUME NEW q \in Slot, t'[q].child # 0
               PROVE  proc'[t'[q].child].state = "EMBRYO" /\ \A x \in Slot : t'[x].child = t'[q].child => x = q
    BY Zenon DEF Children
  <2>1. \A x \in Slot : t'[x].child = 0 \/ t'[x].child = t[x].child
    BY Zenon, <1>2
  <2>2. t'[q].child = t[q].child /\ t[q].child # 0
    BY Zenon, <2>1
  <2>3. proc[t[q].child].state = "EMBRYO" /\ \A x \in Slot : t[x].child = t[q].child => x = q
    BY Zenon, <2>2 DEF Children
  <2>4. t[q].child \in Slot
    BY <2>2 DEF Locals
  <2>5. t[q].child # p
    BY <2>3
  <2> QED BY ZenonT(30), <1>2, <2>1, <2>2, <2>3, <2>4, <2>5
<1> QED BY Zenon, <1>1, <1>3, <1>4

\* A step of p that changes its own locals and the record of another slot.
LEMMA OtherStep ==
  ASSUME IInv, NEW p \in Slot, NEW q \in Slot, p # q, NEW r \in ProcRec, NEW l \in Locals,
         proc' = [proc EXCEPT ![q] = r], t' = [t EXCEPT ![p] = l], panicked' = 0,
         StateOK(r, t[q]), LocalsOK(r, t[q]), StateOK(proc[p], l), LocalsOK(proc[p], l),
         Owned', Children'
  PROVE  IInv'
<1> USE DEF IInv, Shape
<1>1. Shape'
  BY Zenon
<1>2. /\ proc'[p] = proc[p] /\ t'[p] = l /\ proc'[q] = r /\ t'[q] = t[q]
      /\ \A x \in Slot : x # p /\ x # q => proc'[x] = proc[x] /\ t'[x] = t[x]
  BY Zenon
<1>3. Good'
  BY Zenon, <1>2 DEF Good
<1> QED BY Zenon, <1>1, <1>3

\* What is known of a running process.
LEMMA Running ==
  ASSUME IInv, NEW p \in Slot, proc[p].state = "RUN"
  PROVE  /\ proc[p] \in ProcRec /\ t[p] \in Locals /\ proc[p].pgdir \in Space /\ proc[p].kstack # 0
         /\ StateOK(proc[p], t[p]) /\ LocalsOK(proc[p], t[p])
<1>1. StateOK(proc[p], t[p]) /\ LocalsOK(proc[p], t[p]) /\ proc[p] \in ProcRec /\ t[p] \in Locals
  BY Zenon DEF IInv, Shape, Good
<1>2. proc[p].pgdir \in Space /\ proc[p].kstack # 0
  BY <1>1 DEF StateOK
<1> QED BY Zenon, <1>1, <1>2

\* Locals that only set up a loop or the next thing to do take no page.
LEMMA LocalStep ==
  ASSUME IInv, NEW p \in Slot, NEW r \in ProcRec, NEW l \in Locals,
         proc' = [proc EXCEPT ![p] = r], t' = [t EXCEPT ![p] = l], freelist' = freelist,
         r.pgdir = proc[p].pgdir, r.kstack = proc[p].kstack, l.new = t[p].new
  PROVE  Owned'
<1>1. /\ proc'[p] = r /\ t'[p] = l
      /\ \A q \in Slot : q # p => proc'[q] = proc[q] /\ t'[q] = t[q]
  BY Zenon DEF IInv, Shape
<1>2. \A q \in Slot : proc'[q].pgdir = proc[q].pgdir /\ t'[q].new = t[q].new /\ proc'[q].kstack = proc[q].kstack
  BY Zenon, <1>1
<1> QED BY Zenon, <1>2, Keeps DEF IInv

\* The locals at the start of a loop.
LEMMA LoopStarts ==
  ASSUME NEW p, t[p] \in Locals, NEW lab \in Labels, NEW lo \in Nat, NEW hi \in Nat,
         NEW l, l = Loop(p, lab, lo, hi)
  PROVE  /\ l \in Locals /\ l.pc = lab /\ l.lo = lo /\ l.hi = hi /\ l.a = PgRoundUp(lo)
         /\ l.new = t[p].new /\ l.nsz = t[p].nsz /\ l.child = t[p].child /\ l.prog = t[p].prog
         /\ l.seg = t[p].seg
<1>1. PgRoundUp(lo) \in Nat
  BY Zenon, RoundUp
<1> DEFINE a == PgRoundUp(lo)
<1>2. l = [t[p] EXCEPT !.pc = lab, !.lo = lo, !.hi = hi, !.a = a]
  BY Zenon DEF Loop
<1> HIDE DEF a
<1>3. /\ l \in Locals /\ l.pc = lab /\ l.lo = lo /\ l.hi = hi /\ l.a = a
      /\ l.new = t[p].new /\ l.nsz = t[p].nsz /\ l.child = t[p].child /\ l.prog = t[p].prog
      /\ l.seg = t[p].seg
  BY ZenonT(30), <1>1, <1>2 DEF Locals, a
<1> QED BY Zenon, <1>3 DEF a

\* sbrk up, before its loop.
LEMMA GrowKeeps ==
  ASSUME IInv, NEW p \in Slot, NEW d \in Delta, d[1] = "+", Grow(p, d[2])
  PROVE  IInv'
<1> DEFINE sz == proc[p].sz
           n == d[2]
           newsz == (sz + n) % WORD
           l == Loop(p, "grow", sz, newsz)
<1>1. /\ proc[p].state = "RUN" /\ t[p].pc = "user" /\ newsz < KERNBASE
      /\ t' = [t EXCEPT ![p] = l] /\ proc' = proc /\ freelist' = freelist /\ panicked' = 0
  BY Zenon DEF Grow, At
<1>2. /\ proc[p] \in ProcRec /\ t[p] \in Locals /\ proc[p].pgdir \in Space /\ proc[p].kstack # 0
      /\ StateOK(proc[p], t[p]) /\ LocalsOK(proc[p], t[p])
  BY Zenon, <1>1, Running
<1>3. t[p] = Idle /\ sz \in Nat /\ sz <= KERNBASE /\ Maps(proc[p].pgdir, PgRoundUp(sz))
  BY <1>1, <1>2 DEF StateOK, LocalsOK, ProcRec
<1>4. newsz \in Nat /\ sz <= newsz
  <2>1. n \in Nat /\ n < WORD \div 2 /\ 2 * KERNBASE <= WORD /\ WORD \in Nat /\ KERNBASE \in Nat
    BY SizeAssumption, ArgAssumption
  <2>2. sz + n \in Nat /\ sz + n < WORD
    BY <2>1, <1>3
  <2> QED BY <2>1, <2>2, <1>3
<1> HIDE DEF newsz, sz
<1>5. PgRoundUp(sz) \in Nat /\ PgRoundUp(newsz) \in Nat
  BY Zenon, <1>3, <1>4, RoundUp
<1> HIDE DEF l
<1>6. /\ l \in Locals /\ l.pc = "grow" /\ l.lo = sz /\ l.hi = newsz /\ l.a = PgRoundUp(sz)
      /\ l.new = t[p].new /\ l.child = t[p].child
  <2>1. "grow" \in Labels
    BY DEF Labels
  <2>2. l = Loop(p, "grow", sz, newsz)
    BY DEF l
  <2> QED BY <1>2, <1>3, <1>4, <2>1, <2>2, LoopStarts
<1>7. t[p].new = None /\ t[p].child = 0
  BY <1>3 DEF Idle
<1>8. StateOK(proc[p], l)
  BY <1>1, <1>2, <1>6 DEF StateOK
<1>9. LocalsOK(proc[p], l)
  <2>1. InLoop(proc[p].pgdir, l)
    BY <1>1, <1>3, <1>4, <1>5, <1>6, SizeAssumption DEF InLoop
  <2>2. l.lo = proc[p].sz /\ l.lo <= l.hi
    BY <1>4, <1>6 DEF sz
  <2> QED BY <1>6, <1>7, <2>1, <2>2 DEF LocalsOK
<1>10. proc' = [proc EXCEPT ![p] = proc[p]]
  BY Zenon, <1>1 DEF IInv, Shape
<1>11. Owned'
  BY Zenon, <1>1, <1>2, <1>6, <1>10, LocalStep
<1> QED BY Zenon, <1>1, <1>2, <1>6, <1>8, <1>9, <1>10, <1>11, OwnStep

\* A process that is not in a system call.
LEMMA IdleIs == Idle \in Locals /\ Idle.child = 0 /\ Idle.pc = "user" /\ Idle.new = None
  BY DEF Idle, Locals, Labels

\* A process may return to user space when its size says what it maps.
LEMMA BackToUser ==
  ASSUME NEW r \in ProcRec, r.state = "RUN", r.kstack # 0, r.pgdir \in Space, r.sz <= KERNBASE,
         Maps(r.pgdir, PgRoundUp(r.sz))
  PROVE  StateOK(r, Idle) /\ LocalsOK(r, Idle)
  BY IdleIs DEF StateOK, LocalsOK

\* A turn of a loop: the page is one of user space and has not been mapped.
LEMMA LoopTurns ==
  ASSUME NEW l \in Locals, NEW s, InLoop(s, l), l.a * PGSIZE < l.hi
  PROVE  /\ l.a \in Va /\ s.pte[l.a] = 0 /\ l.a < PgRoundUp(l.hi) /\ PgRoundUp(l.hi) \in Nat /\ PgRoundUp(l.lo) \in Nat
         /\ Maps(s, l.a)
<1>1. l.a \in Nat /\ l.hi \in Nat /\ l.lo \in Nat /\ KERNBASE \in Nat
  BY SizeAssumption DEF Locals
<1>2. l.a < PgRoundUp(l.hi) /\ PgRoundUp(l.hi) \in Nat /\ PgRoundUp(l.lo) \in Nat
  BY Zenon, <1>1, RoundUp
<1>3. PgRoundUp(l.hi) <= PgRoundUp(KERNBASE) /\ PgRoundUp(KERNBASE) \in Nat
  BY Zenon, <1>1, RoundUpGrows, RoundUp DEF InLoop
<1>4. l.a < PgRoundUp(KERNBASE)
  BY <1>1, <1>2, <1>3
<1>5. l.a \in Va
  BY Zenon, <1>1, <1>4, UserPages
<1>6. s.pte[l.a] = 0
  BY <1>1, <1>5 DEF InLoop, Maps
<1> QED BY Zenon, <1>2, <1>5, <1>6 DEF InLoop

\* The loop after a turn.
LEMMA LoopTurned ==
  ASSUME NEW l \in Locals, NEW s, InLoop(s, l), l.a * PGSIZE < l.hi, NEW s2, Maps(s2, l.a + 1),
         NEW m \in Locals, m.lo = l.lo, m.hi = l.hi, m.a = l.a + 1
  PROVE  InLoop(s2, m)
<1>1. l.a < PgRoundUp(l.hi) /\ PgRoundUp(l.hi) \in Nat /\ PgRoundUp(l.lo) \in Nat
  BY Zenon, LoopTurns
<1>2. l.a \in Nat
  BY DEF Locals
<1>3. PgRoundUp(l.lo) <= l.a /\ l.hi <= KERNBASE
  BY Zenon DEF InLoop
<1>4. PgRoundUp(m.lo) <= m.a /\ m.a <= PgRoundUp(m.hi)
  BY <1>1, <1>2, <1>3
<1> QED BY Zenon, <1>3, <1>4 DEF InLoop

\* The loop after the last turn.
LEMMA LoopEnds ==
  ASSUME NEW l \in Locals, NEW s, InLoop(s, l), l.lo <= l.hi, ~(l.a * PGSIZE < l.hi)
  PROVE  l.hi \in Nat /\ l.hi <= KERNBASE /\ Maps(s, PgRoundUp(l.hi))
<1>1. l.a \in Nat /\ l.hi \in Nat /\ l.lo \in Nat
  BY DEF Locals
<1>2. ~(l.a < PgRoundUp(l.hi))
  BY Zenon, <1>1, RoundUp
<1>3. PgRoundUp(l.hi) \in Nat /\ PgRoundUp(l.lo) \in Nat /\ PgRoundUp(l.lo) <= PgRoundUp(l.hi)
  BY Zenon, <1>1, RoundUp, RoundUpGrows
<1>4. l.a = PgRoundUp(l.hi)
  BY <1>1, <1>2, <1>3 DEF InLoop
<1> QED BY Zenon, <1>1, <1>4 DEF InLoop

\* The owners that a step of p on its own record and locals concerns.
LEMMA OwnFrame ==
  ASSUME IInv, NEW p \in Slot, NEW r \in ProcRec, NEW l \in Locals, r.kstack = proc[p].kstack,
         proc' = [proc EXCEPT ![p] = r], t' = [t EXCEPT ![p] = l]
  PROVE  /\ <<p, "pgdir">> \in Owner /\ <<p, "new">> \in Owner /\ <<p, "pgdir">> # <<p, "new">>
         /\ Has(<<p, "pgdir">>) = ClaimsOf(<<p, "pgdir">>, proc[p].pgdir)
         /\ Has(<<p, "new">>) = ClaimsOf(<<p, "new">>, t[p].new)
         /\ Has(<<p, "pgdir">>)' = ClaimsOf(<<p, "pgdir">>, r.pgdir)
         /\ Has(<<p, "new">>)' = ClaimsOf(<<p, "new">>, l.new)
         /\ \A o \in Owner : o # <<p, "pgdir">> /\ o # <<p, "new">> => Has(o)' = Has(o)
<1>1. /\ proc'[p] = r /\ t'[p] = l
      /\ \A q \in Slot : q # p => proc'[q] = proc[q] /\ t'[q] = t[q]
  BY Zenon DEF IInv, Shape
<1> DEFINE X == {<<p, "pgdir">>, <<p, "new">>}
<1>2. \A q \in Slot : /\ <<q, "pgdir">> \notin X => proc'[q].pgdir = proc[q].pgdir
                      /\ <<q, "new">> \notin X => t'[q].new = t[q].new
                      /\ <<q, "kstack">> \notin X => proc'[q].kstack = proc[q].kstack
  BY Zenon, <1>1
<1>3. \A o \in Owner : o # <<p, "pgdir">> /\ o # <<p, "new">> => o \notin X
  BY Zenon
<1> HIDE DEF X
<1>4. \A o \in Owner : o \notin X => Has(o)' = Has(o)
  BY Zenon, <1>2, Frame
<1>5. <<p, "pgdir">> # <<p, "new">>
  OBVIOUS
<1>6. /\ Has(<<p, "pgdir">>) = ClaimsOf(<<p, "pgdir">>, proc[p].pgdir)
      /\ Has(<<p, "new">>) = ClaimsOf(<<p, "new">>, t[p].new)
  BY Zenon, HasIs DEF HadBySlot
<1>7. /\ Has(<<p, "pgdir">>)' = ClaimsOf(<<p, "pgdir">>, r.pgdir)
      /\ Has(<<p, "new">>)' = ClaimsOf(<<p, "new">>, l.new)
  BY Zenon, <1>1, HasIsNext DEF HadBySlot
<1> QED BY Zenon, <1>3, <1>4, <1>5, <1>6, <1>7, Owners

\* The pages of p's own address space change.
LEMMA PgdirStep ==
  ASSUME IInv, NEW p \in Slot, NEW r \in ProcRec, NEW l \in Locals, r.kstack = proc[p].kstack,
         proc' = [proc EXCEPT ![p] = r], t' = [t EXCEPT ![p] = l], l.new = t[p].new
  PROVE  LET C == ClaimsOf(<<p, "pgdir">>, proc[p].pgdir)
             D == ClaimsOf(<<p, "pgdir">>, r.pgdir)
         IN  /\ D \subseteq C /\ freelist' = freelist \cup Pages(C \ D) =>
                  Owned' /\ Pages(C \ D) \cap freelist = {}
             /\ C \subseteq D /\ Distinct(D \ C) /\ freelist' \subseteq freelist /\ Pages(D \ C) = freelist \ freelist' =>
                  Owned'
<1> DEFINE x == <<p, "pgdir">>
           C == ClaimsOf(x, proc[p].pgdir)
           D == ClaimsOf(x, r.pgdir)
<1>1. x \in Owner /\ Has(x) = C /\ Has(x)' = D /\ \A o \in Owner : o # x => Has(o)' = Has(o)
  BY ZenonT(30), OwnFrame
<1>2. Owned
  BY DEF IInv
<1> HIDE DEF x, C, D
<1>3. ASSUME D \subseteq C, freelist' = freelist \cup Pages(C \ D) PROVE Owned' /\ Pages(C \ D) \cap freelist = {}
  <2>1. freelist' = freelist \cup Pages(Has(x) \ Has(x)') \cup Pages(Has(x) \ Has(x)')
    BY Zenon, <1>1, <1>3
  <2>2. Owned'
    BY Zenon, <1>1, <1>2, <1>3, <2>1, Shrinks
  <2>3. C \ D \subseteq Has(x)
    BY Zenon, <1>1
  <2> QED BY Zenon, <1>1, <1>2, <2>2, <2>3, HeldNotFree
<1>4. ASSUME C \subseteq D, Distinct(D \ C), freelist' \subseteq freelist, Pages(D \ C) = freelist \ freelist' PROVE Owned'
  BY Zenon, <1>1, <1>2, <1>4, Grows
<1> QED BY Zenon, <1>3, <1>4 DEF x, C, D

\* The pages of the address space that p builds change.
LEMMA NewStep ==
  ASSUME IInv, NEW p \in Slot, NEW r \in ProcRec, NEW l \in Locals, r.kstack = proc[p].kstack,
         proc' = [proc EXCEPT ![p] = r], t' = [t EXCEPT ![p] = l], r.pgdir = proc[p].pgdir
  PROVE  LET C == ClaimsOf(<<p, "new">>, t[p].new)
             D == ClaimsOf(<<p, "new">>, l.new)
         IN  /\ D \subseteq C /\ freelist' = freelist \cup Pages(C \ D) =>
                  Owned' /\ Pages(C \ D) \cap freelist = {}
             /\ C \subseteq D /\ Distinct(D \ C) /\ freelist' \subseteq freelist /\ Pages(D \ C) = freelist \ freelist' =>
                  Owned'
<1> DEFINE x == <<p, "new">>
           C == ClaimsOf(x, t[p].new)
           D == ClaimsOf(x, l.new)
<1>1. x \in Owner /\ Has(x) = C /\ Has(x)' = D /\ \A o \in Owner : o # x => Has(o)' = Has(o)
  BY ZenonT(30), OwnFrame
<1>2. Owned
  BY DEF IInv
<1> HIDE DEF x, C, D
<1>3. ASSUME D \subseteq C, freelist' = freelist \cup Pages(C \ D) PROVE Owned' /\ Pages(C \ D) \cap freelist = {}
  <2>1. freelist' = freelist \cup Pages(Has(x) \ Has(x)') \cup Pages(Has(x) \ Has(x)')
    BY Zenon, <1>1, <1>3
  <2>2. Owned'
    BY Zenon, <1>1, <1>2, <1>3, <2>1, Shrinks
  <2>3. C \ D \subseteq Has(x)
    BY Zenon, <1>1
  <2> QED BY Zenon, <1>1, <1>2, <2>2, <2>3, HeldNotFree
<1>4. ASSUME C \subseteq D, Distinct(D \ C), freelist' \subseteq freelist, Pages(D \ C) = freelist \ freelist' PROVE Owned'
  BY Zenon, <1>1, <1>2, <1>4, Grows
<1> QED BY Zenon, <1>3, <1>4 DEF x, C, D

\* The end of the loop of sbrk.
LEMMA GrowDoneKeeps ==
  ASSUME IInv, NEW p \in Slot, GrowDone(p)
  PROVE  IInv'
<1> DEFINE r == [proc[p] EXCEPT !.sz = t[p].hi]
<1>1. /\ proc[p].state = "RUN" /\ t[p].pc = "grow" /\ ~(t[p].a * PGSIZE < t[p].hi)
      /\ t' = [t EXCEPT ![p] = Idle] /\ proc' = [proc EXCEPT ![p] = r] /\ freelist' = freelist /\ panicked' = 0
  BY Zenon DEF GrowDone, At, More
<1>2. /\ proc[p] \in ProcRec /\ t[p] \in Locals /\ proc[p].pgdir \in Space /\ proc[p].kstack # 0
      /\ StateOK(proc[p], t[p]) /\ LocalsOK(proc[p], t[p])
  BY Zenon, <1>1, Running
<1>3. t[p].new = None /\ t[p].lo <= t[p].hi /\ InLoop(proc[p].pgdir, t[p])
  BY <1>1, <1>2 DEF LocalsOK
<1>4. t[p].hi \in Nat /\ t[p].hi <= KERNBASE /\ Maps(proc[p].pgdir, PgRoundUp(t[p].hi))
  BY Zenon, <1>1, <1>2, <1>3, LoopEnds
<1>5. /\ r \in ProcRec /\ r.state = "RUN" /\ r.pgdir = proc[p].pgdir /\ r.kstack = proc[p].kstack
      /\ r.sz = t[p].hi
  BY <1>1, <1>2, <1>4 DEF ProcRec
<1> HIDE DEF r
<1>6. StateOK(r, Idle) /\ LocalsOK(r, Idle)
  BY Zenon, <1>2, <1>4, <1>5, BackToUser
<1>7. Owned'
  BY Zenon, <1>1, <1>3, <1>5, IdleIs, LocalStep
<1> QED BY Zenon, <1>1, <1>5, <1>6, <1>7, IdleIs, OwnStep

\* sbrk down: deallocuvm.
LEMMA ShrinkKeeps ==
  ASSUME IInv, NEW p \in Slot, NEW d \in Delta, d[1] # "+", Shrink(p, d[2])
  PROVE  IInv'
<1> DEFINE s == proc[p].pgdir
           oldsz == proc[p].sz
           newsz == (oldsz + WORD - d[2]) % WORD
           s2 == Deallocuvm(s, oldsz, newsz)
           r == [proc[p] EXCEPT !.pgdir = s2, !.sz = IF newsz = 0 THEN oldsz ELSE newsz]
           l == [t[p] EXCEPT !.pc = IF newsz = 0 THEN "dying" ELSE "user"]
           x == <<p, "pgdir">>
           F == Freed(s, oldsz, newsz)
<1>1. /\ proc[p].state = "RUN" /\ t[p].pc = "user" /\ newsz < oldsz
      /\ t' = [t EXCEPT ![p] = l] /\ proc' = [proc EXCEPT ![p] = r] /\ freelist' = freelist \cup F
      /\ panicked' = IF F \cap freelist = {} THEN 0 ELSE 1
  BY Zenon DEF Shrink, At, Kfree
<1>2. /\ proc[p] \in ProcRec /\ t[p] \in Locals /\ s \in Space /\ proc[p].kstack # 0
      /\ StateOK(proc[p], t[p]) /\ LocalsOK(proc[p], t[p])
  BY Zenon, <1>1, Running
<1>3. t[p] = Idle /\ oldsz \in Nat /\ oldsz <= KERNBASE /\ Maps(s, PgRoundUp(oldsz))
  BY <1>1, <1>2 DEF StateOK, LocalsOK, ProcRec
<1>4. newsz \in Nat
  <2>1. d[2] \in Nat /\ d[2] <= WORD /\ WORD \in Nat \ {0}
    BY SizeAssumption, ArgAssumption
  <2> QED BY <2>1, <1>3
<1> HIDE DEF newsz, oldsz, s
<1>5. PgRoundUp(newsz) <= PgRoundUp(oldsz) /\ PgRoundUp(newsz) \in Nat /\ PgRoundUp(oldsz) \in Nat
  <2>1. newsz <= oldsz
    BY <1>1, <1>3, <1>4
  <2> QED BY Zenon, <1>3, <1>4, <2>1, RoundUpGrows, RoundUp
<1> HIDE DEF s2, x
<1>6. /\ s2 \in Space /\ ClaimsOf(x, s2) \subseteq ClaimsOf(x, s)
      /\ Pages(ClaimsOf(x, s) \ ClaimsOf(x, s2)) = F
      /\ \A n \in Nat : Maps(s, n) /\ PgRoundUp(newsz) <= n /\ n <= PgRoundUp(oldsz) => Maps(s2, PgRoundUp(newsz))
  <2>1. GivesUp(x, s, oldsz, newsz, s2)
    BY Zenon, <1>2, <1>3, <1>4, DeallocGives DEF s2
  <2> QED BY Zenon, <2>1 DEF GivesUp
<1> HIDE DEF F
<1>7. Maps(s2, PgRoundUp(newsz))
  <2>1. PgRoundUp(oldsz) <= PgRoundUp(oldsz)
    BY <1>5
  <2> QED BY Zenon, <1>3, <1>5, <1>6, <2>1
<1>8. /\ r \in ProcRec /\ r.state = "RUN" /\ r.pgdir = s2 /\ r.kstack = proc[p].kstack
      /\ r.sz = IF newsz = 0 THEN oldsz ELSE newsz
  BY Zenon, <1>1, <1>2, <1>3, <1>4, <1>6 DEF ProcRec
<1>9. /\ l \in Locals /\ l.new = t[p].new /\ l.child = t[p].child
      /\ l.pc = IF newsz = 0 THEN "dying" ELSE "user"
  BY <1>2 DEF Locals, Labels
<1>10. t[p].new = None /\ t[p].child = 0
  BY Zenon, <1>3, IdleIs
<1>11. newsz # 0 => l = Idle
  BY <1>1, <1>2, <1>3 DEF Locals
<1> HIDE DEF r, l
<1>12. Owned' /\ F \cap freelist = {}
  BY Zenon, <1>1, <1>2, <1>6, <1>8, <1>9, PgdirStep DEF x, s
<1>13. StateOK(r, l) /\ LocalsOK(r, l)
  <2>1. CASE newsz = 0
    BY <2>1, <1>2, <1>3, <1>6, <1>8, <1>9, <1>10 DEF StateOK, LocalsOK
  <2>2. CASE newsz # 0
    <3>1. r.sz = newsz /\ r.sz <= KERNBASE
      BY <1>1, <1>3, <1>4, <1>8, <2>2, SizeAssumption
    <3> QED BY Zenon, <2>2, <3>1, <1>2, <1>6, <1>7, <1>8, <1>11, BackToUser
  <2> QED BY ZenonT(30), <2>1, <2>2
<1>14. panicked' = 0
  BY Zenon, <1>1, <1>12
<1> QED BY Zenon, <1>1, <1>8, <1>9, <1>12, <1>13, <1>14, OwnStep

\* A turn of the loop of sbrk.
LEMMA GrowPageKeeps ==
  ASSUME IInv, NEW p \in Slot, GrowPage(p)
  PROVE  IInv'
<1> DEFINE s == proc[p].pgdir
           v == t[p].a
           g == AllocPage(s, v, freelist)
           x == <<p, "pgdir">>
<1>1. proc[p].state = "RUN" /\ t[p].pc = "grow" /\ v * PGSIZE < t[p].hi
  BY Zenon DEF GrowPage, At, More
<1>2. /\ proc[p] \in ProcRec /\ t[p] \in Locals /\ s \in Space /\ proc[p].kstack # 0
      /\ StateOK(proc[p], t[p]) /\ LocalsOK(proc[p], t[p])
  BY Zenon, <1>1, Running
<1>3. /\ t[p].new = None /\ t[p].lo = proc[p].sz /\ t[p].lo <= t[p].hi /\ InLoop(s, t[p])
      /\ t[p].child = 0
  BY <1>1, <1>2 DEF LocalsOK
<1>4. t[p].lo \in Nat /\ t[p].hi \in Nat /\ v \in Nat
  BY <1>2 DEF Locals
<1>5. /\ v \in Va /\ s.pte[v] = 0 /\ v < PgRoundUp(t[p].hi) /\ PgRoundUp(t[p].hi) \in Nat /\ PgRoundUp(t[p].lo) \in Nat
      /\ Maps(s, v)
  BY Zenon, <1>1, <1>2, <1>3, LoopTurns
<1>6. panicked' = 0
  BY Zenon, <1>5 DEF GrowPage
<1>7. /\ g.ok \in BOOLEAN
      /\ ~g.ok => g.free = freelist
      /\ g.ok => /\ g.s \in Space /\ g.free \subseteq freelist
                 /\ ClaimsOf(x, s) \subseteq ClaimsOf(x, g.s)
                 /\ Distinct(ClaimsOf(x, g.s) \ ClaimsOf(x, s))
                 /\ Pages(ClaimsOf(x, g.s) \ ClaimsOf(x, s)) = freelist \ g.free
                 /\ Maps(g.s, v + 1)
  <2>1. freelist \in SUBSET Page
    BY Zenon, FreeArePages DEF IInv
  <2> HIDE DEF s, v, x
  <2>2. Gets(x, s, v, freelist, g)
    BY Zenon, <1>2, <1>5, <2>1, AllocGets
  <2> HIDE DEF g
  <2> QED BY Zenon, <1>5, <2>2 DEF Gets
<1>8. CASE g.ok
  <2> DEFINE r == [proc[p] EXCEPT !.pgdir = g.s]
             l == [t[p] EXCEPT !.a = v + 1]
  <2>1. freelist' = g.free /\ proc' = [proc EXCEPT ![p] = r] /\ t' = [t EXCEPT ![p] = l]
    BY Zenon, <1>8 DEF GrowPage
  <2> HIDE DEF g
  <2>2. /\ r \in ProcRec /\ r.state = "RUN" /\ r.pgdir = g.s /\ r.kstack = proc[p].kstack /\ r.sz = proc[p].sz
    BY <1>1, <1>2, <1>7, <1>8 DEF ProcRec
  <2>3. /\ l \in Locals /\ l.new = t[p].new /\ l.child = t[p].child /\ l.pc = "grow"
        /\ l.lo = t[p].lo /\ l.hi = t[p].hi /\ l.a = v + 1
    BY <1>1, <1>2, <1>4 DEF Locals
  <2> HIDE DEF r, l
  <2>4. Owned'
    <3> DEFINE C == ClaimsOf(x, s)
               D == ClaimsOf(x, r.pgdir)
    <3>1. C \subseteq D /\ Distinct(D \ C) /\ freelist' \subseteq freelist /\ Pages(D \ C) = freelist \ freelist'
      BY Zenon, <1>7, <1>8, <2>1, <2>2
    <3> QED BY Zenon, <1>2, <2>1, <2>2, <2>3, <3>1, PgdirStep
  <2>5. InLoop(r.pgdir, l)
    BY ZenonT(30), <1>1, <1>2, <1>3, <1>7, <1>8, <2>2, <2>3, LoopTurned
  <2>6. StateOK(r, l) /\ LocalsOK(r, l)
    BY <1>2, <1>3, <1>7, <1>8, <2>2, <2>3, <2>5 DEF StateOK, LocalsOK
  <2> QED BY ZenonT(30), <1>1, <1>6, <2>1, <2>2, <2>3, <2>4, <2>6, OwnStep
<1>9. CASE ~g.ok
  <2> DEFINE s2 == Deallocuvm(s, t[p].hi, t[p].lo)
             r == [proc[p] EXCEPT !.pgdir = s2]
             F == Freed(s, t[p].hi, t[p].lo)
  <2>1. freelist' = freelist \cup F /\ proc' = [proc EXCEPT ![p] = r] /\ t' = [t EXCEPT ![p] = Idle]
    BY Zenon, <1>7, <1>9 DEF GrowPage
  <2> HIDE DEF s2, x
  <2>2. /\ s2 \in Space /\ ClaimsOf(x, s2) \subseteq ClaimsOf(x, s)
        /\ Pages(ClaimsOf(x, s) \ ClaimsOf(x, s2)) = F
        /\ \A n \in Nat : Maps(s, n) /\ PgRoundUp(t[p].lo) <= n /\ n <= PgRoundUp(t[p].hi) => Maps(s2, PgRoundUp(t[p].lo))
    <3>1. GivesUp(x, s, t[p].hi, t[p].lo, s2)
      BY Zenon, <1>2, <1>4, DeallocGives DEF s2
    <3> QED BY Zenon, <3>1 DEF GivesUp
  <2>3. Maps(s2, PgRoundUp(t[p].lo))
    <3>1. PgRoundUp(t[p].lo) <= v
      BY Zenon, <1>3 DEF InLoop
    <3>2. v <= PgRoundUp(t[p].hi)
      BY <1>4, <1>5
    <3> QED BY Zenon, <1>4, <1>5, <2>2, <3>1, <3>2
  <2> HIDE DEF F
  <2>4. /\ r \in ProcRec /\ r.state = "RUN" /\ r.pgdir = s2 /\ r.kstack = proc[p].kstack /\ r.sz = proc[p].sz
    BY <1>1, <1>2, <2>2 DEF ProcRec
  <2> HIDE DEF r
  <2>5. Owned'
    BY Zenon, <1>2, <1>3, <2>1, <2>2, <2>4, IdleIs, PgdirStep DEF x
  <2>6. r.sz <= KERNBASE
    BY Zenon, <1>2, <2>4 DEF StateOK
  <2>7. StateOK(r, Idle) /\ LocalsOK(r, Idle)
    BY Zenon, <1>2, <1>3, <2>2, <2>3, <2>4, <2>6, BackToUser
  <2> QED BY Zenon, <1>1, <1>6, <2>1, <2>4, <2>5, <2>7, IdleIs, OwnStep
<1> QED BY Zenon, <1>7, <1>8, <1>9

\* What is known of the child of a fork.
LEMMA ChildIs ==
  ASSUME IInv, NEW p \in Slot, t[p].child # 0
  PROVE  /\ t[p].child \in Slot /\ t[p].child # p
         /\ proc[t[p].child] \in ProcRec /\ proc[t[p].child].state = "EMBRYO"
         /\ proc[t[p].child].pgdir = None /\ proc[t[p].child].sz <= KERNBASE /\ proc[t[p].child].kstack # 0
         /\ t[t[p].child] = Idle
         /\ \A q \in Slot : t[q].child = t[p].child => q = p
<1> DEFINE c == t[p].child
<1>1. c \in Slot
  <2>1. t[p] \in Locals
    BY Zenon DEF IInv, Shape
  <2> QED BY <2>1 DEF Locals
<1>2. proc[c].state = "EMBRYO" /\ \A q \in Slot : t[q].child = c => q = p
  BY Zenon DEF IInv, Children
<1>3. proc[c] \in ProcRec /\ StateOK(proc[c], t[c])
  BY Zenon, <1>1 DEF IInv, Shape, Good
<1>4. proc[c].pgdir = None /\ proc[c].sz <= KERNBASE /\ proc[c].kstack # 0 /\ t[c] = Idle
  BY <1>2, <1>3 DEF StateOK
<1>5. c # p
  BY Zenon, <1>4, IdleIs
<1> QED BY Zenon, <1>1, <1>2, <1>3, <1>4, <1>5

\* fork takes a slot and a page for its kernel stack.
LEMMA ForkKeeps ==
  ASSUME IInv, NEW p \in Slot, Fork(p)
  PROVE  IInv'
<1> DEFINE pg == First(freelist)
<1>1. PICK q \in Slot :
       /\ proc[q].state = "UNUSED"
       /\ proc' = [proc EXCEPT ![q].state = "EMBRYO", ![q].kstack = pg]
       /\ t' = [t EXCEPT ![p].pc = "forkdir", ![p].child = q]
  BY Zenon DEF Fork
<1>2. /\ proc[p].state = "RUN" /\ t[p].pc = "user" /\ freelist # {}
      /\ freelist' = freelist \ {pg} /\ panicked' = 0
  BY Zenon DEF Fork, At
<1>3. /\ proc[p] \in ProcRec /\ t[p] \in Locals
      /\ StateOK(proc[p], t[p]) /\ LocalsOK(proc[p], t[p])
  BY Zenon, <1>2, Running
<1>4. t[p] = Idle /\ Maps(proc[p].pgdir, PgRoundUp(proc[p].sz))
  BY <1>2, <1>3 DEF StateOK, LocalsOK
<1>5. proc[q] = Unused /\ t[q] = Idle /\ p # q
  <2>1. StateOK(proc[q], t[q])
    BY Zenon DEF IInv, Good
  <2> QED BY <1>1, <1>2, <2>1 DEF StateOK
<1>6. pg \in freelist /\ pg \in Page /\ pg # 0
  <2>1. pg \in freelist
    BY Zenon, <1>2 DEF First
  <2>2. pg \in Page
    BY Zenon, <2>1, FreeArePages DEF IInv
  <2> QED BY <2>1, <2>2 DEF Page
<1> HIDE DEF pg
<1> DEFINE r == [proc[q] EXCEPT !.state = "EMBRYO", !.kstack = pg]
           l == [t[p] EXCEPT !.pc = "forkdir", !.child = q]
<1>7. proc' = [proc EXCEPT ![q] = r]
  BY Zenon, <1>1 DEF IInv, Shape
<1>8. r \in ProcRec /\ r.state = "EMBRYO" /\ r.kstack = pg /\ r.pgdir = None /\ r.sz = 0
  <2>1. proc[q] \in ProcRec
    BY Zenon DEF IInv, Shape
  <2>2. r \in ProcRec /\ r.state = "EMBRYO" /\ r.kstack = pg /\ r.pgdir = proc[q].pgdir /\ r.sz = proc[q].sz
    BY Zenon, <1>6, <2>1 DEF ProcRec
  <2>3. proc[q].pgdir = None /\ proc[q].sz = 0
    BY <1>5 DEF Unused
  <2> QED BY Zenon, <2>2, <2>3
<1>9. /\ l \in Locals /\ l.new = None /\ l.child = q /\ l.pc = "forkdir" /\ l.nsz = 0
  <2>1. /\ l \in Locals /\ l.new = t[p].new /\ l.child = q /\ l.pc = "forkdir" /\ l.nsz = t[p].nsz
    BY Zenon, <1>3 DEF Locals, Labels
  <2>2. t[p].nsz = 0
    BY <1>4 DEF Idle
  <2> QED BY Zenon, <1>4, <2>1, <2>2, IdleIs
<1>10. t' = [t EXCEPT ![p] = l] /\ proc' = [proc EXCEPT ![q] = r]
  <2>1. t' = [t EXCEPT ![p] = l]
    BY Zenon, <1>1 DEF IInv, Shape
  <2> QED BY Zenon, <1>7, <2>1
<1> HIDE DEF r, l
<1>11. /\ proc'[q] = r /\ t'[p] = l /\ proc'[p] = proc[p] /\ t'[q] = t[q]
       /\ \A x \in Slot : x # p => t'[x] = t[x]
       /\ \A x \in Slot : x # q => proc'[x] = proc[x]
  BY Zenon, <1>5, <1>10 DEF IInv, Shape
<1>12. q # 0
  BY DEF Slot
<1>13. StateOK(r, t[q]) /\ LocalsOK(r, t[q])
  BY SMTT(30), <1>5, <1>6, <1>8, IdleIs, SizeAssumption DEF StateOK, LocalsOK
<1>14. StateOK(proc[p], l) /\ LocalsOK(proc[p], l)
  BY <1>2, <1>3, <1>4, <1>9, <1>12 DEF StateOK, LocalsOK, Blank
<1>15. Owned'
  <2> DEFINE x == <<q, "kstack">>
             c == <<x, "stack", 0, pg>>
  <2>1. \A o \in Owner : o # x => Has(o)' = Has(o)
    <3> DEFINE X == {x}
    <3>1. \A y \in Slot : /\ <<y, "pgdir">> \notin X => proc'[y].pgdir = proc[y].pgdir
                          /\ <<y, "new">> \notin X => t'[y].new = t[y].new
                          /\ <<y, "kstack">> \notin X => proc'[y].kstack = proc[y].kstack
      <4> SUFFICES ASSUME NEW y \in Slot
                   PROVE  /\ proc'[y].pgdir = proc[y].pgdir
                          /\ t'[y].new = t[y].new
                          /\ y # q => proc'[y].kstack = proc[y].kstack
        BY ZenonT(30)
      <4>1. r.pgdir = None /\ proc[q].pgdir = None
        BY <1>5, <1>8 DEF Unused
      <4>2. t[p].new = None
        BY Zenon, <1>4, IdleIs
      <4> QED BY Zenon, <1>9, <1>11, <4>1, <4>2
    <3> HIDE DEF X
    <3>2. \A o \in Owner : o \notin X => Has(o)' = Has(o)
      BY Zenon, <3>1, Frame
    <3> QED BY Zenon, <3>2 DEF X
  <2>2. Has(x) = {} /\ Has(x)' = {c}
    <3>1. proc[q].kstack = 0 /\ r.kstack = pg
      BY <1>5, <1>8 DEF Unused
    <3> QED BY Zenon, <1>6, <1>11, <3>1, HasIs, HasIsNext DEF HadBySlot
  <2>3. x \in Owner /\ c[4] = pg
    BY Zenon, Owners
  <2> HIDE DEF x, c
  <2>4. Distinct(Has(x)' \ Has(x)) /\ Pages(Has(x)' \ Has(x)) = {pg}
    BY Zenon, <2>2, <2>3 DEF Distinct, Pages
  <2>5. freelist' \subseteq freelist /\ freelist \ freelist' = {pg}
    BY Zenon, <1>2, <1>6
  <2> QED BY Zenon, <2>1, <2>2, <2>3, <2>4, <2>5, Grows DEF IInv
<1>16. Children'
  <2> SUFFICES ASSUME NEW x \in Slot, t'[x].child # 0
               PROVE  proc'[t'[x].child].state = "EMBRYO" /\ \A y \in Slot : t'[y].child = t'[x].child => y = x
    BY Zenon DEF Children
  <2>1. ASSUME NEW y \in Slot, y # p, t[y].child # 0
        PROVE  t[y].child \in Slot /\ t[y].child # q /\ proc[t[y].child].state = "EMBRYO" /\ \A z \in Slot : t[z].child = t[y].child => z = y
    <3>1. t[y].child \in Slot /\ proc[t[y].child].state = "EMBRYO" /\ \A z \in Slot : t[z].child = t[y].child => z = y
      BY Zenon, <2>1, ChildIs
    <3>2. proc[q].state = "UNUSED"
      BY <1>5 DEF Unused
    <3> QED BY <3>1, <3>2
  <2>2. r.state = "EMBRYO"
    BY <1>8
  <2>3. CASE x = p
    <3>1. t'[x].child = q /\ proc'[q].state = "EMBRYO"
      BY Zenon, <1>9, <1>11, <2>2, <2>3
    <3>2. ASSUME NEW y \in Slot, t'[y].child = q PROVE y = p
      BY Zenon, <1>11, <1>12, <2>1, <3>2
    <3> QED BY Zenon, <2>3, <3>1, <3>2
  <2>4. CASE x # p
    <3>1. /\ t'[x].child = t[x].child /\ t[x].child \in Slot /\ t[x].child # q
          /\ proc[t[x].child].state = "EMBRYO" /\ \A z \in Slot : t[z].child = t[x].child => z = x
      BY Zenon, <1>11, <2>1, <2>4
    <3> QED BY Zenon, <1>9, <1>11, <2>4, <3>1
  <2> QED BY Zenon, <2>3, <2>4
<1> QED BY Zenon, <1>2, <1>5, <1>8, <1>9, <1>10, <1>13, <1>14, <1>15, <1>16, OtherStep

\* The owners that a step of p on its locals and on the record of q concerns.
Concerns(p, q, r, l) ==
  /\ <<p, "new">> \in Owner /\ <<q, "kstack">> \in Owner /\ <<q, "pgdir">> \in Owner
  /\ Has(<<p, "new">>) = ClaimsOf(<<p, "new">>, t[p].new)
  /\ Has(<<p, "new">>)' = ClaimsOf(<<p, "new">>, l.new)
  /\ Has(<<q, "pgdir">>) = ClaimsOf(<<q, "pgdir">>, proc[q].pgdir)
  /\ Has(<<q, "pgdir">>)' = ClaimsOf(<<q, "pgdir">>, r.pgdir)
  /\ proc[q].kstack # 0 => Pages(Has(<<q, "kstack">>)) = {proc[q].kstack}
  /\ r.kstack = 0 => Has(<<q, "kstack">>)' = {}
  /\ r.kstack = proc[q].kstack => Has(<<q, "kstack">>)' = Has(<<q, "kstack">>)
  /\ \A o \in Owner : o # <<p, "new">> /\ o # <<q, "kstack">> /\ o # <<q, "pgdir">> => Has(o)' = Has(o)

\* These owners are all.
LEMMA OtherFrame ==
  ASSUME IInv, NEW p \in Slot, NEW q \in Slot, p # q, NEW r \in ProcRec, NEW l \in Locals,
         proc' = [proc EXCEPT ![q] = r], t' = [t EXCEPT ![p] = l]
  PROVE  Concerns(p, q, r, l)
<1>1. /\ proc'[q] = r /\ t'[p] = l
      /\ \A x \in Slot : x # q => proc'[x] = proc[x]
      /\ \A x \in Slot : x # p => t'[x] = t[x]
  BY Zenon DEF IInv, Shape
<1> DEFINE X == {<<p, "new">>, <<q, "kstack">>, <<q, "pgdir">>}
<1>2. \A x \in Slot : /\ <<x, "pgdir">> \notin X => proc'[x].pgdir = proc[x].pgdir
                      /\ <<x, "new">> \notin X => t'[x].new = t[x].new
                      /\ <<x, "kstack">> \notin X => proc'[x].kstack = proc[x].kstack
  BY Zenon, <1>1
<1>3. \A o \in Owner : o # <<p, "new">> /\ o # <<q, "kstack">> /\ o # <<q, "pgdir">> => o \notin X
  BY Zenon
<1> HIDE DEF X
<1>4. \A o \in Owner : o \notin X => Has(o)' = Has(o)
  BY Zenon, <1>2, Frame
<1>6. /\ Has(<<p, "new">>) = ClaimsOf(<<p, "new">>, t[p].new)
      /\ Has(<<q, "pgdir">>) = ClaimsOf(<<q, "pgdir">>, proc[q].pgdir)
      /\ Has(<<q, "kstack">>) = IF proc[q].kstack = 0 THEN {} ELSE {<<<<q, "kstack">>, "stack", 0, proc[q].kstack>>}
  BY Zenon, HasIs DEF HadBySlot
<1>7. /\ Has(<<p, "new">>)' = ClaimsOf(<<p, "new">>, l.new)
      /\ Has(<<q, "pgdir">>)' = ClaimsOf(<<q, "pgdir">>, r.pgdir)
      /\ Has(<<q, "kstack">>)' = IF r.kstack = 0 THEN {} ELSE {<<<<q, "kstack">>, "stack", 0, r.kstack>>}
  BY Zenon, <1>1, HasIsNext DEF HadBySlot
<1>8. proc[q].kstack # 0 => Pages(Has(<<q, "kstack">>)) = {proc[q].kstack}
  <2>1. \A k : Pages({<<<<q, "kstack">>, "stack", 0, k>>}) = {k}
    BY DEF Pages
  <2> QED BY Zenon, <1>6, <2>1
<1>9. /\ r.kstack = 0 => Has(<<q, "kstack">>)' = {}
      /\ r.kstack = proc[q].kstack => Has(<<q, "kstack">>)' = Has(<<q, "kstack">>)
  BY Zenon, <1>6, <1>7
<1> QED BY Zenon, <1>3, <1>4, <1>6, <1>7, <1>8, <1>9, Owners DEF Concerns

\* A step that undoes or completes what p does for q: no child of another is concerned.
LEMMA ChildLeaves ==
  ASSUME IInv, NEW p \in Slot, NEW q \in Slot, proc[q].state = "EMBRYO" => q = t[p].child,
         NEW r \in ProcRec, proc' = [proc EXCEPT ![q] = r], t' = [t EXCEPT ![p] = Idle]
  PROVE  Children'
<1> SUFFICES ASSUME NEW x \in Slot, t'[x].child # 0
             PROVE  proc'[t'[x].child].state = "EMBRYO" /\ \A y \in Slot : t'[y].child = t'[x].child => y = x
  BY Zenon DEF Children
<1>1. /\ t'[p] = Idle /\ \A y \in Slot : y # p => t'[y] = t[y]
      /\ \A y \in Slot : y # q => proc'[y] = proc[y]
  BY Zenon DEF IInv, Shape
<1>2. x # p /\ t'[x].child = t[x].child /\ t[x].child # 0
  BY Zenon, <1>1, IdleIs
<1>3. t[x].child \in Slot /\ proc[t[x].child].state = "EMBRYO" /\ \A y \in Slot : t[y].child = t[x].child => y = x
  BY Zenon, <1>2, ChildIs
<1>4. t[x].child # q
  BY Zenon, <1>2, <1>3
<1>5. \A y \in Slot : t'[y].child = 0 \/ t'[y].child = t[y].child
  BY Zenon, <1>1, IdleIs
<1> QED BY ZenonT(30), <1>1, <1>2, <1>3, <1>4, <1>5

\* A slot without a process.
LEMMA UnusedIs ==
  /\ Unused \in ProcRec /\ Unused.kstack = 0 /\ Unused.pgdir = None
  /\ StateOK(Unused, Idle) /\ LocalsOK(Unused, Idle)
<1>1. /\ Unused \in ProcRec /\ Unused.kstack = 0 /\ Unused.pgdir = None /\ Unused.state = "UNUSED" /\ Unused.sz = 0
  BY DEF Unused, ProcRec
<1> QED BY <1>1, IdleIs, SizeAssumption DEF StateOK, LocalsOK

\* No space, no claims.
LEMMA NoClaims == ASSUME NEW o PROVE ClaimsOf(o, None) = {}
  BY Zenon DEF ClaimsOf

\* The failure exits of fork and exec give back all that they took.
LEMMA BadKeeps ==
  ASSUME IInv, NEW p \in Slot, proc[p].state = "RUN", t[p].pc \notin {"user", "grow", "dying"}, Bad(p)
  PROVE  IInv'
<1> DEFINE q == t[p].child
           s == t[p].new
           x == <<p, "new">>
           A == IF s = None THEN {} ELSE Freevm(s)
           B == IF q = 0 THEN {} ELSE {proc[q].kstack}
<1>1. /\ proc[p] \in ProcRec /\ t[p] \in Locals /\ proc[p].pgdir \in Space /\ proc[p].kstack # 0
      /\ StateOK(proc[p], t[p]) /\ LocalsOK(proc[p], t[p])
  BY Zenon, Running
<1>2. /\ t' = [t EXCEPT ![p] = Idle] /\ freelist' = freelist \cup (A \cup B)
      /\ panicked' = IF (A \cup B) \cap freelist = {} THEN 0 ELSE 1
      /\ proc' = IF q = 0 THEN proc ELSE [proc EXCEPT ![q] = Unused]
  BY Zenon DEF Bad, Kfree, IInv, Shape
<1>3. A = Pages(ClaimsOf(x, s))
  <2>1. CASE s = None
    BY Zenon, <2>1, NoClaims DEF Pages
  <2>2. CASE s # None
    <3>1. s \in Space
      BY SMTT(30), <1>1, <2>2 DEF Locals
    <3> HIDE DEF s, x
    <3> QED BY Zenon, <2>2, <3>1, FreevmFrees
  <2> QED BY Zenon, <2>1, <2>2
<1>4. proc[p].sz <= KERNBASE /\ Maps(proc[p].pgdir, PgRoundUp(proc[p].sz))
  BY <1>1 DEF StateOK
<1>5. StateOK(proc[p], Idle) /\ LocalsOK(proc[p], Idle)
  BY Zenon, <1>1, <1>4, BackToUser
<1>6. ClaimsOf(x, Idle.new) = {}
  BY Zenon, IdleIs, NoClaims
<1> HIDE DEF A
<1>7. CASE q = 0
  <2>1. proc' = [proc EXCEPT ![p] = proc[p]]
    BY Zenon, <1>2, <1>7 DEF IInv, Shape
  <2> DEFINE C == ClaimsOf(x, s)
             D == ClaimsOf(x, Idle.new)
  <2>2. D \subseteq C /\ freelist' = freelist \cup Pages(C \ D) /\ Pages(C \ D) = A
    <3>1. C \ D = C
      BY Zenon, <1>6
    <3>2. B = {}
      BY Zenon, <1>7
    <3> QED BY Zenon, <1>2, <1>3, <1>6, <3>1, <3>2
  <2>3. Owned' /\ Pages(C \ D) \cap freelist = {}
    BY Zenon, <1>1, <1>2, <2>1, <2>2, IdleIs, NewStep
  <2>4. panicked' = 0
    BY Zenon, <1>2, <1>7, <2>2, <2>3
  <2> QED BY Zenon, <1>1, <1>2, <1>5, <2>1, <2>3, <2>4, IdleIs, OwnStep
<1>8. CASE q # 0
  <2>0. PICK c \in Slot : c = t[p].child
    BY Zenon, <1>8, ChildIs
  <2> DEFINE y == <<c, "kstack">>
             z == <<c, "pgdir">>
  <2>1. /\ p # c /\ proc[c] \in ProcRec /\ proc[c].pgdir = None /\ proc[c].kstack # 0
        /\ t[c] = Idle
    BY Zenon, <1>8, <2>0, ChildIs
  <2>2. proc' = [proc EXCEPT ![c] = Unused]
    BY Zenon, <1>2, <1>8, <2>0
  <2>3. /\ x \in Owner /\ y \in Owner /\ Has(x) = ClaimsOf(x, s) /\ Has(x)' = {}
        /\ Pages(Has(y)) = {proc[c].kstack} /\ Has(y)' = {}
        /\ \A o \in Owner : o # x /\ o # y => Has(o)' = Has(o)
    <3>1. Concerns(p, c, Unused, Idle)
      BY Zenon, <1>2, <2>1, <2>2, IdleIs, UnusedIs, OtherFrame
    <3>2. Has(z) = {} /\ Has(z)' = {}
      BY Zenon, <2>1, <3>1, UnusedIs, NoClaims DEF Concerns
    <3>3. \A o \in Owner : o # x /\ o # y /\ o # z => Has(o)' = Has(o)
      BY Zenon, <3>1 DEF Concerns
    <3>4. /\ x \in Owner /\ y \in Owner /\ Has(x) = ClaimsOf(x, s) /\ Has(x)' = ClaimsOf(x, Idle.new)
          /\ Pages(Has(y)) = {proc[c].kstack} /\ Has(y)' = {}
      BY Zenon, <2>1, <3>1, UnusedIs DEF Concerns
    <3> HIDE DEF x, y, z, s
    <3>5. Has(x)' = {}
      BY Zenon, <1>6, <3>4
    <3>6. \A o \in Owner : o # x /\ o # y => Has(o)' = Has(o)
      BY Zenon, <3>2, <3>3
    <3> QED BY Zenon, <3>4, <3>5, <3>6
  <2> HIDE DEF x, y
  <2>4. freelist' = freelist \cup Pages(Has(x) \ Has(x)') \cup Pages(Has(y) \ Has(y)')
    <3>1. Has(x) \ Has(x)' = Has(x) /\ Has(y) \ Has(y)' = Has(y) /\ B = {proc[c].kstack}
      BY Zenon, <1>8, <2>0, <2>3
    <3>2. Pages(Has(x)) = A /\ Pages(Has(y)) = B
      BY Zenon, <1>3, <2>3, <3>1
    <3> QED BY Zenon, <1>2, <3>1, <3>2
  <2>5. Has(x)' \subseteq Has(x) /\ Has(y)' \subseteq Has(y) /\ Has(x) \subseteq Has(x) /\ Has(y) \subseteq Has(y)
    BY Zenon, <2>3
  <2>6. Owned'
    BY Zenon, <2>3, <2>4, <2>5, Shrinks DEF IInv
  <2>7. panicked' = 0
    <3>1. Pages(Has(x)) \cap freelist = {} /\ Pages(Has(y)) \cap freelist = {}
      BY Zenon, <2>3, <2>5, HeldNotFree DEF IInv
    <3>2. A \cap freelist = {} /\ B \cap freelist = {}
      BY Zenon, <1>3, <1>8, <2>0, <2>3, <3>1
    <3> QED BY Zenon, <1>2, <3>2
  <2>8. Children'
    BY Zenon, <1>2, <2>1, <2>2, <2>0, UnusedIs, ChildLeaves
  <2> QED BY ZenonT(30), <1>2, <1>5, <2>1, <2>2, <2>6, <2>7, <2>8, IdleIs, UnusedIs, OtherStep
<1> QED BY Zenon, <1>7, <1>8

-----------------------------------------------------------------------------
(* fork and exec build a space.                                            *)

\* A step of p that changes its locals only, in a call that leaves its own space alone.
LEMMA BuildStep ==
  ASSUME IInv, NEW p \in Slot, proc[p].state = "RUN", t[p].pc \notin {"grow", "dying"},
         NEW l \in Locals, proc' = proc, t' = [t EXCEPT ![p] = l], panicked' = 0,
         l.child = t[p].child, LocalsOK(proc[p], l),
         \/ l.new = t[p].new /\ freelist' = freelist
         \/ LET C == ClaimsOf(<<p, "new">>, t[p].new)
                D == ClaimsOf(<<p, "new">>, l.new)
            IN  C \subseteq D /\ Distinct(D \ C) /\ freelist' \subseteq freelist /\ Pages(D \ C) = freelist \ freelist'
  PROVE  IInv'
<1>1. proc[p] \in ProcRec /\ StateOK(proc[p], t[p])
  BY Zenon, Running
<1>2. proc' = [proc EXCEPT ![p] = proc[p]]
  BY ZenonT(30) DEF IInv, Shape
<1>3. StateOK(proc[p], l)
  BY <1>1 DEF StateOK
<1>4. CASE l.new = t[p].new /\ freelist' = freelist
  <2>1. Owned'
    BY Zenon, <1>1, <1>2, <1>4, LocalStep
  <2> QED BY Zenon, <1>1, <1>2, <1>3, <2>1, OwnStep
<1>5. CASE ~(l.new = t[p].new /\ freelist' = freelist)
  <2> DEFINE C == ClaimsOf(<<p, "new">>, t[p].new)
             D == ClaimsOf(<<p, "new">>, l.new)
  <2>1. C \subseteq D /\ Distinct(D \ C) /\ freelist' \subseteq freelist /\ Pages(D \ C) = freelist \ freelist'
    BY Zenon, <1>5
  <2>2. Owned'
    BY Zenon, <1>1, <1>2, <2>1, NewStep
  <2> QED BY Zenon, <1>1, <1>2, <1>3, <2>2, OwnStep
<1> QED BY Zenon, <1>4, <1>5

\* The first free page.
LEMMA FirstIs ==
  ASSUME NEW free \in SUBSET Page, free # {}
  PROVE  First(free) \in free /\ First(free) \in Page
  BY Zenon DEF First

\* Space s2 has page pg, and all else that it has, s has too.
Adds(o, s, s2, pg) ==
  /\ ClaimsOf(o, s) \subseteq ClaimsOf(o, s2)
  /\ Distinct(ClaimsOf(o, s2) \ ClaimsOf(o, s))
  /\ Pages(ClaimsOf(o, s2) \ ClaimsOf(o, s)) = {pg}

\* setupkvm's page is a new claim of the space, whether it is the directory or a table.
LEMMA KernelPage ==
  ASSUME NEW s \in Space \cup {None}, NEW pg \in Page, NEW o, pg \notin Pages(ClaimsOf(o, s)), Blank(s), NEW s2,
         s2 = IF s = None THEN EmptySpace(pg) ELSE [s EXCEPT !.ktab = @ \cup {pg}]
  PROVE  s2 \in Space /\ Blank(s2) /\ Adds(o, s, s2, pg)
<1>1. CASE s = None
  <2>1. s2 = EmptySpace(pg)
    BY Zenon, <1>1
  <2>2. /\ s2 \in Space /\ s2.dir = pg /\ s2.ktab = {} /\ s2.tab = [d \in Pde |-> 0]
        /\ s2.pte = [v \in Va |-> 0]
    BY <2>1 DEF EmptySpace, Space
  <2>3. Maps(s2, 0)
    BY <2>2, UserPages DEF Maps
  <2>4. s2 # None
    BY Zenon, <2>2, SpaceIsSome
  <2>5. ClaimsOf(o, s2) = {<<o, "dir", 0, pg>>}
    <3>1. \A k, i, g : Uses(s2, k, i, g) <=> k = "dir" /\ i = 0 /\ g = pg
      BY <2>2 DEF Uses
    <3>2. \A c : c \in ClaimsOf(o, s2) <=> \E k, i, g : c = <<o, k, i, g>> /\ Uses(s2, k, i, g)
      BY Zenon, <2>4, ClaimIs
    <3>3. ASSUME NEW c \in ClaimsOf(o, s2) PROVE c = <<o, "dir", 0, pg>>
      <4>1. PICK k, i, g : c = <<o, k, i, g>> /\ Uses(s2, k, i, g)
        BY Zenon, <3>2, <3>3
      <4>2. k = "dir" /\ i = 0 /\ g = pg
        BY Zenon, <3>1, <4>1
      <4> QED BY <4>1, <4>2
    <3>4. <<o, "dir", 0, pg>> \in ClaimsOf(o, s2)
      BY Zenon, <3>1, <3>2
    <3> QED BY Zenon, <3>3, <3>4
  <2>6. ClaimsOf(o, s) = {}
    BY Zenon, <1>1, NoClaims
  <2>7. ClaimsOf(o, s2) \ ClaimsOf(o, s) = {<<o, "dir", 0, pg>>}
    BY Zenon, <2>5, <2>6
  <2>8. Pages({<<o, "dir", 0, pg>>}) = {pg}
    BY DEF Pages
  <2>9. Distinct({<<o, "dir", 0, pg>>})
    BY Zenon DEF Distinct
  <2> QED BY Zenon, <2>2, <2>3, <2>6, <2>7, <2>8, <2>9 DEF Blank, Adds
<1>2. CASE s # None
  <2>1. s \in Space /\ s2 = [s EXCEPT !.ktab = s.ktab \cup {pg}] /\ Maps(s, 0)
    BY Zenon, <1>2 DEF Blank
  <2>2. /\ s2 \in Space /\ s2.dir = s.dir /\ s2.ktab = s.ktab \cup {pg} /\ s2.tab = s.tab
        /\ s2.pte = s.pte
    BY <2>1 DEF Space
  <2>3. Maps(s2, 0)
    BY Zenon, <2>1, <2>2 DEF Maps
  <2>4. s2 # None
    BY Zenon, <2>2, SpaceIsSome
  <2>5. ClaimsOf(o, s2) = ClaimsOf(o, s) \cup {<<o, "kernel", 0, pg>>}
    <3>1. \A k, i, g : Uses(s2, k, i, g) <=> Uses(s, k, i, g) \/ (k = "kernel" /\ i = 0 /\ g = pg)
      BY <2>2 DEF Uses
    <3>2. \A c : c \in ClaimsOf(o, s2) <=> \E k, i, g : c = <<o, k, i, g>> /\ Uses(s2, k, i, g)
      BY Zenon, <2>4, ClaimIs
    <3>3. \A c : c \in ClaimsOf(o, s) <=> \E k, i, g : c = <<o, k, i, g>> /\ Uses(s, k, i, g)
      BY Zenon, <1>2, ClaimIs
    <3>4. ASSUME NEW c \in ClaimsOf(o, s2) PROVE c \in ClaimsOf(o, s) \/ c = <<o, "kernel", 0, pg>>
      <4>1. PICK k, i, g : c = <<o, k, i, g>> /\ Uses(s2, k, i, g)
        BY Zenon, <3>2, <3>4
      <4>2. CASE Uses(s, k, i, g)
        BY Zenon, <3>3, <4>1, <4>2
      <4>3. CASE ~Uses(s, k, i, g)
        <5>1. k = "kernel" /\ i = 0 /\ g = pg
          BY Zenon, <3>1, <4>1, <4>3
        <5> QED BY <4>1, <5>1
      <4> QED BY Zenon, <4>2, <4>3
    <3>5. <<o, "kernel", 0, pg>> \in ClaimsOf(o, s2)
      BY Zenon, <3>1, <3>2
    <3>6. ASSUME NEW c \in ClaimsOf(o, s) PROVE c \in ClaimsOf(o, s2)
      <4>1. PICK k, i, g : c = <<o, k, i, g>> /\ Uses(s, k, i, g)
        BY Zenon, <3>3, <3>6
      <4> QED BY Zenon, <3>1, <3>2, <4>1
    <3> QED BY Zenon, <3>4, <3>5, <3>6
  <2>6. <<o, "kernel", 0, pg>> \notin ClaimsOf(o, s)
    <3>1. <<o, "kernel", 0, pg>>[4] = pg
      OBVIOUS
    <3> QED BY Zenon, <3>1 DEF Pages
  <2>7. ClaimsOf(o, s2) \ ClaimsOf(o, s) = {<<o, "kernel", 0, pg>>}
    BY Zenon, <2>5, <2>6
  <2>8. Pages({<<o, "kernel", 0, pg>>}) = {pg}
    BY DEF Pages
  <2>9. Distinct({<<o, "kernel", 0, pg>>})
    BY Zenon DEF Distinct
  <2> QED BY Zenon, <2>2, <2>3, <2>5, <2>7, <2>8, <2>9 DEF Blank, Adds
<1> QED BY Zenon, <1>1, <1>2

\* setupkvm: a page for the kernel's part of the new space, or the call fails.
LEMMA SetupkvmKeeps ==
  ASSUME IInv, NEW p \in Slot, Setupkvm(p)
  PROVE  IInv'
<1> DEFINE s == t[p].new
           pg == First(freelist)
           x == <<p, "new">>
<1>1. /\ proc[p].state = "RUN" /\ t[p].pc \in {"forkdir", "execdir"} /\ panicked = 0
      /\ freelist = {} => Bad(p)
  BY Zenon DEF Setupkvm, At
<1>2. t[p].pc \notin {"user", "grow", "dying"}
  BY <1>1
<1>3. proc[p] \in ProcRec /\ t[p] \in Locals /\ LocalsOK(proc[p], t[p])
  BY Zenon, <1>1, Running
<1>4. CASE freelist = {}
  BY Zenon, <1>1, <1>2, <1>4, BadKeeps
<1>5. CASE freelist # {}
  <2> DEFINE s2 == IF s = None THEN EmptySpace(pg) ELSE [s EXCEPT !.ktab = @ \cup {pg}]
             l == [t[p] EXCEPT !.new = s2]
  <2>1. freelist' = freelist \ {pg} /\ t' = [t EXCEPT ![p] = l] /\ proc' = proc /\ panicked' = 0
    BY Zenon, <1>1, <1>5 DEF Setupkvm
  <2>2. pg \in freelist /\ pg \in Page
    BY ZenonT(30), <1>5, FirstIs, FreeArePages DEF IInv
  <2>3. s \in Space \cup {None} /\ Blank(s) /\ t[p].nsz = 0
    BY <1>1, <1>3 DEF Locals, LocalsOK
  <2>4. pg \notin Pages(ClaimsOf(x, s))
    <3>1. x \in Owner /\ Has(x) = ClaimsOf(x, s)
      BY Zenon, HasIs, Owners DEF HadBySlot
    <3>2. Pages(Has(x)) \cap freelist = {}
      BY Zenon, <3>1, HeldNotFree DEF IInv
    <3> QED BY Zenon, <2>2, <3>1, <3>2
  <2> HIDE DEF pg
  <2>5. /\ s2 \in Space /\ Blank(s2)
        /\ ClaimsOf(x, s) \subseteq ClaimsOf(x, s2)
        /\ Distinct(ClaimsOf(x, s2) \ ClaimsOf(x, s))
        /\ Pages(ClaimsOf(x, s2) \ ClaimsOf(x, s)) = {pg}
    <3> HIDE DEF x, s
    <3>1. s2 \in Space /\ Blank(s2) /\ Adds(x, s, s2, pg)
      BY Zenon, <2>2, <2>3, <2>4, KernelPage
    <3> QED BY Zenon, <3>1 DEF Adds
  <2> HIDE DEF s2
  <2>6. /\ l \in Locals /\ l.new = s2 /\ l.pc = t[p].pc /\ l.child = t[p].child /\ l.nsz = t[p].nsz
        /\ l.prog = t[p].prog
    BY SMTT(30), <1>3, <2>5 DEF Locals
  <2> HIDE DEF l
  <2>7. LocalsOK(proc[p], l)
    BY <1>1, <1>3, <2>3, <2>5, <2>6 DEF LocalsOK
  <2>8. freelist' \subseteq freelist /\ freelist \ freelist' = {pg}
    BY Zenon, <2>1, <2>2
  <2> QED BY Zenon, <1>1, <1>2, <2>1, <2>5, <2>6, <2>7, <2>8, BuildStep
<1> QED BY Zenon, <1>4, <1>5

\* The tables of the kernel are set up: copyuvm and exec go on with an empty space.
LEMMA SetupDoneKeeps ==
  ASSUME IInv, NEW p \in Slot, SetupDone(p)
  PROVE  IInv'
<1>1. /\ proc[p].state = "RUN" /\ t[p].pc \in {"forkdir", "execdir"} /\ t[p].new # None
      /\ proc' = proc /\ freelist' = freelist /\ panicked' = 0
  BY Zenon DEF SetupDone, At
<1>2. proc[p] \in ProcRec /\ t[p] \in Locals /\ LocalsOK(proc[p], t[p]) /\ StateOK(proc[p], t[p])
  BY ZenonT(30), <1>1, Running
<1>3. /\ t[p].new \in Space /\ Maps(t[p].new, 0) /\ t[p].nsz = 0 /\ t[p].pc \notin {"grow", "dying"}
      /\ proc[p].sz \in Nat /\ proc[p].sz <= KERNBASE
  BY <1>1, <1>2 DEF LocalsOK, Blank, StateOK, ProcRec
<1>4. PgRoundUp(0) = 0
  <2>1. PgRoundUp(0 * PGSIZE) = 0
    BY RoundUpWhole
  <2> QED BY <2>1, SizeAssumption
<1>5. CASE t[p].pc = "forkdir"
  <2>1. PICK l : l = Loop(p, "copy", 0, proc[p].sz)
    BY Zenon
  <2>2. /\ l \in Locals /\ l.pc = "copy" /\ l.lo = 0 /\ l.hi = proc[p].sz /\ l.a = 0
        /\ l.new = t[p].new /\ l.child = t[p].child
    <3>1. "copy" \in Labels
      BY DEF Labels
    <3> QED BY <1>2, <1>3, <1>4, <2>1, <3>1, LoopStarts
  <2>3. t' = [t EXCEPT ![p] = l]
    BY Zenon, <1>5, <2>1 DEF SetupDone, IInv, Shape
  <2>4. InLoop(l.new, l)
    BY SMTT(30), <1>3, <1>4, <2>2 DEF InLoop
  <2>5. LocalsOK(proc[p], l)
    BY <1>2, <1>3, <1>5, <2>2, <2>4 DEF LocalsOK
  <2> QED BY Zenon, <1>1, <1>3, <2>2, <2>3, <2>5, BuildStep
<1>6. CASE t[p].pc = "execdir"
  <2> DEFINE l == [t[p] EXCEPT !.pc = "header", !.seg = 1]
  <2>1. /\ l \in Locals /\ l.pc = "header" /\ l.seg = 1 /\ l.nsz = 0
        /\ l.new = t[p].new /\ l.child = t[p].child /\ l.prog = t[p].prog
    BY Zenon, <1>2, <1>3 DEF Locals, Labels
  <2>2. t' = [t EXCEPT ![p] = l]
    <3>1. t[p].pc # "forkdir"
      BY SMTT(30), <1>6
    <3> QED BY Zenon, <3>1 DEF SetupDone, IInv, Shape
  <2> HIDE DEF l
  <2>3. LocalsOK(proc[p], l)
    BY <1>2, <1>3, <1>4, <1>6, <2>1, SizeAssumption DEF LocalsOK
  <2> QED BY Zenon, <1>1, <1>3, <2>1, <2>2, <2>3, BuildStep
<1> QED BY Zenon, <1>1, <1>5, <1>6

\* The flags of a page are no claims.
LEMMA GuardOnly ==
  ASSUME NEW s \in Space, NEW G \in SUBSET Int, NEW s2, s2 = [s EXCEPT !.guard = G]
  PROVE  /\ s2 \in Space
         /\ \A o : ClaimsOf(o, s2) = ClaimsOf(o, s)
         /\ \A n : Maps(s, n) => Maps(s2, n)
<1>1. s2 \in Space /\ s2.dir = s.dir /\ s2.ktab = s.ktab /\ s2.tab = s.tab /\ s2.pte = s.pte
  BY DEF Space
<1>2. ASSUME NEW o, NEW c PROVE c \in ClaimsOf(o, s2) <=> c \in ClaimsOf(o, s)
  <2>1. \A k, i, pg : Uses(s2, k, i, pg) <=> Uses(s, k, i, pg)
    BY <1>1 DEF Uses
  <2>2. s # None /\ s2 # None
    BY Zenon, <1>1, SpaceIsSome
  <2>3. /\ c \in ClaimsOf(o, s2) <=> \E k, i, pg : c = <<o, k, i, pg>> /\ Uses(s2, k, i, pg)
        /\ c \in ClaimsOf(o, s) <=> \E k, i, pg : c = <<o, k, i, pg>> /\ Uses(s, k, i, pg)
    BY Zenon, <2>2, ClaimIs
  <2>4. ASSUME c \in ClaimsOf(o, s2) PROVE c \in ClaimsOf(o, s)
    <3>1. PICK k, i, pg : c = <<o, k, i, pg>> /\ Uses(s2, k, i, pg)
      BY Zenon, <2>3, <2>4
    <3> QED BY Zenon, <2>1, <2>3, <3>1
  <2>5. ASSUME c \in ClaimsOf(o, s) PROVE c \in ClaimsOf(o, s2)
    <3>1. PICK k, i, pg : c = <<o, k, i, pg>> /\ Uses(s, k, i, pg)
      BY Zenon, <2>3, <2>5
    <3> QED BY Zenon, <2>1, <2>3, <3>1
  <2> QED BY Zenon, <2>4, <2>5
<1>3. ASSUME NEW o PROVE ClaimsOf(o, s2) = ClaimsOf(o, s)
  <2>1. \A c : c \in ClaimsOf(o, s2) <=> c \in ClaimsOf(o, s)
    BY <1>2
  <2> QED BY Zenon, <2>1
<1>4. \A n : Maps(s, n) => Maps(s2, n)
  BY Zenon, <1>1 DEF Maps
<1> QED BY Zenon, <1>1, <1>3, <1>4

\* The loops of copyuvm, and of allocuvm in exec, take the pages that they map from the

\* free list.
LEMMA PageStep ==
  ASSUME IInv, NEW p \in Slot, proc[p].state = "RUN", t[p].pc \in {"copy", "segment", "stack"},
         t[p].a * PGSIZE < t[p].hi, NEW r, r = AllocPage(t[p].new, t[p].a, freelist), r.ok,
         NEW s, s \in Space, \A o : ClaimsOf(o, s) = ClaimsOf(o, r.s), \A n : Maps(r.s, n) => Maps(s, n),
         freelist' = r.free, t' = [t EXCEPT ![p].new = s, ![p].a = t[p].a + 1], proc' = proc, panicked' = 0
  PROVE  IInv'
<1> DEFINE x == <<p, "new">>
           v == t[p].a
           l == [t[p] EXCEPT !.new = s, !.a = v + 1]
<1>1. proc[p] \in ProcRec /\ t[p] \in Locals /\ LocalsOK(proc[p], t[p]) /\ t[p].pc \notin {"grow", "dying"}
  BY Zenon, Running
<1>2. InLoop(t[p].new, t[p]) /\ t[p].new \in Space
  BY <1>1 DEF LocalsOK
<1>3. v \in Va /\ t[p].new.pte[v] = 0 /\ Maps(t[p].new, v)
  BY Zenon, <1>1, <1>2, LoopTurns
<1>4. /\ r.s \in Space /\ r.free \subseteq freelist
      /\ ClaimsOf(x, t[p].new) \subseteq ClaimsOf(x, r.s)
      /\ Distinct(ClaimsOf(x, r.s) \ ClaimsOf(x, t[p].new))
      /\ Pages(ClaimsOf(x, r.s) \ ClaimsOf(x, t[p].new)) = freelist \ r.free
      /\ Maps(r.s, v + 1)
  <2>1. freelist \in SUBSET Page
    BY Zenon, FreeArePages DEF IInv
  <2> HIDE DEF v, x
  <2>2. Gets(x, t[p].new, v, freelist, r)
    BY Zenon, <1>2, <1>3, <2>1, AllocGets DEF v
  <2> QED BY Zenon, <1>3, <2>2 DEF Gets
<1>5. t' = [t EXCEPT ![p] = l]
  BY Zenon DEF IInv, Shape
<1>6. /\ l \in Locals /\ l.new = s /\ l.a = v + 1 /\ l.lo = t[p].lo /\ l.hi = t[p].hi /\ l.pc = t[p].pc
      /\ l.child = t[p].child /\ l.prog = t[p].prog /\ l.nsz = t[p].nsz /\ l.seg = t[p].seg
  <2>1. v \in Nat /\ v + 1 \in Nat
    BY <1>1 DEF Locals
  <2> HIDE DEF v
  <2> QED BY ZenonT(30), <1>1, <2>1 DEF Locals
<1> HIDE DEF l
<1>7. InLoop(l.new, l)
  <2>1. Maps(l.new, v + 1)
    BY ZenonT(30), <1>4, <1>6
  <2> QED BY Zenon, <1>1, <1>2, <1>6, <2>1, LoopTurned
<1>8. LocalsOK(proc[p], l)
  BY <1>1, <1>6, <1>7 DEF LocalsOK
<1> DEFINE C == ClaimsOf(x, t[p].new)
           D == ClaimsOf(x, l.new)
<1>9. C \subseteq D /\ Distinct(D \ C) /\ freelist' \subseteq freelist /\ Pages(D \ C) = freelist \ freelist'
  <2>1. D = ClaimsOf(x, r.s)
    BY Zenon, <1>6
  <2> HIDE DEF D
  <2> QED BY Zenon, <1>4, <2>1
<1> QED BY Zenon, <1>1, <1>5, <1>6, <1>8, <1>9, BuildStep

\* copyuvm: every page of the parent is there, and the child gets a page of its own.
LEMMA CopyPageKeeps ==
  ASSUME IInv, NEW p \in Slot, CopyPage(p)
  PROVE  IInv'
<1> DEFINE v == t[p].a
           s == proc[p].pgdir
           r == AllocPage(t[p].new, v, freelist)
           c == Copied(r, s, v)
<1>1. proc[p].state = "RUN" /\ t[p].pc = "copy" /\ v * PGSIZE < t[p].hi /\ panicked = 0
  BY Zenon DEF CopyPage, At, More
<1>2. /\ proc[p] \in ProcRec /\ t[p] \in Locals /\ s \in Space
      /\ LocalsOK(proc[p], t[p]) /\ StateOK(proc[p], t[p])
  BY ZenonT(30), <1>1, Running
<1>3. InLoop(t[p].new, t[p]) /\ t[p].new \in Space /\ t[p].hi = proc[p].sz /\ Maps(s, PgRoundUp(proc[p].sz))
  BY <1>1, <1>2 DEF LocalsOK, StateOK
<1>4. v \in Va /\ v < PgRoundUp(t[p].hi) /\ t[p].new.pte[v] = 0
  BY Zenon, <1>1, <1>2, <1>3, LoopTurns
<1>5. s.pte[v] # 0
  BY Zenon, <1>3, <1>4 DEF Maps
<1>6. CASE ~r.ok
  <2>1. Bad(p)
    BY Zenon, <1>5, <1>6 DEF CopyPage
  <2>2. t[p].pc \notin {"user", "grow", "dying"}
    BY <1>1
  <2> QED BY Zenon, <1>1, <2>1, <2>2, BadKeeps
<1>7. CASE r.ok
  <2>1. freelist' = c.free /\ t' = [t EXCEPT ![p].new = c.s, ![p].a = v + 1] /\ proc' = proc /\ panicked' = 0
    BY Zenon, <1>1, <1>5, <1>7 DEF CopyPage
  <2>2. r.s \in Space
    <3>1. freelist \in SUBSET Page
      BY Zenon, FreeArePages DEF IInv
    <3> HIDE DEF v
    <3>2. Gets(0, t[p].new, v, freelist, r)
      BY Zenon, <1>3, <1>4, <3>1, AllocGets
    <3> QED BY Zenon, <1>7, <3>2 DEF Gets
  <2>3. r = [ok |-> r.ok, s |-> r.s, free |-> r.free]
    BY Zenon DEF AllocPage
  <2> HIDE DEF r
  <2> DEFINE G == r.s.guard \cup (s.guard \cap {v})
  <2>4. c.free = r.free /\ c.s = [r.s EXCEPT !.guard = G]
    BY <2>3 DEF Copied
  <2>5. G \in SUBSET Int
    BY Zenon, <1>2, <2>2, SpaceFields
  <2> HIDE DEF c, G
  <2>6. c.s \in Space /\ (\A o : ClaimsOf(o, c.s) = ClaimsOf(o, r.s)) /\ (\A n : Maps(r.s, n) => Maps(c.s, n))
    BY ZenonT(30), <2>2, <2>4, <2>5, GuardOnly
  <2>7. r = AllocPage(t[p].new, t[p].a, freelist) /\ freelist' = r.free
    BY Zenon, <2>1, <2>4 DEF r
  <2>8. t[p].pc \in {"copy", "segment", "stack"}
    BY <1>1
  <2> QED BY Zenon, <1>1, <1>7, <2>1, <2>6, <2>7, <2>8, PageStep
<1> QED BY Zenon, <1>6, <1>7

\* exec's loop finds no page mapped already.
LEMMA ImagePageKeeps ==
  ASSUME IInv, NEW p \in Slot, ImagePage(p)
  PROVE  IInv'
<1> DEFINE v == t[p].a
           r == AllocPage(t[p].new, v, freelist)
<1>1. proc[p].state = "RUN" /\ t[p].pc \in {"segment", "stack"} /\ v * PGSIZE < t[p].hi /\ panicked = 0
  BY Zenon DEF ImagePage, At, More
<1>2. t[p] \in Locals /\ LocalsOK(proc[p], t[p])
  BY ZenonT(30), <1>1, Running
<1>3. /\ InLoop(t[p].new, t[p]) /\ t[p].new \in Space
      /\ t[p].pc \notin {"user", "grow", "dying"} /\ t[p].pc \in {"copy", "segment", "stack"}
  BY <1>1, <1>2 DEF LocalsOK
<1>4. v \in Va /\ t[p].new.pte[v] = 0
  BY Zenon, <1>1, <1>2, <1>3, LoopTurns
<1>5. CASE ~r.ok
  <2>1. Bad(p)
    BY Zenon, <1>4, <1>5 DEF ImagePage
  <2> QED BY Zenon, <1>1, <1>3, <2>1, BadKeeps
<1>6. CASE r.ok
  <2>1. freelist' = r.free /\ t' = [t EXCEPT ![p].new = r.s, ![p].a = t[p].a + 1] /\ proc' = proc /\ panicked' = 0
    BY Zenon, <1>1, <1>4, <1>6 DEF ImagePage
  <2>2. r.s \in Space
    <3>1. freelist \in SUBSET Page
      BY Zenon, FreeArePages DEF IInv
    <3> HIDE DEF v
    <3>2. Gets(0, t[p].new, v, freelist, r)
      BY Zenon, <1>3, <1>4, <3>1, AllocGets
    <3> QED BY Zenon, <1>6, <3>2 DEF Gets
  <2>3. r = AllocPage(t[p].new, t[p].a, freelist)
    BY Zenon
  <2> HIDE DEF r
  <2> QED BY Zenon, <1>1, <1>3, <1>6, <2>1, <2>2, <2>3, PageStep
<1> QED BY Zenon, <1>5, <1>6

\* exec begins.
LEMMA ExecKeeps ==
  ASSUME IInv, NEW p \in Slot, NEW f \in Program, Exec(p, f)
  PROVE  IInv'
<1> DEFINE l == [t[p] EXCEPT !.pc = "execdir", !.prog = f]
<1>1. /\ proc[p].state = "RUN" /\ t[p].pc = "user" /\ panicked' = 0
      /\ proc' = proc /\ freelist' = freelist
  BY Zenon DEF Exec, At
<1>2. t' = [t EXCEPT ![p] = l]
  BY Zenon DEF Exec, IInv, Shape
<1>3. t[p] \in Locals /\ LocalsOK(proc[p], t[p]) /\ t[p].pc \notin {"grow", "dying"}
  <2>1. t[p] \in Locals /\ LocalsOK(proc[p], t[p])
    BY ZenonT(30), <1>1, Running
  <2> QED BY <1>1, <2>1
<1>4. t[p].new = None /\ t[p].nsz = 0 /\ t[p].child = 0
  BY <1>1, <1>3 DEF LocalsOK, Idle
<1>5. /\ l \in Locals /\ l.pc = "execdir" /\ l.prog = f /\ l.new = t[p].new /\ l.nsz = t[p].nsz
      /\ l.child = t[p].child
  BY ZenonT(30), <1>3 DEF Locals, Labels
<1> HIDE DEF l
<1>6. LocalsOK(proc[p], l)
  BY <1>4, <1>5 DEF LocalsOK, Blank
<1> QED BY Zenon, <1>1, <1>2, <1>3, <1>5, <1>6, BuildStep

\* An element of a sequence.
LEMMA ElementOf ==
  ASSUME NEW S, NEW q \in Seq(S), NEW i \in 1 .. Len(q)
  PROVE  q[i] \in S
  OBVIOUS

\* exec's next segment, or its stack.
LEMMA HeaderKeeps ==
  ASSUME IInv, NEW p \in Slot, Header(p)
  PROVE  IInv'
<1> DEFINE segs == t[p].prog.segs
           h == segs[t[p].seg]
           base == PgRoundUp(t[p].nsz) * PGSIZE
           top == base + 2 * PGSIZE
<1>1. proc[p].state = "RUN" /\ t[p].pc = "header" /\ panicked = 0
  BY Zenon DEF Header, At
<1>2. t[p] \in Locals /\ LocalsOK(proc[p], t[p])
  BY ZenonT(30), <1>1, Running
<1>3. /\ t[p].nsz \in Nat /\ t[p].nsz <= KERNBASE /\ t[p].seg \in Nat /\ t[p].seg # 0 /\ t[p].new \in Space
      /\ Maps(t[p].new, PgRoundUp(t[p].nsz)) /\ t[p].child = 0 /\ t[p].prog \in Program
      /\ t[p].pc \notin {"user", "grow", "dying"}
  BY <1>1, <1>2 DEF LocalsOK, Locals
<1>4. segs \in Seq([end : Nat, header : BOOLEAN, bytes : BOOLEAN])
  BY <1>3, ArgAssumption
<1>5. PgRoundUp(t[p].nsz) \in Nat
  BY Zenon, <1>3, RoundUp
<1>6. CASE Bad(p)
  BY Zenon, <1>1, <1>3, <1>6, BadKeeps
<1>7. CASE t[p].seg > Len(segs) /\ ~Bad(p)
  <2>1. PICK l : l = Loop(p, "stack", base, top)
    BY Zenon
  <2>2. ~(top >= KERNBASE) /\ t' = [t EXCEPT ![p] = l] /\ freelist' = freelist /\ proc' = proc /\ panicked' = 0
    BY Zenon, <1>1, <1>7, <2>1 DEF Header
  <2>3. base \in Nat /\ PgRoundUp(base) = PgRoundUp(t[p].nsz)
    BY Zenon, <1>5, RoundUpWhole
  <2>4. top \in Nat /\ base <= top /\ top <= KERNBASE
    <3> HIDE DEF base
    <3> QED BY SMTT(30), <2>2, <2>3, SizeAssumption
  <2> HIDE DEF base, top
  <2>5. /\ l \in Locals /\ l.pc = "stack" /\ l.lo = base /\ l.hi = top /\ l.a = PgRoundUp(base)
        /\ l.new = t[p].new /\ l.child = t[p].child /\ l.prog = t[p].prog
    <3>1. "stack" \in Labels
      BY DEF Labels
    <3> QED BY <1>2, <2>1, <2>3, <2>4, <3>1, LoopStarts
  <2>6. InLoop(l.new, l)
    BY SMTT(30), <1>3, <1>5, <2>3, <2>4, <2>5 DEF InLoop
  <2>7. LocalsOK(proc[p], l)
    BY <1>3, <2>4, <2>5, <2>6 DEF LocalsOK
  <2> QED BY Zenon, <1>1, <1>3, <2>2, <2>5, <2>7, BuildStep
<1>8. CASE ~(t[p].seg > Len(segs)) /\ ~Bad(p)
  <2>1. PICK l : l = Loop(p, "segment", t[p].nsz, h.end)
    BY Zenon
  <2>2. ~(h.end >= KERNBASE) /\ t' = [t EXCEPT ![p] = l] /\ freelist' = freelist /\ proc' = proc /\ panicked' = 0
    BY Zenon, <1>1, <1>8, <2>1 DEF Header
  <2>3. t[p].seg <= Len(segs) /\ h.end \in Nat
    <3> HIDE DEF segs
    <3>1. t[p].seg \in 1 .. Len(segs)
      BY <1>3, <1>4, <1>8
    <3>2. h \in [end : Nat, header : BOOLEAN, bytes : BOOLEAN]
      BY Zenon, <1>4, <3>1, ElementOf
    <3>3. t[p].seg <= Len(segs)
      BY <1>3, <1>4, <3>1
    <3> QED BY <3>2, <3>3
  <2>4. h.end <= KERNBASE
    <3> HIDE DEF h
    <3> QED BY SMTT(30), <2>2, <2>3, SizeAssumption
  <2>5. /\ l \in Locals /\ l.pc = "segment" /\ l.lo = t[p].nsz /\ l.hi = h.end /\ l.a = PgRoundUp(t[p].nsz)
        /\ l.new = t[p].new /\ l.nsz = t[p].nsz /\ l.child = t[p].child /\ l.prog = t[p].prog
        /\ l.seg = t[p].seg
    <3>1. "segment" \in Labels
      BY DEF Labels
    <3> HIDE DEF h
    <3> QED BY <1>2, <1>3, <2>1, <2>3, <3>1, LoopStarts
  <2> HIDE DEF h
  <2>6. InLoop(l.new, l)
    BY SMTT(30), <1>3, <1>5, <2>3, <2>4, <2>5 DEF InLoop
  <2>7. LocalsOK(proc[p], l)
    BY <1>3, <2>3, <2>5, <2>6 DEF LocalsOK
  <2> QED BY Zenon, <1>1, <1>3, <2>2, <2>5, <2>7, BuildStep
<1> QED BY Zenon, <1>6, <1>7, <1>8

\* A segment of exec is there.
LEMMA SegmentDoneKeeps ==
  ASSUME IInv, NEW p \in Slot, SegmentDone(p)
  PROVE  IInv'
<1>1. proc[p].state = "RUN" /\ t[p].pc = "segment" /\ panicked = 0 /\ ~(t[p].a * PGSIZE < t[p].hi)
  BY Zenon DEF SegmentDone, At, More
<1>2. t[p] \in Locals /\ LocalsOK(proc[p], t[p])
  BY ZenonT(30), <1>1, Running
<1>3. /\ InLoop(t[p].new, t[p]) /\ t[p].lo \in Nat /\ t[p].lo <= KERNBASE /\ t[p].seg \in Nat /\ t[p].new \in Space
      /\ t[p].hi \in Nat /\ t[p].a \in Nat /\ t[p].child = 0 /\ t[p].prog \in Program
      /\ t[p].pc \notin {"user", "grow", "dying"}
  BY <1>1, <1>2 DEF LocalsOK, Locals
<1>4. CASE Bad(p)
  BY Zenon, <1>1, <1>3, <1>4, BadKeeps
<1>5. CASE ~Bad(p)
  <2> DEFINE m == SegmentSize(t[p])
             l == [t[p] EXCEPT !.nsz = m, !.seg = t[p].seg + 1, !.pc = "header"]
  <2>1. freelist' = freelist /\ proc' = proc /\ panicked' = 0
    BY Zenon, <1>1, <1>5 DEF SegmentDone
  <2>2. t' = [t EXCEPT ![p] = l]
    BY Zenon, <1>5 DEF SegmentDone, IInv, Shape
  <2>3. m = IF t[p].lo <= t[p].hi THEN t[p].hi ELSE t[p].lo
    <3>1. t[p].hi < t[p].lo <=> ~(t[p].lo <= t[p].hi)
      BY <1>3
    <3> QED BY ZenonT(30), <3>1 DEF SegmentSize
  <2> HIDE DEF m
  <2>4. m \in Nat /\ m <= KERNBASE /\ Maps(t[p].new, PgRoundUp(m))
    <3>1. CASE t[p].lo <= t[p].hi
      BY Zenon, <1>1, <1>2, <1>3, <2>3, <3>1, LoopEnds
    <3>2. CASE ~(t[p].lo <= t[p].hi)
      <4>1. PgRoundUp(t[p].hi) <= PgRoundUp(t[p].lo) /\ PgRoundUp(t[p].hi) \in Nat /\ PgRoundUp(t[p].lo) \in Nat
        <5>1. t[p].hi <= t[p].lo
          BY <1>3, <3>2
        <5> QED BY ZenonT(30), <1>3, <5>1, RoundUpGrows, RoundUp
      <4>2. t[p].a = PgRoundUp(t[p].lo)
        BY <1>3, <4>1 DEF InLoop
      <4> QED BY Zenon, <1>3, <2>3, <3>2, <4>2 DEF InLoop
    <3> QED BY Zenon, <3>1, <3>2
  <2>5. /\ l \in Locals /\ l.pc = "header" /\ l.nsz = m /\ l.seg = t[p].seg + 1 /\ l.new = t[p].new
        /\ l.child = t[p].child /\ l.prog = t[p].prog
    <3>1. t[p].seg + 1 \in Nat
      BY <1>3
    <3> QED BY Zenon, <1>2, <2>4, <3>1 DEF Locals, Labels
  <2> HIDE DEF l
  <2>6. l.seg # 0
    BY SMTT(30), <1>3, <2>5
  <2>7. LocalsOK(proc[p], l)
    BY <1>3, <2>4, <2>5, <2>6 DEF LocalsOK
  <2> QED BY Zenon, <1>1, <1>3, <2>1, <2>2, <2>5, <2>7, BuildStep
<1> QED BY Zenon, <1>4, <1>5

-----------------------------------------------------------------------------
(* Spaces that change hands, or go.                                        *)

\* A space that moves from x to y is as much y's own as it was x's.
LEMMA HandOver ==
  ASSUME IInv, NEW x \in Owner, NEW y \in Owner, x # y, NEW s \in Space,
         Has(x) = ClaimsOf(x, s), Has(x)' = {}, Has(y)' = ClaimsOf(y, s),
         \A o \in Owner : o # x /\ o # y => Has(o)' = Has(o),
         freelist' = freelist \cup Pages(Has(y))
  PROVE  Owned'
<1>1. Distinct(ClaimsOf(x, s))
  BY Zenon, HeldOnce DEF IInv
<1>2. Distinct(ClaimsOf(y, s)) /\ Pages(ClaimsOf(y, s)) = Pages(ClaimsOf(x, s))
  BY Zenon, <1>1, Relabel
<1>3. Distinct(Has(y)') /\ Pages(Has(y)') = Pages(Has(x))
  BY Zenon, <1>2
<1> QED BY Zenon, <1>3, Moves DEF IInv

\* fork: the child has the space, and is as good a process as its parent.
LEMMA ForkDoneKeeps ==
  ASSUME IInv, NEW p \in Slot, ForkDone(p)
  PROVE  IInv'
<1>1. proc[p].state = "RUN" /\ t[p].pc = "copy" /\ panicked' = 0 /\ ~(t[p].a * PGSIZE < t[p].hi) /\ freelist' = freelist
  BY Zenon DEF ForkDone, At, More
<1>2. /\ proc[p] \in ProcRec /\ t[p] \in Locals /\ proc[p].pgdir \in Space /\ proc[p].kstack # 0
      /\ LocalsOK(proc[p], t[p]) /\ StateOK(proc[p], t[p])
  BY ZenonT(30), <1>1, Running
<1>3. /\ InLoop(t[p].new, t[p]) /\ t[p].lo = 0 /\ t[p].hi = proc[p].sz /\ t[p].child # 0 /\ t[p].new \in Space
      /\ proc[p].sz \in Nat /\ proc[p].sz <= KERNBASE /\ Maps(proc[p].pgdir, PgRoundUp(proc[p].sz)) /\ t[p].lo <= t[p].hi
  BY <1>1, <1>2 DEF LocalsOK, StateOK, ProcRec
<1>4. PICK c \in Slot : c = t[p].child
  BY Zenon, <1>3, ChildIs
<1>5. c # p /\ proc[c] \in ProcRec /\ proc[c].pgdir = None /\ proc[c].kstack # 0 /\ t[c] = Idle
  BY Zenon, <1>3, <1>4, ChildIs
<1> DEFINE r == [proc[c] EXCEPT !.state = "RUN", !.pgdir = t[p].new, !.sz = proc[p].sz]
<1>6. proc' = [proc EXCEPT ![c] = r] /\ t' = [t EXCEPT ![p] = Idle]
  BY Zenon, <1>4 DEF ForkDone, IInv, Shape
<1>7. /\ r \in ProcRec /\ r.state = "RUN" /\ r.pgdir = t[p].new /\ r.sz = proc[p].sz
      /\ r.kstack = proc[c].kstack
  BY Zenon, <1>3, <1>5 DEF ProcRec
<1> HIDE DEF r
<1>8. Maps(t[p].new, PgRoundUp(proc[p].sz))
  <2>1. Maps(t[p].new, PgRoundUp(t[p].hi))
    BY ZenonT(30), <1>1, <1>2, <1>3, LoopEnds
  <2> QED BY Zenon, <1>3, <2>1
<1>9. StateOK(r, t[c]) /\ LocalsOK(r, t[c])
  BY <1>3, <1>5, <1>7, <1>8, BackToUser
<1>10. StateOK(proc[p], Idle) /\ LocalsOK(proc[p], Idle)
  BY Zenon, <1>1, <1>2, <1>3, BackToUser
<1>11. Children'
  BY Zenon, <1>4, <1>6, <1>7, ChildLeaves
<1>12. Owned'
  <2> DEFINE x == <<p, "new">>
             y == <<c, "pgdir">>
  <2>1. Concerns(p, c, r, Idle)
    BY Zenon, <1>5, <1>6, <1>7, IdleIs, OtherFrame
  <2>2. x \in Owner /\ y \in Owner /\ Has(x) = ClaimsOf(x, t[p].new) /\ Has(y)' = ClaimsOf(y, r.pgdir)
    BY Zenon, <2>1 DEF Concerns
  <2>3. Has(x)' = {} /\ Has(y) = {}
    BY Zenon, <1>5, <2>1, IdleIs, NoClaims DEF Concerns
  <2>4. \A o \in Owner : o # x /\ o # y => Has(o)' = Has(o)
    BY Zenon, <1>7, <2>1 DEF Concerns
  <2>5. x # y
    OBVIOUS
  <2>6. freelist' = freelist \cup Pages(Has(y))
    <3>1. Pages(Has(y)) = {}
      BY Zenon, <2>3 DEF Pages
    <3> QED BY Zenon, <1>1, <3>1
  <2> HIDE DEF x, y
  <2>7. Has(y)' = ClaimsOf(y, t[p].new)
    BY Zenon, <1>7, <2>2
  <2> QED BY ZenonT(30), <1>3, <2>2, <2>3, <2>4, <2>5, <2>6, <2>7, HandOver
<1> QED BY ZenonT(30), <1>1, <1>5, <1>6, <1>7, <1>9, <1>10, <1>11, <1>12, IdleIs, OtherStep

\* exit changes the state only.
LEMMA ExitKeeps ==
  ASSUME IInv, NEW p \in Slot, Exit(p)
  PROVE  IInv'
<1> DEFINE r == [proc[p] EXCEPT !.state = "ZOMBIE"]
<1>1. /\ proc[p].state = "RUN" /\ t[p].pc \in {"user", "dying"} /\ panicked' = 0 /\ freelist' = freelist
      /\ proc' = [proc EXCEPT ![p] = r] /\ t' = [t EXCEPT ![p] = Idle]
  BY Zenon DEF Exit, At
<1>2. /\ proc[p] \in ProcRec /\ t[p] \in Locals /\ proc[p].pgdir \in Space /\ proc[p].kstack # 0
      /\ LocalsOK(proc[p], t[p]) /\ StateOK(proc[p], t[p])
  BY Zenon, <1>1, Running
<1>3. t[p].new = None /\ t[p].child = 0
  BY <1>1, <1>2, IdleIs DEF LocalsOK
<1>4. /\ r \in ProcRec /\ r.state = "ZOMBIE" /\ r.pgdir = proc[p].pgdir /\ r.kstack = proc[p].kstack
      /\ r.sz = proc[p].sz
  BY ZenonT(30), <1>2 DEF ProcRec
<1> HIDE DEF r
<1>5. StateOK(r, Idle) /\ LocalsOK(r, Idle)
  BY Zenon, <1>2, <1>4, IdleIs DEF StateOK, LocalsOK
<1>6. Owned'
  BY Zenon, <1>1, <1>2, <1>3, <1>4, IdleIs, LocalStep
<1> QED BY Zenon, <1>1, <1>3, <1>4, <1>5, <1>6, IdleIs, OwnStep

\* wait gives back all that the child had.
LEMMA WaitKeeps ==
  ASSUME IInv, NEW p \in Slot, NEW q \in Slot, Wait(p, q)
  PROVE  IInv'
<1> DEFINE s == proc[q].pgdir
           k == proc[q].kstack
           x == <<q, "pgdir">>
           y == <<q, "kstack">>
<1>1. /\ proc[p].state = "RUN" /\ proc[q].state = "ZOMBIE" /\ p # q
      /\ freelist' = freelist \cup ({k} \cup Freevm(s))
      /\ panicked' = IF ({k} \cup Freevm(s)) \cap freelist = {} THEN 0 ELSE 1
      /\ proc' = [proc EXCEPT ![q] = Unused] /\ t' = t
  <2>1. proc[p].state = "RUN" /\ proc[q].state = "ZOMBIE"
    BY Zenon DEF Wait, At
  <2>2. p # q
    BY <2>1
  <2> QED BY Zenon, <2>1, <2>2 DEF Wait, Kfree, IInv, Shape
<1>2. t' = [t EXCEPT ![p] = t[p]]
  BY Zenon, <1>1 DEF IInv, Shape
<1>3. t[p] \in Locals /\ LocalsOK(proc[p], t[p]) /\ StateOK(proc[p], t[p])
  BY ZenonT(30), <1>1, Running
<1>4. s \in Space /\ k # 0 /\ t[q] = Idle
  <2>1. StateOK(proc[q], t[q])
    BY Zenon DEF IInv, Good
  <2> QED BY <1>1, <2>1 DEF StateOK
<1>5. Concerns(p, q, Unused, t[p])
  BY Zenon, <1>1, <1>2, <1>3, UnusedIs, OtherFrame
<1>6. /\ x \in Owner /\ y \in Owner /\ Has(x) = ClaimsOf(x, s) /\ Pages(Has(y)) = {k} /\ Has(y)' = {}
      /\ Has(<<p, "new">>)' = Has(<<p, "new">>)
  BY Zenon, <1>4, <1>5, UnusedIs DEF Concerns
<1>7. Has(x)' = {}
  BY Zenon, <1>5, UnusedIs, NoClaims DEF Concerns
<1>8. \A o \in Owner : o # x /\ o # y => Has(o)' = Has(o)
  BY Zenon, <1>5, <1>6 DEF Concerns
<1> HIDE DEF x, y
<1>9. Pages(Has(x)) = Freevm(s)
  BY Zenon, <1>4, <1>6, FreevmFrees
<1>10. freelist' = freelist \cup Pages(Has(x) \ Has(x)') \cup Pages(Has(y) \ Has(y)')
  <2>1. Has(x) \ Has(x)' = Has(x) /\ Has(y) \ Has(y)' = Has(y)
    BY Zenon, <1>6, <1>7
  <2> QED BY Zenon, <1>1, <1>6, <1>9, <2>1
<1>11. Has(x)' \subseteq Has(x) /\ Has(y)' \subseteq Has(y) /\ Has(x) \subseteq Has(x) /\ Has(y) \subseteq Has(y)
  BY Zenon, <1>6, <1>7
<1>12. Owned'
  BY Zenon, <1>6, <1>8, <1>10, <1>11, Shrinks DEF IInv
<1>13. panicked' = 0
  <2>1. Pages(Has(x)) \cap freelist = {} /\ Pages(Has(y)) \cap freelist = {}
    BY Zenon, <1>6, <1>11, HeldNotFree DEF IInv
  <2>2. {k} \cap freelist = {} /\ Freevm(s) \cap freelist = {}
    BY Zenon, <1>6, <1>9, <2>1
  <2> QED BY Zenon, <1>1, <2>2
<1>14. Children'
  <2> SUFFICES ASSUME NEW z \in Slot, t[z].child # 0
               PROVE  proc'[t[z].child].state = "EMBRYO" /\ \A v \in Slot : t[v].child = t[z].child => v = z
    BY Zenon, <1>1 DEF Children
  <2>1. t[z].child \in Slot /\ proc[t[z].child].state = "EMBRYO" /\ \A v \in Slot : t[v].child = t[z].child => v = z
    BY Zenon, ChildIs
  <2>2. t[z].child # q
    BY <1>1, <2>1
  <2> QED BY Zenon, <1>1, <2>1, <2>2 DEF IInv, Shape
<1>15. Unused \in ProcRec /\ StateOK(Unused, t[q]) /\ LocalsOK(Unused, t[q])
  BY ZenonT(30), <1>4, UnusedIs
<1> QED BY ZenonT(30), <1>1, <1>2, <1>3, <1>12, <1>13, <1>14, <1>15, OtherStep

\* exec: the new space takes the place of the old one, which is given back.
LEMMA ExecCommitKeeps ==
  ASSUME IInv, NEW p \in Slot, ExecCommit(p)
  PROVE  IInv'
<1>1. proc[p].state = "RUN" /\ t[p].pc = "stack" /\ panicked = 0 /\ ~(t[p].a * PGSIZE < t[p].hi)
  BY Zenon DEF ExecCommit, At, More
<1>2. /\ proc[p] \in ProcRec /\ t[p] \in Locals /\ proc[p].pgdir \in Space /\ proc[p].kstack # 0
      /\ LocalsOK(proc[p], t[p]) /\ StateOK(proc[p], t[p])
  BY ZenonT(30), <1>1, Running
<1>3. /\ InLoop(t[p].new, t[p]) /\ t[p].lo <= t[p].hi /\ t[p].new \in Space /\ t[p].child = 0
      /\ t[p].pc \notin {"user", "grow", "dying"}
  BY <1>1, <1>2 DEF LocalsOK
<1>4. t[p].hi \in Nat /\ t[p].hi <= KERNBASE /\ Maps(t[p].new, PgRoundUp(t[p].hi))
  BY Zenon, <1>1, <1>2, <1>3, LoopEnds
<1>5. CASE Bad(p)
  BY Zenon, <1>1, <1>3, <1>5, BadKeeps
<1>6. CASE ~Bad(p)
  <2> DEFINE s == t[p].new
             g == t[p].hi \div PGSIZE - 2
             s2 == Clearpteu(s, g)
             r == [proc[p] EXCEPT !.pgdir = s2, !.sz = t[p].hi]
             F == Freevm(proc[p].pgdir)
             x == <<p, "new">>
             y == <<p, "pgdir">>
  <2>1. /\ proc' = [proc EXCEPT ![p] = r] /\ t' = [t EXCEPT ![p] = Idle] /\ freelist' = freelist \cup F
        /\ panicked' = IF F \cap freelist = {} THEN 0 ELSE 1
    BY Zenon, <1>1, <1>6 DEF ExecCommit, Kfree, IInv, Shape
  <2>2. g \in Int
    BY <1>4, SizeAssumption
  <2> HIDE DEF g
  <2>3. s2 \in Space /\ (\A o : ClaimsOf(o, s2) = ClaimsOf(o, s)) /\ (\A n : Maps(s, n) => Maps(s2, n))
    <3>1. s.guard \cup {g} \in SUBSET Int
      BY Zenon, <1>3, <2>2, SpaceFields
    <3>2. s2 = [s EXCEPT !.guard = s.guard \cup {g}]
      BY Zenon DEF Clearpteu
    <3> HIDE DEF s, s2
    <3>3. s \in Space
      BY Zenon, <1>3 DEF s
    <3> QED BY SMTT(30), <3>1, <3>2, <3>3, GuardOnly
  <2> HIDE DEF s2
  <2>4. /\ r \in ProcRec /\ r.state = "RUN" /\ r.pgdir = s2 /\ r.sz = t[p].hi
        /\ r.kstack = proc[p].kstack
    BY Zenon, <1>1, <1>2, <1>4, <2>3 DEF ProcRec
  <2> HIDE DEF r, F
  <2>5. StateOK(r, Idle) /\ LocalsOK(r, Idle)
    <3>1. Maps(r.pgdir, PgRoundUp(r.sz)) /\ r.sz <= KERNBASE /\ r.pgdir \in Space /\ r.kstack # 0
      BY Zenon, <1>2, <1>4, <2>3, <2>4
    <3> QED BY Zenon, <2>4, <3>1, BackToUser
  <2>6. /\ x \in Owner /\ y \in Owner /\ x # y /\ Has(y) = ClaimsOf(y, proc[p].pgdir) /\ Has(x) = ClaimsOf(x, s)
        /\ Has(y)' = ClaimsOf(y, r.pgdir) /\ Has(x)' = ClaimsOf(x, Idle.new)
        /\ \A o \in Owner : o # y /\ o # x => Has(o)' = Has(o)
    BY Zenon, <2>1, <2>4, IdleIs, OwnFrame
  <2> HIDE DEF x, y
  <2>7. Has(x)' = {} /\ Has(y)' = ClaimsOf(y, s2)
    BY Zenon, <2>4, <2>6, IdleIs, NoClaims
  <2>8. Pages(Has(y)) = F
    <3>1. Freevm(proc[p].pgdir) = Pages(ClaimsOf(y, proc[p].pgdir))
      BY Zenon, <1>2, FreevmFrees
    <3> QED BY Zenon, <2>6, <3>1 DEF F
  <2>9. Owned'
    <3>1. freelist' = freelist \cup Pages(Has(y))
      BY Zenon, <2>1, <2>8
    <3>2. s \in Space
      BY Zenon, <1>3
    <3>3. \A o \in Owner : o # x /\ o # y => Has(o)' = Has(o)
      BY Zenon, <2>6
    <3> HIDE DEF s
    <3>4. Has(y)' = ClaimsOf(y, s)
      BY Zenon, <2>3, <2>7
    <3> QED BY ZenonT(30), <2>6, <2>7, <3>1, <3>2, <3>3, <3>4, HandOver
  <2>10. panicked' = 0
    <3>1. Has(y) \subseteq Has(y)
      BY Zenon
    <3>2. Pages(Has(y)) \cap freelist = {}
      BY Zenon, <2>6, <3>1, HeldNotFree DEF IInv
    <3> QED BY Zenon, <2>1, <2>8, <3>2
  <2> QED BY ZenonT(30), <1>1, <2>1, <2>4, <2>5, <2>9, <2>10, IdleIs, OwnStep
<1> QED BY Zenon, <1>5, <1>6

-----------------------------------------------------------------------------
(* userinit, and the theorems.                                             *)

\* The space of the first process before it has its page of code.
LEMMA KernelOnly ==
  ASSUME NEW s, s = [EmptySpace(2) EXCEPT !.ktab = 3 .. 2 + KPT], NEW o
  PROVE  /\ s \in Space /\ Maps(s, 0) /\ Distinct(ClaimsOf(o, s))
         /\ \A pg : pg \in Pages(ClaimsOf(o, s)) <=> pg \in 2 .. 2 + KPT
<1>1. 2 \in Page /\ 3 .. 2 + KPT \subseteq Page /\ KPT \in Nat
  BY SizeAssumption DEF Page
<1>2. /\ s \in Space /\ s.dir = 2 /\ s.ktab = 3 .. 2 + KPT /\ s.tab = [d \in Pde |-> 0]
      /\ s.pte = [v \in Va |-> 0]
  BY SMTT(30), <1>1 DEF EmptySpace, Space
<1>3. Maps(s, 0)
  BY <1>2, UserPages DEF Maps
<1>4. \A k, i, pg : Uses(s, k, i, pg) <=>
        i = 0 /\ ((k = "dir" /\ pg = 2) \/ (k = "kernel" /\ pg \in 3 .. 2 + KPT))
  BY <1>2 DEF Uses
<1>5. \A pg : pg \in Pages(ClaimsOf(o, s)) <=> pg \in 2 .. 2 + KPT
  <2>1. ASSUME NEW pg PROVE pg \in Pages(ClaimsOf(o, s)) <=> \E k, i : Uses(s, k, i, pg)
    BY Zenon, <1>2, SpacePages
  <2>2. ASSUME NEW pg PROVE (\E k, i : Uses(s, k, i, pg)) <=> pg = 2 \/ pg \in 3 .. 2 + KPT
    <3>1. Uses(s, "dir", 0, 2) /\ (pg \in 3 .. 2 + KPT => Uses(s, "kernel", 0, pg))
      BY <1>4
    <3>2. ASSUME NEW k, NEW i, Uses(s, k, i, pg) PROVE pg = 2 \/ pg \in 3 .. 2 + KPT
      BY <1>4, <3>2
    <3> QED BY Zenon, <3>1, <3>2
  <2>3. \A pg : pg \in 2 .. 2 + KPT <=> pg = 2 \/ pg \in 3 .. 2 + KPT
    BY <1>1
  <2> QED BY Zenon, <2>1, <2>2, <2>3
<1>6. ASSUME NEW c \in ClaimsOf(o, s), NEW d \in ClaimsOf(o, s), c[4] = d[4] PROVE c = d
  <2>1. PICK k, i, pg : c = <<o, k, i, pg>> /\ c[4] = pg /\ Uses(s, k, i, pg)
    BY ZenonT(30), <1>2, ClaimParts
  <2>2. PICK l, j, qg : d = <<o, l, j, qg>> /\ d[4] = qg /\ Uses(s, l, j, qg)
    BY ZenonT(30), <1>2, ClaimParts
  <2>3. pg = qg
    BY Zenon, <1>6, <2>1, <2>2
  <2>4. i = 0 /\ j = 0 /\ k = l
    <3>1. 2 \notin 3 .. 2 + KPT
      BY <1>1
    <3>2. i = 0 /\ ((k = "dir" /\ pg = 2) \/ (k = "kernel" /\ pg \in 3 .. 2 + KPT))
      BY Zenon, <1>4, <2>1
    <3>3. j = 0 /\ ((l = "dir" /\ qg = 2) \/ (l = "kernel" /\ qg \in 3 .. 2 + KPT))
      BY Zenon, <1>4, <2>2
    <3> QED BY Zenon, <2>3, <3>1, <3>2, <3>3
  <2> QED BY <2>1, <2>2, <2>3, <2>4
<1> QED BY Zenon, <1>2, <1>3, <1>5, <1>6 DEF Distinct

\* userinit finds the pages it needs.
LEMMA FirstPages ==
  ASSUME NEW s, NEW v, NEW free, free = Page \ (1 .. 2 + KPT)
  PROVE  AllocPage(s, v, free).ok
<1>1. NPAGE \in free /\ NPAGE - 1 \in free /\ NPAGE # NPAGE - 1
  BY SizeAssumption DEF Page
<1> DEFINE more == free \ {First(free)}
<1>2. free # {} /\ more # {}
  <2>1. PICK f : f = First(free)
    BY Zenon
  <2>2. NPAGE # f \/ NPAGE - 1 # f
    BY Zenon, <1>1
  <2> QED BY Zenon, <1>1, <2>1, <2>2
<1> QED BY Zenon, <1>2 DEF AllocPage

\* userinit establishes the invariant.
LEMMA InitHolds ==
  ASSUME Init
  PROVE  IInv
<1> DEFINE s0 == [EmptySpace(2) EXCEPT !.ktab = 3 .. 2 + KPT]
           F == Page \ (1 .. 2 + KPT)
           a == AllocPage(s0, 0, F)
           x == <<1, "pgdir">>
           y == <<1, "kstack">>
           r == [state |-> "RUN", kstack |-> 1, pgdir |-> a.s, sz |-> PGSIZE]
<1>1. /\ proc = [p \in Slot |-> IF p = 1 THEN r ELSE Unused] /\ freelist = a.free
      /\ t = [p \in Slot |-> Idle] /\ panicked = 0
  BY Zenon DEF Init, Inituvm
<1>2. 1 \in Slot /\ 1 \in Page /\ PGSIZE \in Nat /\ PGSIZE <= KERNBASE /\ F \in SUBSET Page
  BY SizeAssumption DEF Slot, Page
<1>3. 0 \in Va
  BY UserPages
<1>4. a.ok
  BY Zenon, FirstPages
<1> HIDE DEF F
<1>5. s0 \in Space /\ Maps(s0, 0) /\ Distinct(ClaimsOf(x, s0)) /\ \A pg : pg \in Pages(ClaimsOf(x, s0)) <=> pg \in 2 .. 2 + KPT
  <2> HIDE DEF s0, x
  <2>1. s0 = [EmptySpace(2) EXCEPT !.ktab = 3 .. 2 + KPT]
    BY DEF s0
  <2> QED BY Zenon, <2>1, KernelOnly
<1>6. s0.pte[0] = 0
  <2>1. ~(0 < 0)
    OBVIOUS
  <2> QED BY Zenon, <1>3, <1>5, <2>1 DEF Maps
<1> HIDE DEF s0, x
<1> DEFINE C == ClaimsOf(x, s0)
           D == ClaimsOf(x, a.s)
<1>7. /\ a.s \in Space /\ a.free \subseteq F /\ C \subseteq D /\ Distinct(D \ C) /\ Pages(D \ C) = F \ a.free
      /\ Maps(a.s, 0 + 1)
  <2>1. Gets(x, s0, 0, F, a)
    BY ZenonT(30), <1>2, <1>3, <1>5, <1>6, AllocGets
  <2> HIDE DEF a
  <2> QED BY Zenon, <1>4, <1>5, <2>1 DEF Gets
<1> HIDE DEF a
<1>8. r \in ProcRec /\ r.state = "RUN" /\ r.kstack = 1 /\ r.pgdir = a.s /\ r.sz = PGSIZE
  BY <1>2, <1>7 DEF ProcRec
<1> HIDE DEF r
<1>9. Shape
  BY Zenon, <1>1, <1>8, IdleIs, UnusedIs DEF Shape
<1>10. Good
  <2>1. StateOK(r, Idle) /\ LocalsOK(r, Idle)
    <3>1. PgRoundUp(PGSIZE) = 1
      <4>1. PgRoundUp(1 * PGSIZE) = 1
        BY RoundUpWhole
      <4> QED BY <1>2, <4>1
    <3>2. Maps(a.s, 1)
      BY <1>7
    <3>3. 1 # 0
      OBVIOUS
    <3> QED BY ZenonT(30), <1>2, <1>7, <1>8, <3>1, <3>2, <3>3, BackToUser
  <2>2. \A p \in Slot : t[p] = Idle /\ (proc[p] = r \/ proc[p] = Unused)
    BY Zenon, <1>1
  <2> QED BY Zenon, <2>1, <2>2, UnusedIs DEF Good
<1>11. Children
  BY Zenon, <1>1, IdleIs DEF Children
<1>12. Owned
  <2> DEFINE k == <<y, "stack", 0, 1>>
  <2>1. Has(x) = D /\ Has(y) = {k} /\ x \in Owner /\ y \in Owner
    <3>0. 1 # 0
      OBVIOUS
    <3>1. proc[1] = r /\ 1 # 0
      BY Zenon, <1>1, <1>2, <3>0
    <3> QED BY ZenonT(30), <1>2, <1>8, <3>1, HasIs, Owners DEF HadBySlot, x
  <2>2. ASSUME NEW o \in Owner, o # x, o # y PROVE Has(o) = {}
    <3>1. PICK p \in Slot : o = <<p, "pgdir">> \/ o = <<p, "new">> \/ o = <<p, "kstack">>
      BY Zenon, Owners
    <3>2. CASE o = <<p, "new">>
      <4>1. t[p].new = None
        BY Zenon, <1>1, IdleIs
      <4> QED BY Zenon, <3>2, <4>1, HasIs, NoClaims DEF HadBySlot
    <3>3. CASE o # <<p, "new">>
      <4>1. p # 1
        BY Zenon, <2>2, <3>1, <3>3 DEF x
      <4>2. proc[p] = Unused
        BY Zenon, <1>1, <4>1
      <4>3. proc[p].pgdir = None /\ proc[p].kstack = 0
        BY Zenon, <4>2, UnusedIs
      <4> QED BY Zenon, <3>1, <3>3, <4>3, HasIs, NoClaims DEF HadBySlot
    <3> QED BY Zenon, <3>2, <3>3
  <2> HIDE DEF C, D
  <2>3. \A c : c \in Claims <=> c \in D \/ c = k
    <3> HIDE DEF k, y
    <3> QED BY Zenon, <2>1, <2>2, ClaimsAre DEF ClaimsAreHad
  <2>4. k[4] = 1
    OBVIOUS
  <2> HIDE DEF k
  <2>5. KPT \in Nat /\ NPAGE \in Nat /\ NPAGE > 2 + KPT
    BY SizeAssumption
  <2>6. \A c \in D : c \notin C => c[4] \in F /\ c[4] \notin a.free
    BY Zenon, <1>7 DEF Pages
  <2>7. \A c \in C : c[4] \in 2 .. 2 + KPT
    BY Zenon, <1>5 DEF Pages, C
  <2>8. /\ \A pg \in F : pg \notin 2 .. 2 + KPT /\ pg # 1
        /\ 1 \notin 2 .. 2 + KPT
        /\ \A pg : pg \in Page <=> pg = 1 \/ pg \in 2 .. 2 + KPT \/ pg \in F
    BY <2>5 DEF F, Page
  <2>9. Exclusive
    <3> SUFFICES ASSUME NEW c \in Claims, NEW d \in Claims
                 PROVE  c[4] \notin freelist /\ (c[4] = d[4] => c = d)
      BY Zenon DEF Exclusive
    <3>1. c[4] \notin freelist
      BY Zenon, <1>1, <1>7, <2>3, <2>4, <2>6, <2>7, <2>8
    <3>2. ASSUME c[4] = d[4] PROVE c = d
      <4>1. CASE c = k \/ d = k
        BY ZenonT(30), <2>3, <2>4, <2>6, <2>7, <2>8, <3>2, <4>1
      <4>2. CASE c \in C /\ d \in C
        BY Zenon, <1>5, <3>2, <4>2 DEF Distinct, C
      <4>3. CASE c \in D \ C /\ d \in D \ C
        BY Zenon, <1>7, <3>2, <4>3 DEF Distinct
      <4>4. CASE (c \in C /\ d \in D \ C) \/ (c \in D \ C /\ d \in C)
        BY ZenonT(30), <2>6, <2>7, <2>8, <3>2, <4>4
      <4> QED BY Zenon, <2>3, <4>1, <4>2, <4>3, <4>4
    <3> QED BY Zenon, <3>1, <3>2
  <2>10. NoLeak
    <3>1. ASSUME NEW pg, pg \in freelist \/ \E c \in Claims : pg = c[4] PROVE pg \in Page
      BY ZenonT(30), <1>1, <1>2, <1>7, <2>3, <2>4, <2>6, <2>7, <2>8, <3>1
    <3>2. ASSUME NEW pg \in Page PROVE pg \in freelist \/ \E c \in Claims : pg = c[4]
      <4>1. CASE pg = 1
        BY Zenon, <2>3, <2>4, <4>1
      <4>2. CASE pg \in 2 .. 2 + KPT
        <5>1. PICK c \in C : pg = c[4]
          BY Zenon, <1>5, <4>2 DEF Pages, C
        <5> QED BY Zenon, <1>7, <2>3, <5>1
      <4>3. CASE pg \in F /\ pg \notin a.free
        <5>1. PICK c \in D \ C : pg = c[4]
          BY Zenon, <1>7, <4>3 DEF Pages
        <5> QED BY Zenon, <2>3, <5>1
      <4> QED BY Zenon, <1>1, <2>8, <4>1, <4>2, <4>3
    <3> QED BY Zenon, <3>1, <3>2 DEF NoLeak
  <2> QED BY Zenon, <2>9, <2>10 DEF Owned
<1> QED BY Zenon, <1>9, <1>10, <1>11, <1>12 DEF IInv

\* Every step keeps the invariant.
LEMMA NextKeeps ==
  ASSUME IInv, [Next]_vars
  PROVE  IInv'
<1>1. CASE UNCHANGED vars
  <2>1. freelist' = freelist /\ proc' = proc /\ t' = t /\ panicked' = panicked
    BY Zenon, <1>1 DEF vars
  <2>2. Owned'
    BY Zenon, <2>1, Keeps DEF IInv
  <2>3. Shape' /\ Good' /\ Children'
    BY Zenon, <2>1 DEF IInv, Shape, Good, Children
  <2> QED BY Zenon, <2>2, <2>3 DEF IInv
<1>2. CASE Next
  <2>1. PICK p \in Slot :
          \/ \E d \in Delta : IF d[1] = "+" THEN Grow(p, d[2]) ELSE Shrink(p, d[2])
          \/ GrowPage(p) \/ GrowDone(p)
          \/ Fork(p) \/ Setupkvm(p) \/ SetupDone(p) \/ CopyPage(p) \/ ForkDone(p)
          \/ Exit(p) \/ \E q \in Slot : Wait(p, q)
          \/ \E f \in Program : Exec(p, f)
          \/ Header(p) \/ ImagePage(p) \/ SegmentDone(p) \/ ExecCommit(p)
    BY Zenon, <1>2 DEF Next
  <2>2. ASSUME NEW d \in Delta, IF d[1] = "+" THEN Grow(p, d[2]) ELSE Shrink(p, d[2])
        PROVE  IInv'
    BY Zenon, <2>2, GrowKeeps, ShrinkKeeps
  <2>3. GrowPage(p) \/ GrowDone(p) \/ Fork(p) => IInv'
    BY Zenon, GrowPageKeeps, GrowDoneKeeps, ForkKeeps
  <2>4. Setupkvm(p) \/ SetupDone(p) \/ CopyPage(p) \/ ForkDone(p) => IInv'
    BY Zenon, SetupkvmKeeps, SetupDoneKeeps, CopyPageKeeps, ForkDoneKeeps
  <2>5. Exit(p) \/ (\E q \in Slot : Wait(p, q)) \/ (\E f \in Program : Exec(p, f)) => IInv'
    BY Zenon, ExitKeeps, WaitKeeps, ExecKeeps
  <2>6. Header(p) \/ ImagePage(p) \/ SegmentDone(p) \/ ExecCommit(p) => IInv'
    BY Zenon, HeaderKeeps, ImagePageKeeps, SegmentDoneKeeps, ExecCommitKeeps
  <2> QED BY Zenon, <2>1, <2>2, <2>3, <2>4, <2>5, <2>6
<1> QED BY Zenon, <1>1, <1>2

\* What the invariant says of sizes.
LEMMA InvSizes ==
  ASSUME IInv
  PROVE  SizeMapped
<1> SUFFICES ASSUME NEW p \in Slot, proc[p].state = "RUN", t[p].pc \notin {"grow", "dying"}, NEW v \in Va
             PROVE  proc[p].pgdir.pte[v] # 0 <=> v * PGSIZE < proc[p].sz
  BY Zenon DEF SizeMapped
<1>1. proc[p] \in ProcRec /\ StateOK(proc[p], t[p])
  BY Zenon, Running
<1>2. proc[p].sz \in Nat /\ Maps(proc[p].pgdir, PgRoundUp(proc[p].sz))
  BY <1>1 DEF ProcRec, StateOK
<1>3. v \in Nat
  BY Zenon, UserPages
<1>4. v * PGSIZE < proc[p].sz <=> v < PgRoundUp(proc[p].sz)
  BY Zenon, <1>2, <1>3, RoundUp
<1> QED BY Zenon, <1>2, <1>4 DEF Maps

\* The invariant holds in every state of every behaviour.
THEOREM MemoryInv == Spec => []IInv
<1>1. Init => IInv
  BY InitHolds
<1>2. IInv /\ [Next]_vars => IInv'
  BY NextKeeps
<1> QED BY <1>1, <1>2, PTL DEF Spec

\* A page is free, or it is one process's for one use: kalloc never hands out a page
\* that someone has, however the calls of the processes interleave.
THEOREM PagesExclusive == Spec => []Exclusive
<1>1. IInv => Exclusive
  BY Zenon DEF IInv, Owned
<1> QED BY <1>1, MemoryInv, PTL

\* Every page is free or in use: fork, exec, sbrk and wait lose none, whichever of
\* their allocations fails.
THEOREM PagesNotLost == Spec => []NoLeak
<1>1. IInv => NoLeak
  BY Zenon DEF IInv, Owned
<1> QED BY <1>1, MemoryInv, PTL

\* A process in user space, or in fork or exec, maps the pages below its size and no
\* others.
THEOREM SizesMapped == Spec => []SizeMapped
<1>1. IInv => SizeMapped
  BY InvSizes
<1> QED BY <1>1, MemoryInv, PTL

\* The panics of vm.c and the damage of a double kfree: a page freed twice, "remap" of
\* mappages, "pte should exist" and "page not present" of copyuvm.
NoPanic == panicked = 0

\* None of them happens.
THEOREM NeverPanics == Spec => []NoPanic
<1>1. IInv => NoPanic
  BY Zenon DEF IInv, Shape, NoPanic
<1> QED BY <1>1, MemoryInv, PTL
=============================================================================

---------------------------- MODULE InodeProofs -----------------------------
(***************************************************************************)
(* Proofs about Inode, for any number of processes, names, cache entries,  *)
(* inodes and blocks.                                                      *)
(*                                                                         *)
(* The argument.  A reference in a process (an open file, or the inode a   *)
(* call works on) is counted in ref, so iput, which frees an inode only at *)
(* ref 1, frees one that nobody else uses; and as its link count, which is *)
(* exact, is 0, no name leads to it.  Until a new file has its name, only  *)
(* its creator can reach it: whoever freed the inode before is on its way  *)
(* out.  So a cache entry that is locked, or free to lock, and read agrees *)
(* with the disk.                                                          *)
(***************************************************************************)
EXTENDS Inode, TLAPS

-----------------------------------------------------------------------------
(* Counting.                                                               *)

\* S has n elements: they can be numbered from 1 to n.
HasSize(S, n) ==
  /\ n \in Nat
  /\ \E f \in [1 .. n -> S] : /\ \A x \in S : \E i \in 1 .. n : f[i] = x
                             /\ \A i, j \in 1 .. n : f[i] = f[j] => i = j

\* A and B have r elements together.
Exactly(A, B, r) == \E a, b \in Nat : HasSize(A, a) /\ HasSize(B, b) /\ r = a + b

\* A and B have at most r elements together.
AtMost(A, B, r) == \E m \in Nat : m <= r /\ Exactly(A, B, m)

\* An element more.
LEMMA OneMore ==
  ASSUME NEW S, NEW n, HasSize(S, n), NEW x, x \notin S
  PROVE  HasSize(S \cup {x}, n + 1)
<1> DEFINE All(f, m, T) == /\ \A y \in T : \E i \in 1 .. m : f[i] = y
                           /\ \A i, j \in 1 .. m : f[i] = f[j] => i = j
<1>1. PICK f \in [1 .. n -> S] : All(f, n, S)
  BY Zenon DEF HasSize
<1>2. n \in Nat
  BY Zenon DEF HasSize
<1> DEFINE g == [i \in 1 .. n + 1 |-> IF i <= n THEN f[i] ELSE x]
<1>3. g \in [1 .. n + 1 -> S \cup {x}]
  BY <1>2
<1>4. \A i \in 1 .. n : g[i] = f[i] /\ g[i] \in S
  BY <1>2
<1>5. g[n + 1] = x /\ n + 1 \in 1 .. n + 1
  BY <1>2
<1> HIDE DEF g
<1>6. \A y \in S \cup {x} : \E i \in 1 .. n + 1 : g[i] = y
  BY <1>1, <1>2, <1>4, <1>5
<1>7. \A i \in 1 .. n + 1 : i \in 1 .. n \/ i = n + 1
  BY <1>2
<1>8. \A i, j \in 1 .. n + 1 : g[i] = g[j] => i = j
  BY Zenon, <1>1, <1>4, <1>5, <1>7
<1>9. n + 1 \in Nat
  BY <1>2
<1> QED BY <1>3, <1>6, <1>8, <1>9, Zenon DEF HasSize

\* An element less; it was the last one if there was one.
LEMMA OneLess ==
  ASSUME NEW S, NEW n, HasSize(S, n), NEW x \in S
  PROVE  HasSize(S \ {x}, n - 1) /\ (n = 1 <=> S \ {x} = {})
<1>1. n \in Nat
  BY Zenon DEF HasSize
<1>2. PICK f \in [1 .. n -> S] : /\ \A y \in S : \E i \in 1 .. n : f[i] = y
                                 /\ \A i, j \in 1 .. n : f[i] = f[j] => i = j
  BY Zenon DEF HasSize
<1>3. PICK k \in 1 .. n : f[k] = x
  BY Zenon, <1>2
<1> DEFINE g == [i \in 1 .. n - 1 |-> IF i = k THEN f[n] ELSE f[i]]
<1>4. n - 1 \in Nat /\ n \in 1 .. n /\ \A i \in 1 .. n - 1 : i \in 1 .. n /\ i # n
  BY <1>1, <1>3
<1>5. \A i \in 1 .. n - 1 : g[i] = (IF i = k THEN f[n] ELSE f[i]) /\ g[i] \in S /\ g[i] # x
  BY Zenon, <1>2, <1>3, <1>4
<1>6. g \in [1 .. n - 1 -> S \ {x}]
  BY Zenon, <1>5
<1>7. ASSUME NEW y \in S \ {x} PROVE \E i \in 1 .. n - 1 : g[i] = y
  <2>1. PICK i \in 1 .. n : f[i] = y
    BY Zenon, <1>2
  <2>2. i # k
    BY Zenon, <1>3, <2>1
  <2>3. CASE i = n
    <3>1. k \in 1 .. n - 1
      BY <1>1, <1>3, <2>2, <2>3
    <3> QED BY Zenon, <1>5, <2>1, <2>3, <3>1
  <2>4. CASE i # n
    <3>1. i \in 1 .. n - 1
      BY <1>1, <2>4
    <3> QED BY Zenon, <1>5, <2>1, <2>2, <3>1
  <2> QED BY Zenon, <2>3, <2>4
<1>8. ASSUME NEW i \in 1 .. n - 1, NEW j \in 1 .. n - 1, g[i] = g[j] PROVE i = j
  <2> HIDE DEF g
  <2> QED BY <1>2, <1>4, <1>5, <1>8
<1> HIDE DEF g
<1>9. HasSize(S \ {x}, n - 1)
  BY <1>4, <1>6, <1>7, <1>8, Zenon DEF HasSize
<1>10. n = 1 => S \ {x} = {}
  BY <1>2, <1>3
<1>11. ASSUME S \ {x} = {} PROVE n = 1
  <2>1. f[1] = f[n]
    BY <1>1, <1>3, <1>11
  <2> QED BY <1>1, <1>2, <1>3, <2>1
<1> QED BY Zenon, <1>9, <1>10, <1>11

\* A set without elements.
LEMMA NoneLeft ==
  ASSUME NEW S
  PROVE  HasSize(S, 0) <=> S = {}
<1>1. ASSUME HasSize(S, 0) PROVE S = {}
  BY <1>1 DEF HasSize
<1>2. ASSUME S = {} PROVE HasSize(S, 0)
  <2> DEFINE f == [i \in 1 .. 0 |-> i]
  <2>1. f \in [1 .. 0 -> S] /\ 1 .. 0 = {} /\ 0 \in Nat
    OBVIOUS
  <2> HIDE DEF f
  <2> QED BY <1>2, <2>1, Zenon DEF HasSize
<1> QED BY Zenon, <1>1, <1>2

\* What it means for two sets together.
LEMMA Pairs ==
  ASSUME NEW A, NEW B, NEW r, Exactly(A, B, r)
  PROVE  /\ r \in Nat
         /\ Exactly(B, A, r)
         /\ r = 0 => A = {} /\ B = {}
         /\ \A x : x \notin A => Exactly(A \cup {x}, B, r + 1)
         /\ \A x \in A : r > 0 /\ Exactly(A \ {x}, B, r - 1)
<1>1. PICK a \in Nat, b \in Nat : HasSize(A, a) /\ HasSize(B, b) /\ r = a + b
  BY Zenon DEF Exactly
<1>2. r \in Nat /\ r = b + a
  BY <1>1
<1>3. Exactly(B, A, r)
  BY Zenon, <1>1, <1>2 DEF Exactly
<1>4. ASSUME r = 0 PROVE A = {} /\ B = {}
  <2>1. a = 0 /\ b = 0
    BY <1>1, <1>4
  <2> QED BY Zenon, <1>1, <2>1, NoneLeft
<1>5. ASSUME NEW x, x \notin A PROVE Exactly(A \cup {x}, B, r + 1)
  <2>1. HasSize(A \cup {x}, a + 1)
    BY Zenon, <1>1, <1>5, OneMore
  <2>2. a + 1 \in Nat /\ r + 1 = (a + 1) + b
    BY <1>1
  <2> QED BY Zenon, <1>1, <2>1, <2>2 DEF Exactly
<1>6. ASSUME NEW x \in A PROVE r > 0 /\ Exactly(A \ {x}, B, r - 1)
  <2>1. HasSize(A \ {x}, a - 1)
    BY <1>1, OneLess, Zenon
  <2>2. a - 1 \in Nat
    BY Zenon, <2>1 DEF HasSize
  <2>3. r > 0 /\ r - 1 = (a - 1) + b
    BY <1>1, <2>2
  <2> QED BY <1>1, <2>1, <2>2, <2>3, Zenon DEF Exactly
<1> QED BY Zenon, <1>2, <1>3, <1>4, <1>5, <1>6

\* The same with an upper bound.
LEMMA Bounds ==
  ASSUME NEW A, NEW B, NEW r \in Nat, AtMost(A, B, r)
  PROVE  /\ AtMost(B, A, r)
         /\ AtMost(A, B, r + 1)
         /\ r = 0 => A = {} /\ B = {}
         /\ \A x : x \notin A => AtMost(A \cup {x}, B, r + 1)
         /\ \A x \in A : r > 0 /\ AtMost(A \ {x}, B, r - 1)
         /\ \A x \in A : r = 1 => A = {x} /\ B = {}
<1>1. PICK m \in Nat : m <= r /\ Exactly(A, B, m)
  BY Zenon DEF AtMost
<1>2. AtMost(B, A, r)
  BY Zenon, <1>1, Pairs DEF AtMost
<1>3. AtMost(A, B, r + 1)
  <2>1. m <= r + 1
    BY <1>1
  <2> QED BY Zenon, <1>1, <2>1 DEF AtMost
<1>4. ASSUME r = 0 PROVE A = {} /\ B = {}
  <2>1. m = 0
    BY <1>1, <1>4
  <2> QED BY Zenon, <1>1, <2>1, Pairs
<1>5. ASSUME NEW x, x \notin A PROVE AtMost(A \cup {x}, B, r + 1)
  <2>1. Exactly(A \cup {x}, B, m + 1)
    BY Zenon, <1>1, <1>5, Pairs
  <2>2. m + 1 \in Nat /\ m + 1 <= r + 1
    BY <1>1
  <2> QED BY Zenon, <2>1, <2>2 DEF AtMost
<1>6. ASSUME NEW x \in A PROVE r > 0 /\ AtMost(A \ {x}, B, r - 1)
  <2>1. m > 0 /\ Exactly(A \ {x}, B, m - 1)
    BY Zenon, <1>1, Pairs
  <2>2. m - 1 \in Nat /\ m - 1 <= r - 1 /\ r > 0
    BY <1>1, <2>1
  <2> QED BY Zenon, <2>1, <2>2 DEF AtMost
<1>7. ASSUME NEW x \in A, r = 1 PROVE A = {x} /\ B = {}
  <2>1. m > 0 /\ Exactly(A \ {x}, B, m - 1)
    BY <1>1, Pairs
  <2>2. m - 1 = 0
    BY <1>1, <1>7, <2>1
  <2>3. A \ {x} = {} /\ B = {}
    BY Zenon, <2>1, <2>2, Pairs
  <2> QED BY Zenon, <2>3
<1> QED BY Zenon, <1>2, <1>3, <1>4, <1>5, <1>6, <1>7

\* An element less lowers the bound.
LEMMA OneGone ==
  ASSUME NEW A, NEW B, NEW r \in Nat, AtMost(A, B, r), NEW x \in A
  PROVE  AtMost(A \ {x}, B, r - 1)
BY Bounds

\* The two sets change places.
LEMMA Swap ==
  ASSUME NEW A, NEW B, NEW r \in Nat, AtMost(A, B, r)
  PROVE  AtMost(B, A, r)
BY Zenon, Bounds

-----------------------------------------------------------------------------
(* The inductive invariant.                                                *)

Labels == {"user", "open", "iget", "fill", "inc", "enter", "dec", "unlink", "chmod", "setmode",
           "chown", "denied", "iput", "free", "release", "drop"}

Dinode == [type : {0, 1}, nlink : Nat, mode : Mode \cup {0, DefaultMode}, uid : Owner \cup {0},
           addr : Block \cup {0}]

Entry == [inum : Inum \cup {0}, ref : Nat, valid : {0, 1}, d : Dinode]

Types ==
  /\ disk \in [Inum -> Dinode]
  /\ dir \in [Name -> Inum \cup {0}]
  /\ used \subseteq Block
  /\ icache \in [Slot -> Entry]
  /\ lock \in [Slot -> Proc \cup {None}] /\ dlock \in Proc \cup {None}
  /\ fd \in [Proc -> Slot \cup {0}] /\ fdnum \in [Proc -> Inum \cup {0}]
  /\ pc \in [Proc -> Labels] /\ ip \in [Proc -> Slot \cup {0}]
  /\ arg = [p \in Proc |-> arg[p]]

\* Where a process is tells whether it has an inode and which locks it holds.
Homes ==
  /\ \A p \in Proc : ip[p] = 0 <=> pc[p] \in {"user", "iget"}
  /\ \A p \in Proc : pc[p] \in {"free", "release"} => lock[ip[p]] = p
  /\ \A s \in Slot : lock[s] # None => pc[lock[s]] \in {"free", "release"} /\ ip[lock[s]] = s
  /\ \A p \in Proc : pc[p] \in {"iget", "fill", "unlink"} => dlock = p

\* ref counts at least the references of processes (chmod and chown keep some).
Fds(s) == {p \in Proc : fd[p] = s}
Ips(s) == {p \in Proc : ip[p] = s}
RefsCounted == \A s \in Slot : AtMost(Fds(s), Ips(s), icache[s].ref)

\* An inode has one entry in the cache.
OneEntry ==
  /\ \A s \in Slot : icache[s].ref > 0 => icache[s].inum # 0
  /\ \A s, u \in Slot :
       icache[s].ref > 0 /\ icache[u].ref > 0 /\ icache[s].inum = icache[u].inum => s = u

\* A reference is to an inode that is allocated, until the process has freed it.
Opened == \A p \in Proc : fd[p] # 0 => fdnum[p] = icache[fd[p]].inum /\ disk[fdnum[p]].type # 0
Live == \A p \in Proc : ip[p] # 0 /\ pc[p] \notin {"release", "drop"} =>
          disk[icache[ip[p]].inum].type # 0

\* nlink counts the names and the links that are being made.
Names(i) == {n \in Name : dir[n] = i}
Entering(i) == {p \in Proc : pc[p] \in {"enter", "dec"} /\ icache[ip[p]].inum = i}
LinksExact == \A i \in Inum : Exactly(Names(i), Entering(i), disk[i].nlink)

FreeInodes == \A i \in Inum : disk[i].type = 0 => disk[i].nlink = 0 /\ disk[i].addr = 0

\* The entry s has been read, and nobody is between freeing its inode and saying so.
Settled(s) ==
  icache[s].ref > 0 /\ icache[s].valid = 1 /\ (lock[s] # None => pc[lock[s]] = "free")

\* d and e are the same inode but for its mode and owner.
Same(d, e) == d.type = e.type /\ d.nlink = e.nlink /\ d.addr = e.addr

Coherent ==
  \A s \in Slot : Settled(s) =>
    Same(icache[s].d, disk[icache[s].inum]) /\ disk[icache[s].inum].type # 0

\* Whoever frees an inode has the only reference.
Freeing ==
  \A p \in Proc : pc[p] = "free" =>
    icache[ip[p]].valid = 1 /\ icache[ip[p]].ref = 1 /\ icache[ip[p]].d.nlink = 0

\* p makes inode i for the name n; nobody else has it, but for whoever freed it.
New(p, n, i) ==
  /\ n \in Name /\ i \in Inum /\ dir[n] = 0
  /\ disk[i].type # 0 /\ disk[i].nlink = 0 /\ disk[i].addr = 0
  /\ \A q \in Proc : fd[q] # 0 => fdnum[q] # i
  /\ \A q \in Proc \ {p} :
       ip[q] # 0 /\ icache[ip[q]].inum = i => pc[q] \in {"release", "drop"}
  /\ pc[p] = "fill" => icache[ip[p]].inum = i
Fresh == \A p \in Proc : pc[p] \in {"iget", "fill"} => New(p, arg[p][1], arg[p][2])

\* The arguments of the calls.
Fits(p) ==
  /\ pc[p] = "unlink" => arg[p][1] \in Name /\ dir[arg[p][1]] = icache[ip[p]].inum
  /\ pc[p] \in {"inc", "enter"} /\ panicked = "no" => arg[p][1] \in Name
  /\ pc[p] \in {"chmod", "setmode"} => arg[p][1] \in Mode
  /\ pc[p] = "chown" => arg[p][1] \in Owner
Args == \A p \in Proc : Fits(p)

IInv ==
  /\ Types /\ Homes /\ RefsCounted /\ OneEntry /\ Opened /\ Live /\ LinksExact
  /\ FreeInodes /\ Coherent /\ Freeing /\ Fresh /\ Args /\ BlocksOwned

-----------------------------------------------------------------------------
(* What the invariant says.                                                *)

\* 0 is no entry, no inode and no block.
LEMMA Zero == 0 \notin Slot /\ 0 \notin Inum /\ 0 \notin Block /\ None \notin Proc
BY InodeAssumption DEF Slot, Inum, Block

\* Who has a reference is counted; at ref 1 nobody else has one.
LEMMA Held ==
  ASSUME Types, RefsCounted
  PROVE  /\ \A p \in Proc : fd[p] # 0 => icache[fd[p]].ref > 0
         /\ \A p \in Proc : ip[p] # 0 => icache[ip[p]].ref > 0
         /\ \A p, q \in Proc : ip[p] # 0 /\ icache[ip[p]].ref = 1 =>
              fd[q] # ip[p] /\ (ip[q] = ip[p] => q = p)
<1>1. \A s \in Slot : icache[s].ref \in Nat /\ AtMost(Fds(s), Ips(s), icache[s].ref)
                      /\ AtMost(Ips(s), Fds(s), icache[s].ref)
  <2>1. \A s \in Slot : icache[s].ref \in Nat /\ AtMost(Fds(s), Ips(s), icache[s].ref)
    BY Zenon DEF Types, RefsCounted, Entry
  <2> QED BY Zenon, <2>1, Bounds
<1>2. ASSUME NEW p \in Proc, fd[p] # 0 PROVE icache[fd[p]].ref > 0
  <2>1. fd[p] \in Slot /\ p \in Fds(fd[p])
    BY Zenon, <1>2 DEF Types, Fds
  <2> QED BY <1>1, <2>1, Bounds
<1>3. ASSUME NEW p \in Proc, ip[p] # 0 PROVE ip[p] \in Slot /\ p \in Ips(ip[p])
  BY Zenon, <1>3 DEF Types, Ips
<1>4. ASSUME NEW p \in Proc, ip[p] # 0 PROVE icache[ip[p]].ref > 0
  BY <1>1, <1>3, <1>4, Bounds
<1>5. ASSUME NEW p \in Proc, ip[p] # 0, icache[ip[p]].ref = 1, NEW q \in Proc
      PROVE  fd[q] # ip[p] /\ (ip[q] = ip[p] => q = p)
  <2>1. Ips(ip[p]) = {p} /\ Fds(ip[p]) = {}
    BY <1>1, <1>3, <1>5, Bounds
  <2> QED BY Zenon, <2>1 DEF Fds, Ips
<1> QED BY Zenon, <1>2, <1>4, <1>5

\* An inode with a name, or with a link that is being made, is allocated.
LEMMA Linked ==
  ASSUME Types, LinksExact, FreeInodes
  PROVE  /\ \A n \in Name : dir[n] # 0 =>
              dir[n] \in Inum /\ disk[dir[n]].nlink > 0 /\ disk[dir[n]].type # 0
         /\ \A p \in Proc, i \in Inum :
              pc[p] \in {"enter", "dec"} /\ icache[ip[p]].inum = i => disk[i].nlink > 0
<1>1. \A i \in Inum : /\ Exactly(Names(i), Entering(i), disk[i].nlink)
                      /\ Exactly(Entering(i), Names(i), disk[i].nlink)
  BY Zenon, Pairs DEF LinksExact
<1>2. ASSUME NEW n \in Name, dir[n] # 0
      PROVE  dir[n] \in Inum /\ disk[dir[n]].nlink > 0
  <2>1. dir[n] \in Inum /\ n \in Names(dir[n])
    BY Zenon, <1>2 DEF Types, Names
  <2> QED BY Zenon, <1>1, <2>1, Pairs
<1>3. ASSUME NEW p \in Proc, NEW i \in Inum, pc[p] \in {"enter", "dec"}, icache[ip[p]].inum = i
      PROVE  disk[i].nlink > 0
  <2>1. p \in Entering(i)
    BY Zenon, <1>3 DEF Entering
  <2> QED BY Zenon, <1>1, <2>1, Pairs
<1>4. \A i \in Inum : disk[i].nlink > 0 => disk[i].type # 0
  BY DEF FreeInodes
<1> QED BY Zenon, <1>2, <1>3, <1>4

\* ilock finds what is on disk.
LEMMA IlockedIs ==
  ASSUME Types, OneEntry, Coherent, NEW s \in Slot, icache[s].ref > 0, lock[s] = None
  PROVE  /\ icache[s].inum \in Inum
         /\ Ilocked(s) \in Dinode /\ Same(Ilocked(s), disk[icache[s].inum])
<1>1. icache[s] \in Entry /\ icache[s].inum # 0
  BY Zenon DEF Types, OneEntry
<1>2. icache[s].inum \in Inum /\ icache[s].d \in Dinode /\ disk[icache[s].inum] \in Dinode
  BY Zenon, <1>1 DEF Types, Entry
<1> QED BY Zenon, <1>2 DEF Ilocked, Coherent, Settled, Same

\* Who has an entry locked.
LEMMA Locker ==
  ASSUME IInv, NEW u \in Slot, lock[u] # None
  PROVE  lock[u] \in Proc /\ pc[lock[u]] \in {"free", "release"} /\ ip[lock[u]] = u
<1>1. lock[u] \in Proc \cup {None}
  BY Zenon DEF IInv, Types
<1> QED BY Zenon, <1>1 DEF IInv, Homes

-----------------------------------------------------------------------------
(* The beginning, and steps that change no inode.                          *)

\* The invariant holds in the beginning.
LEMMA InitHolds == Init => IInv
<1> SUFFICES ASSUME Init PROVE IInv
  BY Zenon
<1> USE DEF Init
<1>1. NoInode \in Dinode
  BY Zenon DEF NoInode, Dinode
<1>2. Types
  BY Zenon, <1>1 DEF Types, Entry, Labels
<1>3. Homes /\ Opened /\ Live /\ Freeing /\ Fresh /\ Args
  BY Zenon DEF Homes, Opened, Live, Freeing, Fresh, Args, Fits
<1>4. OneEntry /\ Coherent
  BY DEF OneEntry, Coherent, Settled
<1>5. FreeInodes /\ BlocksOwned
  BY Zenon DEF FreeInodes, BlocksOwned, NoInode
<1>6. Exactly({}, {}, 0)
  BY NoneLeft DEF Exactly
<1>7. RefsCounted
  <2> SUFFICES ASSUME NEW s \in Slot PROVE AtMost(Fds(s), Ips(s), icache[s].ref)
    BY Zenon DEF RefsCounted
  <2>1. Fds(s) = {} /\ Ips(s) = {} /\ icache[s].ref = 0
    BY Zenon, Zero DEF Fds, Ips
  <2> QED BY <1>6, <2>1 DEF AtMost
<1>8. LinksExact
  <2> SUFFICES ASSUME NEW i \in Inum PROVE Exactly(Names(i), Entering(i), disk[i].nlink)
    BY Zenon DEF LinksExact
  <2>1. Names(i) = {} /\ Entering(i) = {} /\ disk[i].nlink = 0
    BY Zenon, Zero DEF Names, Entering, NoInode
  <2> QED BY Zenon, <1>6, <2>1
<1> QED BY Zenon, <1>2, <1>3, <1>4, <1>5, <1>7, <1>8 DEF IInv

\* The kernel stops, or nothing happens.
LEMMA StopKeeps ==
  ASSUME IInv, UNCHANGED <<disk, dir, used, icache, lock, dlock, fd, fdnum, pc, ip>>,
         arg' = [p \in Proc |-> arg'[p]], panicked' = "no" => UNCHANGED arg /\ panicked = "no",
         \A p \in Proc : pc[p] \in {"iget", "fill", "unlink", "chmod", "setmode", "chown"} =>
           arg'[p] = arg[p]
  PROVE  IInv'
<1>1. Types' /\ Homes' /\ OneEntry'
  BY Zenon DEF IInv, Types, Homes, OneEntry
<1>2. Opened' /\ Live' /\ FreeInodes' /\ Freeing' /\ BlocksOwned'
  BY ZenonT(30) DEF IInv, Opened, Live, FreeInodes, Freeing, BlocksOwned
<1>3. RefsCounted' /\ LinksExact'
  BY Zenon DEF IInv, RefsCounted, Fds, Ips, LinksExact, Names, Entering
<1>4. Coherent'
  BY Zenon DEF IInv, Coherent, Settled
<1>5. Fresh'
  BY DEF IInv, Fresh, New
<1>6. Args'
  BY ZenonT(30) DEF IInv, Args, Fits
<1> QED BY Zenon, <1>1, <1>2, <1>3, <1>4, <1>5, <1>6 DEF IInv

\* What a reference of p leads to.
LEMMA Referenced ==
  ASSUME IInv, NEW p \in Proc, NEW s, s # 0,
         s = fd[p] \/ (s = ip[p] /\ pc[p] \notin {"release", "drop"})
  PROVE  /\ s \in Slot /\ icache[s] \in Entry /\ icache[s].ref > 0
         /\ icache[s].inum \in Inum /\ disk[icache[s].inum].type # 0
<1>1. s \in Slot /\ icache[s] \in Entry
  BY DEF IInv, Types
<1>2. icache[s].ref > 0
  BY Held DEF IInv
<1>3. icache[s].inum \in Inum
  BY Zenon, <1>1, <1>2 DEF IInv, OneEntry, Types, Entry
<1>4. disk[icache[s].inum].type # 0
  BY Zenon DEF IInv, Opened, Live
<1> QED BY Zenon, <1>1, <1>2, <1>3, <1>4

-----------------------------------------------------------------------------
(* A process works on an entry s that it has a reference to.               *)

\* The other processes stay where they are.
Others(p) ==
  \A q \in Proc \ {p} :
    pc'[q] = pc[q] /\ ip'[q] = ip[q] /\ fd'[q] = fd[q] /\ fdnum'[q] = fdnum[q] /\ arg'[q] = arg[q]

\* The references stay where they are, too.
SameEntries ==
  \A u \in Slot : icache'[u].inum = icache[u].inum /\ icache'[u].ref = icache[u].ref

\* p, with a reference to s, changes nothing, or the inode s while it is not locked, and
\* then goes on, with this reference or the other one it has.  A process that changes
\* the directory has it locked or waited until it was not locked.
Work(p, s) ==
  /\ Others(p) /\ SameEntries /\ lock' = lock
  /\ s # 0 /\ s \in {fd[p], ip[p]}
  /\ pc[p] \notin {"free", "release", "drop"}
  /\ pc'[p] \notin {"free", "release", "iget", "fill", "unlink"}
  /\ pc'[p] = "user" <=> ip'[p] = 0
  /\ dlock' = dlock \/ dlock = p
  /\ dir' = dir \/ dlock \in {p, None}
  /\ ip'[p] \in {0, ip[p], fd[p]}
  /\ fd'[p] # 0 => fd'[p] \in {fd[p], ip[p]} /\ fdnum'[p] = icache[fd'[p]].inum
  /\ \A u \in Slot \ {s} : icache'[u] = icache[u]
  /\ \A i \in Inum \ {icache[s].inum} : disk'[i] = disk[i]
  /\ disk'[icache[s].inum].type = disk[icache[s].inum].type
  /\ \/ icache'[s] = icache[s] /\ disk' = disk
     \/ lock[s] = None /\ Same(icache'[s].d, disk'[icache[s].inum])
  /\ panicked = "no" /\ Fits(p)'

\* Such a step keeps what is not about the number of references, links and blocks.
LEMMA WorkKeeps ==
  ASSUME IInv, NEW p \in Proc, NEW s, Work(p, s), Types'
  PROVE  Homes' /\ OneEntry' /\ Opened' /\ Live' /\ FreeInodes' /\ Coherent' /\ Freeing' /\ Fresh' /\ Args'
<1> DEFINE j == icache[s].inum
<1>a. \A q \in Proc : q # p => /\ pc'[q] = pc[q] /\ ip'[q] = ip[q] /\ fd'[q] = fd[q]
                               /\ fdnum'[q] = fdnum[q] /\ arg'[q] = arg[q]
  BY Zenon DEF Work, Others
<1>b. \A u \in Slot : icache'[u].inum = icache[u].inum /\ icache'[u].ref = icache[u].ref
  BY Zenon DEF Work, SameEntries
<1>c. /\ pc[p] \notin {"free", "release", "drop"}
      /\ pc'[p] \notin {"free", "release", "iget", "fill", "unlink"}
      /\ pc'[p] = "user" <=> ip'[p] = 0
      /\ lock' = lock
      /\ dlock' = dlock \/ dlock = p
      /\ dir' = dir \/ dlock \in {p, None}
  BY Zenon DEF Work
<1>d. /\ s # 0 /\ s \in {fd[p], ip[p]} /\ ip'[p] \in {0, ip[p], fd[p]}
      /\ fd'[p] # 0 => fd'[p] \in {fd[p], ip[p]} /\ fdnum'[p] = icache[fd'[p]].inum
  BY Zenon DEF Work
<1>e. /\ \A u \in Slot : u # s => icache'[u] = icache[u]
      /\ \A i \in Inum : i # j => disk'[i] = disk[i]
      /\ disk'[j].type = disk[j].type
      /\ \/ icache'[s] = icache[s] /\ disk' = disk
         \/ lock[s] = None /\ Same(icache'[s].d, disk'[j])
  BY Zenon DEF Work
<1>f. \A u \in Slot : lock[u] # None =>
        lock[u] \in Proc /\ pc[lock[u]] \in {"free", "release"} /\ ip[lock[u]] = u
  BY Zenon, Locker
<1>1. s \in Slot /\ icache[s].ref > 0 /\ j \in Inum /\ disk[j].type # 0
  BY Zenon, <1>c, <1>d, Referenced
<1>2. \A q \in Proc : /\ pc[q] \in {"iget", "fill", "unlink"} => dlock = q
                      /\ ip[q] = 0 <=> pc[q] \in {"user", "iget"}
                      /\ pc[q] \in {"free", "release"} => lock[ip[q]] = q
  BY Zenon DEF IInv, Homes
<1>3. \A q \in Proc : /\ fd[q] # 0 => fd[q] \in Slot /\ icache[fd[q]].ref > 0 /\ icache[fd[q]].inum \in Inum
                      /\ ip[q] # 0 => ip[q] \in Slot /\ icache[ip[q]].ref > 0 /\ icache[ip[q]].inum \in Inum
  BY Held DEF IInv, Types, Entry, OneEntry
<1>4. Homes'
  <2>1. \A q \in Proc : ip'[q] = 0 <=> pc'[q] \in {"user", "iget"}
    BY Zenon, <1>2, <1>a, <1>c
  <2>2. \A q \in Proc : pc'[q] \in {"free", "release"} => lock'[ip'[q]] = q
    BY Zenon, <1>2, <1>a, <1>c
  <2>3. \A u \in Slot : lock'[u] # None => pc'[lock'[u]] \in {"free", "release"} /\ ip'[lock'[u]] = u
    BY ZenonT(30), <1>a, <1>c, <1>f
  <2>4. \A q \in Proc : pc'[q] \in {"iget", "fill", "unlink"} => dlock' = q
    BY Zenon, <1>2, <1>a, <1>c
  <2> QED BY Zenon, <2>1, <2>2, <2>3, <2>4 DEF Homes
<1>5. OneEntry'
  BY Zenon, <1>b DEF IInv, OneEntry
<1>6. \A i \in Inum : disk'[i].type = disk[i].type
  BY Zenon, <1>e
<1>7. Opened'
  <2> SUFFICES ASSUME NEW q \in Proc, fd'[q] # 0
               PROVE  fdnum'[q] = icache'[fd'[q]].inum /\ disk'[fdnum'[q]].type # 0
    BY Zenon DEF Opened
  <2>1. fd'[q] \in Slot /\ fdnum'[q] = icache[fd'[q]].inum /\ fdnum'[q] \in Inum /\ disk[fdnum'[q]].type # 0
    <3>1. CASE q = p
      BY Zenon, <1>c, <1>d, <3>1, Referenced
    <3>2. CASE q # p
      BY Zenon, <1>a, <1>3, <3>2 DEF IInv, Opened
    <3> QED BY Zenon, <3>1, <3>2
  <2> QED BY Zenon, <1>b, <1>6, <2>1
<1>8. Live'
  <2> SUFFICES ASSUME NEW q \in Proc, ip'[q] # 0, pc'[q] \notin {"release", "drop"}
               PROVE  disk'[icache'[ip'[q]].inum].type # 0
    BY Zenon DEF Live
  <2>1. ip'[q] \in Slot /\ icache[ip'[q]].inum \in Inum /\ disk[icache[ip'[q]].inum].type # 0
    <3>1. CASE q = p
      BY Zenon, <1>c, <1>d, <3>1, Referenced
    <3>2. CASE q # p
      BY Zenon, <1>a, <1>3, <3>2 DEF IInv, Live
    <3> QED BY Zenon, <3>1, <3>2
  <2> QED BY Zenon, <1>b, <1>6, <2>1
<1>9. FreeInodes'
  BY Zenon, <1>1, <1>6, <1>e DEF IInv, FreeInodes
<1>10. Coherent'
  <2> SUFFICES ASSUME NEW u \in Slot, Settled(u)'
               PROVE  Same(icache'[u].d, disk'[icache'[u].inum]) /\ disk'[icache'[u].inum].type # 0
    BY Zenon DEF Coherent
  <2>1. icache[u].ref > 0 /\ icache'[u].inum = icache[u].inum /\ icache[u].inum \in Inum
    BY <1>b DEF Settled, IInv, Types, Entry, OneEntry
  <2>2. CASE u = s /\ lock[s] = None /\ Same(icache'[s].d, disk'[j])
    BY Zenon, <1>1, <1>6, <2>1, <2>2
  <2>3. CASE icache'[u] = icache[u] /\ disk'[icache[u].inum] = disk[icache[u].inum]
    <3>1. lock[u] # None => lock[u] \in Proc /\ lock[u] # p
      BY Zenon, <1>c, <1>f
    <3>2. Settled(u)
      BY Zenon, <1>a, <1>c, <2>3, <3>1 DEF Settled
    <3> QED BY Zenon, <2>3, <3>2 DEF IInv, Coherent
  <2>4. u # s => icache[u].inum # j
    BY Zenon, <1>1, <2>1 DEF IInv, OneEntry
  <2> QED BY Zenon, <1>e, <2>1, <2>2, <2>3, <2>4
<1>11. Freeing'
  <2> SUFFICES ASSUME NEW q \in Proc, pc'[q] = "free"
               PROVE  icache'[ip'[q]] = icache[ip[q]] /\ pc[q] = "free"
    BY Zenon DEF IInv, Freeing
  <2>1. q # p /\ pc[q] = "free" /\ ip'[q] = ip[q]
    BY Zenon, <1>a, <1>c
  <2>2. ip[q] \in Slot /\ lock[ip[q]] = q
    BY Zenon, <1>2, <1>3, <2>1
  <2> QED BY <1>e, <2>1, <2>2, Zero
<1>12. Fresh'
  <2> SUFFICES ASSUME NEW q \in Proc, pc'[q] \in {"iget", "fill"}
               PROVE  New(q, arg[q][1], arg[q][2])'
    BY Zenon DEF Fresh
  <2> DEFINE n == arg[q][1]
             i == arg[q][2]
  <2>1. q # p /\ pc[q] = pc'[q] /\ arg'[q] = arg[q] /\ ip'[q] = ip[q]
    BY Zenon, <1>a, <1>c
  <2>2. /\ n \in Name /\ i \in Inum /\ dir[n] = 0
        /\ disk[i].type # 0 /\ disk[i].nlink = 0 /\ disk[i].addr = 0
        /\ \A r \in Proc : fd[r] # 0 => fdnum[r] # i
        /\ \A r \in Proc \ {q} : ip[r] # 0 /\ icache[ip[r]].inum = i => pc[r] \in {"release", "drop"}
        /\ pc[q] = "fill" => icache[ip[q]].inum = i
    BY Zenon, <2>1 DEF IInv, Fresh, New
  <2>3. dir' = dir
    BY Zenon, <1>2, <1>c, <2>1, Zero
  <2>4. /\ fd[p] # 0 => icache[fd[p]].inum # i
        /\ ip[p] # 0 => icache[ip[p]].inum # i
    BY Zenon, <1>c, <2>1, <2>2 DEF IInv, Opened
  <2>5. disk'[i] = disk[i]
    BY ZenonT(30), <1>d, <1>e, <2>2, <2>4
  <2>6. ASSUME NEW r \in Proc, fd'[r] # 0 PROVE fdnum'[r] # i
    BY <1>a, <1>d, <2>2, <2>4, <2>6
  <2>7. ASSUME NEW r \in Proc \ {q}, ip'[r] # 0, icache'[ip'[r]].inum = i
        PROVE  pc'[r] \in {"release", "drop"}
    <3>1. CASE r = p
      <4>1. ip'[p] \in Slot /\ icache[ip'[p]].inum # i
        BY ZenonT(30), <1>3, <1>d, <2>4, <2>7, <3>1
      <4> QED BY Zenon, <1>b, <2>7, <3>1, <4>1
    <3>2. CASE r # p
      BY <1>3, <1>a, <1>b, <2>2, <2>7, <3>2
    <3> QED BY Zenon, <3>1, <3>2
  <2>8. pc'[q] = "fill" => icache'[ip'[q]].inum = i
    <3>1. pc[q] = "fill" => ip[q] \in Slot
      BY Zenon, <1>2, <1>3
    <3> QED BY Zenon, <1>b, <2>1, <2>2, <3>1
  <2>9. n = arg'[q][1] /\ i = arg'[q][2]
    BY Zenon, <2>1
  <2> HIDE DEF n, i
  <2> QED BY Zenon, <2>2, <2>3, <2>5, <2>6, <2>7, <2>8, <2>9 DEF New
<1>13. Args'
  <2> SUFFICES ASSUME NEW q \in Proc, q # p PROVE Fits(q)'
    BY Zenon DEF Args, Work
  <2>1. Fits(q) /\ pc'[q] = pc[q] /\ ip'[q] = ip[q] /\ arg'[q] = arg[q]
    BY Zenon, <1>a DEF IInv, Args
  <2>2. pc[q] = "unlink" => dir' = dir /\ icache'[ip[q]].inum = icache[ip[q]].inum
    BY Zenon, <1>2, <1>3, <1>b, <1>c, Zero
  <2>3. panicked = "no"
    BY Zenon DEF Work
  <2> QED BY Zenon, <2>1, <2>2, <2>3 DEF Fits
<1> QED BY Zenon, <1>4, <1>5, <1>7, <1>8, <1>9, <1>10, <1>11, <1>12, <1>13

-----------------------------------------------------------------------------
(* iget.                                                                   *)

\* p takes a reference to inode i, in the entry s, and goes on at l.  The inode is
\* allocated, nobody frees it and nobody else makes it.
IgetStep(p, i, l, s) ==
  /\ s \in IgetSlot(i)
  /\ icache' = [icache EXCEPT ![s].inum = i, ![s].ref = @ + 1,
                              ![s].valid = IF s \in Cached(i) THEN @ ELSE 0]
  /\ ip' = [ip EXCEPT ![p] = s] /\ pc' = [pc EXCEPT ![p] = l]
  /\ UNCHANGED <<disk, dir, used, lock, fd, fdnum>>
  /\ pc[p] \in {"user", "iget"}
  /\ l \in {"open", "fill", "inc", "unlink", "chmod", "chown", "denied"}
  /\ dlock' \in Proc \cup {None}
  /\ dlock' = dlock \/ dlock = None
  /\ l \in {"fill", "unlink"} => dlock' = p
  /\ arg' = [q \in Proc |-> arg'[q]] /\ \A q \in Proc : q # p => arg'[q] = arg[q]
  /\ panicked = "no" /\ Fits(p)'
  /\ l = "fill" => New(p, arg'[p][1], i) /\ arg'[p][2] = i
  /\ disk[i].type # 0
  /\ \A q \in Proc : pc[q] = "free" => icache[ip[q]].inum # i
  /\ \A q \in Proc : q # p /\ pc[q] \in {"iget", "fill"} => arg[q][2] # i

\* Taking a reference keeps the invariant.
LEMMA IgetKeeps ==
  ASSUME IInv, NEW p \in Proc, NEW i \in Inum, NEW l, NEW s, IgetStep(p, i, l, s)
  PROVE  IInv'
<1>a. /\ s \in Slot
      /\ s \in Cached(i) => icache[s].ref > 0 /\ icache[s].inum = i
      /\ s \notin Cached(i) => icache[s].ref = 0 /\ \A u \in Slot : icache[u].ref > 0 => icache[u].inum # i
  <2>1. s \in First(IF Cached(i) # {} THEN Cached(i) ELSE Unused)
    BY Zenon DEF IgetStep, IgetSlot
  <2>2. (Cached(i) # {} /\ s \in Cached(i)) \/ (Cached(i) = {} /\ s \in Unused)
    BY Zenon, <2>1 DEF First
  <2> QED BY Zenon, <2>2 DEF Cached, Unused
<1>b. /\ icache' \in [Slot -> Entry] /\ icache[s].ref \in Nat
      /\ \A u \in Slot : u # s => icache'[u] = icache[u]
      /\ icache'[s].inum = i /\ icache'[s].ref = icache[s].ref + 1 /\ icache'[s].d = icache[s].d
      /\ icache'[s].valid = IF s \in Cached(i) THEN icache[s].valid ELSE 0
  <2>1. icache \in [Slot -> Entry]
    BY Zenon DEF IInv, Types
  <2>2. icache' = [icache EXCEPT ![s].inum = i, ![s].ref = @ + 1,
                                 ![s].valid = IF s \in Cached(i) THEN @ ELSE 0]
    BY Zenon DEF IgetStep
  <2> QED BY <1>a, <2>1, <2>2, SMTT(30) DEF Entry
<1>c. /\ UNCHANGED <<disk, dir, used, lock, fd, fdnum>>
      /\ dlock' = dlock \/ dlock = None
      /\ l \in {"fill", "unlink"} => dlock' = p
      /\ l \notin {"user", "iget", "free", "release", "drop", "enter", "dec"}
      /\ disk[i].type # 0
  BY Zenon DEF IgetStep
<1>e. \A q \in Proc : pc[q] = "free" => icache[ip[q]].inum # i
  BY Zenon DEF IgetStep
<1>f. \A q \in Proc : q # p => arg'[q] = arg[q]
  BY Zenon DEF IgetStep
<1>d. /\ ip' = [ip EXCEPT ![p] = s] /\ pc' = [pc EXCEPT ![p] = l] /\ ip[p] = 0
      /\ ip'[p] = s /\ pc'[p] = l
      /\ \A q \in Proc : q # p => ip'[q] = ip[q] /\ pc'[q] = pc[q]
  <2>1. /\ ip' = [ip EXCEPT ![p] = s] /\ pc' = [pc EXCEPT ![p] = l] /\ pc[p] \in {"user", "iget"}
    BY Zenon DEF IgetStep
  <2> QED BY <2>1 DEF IInv, Homes, Types
<1>1. \A q \in Proc : /\ fd[q] # 0 => fd[q] \in Slot /\ icache[fd[q]].ref > 0
                      /\ ip[q] # 0 => ip[q] \in Slot /\ icache[ip[q]].ref > 0
  BY Zenon, Held DEF IInv, Types
<1>2. \A u \in Slot : icache[u].ref > 0 => icache'[u].inum = icache[u].inum
  BY <1>a, <1>b
<1>3. Types'
  <2>1. l \in Labels /\ s \in Slot /\ dlock' \in Proc \cup {None} /\ arg' = [q \in Proc |-> arg'[q]]
    BY Zenon, <1>a DEF Labels, IgetStep
  <2> QED BY Zenon, <1>b, <1>c, <1>d, <2>1 DEF IInv, Types
<1>4. Homes'
  <2>1. \A u \in Slot : lock[u] # None =>
          lock[u] \in Proc /\ lock[u] # p /\ pc[lock[u]] \in {"free", "release"} /\ ip[lock[u]] = u
    BY Zenon, <1>d, Locker, Zero
  <2>2. \A u \in Slot : lock'[u] # None => pc'[lock'[u]] \in {"free", "release"} /\ ip'[lock'[u]] = u
    BY <1>c, <1>d, <2>1
  <2>3. \A q \in Proc : ip'[q] = 0 <=> pc'[q] \in {"user", "iget"}
    <3>1. \A q \in Proc : ip[q] = 0 <=> pc[q] \in {"user", "iget"}
      BY Zenon DEF IInv, Homes
    <3>2. s # 0
      BY Zenon, <1>a, Zero
    <3> QED BY Zenon, <1>c, <1>d, <3>1, <3>2
  <2>4. \A q \in Proc : pc'[q] \in {"free", "release"} => lock'[ip'[q]] = q
    <3>1. \A q \in Proc : pc[q] \in {"free", "release"} => lock[ip[q]] = q
      BY Zenon DEF IInv, Homes
    <3> QED BY Zenon, <1>c, <1>d, <3>1
  <2>5. \A q \in Proc : pc'[q] \in {"iget", "fill", "unlink"} => dlock' = q
    <3>1. \A q \in Proc : pc[q] \in {"iget", "fill", "unlink"} => dlock = q
      BY Zenon DEF IInv, Homes
    <3> QED BY <1>c, <1>d, <3>1, Zero
  <2> QED BY Zenon, <2>2, <2>3, <2>4, <2>5 DEF Homes
<1>5. RefsCounted'
  <2> SUFFICES ASSUME NEW u \in Slot PROVE AtMost(Fds(u)', Ips(u)', icache'[u].ref)
    BY Zenon DEF RefsCounted
  <2>1. icache[u].ref \in Nat /\ icache'[u].ref \in Nat /\ AtMost(Fds(u), Ips(u), icache[u].ref)
    BY Zenon, <1>b DEF IInv, Types, Entry, RefsCounted
  <2>2. AtMost(Ips(u), Fds(u), icache[u].ref)
    BY Zenon, <2>1, Swap
  <2>3. Fds(u)' = Fds(u) /\ p \notin Ips(u)
    BY Zenon, <1>c, <1>d, Zero DEF Fds, Ips
  <2>4. AtMost(Ips(u)', Fds(u), icache'[u].ref)
    <3>1. CASE u = s
      <4>1. Ips(u)' = Ips(u) \cup {p}
        BY Zenon, <1>d, <3>1 DEF Ips
      <4> QED BY <1>b, <2>1, <2>2, <2>3, <3>1, <4>1, Bounds
    <3>2. CASE u # s
      <4>1. Ips(u)' = Ips(u)
        BY Zenon, <1>a, <1>d, <3>2, Zero DEF Ips
      <4> QED BY Zenon, <1>b, <2>2, <3>2, <4>1
    <3> QED BY Zenon, <3>1, <3>2
  <2> QED BY Zenon, <2>1, <2>3, <2>4, Swap
<1>6. OneEntry'
  <2>1. ASSUME NEW u \in Slot, icache'[u].ref > 0
        PROVE  icache'[u].inum # 0 /\ (u # s => icache[u].ref > 0 /\ icache'[u].inum # i)
    BY Zenon, <1>a, <1>b, <2>1, Zero DEF IInv, OneEntry
  <2> QED BY ZenonT(30), <1>b, <2>1 DEF IInv, OneEntry
<1>7. Opened' /\ Live'
  <2>1. Opened'
    BY Zenon, <1>1, <1>2, <1>c DEF IInv, Opened
  <2>2. ASSUME NEW q \in Proc, ip'[q] # 0, pc'[q] \notin {"release", "drop"}
        PROVE  disk'[icache'[ip'[q]].inum].type # 0
    <3>1. CASE q = p
      BY ZenonT(30), <1>b, <1>c, <1>d, <3>1
    <3>2. CASE q # p
      BY <1>1, <1>2, <1>c, <1>d, <2>2, <3>2 DEF IInv, Live
    <3> QED BY Zenon, <3>1, <3>2
  <2> QED BY Zenon, <2>1, <2>2 DEF Live
<1>8. LinksExact'
  <2> SUFFICES ASSUME NEW j \in Inum PROVE Exactly(Names(j)', Entering(j)', disk'[j].nlink)
    BY Zenon DEF LinksExact
  <2>1. \A q \in Proc : /\ pc'[q] \in {"enter", "dec"} <=> pc[q] \in {"enter", "dec"}
                        /\ pc[q] \in {"enter", "dec"} => icache'[ip'[q]].inum = icache[ip[q]].inum
    <3>1. \A q \in Proc : ip[q] = 0 <=> pc[q] \in {"user", "iget"}
      BY Zenon DEF IInv, Homes
    <3>2. pc[p] \in {"user", "iget"}
      BY Zenon, <1>d, <3>1
    <3> QED BY <1>1, <1>2, <1>c, <1>d, <3>1, <3>2
  <2>2. Entering(j)' = Entering(j)
    BY Zenon, <2>1 DEF Entering
  <2>3. Names(j)' = Names(j)
    BY Zenon, <1>c DEF Names
  <2> QED BY Zenon, <1>c, <2>2, <2>3 DEF IInv, LinksExact
<1>9. FreeInodes' /\ BlocksOwned'
  BY Zenon, <1>c DEF IInv, FreeInodes, BlocksOwned
<1>10. Coherent'
  <2> SUFFICES ASSUME NEW u \in Slot, Settled(u)'
               PROVE  Settled(u) /\ icache'[u].d = icache[u].d /\ icache'[u].inum = icache[u].inum
    BY Zenon, <1>c DEF IInv, Coherent
  <2>1. icache[u].ref > 0 /\ icache[u].valid = 1 /\ icache'[u].d = icache[u].d
    BY <1>a, <1>b DEF Settled
  <2>2. lock[u] # None => lock[u] # p /\ lock[u] \in Proc
    BY Zenon, <1>d, Locker, Zero
  <2> QED BY Zenon, <1>2, <1>c, <1>d, <2>1, <2>2 DEF Settled
<1>11. Freeing'
  <2> SUFFICES ASSUME NEW q \in Proc, pc'[q] = "free"
               PROVE  icache'[ip'[q]] = icache[ip[q]] /\ pc[q] = "free"
    BY Zenon DEF IInv, Freeing
  <2>1. q # p /\ pc[q] = "free" /\ ip'[q] = ip[q] /\ ip[q] # 0
    BY <1>c, <1>d DEF IInv, Homes
  <2>2. ip[q] \in Slot /\ icache[ip[q]].ref > 0 /\ icache[ip[q]].inum # i
    BY Zenon, <1>1, <1>e, <2>1
  <2>3. ip[q] # s
    BY <1>a, <2>2
  <2> QED BY Zenon, <1>b, <2>1, <2>2, <2>3
<1>12. Fresh'
  <2> SUFFICES ASSUME NEW q \in Proc, pc'[q] \in {"iget", "fill"}
               PROVE  New(q, arg[q][1], arg[q][2])'
    BY Zenon DEF Fresh
  <2> DEFINE n == arg'[q][1]
             j == arg'[q][2]
  <2>1. New(q, n, j) /\ (q # p => j # i)
    <3>1. CASE q = p
      BY Zenon, <1>d, <3>1 DEF IgetStep
    <3>2. CASE q # p
      BY ZenonT(30), <1>d, <1>f, <3>2 DEF IgetStep, IInv, Fresh
    <3> QED BY Zenon, <3>1, <3>2
  <2>2. /\ n \in Name /\ j \in Inum /\ dir[n] = 0
        /\ disk[j].type # 0 /\ disk[j].nlink = 0 /\ disk[j].addr = 0
        /\ \A r \in Proc : fd[r] # 0 => fdnum[r] # j
        /\ \A r \in Proc \ {q} : ip[r] # 0 /\ icache[ip[r]].inum = j => pc[r] \in {"release", "drop"}
        /\ pc[q] = "fill" => icache[ip[q]].inum = j
    BY Zenon, <2>1 DEF New
  <2>3. ASSUME NEW r \in Proc \ {q}, ip'[r] # 0, icache'[ip'[r]].inum = j
        PROVE  pc'[r] \in {"release", "drop"}
    <3>1. r # p
      BY Zenon, <1>b, <1>d, <2>1, <2>3
    <3> QED BY <1>1, <1>2, <1>d, <2>2, <2>3, <3>1
  <2>4. pc'[q] = "fill" => icache'[ip'[q]].inum = j
    <3>1. CASE q = p
      BY Zenon, <1>b, <1>d, <3>1 DEF IgetStep
    <3>2. CASE q # p
      <4>1. pc[q] = "fill" => ip[q] # 0
        BY Zenon DEF IInv, Homes
      <4> QED BY <1>1, <1>2, <1>d, <2>2, <3>2, <4>1
    <3> QED BY Zenon, <3>1, <3>2
  <2> QED BY Zenon, <1>c, <2>2, <2>3, <2>4 DEF New
<1>13. Args'
  <2> SUFFICES ASSUME NEW q \in Proc, q # p PROVE Fits(q)'
    BY Zenon DEF Args, IgetStep
  <2>1. Fits(q) /\ pc'[q] = pc[q] /\ ip'[q] = ip[q] /\ arg'[q] = arg[q]
    BY Zenon, <1>d, <1>f DEF IInv, Args
  <2>2. pc[q] = "unlink" => icache'[ip[q]].inum = icache[ip[q]].inum
    <3>1. pc[q] = "unlink" => ip[q] # 0
      BY Zenon DEF IInv, Homes
    <3> QED BY Zenon, <1>1, <1>2, <3>1
  <2>3. panicked = "no"
    BY Zenon DEF IgetStep
  <2> QED BY Zenon, <1>c, <2>1, <2>2, <2>3 DEF Fits
<1> QED BY Zenon, <1>3, <1>4, <1>5, <1>6, <1>7, <1>8, <1>9, <1>10, <1>11, <1>12, <1>13 DEF IInv

-----------------------------------------------------------------------------
(* ialloc and iput.                                                        *)

\* ialloc marks a free inode, which nobody refers to but those who freed it.
LEMMA IallocKeeps ==
  ASSUME IInv, NEW p \in Proc, NEW n \in Name, NEW i \in Inum, disk[i].type = 0,
         disk' = [disk EXCEPT ![i] = [NoInode EXCEPT !.type = 1]],
         arg' = [arg EXCEPT ![p] = <<n, i>>],
         dlock = None, dlock' = p, dir[n] = 0,
         pc[p] = "user", pc' = [pc EXCEPT ![p] = "iget"],
         UNCHANGED <<dir, used, icache, lock, fd, fdnum, ip, panicked>>
  PROVE  IInv'
<1>1. /\ disk'[i].type = 1 /\ disk'[i].nlink = 0 /\ disk'[i].addr = 0
      /\ \A j \in Inum : j # i => disk'[j] = disk[j]
      /\ disk' \in [Inum -> Dinode] /\ disk[i].nlink = 0 /\ disk[i].addr = 0
  <2>1. disk \in [Inum -> Dinode] /\ disk[i].nlink = 0 /\ disk[i].addr = 0
    BY Zenon DEF IInv, Types, FreeInodes
  <2> QED BY Zenon, <2>1 DEF NoInode, Dinode
<1>2. /\ arg'[p][1] = n /\ arg'[p][2] = i /\ pc'[p] = "iget"
      /\ \A q \in Proc : q # p => arg'[q] = arg[q] /\ pc'[q] = pc[q]
      /\ arg' = [q \in Proc |-> arg'[q]]
  <2>1. arg = [q \in Proc |-> arg[q]] /\ pc \in [Proc -> Labels]
    BY Zenon DEF IInv, Types
  <2> QED BY Zenon, <2>1
<1>3. \A q \in Proc : pc[q] \notin {"iget", "fill", "unlink"}
  BY ZenonT(30), Zero DEF IInv, Homes
<1>4. \A q \in Proc : /\ fd[q] # 0 => fdnum[q] # i
                      /\ ip[q] # 0 /\ icache[ip[q]].inum = i => pc[q] \in {"release", "drop"}
  BY Zenon DEF IInv, Opened, Live
<1>5. Types'
  BY Zenon, <1>1, <1>2 DEF IInv, Types, Labels
<1>6. Homes'
  <2>1. \A u \in Slot : lock[u] # None => lock[u] \in Proc /\ lock[u] # p
    BY Zenon, Locker
  <2> QED BY <1>2, <1>3, <2>1 DEF IInv, Homes
<1>7. RefsCounted' /\ OneEntry'
  BY Zenon DEF IInv, RefsCounted, Fds, Ips, OneEntry
<1>8. Opened'
  BY <1>1, <1>4 DEF IInv, Opened, Types
<1>9. Live'
  <2> SUFFICES ASSUME NEW q \in Proc, ip[q] # 0, pc'[q] \notin {"release", "drop"}
               PROVE  disk'[icache[ip[q]].inum].type # 0
    BY Zenon DEF Live
  <2>1. q # p
    BY Zenon DEF IInv, Homes
  <2>2. pc[q] \notin {"release", "drop"}
    BY Zenon, <1>2, <2>1
  <2>3. icache[ip[q]].inum \in Inum /\ disk[icache[ip[q]].inum].type # 0
    BY Zenon, <2>2, Referenced
  <2> QED BY Zenon, <1>1, <2>3
<1>10. LinksExact'
  <2>1. \A j \in Inum : disk'[j].nlink = disk[j].nlink
    BY Zenon, <1>1
  <2>2. \A j \in Inum : Entering(j)' = Entering(j) /\ Names(j)' = Names(j)
    BY Zenon, <1>2 DEF Entering, Names
  <2> QED BY Zenon, <2>1, <2>2 DEF IInv, LinksExact
<1>11. FreeInodes'
  BY Zenon, <1>1 DEF IInv, FreeInodes
<1>12. BlocksOwned'
  <2>1. \A j \in Inum : disk'[j].addr = disk[j].addr
    BY Zenon, <1>1
  <2> QED BY <2>1 DEF IInv, BlocksOwned
<1>13. Coherent'
  <2> SUFFICES ASSUME NEW u \in Slot, Settled(u)'
               PROVE  Same(icache[u].d, disk'[icache[u].inum]) /\ disk'[icache[u].inum].type # 0
    BY Zenon DEF Coherent
  <2>1. lock[u] # None => lock[u] \in Proc /\ lock[u] # p
    BY Zenon, Locker
  <2>2. Settled(u)
    BY ZenonT(30), <1>2, <2>1 DEF Settled
  <2>3. Same(icache[u].d, disk[icache[u].inum]) /\ disk[icache[u].inum].type # 0 /\ icache[u].inum \in Inum
    BY Zenon, <2>2 DEF IInv, Coherent, Settled, OneEntry, Types, Entry
  <2> QED BY Zenon, <1>1, <2>3
<1>14. Freeing'
  BY ZenonT(30), <1>2 DEF IInv, Freeing
<1>15. Fresh'
  <2>1. New(p, n, i)'
    BY <1>1, <1>2, <1>4 DEF New
  <2> QED BY ZenonT(30), <1>2, <1>3, <2>1 DEF Fresh
<1>16. Args'
  BY <1>2 DEF IInv, Args, Fits
<1> QED BY Zenon, <1>5, <1>6, <1>7, <1>8, <1>9, <1>10, <1>11, <1>12, <1>13, <1>14, <1>15, <1>16 DEF IInv

\* iput finds the last reference to an inode without links, and locks the entry.
LEMMA LastKeeps ==
  ASSUME IInv, NEW p \in Proc, NEW s, s = ip[p], pc[p] = "iput", lock[s] = None,
         icache[s].valid = 1, icache[s].d.nlink = 0, icache[s].ref = 1,
         lock' = [lock EXCEPT ![s] = p], pc' = [pc EXCEPT ![p] = "free"],
         UNCHANGED <<disk, dir, used, icache, dlock, fd, fdnum, ip, arg, panicked>>
  PROVE  IInv'
<1>1. s # 0 /\ s \in Slot
  BY DEF IInv, Homes, Types
<1>2. /\ lock'[s] = p /\ \A u \in Slot : u # s => lock'[u] = lock[u]
      /\ pc'[p] = "free" /\ \A q \in Proc : q # p => pc'[q] = pc[q]
  BY Zenon, <1>1 DEF IInv, Types
<1>3. Types'
  BY Zenon DEF IInv, Types, Labels
<1>4. Homes'
  <2>1. \A u \in Slot : lock'[u] # None => pc'[lock'[u]] \in {"free", "release"} /\ ip'[lock'[u]] = u
    BY <1>2, Locker
  <2>2. \A q \in Proc : ip'[q] = 0 <=> pc'[q] \in {"user", "iget"}
    BY Zenon, <1>1, <1>2 DEF IInv, Homes
  <2>3. ASSUME NEW q \in Proc, pc'[q] \in {"free", "release"} PROVE lock'[ip'[q]] = q
    <3>1. CASE q = p
      BY Zenon, <1>2, <3>1
    <3>2. CASE q # p
      <4>1. pc[q] \in {"free", "release"} /\ lock[ip[q]] = q
        BY Zenon, <1>2, <2>3, <3>2 DEF IInv, Homes
      <4>2. ip[q] \in Slot /\ ip[q] # s
        BY <4>1, Zero DEF IInv, Homes, Types
      <4> QED BY Zenon, <1>2, <4>1, <4>2
    <3> QED BY Zenon, <3>1, <3>2
  <2>4. \A q \in Proc : pc'[q] \in {"iget", "fill", "unlink"} => dlock' = q
    BY Zenon, <1>2 DEF IInv, Homes
  <2> QED BY Zenon, <2>1, <2>2, <2>3, <2>4 DEF Homes
<1>5. RefsCounted' /\ OneEntry' /\ Opened' /\ FreeInodes' /\ BlocksOwned'
  BY Zenon DEF IInv, RefsCounted, Fds, Ips, OneEntry, Opened, FreeInodes, BlocksOwned
<1>6. Live'
  BY Zenon, <1>2 DEF IInv, Live
<1>7. LinksExact'
  <2>1. \A i \in Inum : Entering(i)' = Entering(i) /\ Names(i)' = Names(i)
    BY Zenon, <1>2 DEF Entering, Names
  <2> QED BY Zenon, <2>1 DEF IInv, LinksExact
<1>8. Coherent'
  <2> SUFFICES ASSUME NEW u \in Slot, Settled(u)' PROVE Settled(u)
    BY Zenon DEF IInv, Coherent
  <2> QED BY <1>2, Locker DEF Settled
<1>9. Freeing'
  BY ZenonT(30), <1>2 DEF IInv, Freeing
<1>10. Fresh'
  <2>1. ASSUME NEW q \in Proc, pc'[q] \in {"iget", "fill"} PROVE New(q, arg[q][1], arg[q][2])'
    <3>1. q # p /\ pc[q] = pc'[q] /\ New(q, arg[q][1], arg[q][2])
      BY Zenon, <1>2, <2>1 DEF IInv, Fresh
    <3>2. icache[ip[p]].inum # arg[q][2]
      BY Zenon, <1>1, <3>1 DEF New
    <3> QED BY Zenon, <1>2, <3>1, <3>2 DEF New
  <2> QED BY Zenon, <2>1 DEF Fresh
<1>11. Args'
  BY <1>2 DEF IInv, Args, Fits
<1> QED BY Zenon, <1>3, <1>4, <1>5, <1>6, <1>7, <1>8, <1>9, <1>10, <1>11 DEF IInv

\* iput frees the inode: nobody else refers to it.
LEMMA FreeKeeps ==
  ASSUME IInv, NEW p \in Proc, IputFree(p)
  PROVE  IInv'
<1> DEFINE s == ip[p]
           i == icache[s].inum
           d == [icache[s].d EXCEPT !.type = 0, !.addr = 0]
<1>1. /\ pc[p] = "free" /\ pc' = [pc EXCEPT ![p] = "release"] /\ used' = used \ {icache[s].d.addr}
      /\ icache' = [icache EXCEPT ![s].valid = 1, ![s].d = d] /\ disk' = [disk EXCEPT ![i] = d]
      /\ UNCHANGED <<dir, lock, dlock, fd, fdnum, ip, arg, panicked>>
  BY Zenon DEF IputFree, At, Goto, Itrunc, Iupdate
<1>2. /\ s # 0 /\ lock[s] = p /\ icache[s].valid = 1 /\ icache[s].ref = 1 /\ icache[s].d.nlink = 0
  BY Zenon, <1>1 DEF IInv, Homes, Freeing
<1>3. s \in Slot /\ icache[s] \in Entry /\ i \in Inum
  BY Zenon, <1>1, <1>2, Referenced
<1>4. Settled(s) /\ Same(icache[s].d, disk[i]) /\ disk[i].type # 0
  <2>1. Settled(s)
    BY <1>1, <1>2, <1>3 DEF Settled
  <2> QED BY Zenon, <1>3, <2>1 DEF IInv, Coherent
<1>a. d \in Dinode /\ d.type = 0 /\ d.addr = 0 /\ d.nlink = icache[s].d.nlink
  BY Zenon, <1>3 DEF Entry, Dinode
<1> HIDE DEF d
<1>5. /\ disk'[i].type = 0 /\ disk'[i].addr = 0 /\ disk'[i].nlink = 0 /\ disk[i].nlink = 0
      /\ \A j \in Inum : j # i => disk'[j] = disk[j]
      /\ disk' \in [Inum -> Dinode] /\ icache[s].d.addr = disk[i].addr
  BY Zenon, <1>1, <1>2, <1>3, <1>4, <1>a DEF IInv, Types, Same
<1>6. /\ \A u \in Slot : u # s => icache'[u] = icache[u]
      /\ icache'[s].inum = i /\ icache'[s].ref = icache[s].ref
      /\ icache' \in [Slot -> Entry]
  <2>1. icache \in [Slot -> Entry]
    BY Zenon DEF IInv, Types
  <2> QED BY Zenon, <1>1, <1>3, <1>a, <2>1 DEF Entry
<1>7. \A u \in Slot : icache'[u].inum = icache[u].inum /\ icache'[u].ref = icache[u].ref
  BY Zenon, <1>6
<1>8. pc'[p] = "release" /\ \A q \in Proc : q # p => pc'[q] = pc[q]
  BY Zenon, <1>1 DEF IInv, Types
<1>9. \A q \in Proc : fd[q] # s /\ (q # p => ip[q] # s)
  BY ZenonT(30), <1>2, Held DEF IInv
<1>10. \A u \in Slot : u # s /\ icache[u].ref > 0 => icache[u].inum # i
  BY <1>2, <1>3 DEF IInv, OneEntry
<1>11. Types'
  <2>1. used' \subseteq Block
    BY Zenon, <1>1 DEF IInv, Types
  <2> QED BY Zenon, <1>1, <1>5, <1>6, <2>1 DEF IInv, Types, Labels
<1>12. Homes'
  BY <1>1, <1>8, <1>2 DEF IInv, Homes
<1>13. RefsCounted' /\ OneEntry'
  BY ZenonT(30), <1>1, <1>7 DEF IInv, RefsCounted, Fds, Ips, OneEntry
<1>14. Opened'
  <2> SUFFICES ASSUME NEW q \in Proc, fd[q] # 0
               PROVE  fdnum[q] = icache'[fd[q]].inum /\ disk'[fdnum[q]].type # 0
    BY Zenon, <1>1 DEF Opened
  <2>1. /\ fd[q] \in Slot /\ icache[fd[q]].ref > 0 /\ icache[fd[q]].inum \in Inum
        /\ disk[icache[fd[q]].inum].type # 0
    BY Zenon, Referenced
  <2>2. fdnum[q] = icache[fd[q]].inum
    BY Zenon DEF IInv, Opened
  <2> QED BY Zenon, <1>5, <1>7, <1>9, <1>10, <2>1, <2>2
<1>15. Live'
  <2> SUFFICES ASSUME NEW q \in Proc, ip[q] # 0, pc'[q] \notin {"release", "drop"}
               PROVE  disk'[icache'[ip[q]].inum].type # 0
    BY Zenon, <1>1 DEF Live
  <2>1. q # p /\ pc[q] = pc'[q]
    BY Zenon, <1>8
  <2>2. /\ ip[q] \in Slot /\ icache[ip[q]].ref > 0 /\ icache[ip[q]].inum \in Inum
        /\ disk[icache[ip[q]].inum].type # 0
    BY Zenon, <2>1, Referenced
  <2> QED BY Zenon, <1>5, <1>7, <1>9, <1>10, <2>1, <2>2
<1>16. LinksExact'
  <2>1. \A j \in Inum : disk'[j].nlink = disk[j].nlink
    BY Zenon, <1>5
  <2>2. \A q \in Proc : /\ pc'[q] \in {"enter", "dec"} <=> pc[q] \in {"enter", "dec"}
                        /\ pc[q] \in {"enter", "dec"} => icache'[ip'[q]].inum = icache[ip[q]].inum
    BY <1>1, <1>7, <1>8 DEF IInv, Homes, Types
  <2>3. \A j \in Inum : Entering(j)' = Entering(j) /\ Names(j)' = Names(j)
    BY Zenon, <1>1, <2>2 DEF Entering, Names
  <2> QED BY Zenon, <2>1, <2>3 DEF IInv, LinksExact
<1>17. FreeInodes'
  BY ZenonT(30), <1>5 DEF IInv, FreeInodes
<1>18. BlocksOwned'
  <2>1. \A j \in Inum : disk'[j].addr = IF j = i THEN 0 ELSE disk[j].addr
    BY Zenon, <1>5
  <2>2. used' = used \ {disk[i].addr}
    BY Zenon, <1>1, <1>5
  <2> QED BY <1>3, <2>1, <2>2 DEF IInv, BlocksOwned
<1>19. Coherent'
  <2> SUFFICES ASSUME NEW u \in Slot, Settled(u)'
               PROVE  Settled(u) /\ icache'[u] = icache[u] /\ disk'[icache[u].inum] = disk[icache[u].inum]
    BY ZenonT(30) DEF IInv, Coherent
  <2>1. u # s
    BY Zenon, <1>1, <1>2, <1>8, Zero DEF Settled
  <2>2. icache'[u] = icache[u] /\ icache[u].ref > 0
    BY Zenon, <1>6, <2>1 DEF Settled
  <2>3. icache[u].inum \in Inum /\ icache[u].inum # i
    BY ZenonT(30), <1>10, <2>1, <2>2 DEF IInv, Types, Entry, OneEntry
  <2>4. lock[u] # None => lock[u] \in Proc /\ lock[u] # p
    BY Zenon, <2>1, Locker
  <2>5. Settled(u)
    BY Zenon, <1>1, <1>8, <2>2, <2>4 DEF Settled
  <2> QED BY Zenon, <1>5, <2>2, <2>3, <2>5
<1>20. Freeing'
  <2> SUFFICES ASSUME NEW q \in Proc, pc'[q] = "free"
               PROVE  icache'[ip'[q]] = icache[ip[q]] /\ pc[q] = "free"
    BY Zenon DEF IInv, Freeing
  <2>1. q # p /\ pc[q] = "free"
    BY Zenon, <1>8
  <2>2. ip[q] \in Slot /\ ip[q] # s
    BY <1>9, <2>1 DEF IInv, Homes, Types
  <2> QED BY Zenon, <1>1, <1>6, <2>1, <2>2
<1>21. Fresh'
  <2>1. ASSUME NEW q \in Proc, pc'[q] \in {"iget", "fill"} PROVE New(q, arg[q][1], arg[q][2])'
    <3>1. q # p /\ pc[q] = pc'[q] /\ New(q, arg[q][1], arg[q][2])
      BY Zenon, <1>8, <2>1 DEF IInv, Fresh
    <3>2. arg[q][2] # i /\ disk'[arg[q][2]] = disk[arg[q][2]]
      BY Zenon, <1>1, <1>2, <1>5, <3>1 DEF New
    <3>3. \A r \in Proc : ip[r] # 0 => icache'[ip[r]].inum = icache[ip[r]].inum
      BY Zenon, <1>7 DEF IInv, Types
    <3>4. \A r \in Proc \ {q} : ip[r] # 0 /\ icache'[ip[r]].inum = arg[q][2] => pc'[r] \in {"release", "drop"}
      BY Zenon, <1>8, <3>1, <3>3 DEF New
    <3>5. pc[q] = "fill" => icache'[ip[q]].inum = arg[q][2]
      BY Zenon, <3>1, <3>3 DEF New, IInv, Homes
    <3> QED BY ZenonT(30), <1>1, <3>1, <3>2, <3>4, <3>5 DEF New
  <2> QED BY Zenon, <2>1 DEF Fresh
<1>22. Args'
  <2>1. \A q \in Proc : pc'[q] \in {"unlink", "inc", "enter", "chmod", "setmode", "chown"} =>
          pc[q] = pc'[q] /\ icache'[ip[q]].inum = icache[ip[q]].inum
    BY <1>7, <1>8 DEF IInv, Types, Homes
  <2> QED BY ZenonT(30), <1>1, <2>1 DEF IInv, Args, Fits
<1> QED BY Zenon, <1>11, <1>12, <1>13, <1>14, <1>15, <1>16, <1>17, <1>18, <1>19, <1>20, <1>21, <1>22
        DEF IInv

\* iput unlocks the entry, which no longer holds an inode.
LEMMA ReleaseKeeps ==
  ASSUME IInv, NEW p \in Proc, IputRelease(p)
  PROVE  IInv'
<1> DEFINE s == ip[p]
<1>1. /\ pc[p] = "release" /\ pc' = [pc EXCEPT ![p] = "drop"]
      /\ icache' = [icache EXCEPT ![s].valid = 0] /\ lock' = [lock EXCEPT ![s] = None]
      /\ UNCHANGED <<disk, dir, used, dlock, fd, fdnum, ip, arg, panicked>>
  BY Zenon DEF IputRelease, At, Goto
<1>2. s # 0 /\ s \in Slot /\ lock[s] = p
  BY <1>1 DEF IInv, Homes, Types
<1>3. /\ icache' \in [Slot -> Entry] /\ icache'[s].valid = 0
      /\ icache'[s].inum = icache[s].inum /\ icache'[s].ref = icache[s].ref
      /\ \A u \in Slot : u # s => icache'[u] = icache[u]
  <2>1. icache \in [Slot -> Entry]
    BY Zenon DEF IInv, Types
  <2> QED BY Zenon, <1>1, <1>2, <2>1 DEF Entry
<1>4. \A u \in Slot : icache'[u].inum = icache[u].inum /\ icache'[u].ref = icache[u].ref
  BY Zenon, <1>3
<1>5. /\ pc'[p] = "drop" /\ \A q \in Proc : q # p => pc'[q] = pc[q]
      /\ lock'[s] = None /\ \A u \in Slot : u # s => lock'[u] = lock[u]
  BY Zenon, <1>1, <1>2 DEF IInv, Types
<1>6. \A q \in Proc : q # p /\ pc[q] \in {"free", "release"} => ip[q] \in Slot /\ ip[q] # s
  BY <1>2 DEF IInv, Types, Homes
<1>7. \A q \in Proc : ip[q] # 0 => icache'[ip[q]].inum = icache[ip[q]].inum
  BY Zenon, <1>4 DEF IInv, Types
<1>8. Types'
  BY Zenon, <1>1, <1>3 DEF IInv, Types, Labels
<1>9. Homes'
  <2>1. \A u \in Slot : lock'[u] # None => pc'[lock'[u]] \in {"free", "release"} /\ ip'[lock'[u]] = u
    BY <1>1, <1>5, Locker
  <2>2. \A q \in Proc : ip'[q] = 0 <=> pc'[q] \in {"user", "iget"}
    BY ZenonT(30), <1>1, <1>2, <1>5 DEF IInv, Homes
  <2>3. \A q \in Proc : pc'[q] \in {"free", "release"} => lock'[ip'[q]] = q
    BY <1>1, <1>5, <1>6 DEF IInv, Homes
  <2>4. \A q \in Proc : pc'[q] \in {"iget", "fill", "unlink"} => dlock' = q
    BY Zenon, <1>1, <1>5 DEF IInv, Homes
  <2> QED BY Zenon, <2>1, <2>2, <2>3, <2>4 DEF Homes
<1>10. RefsCounted' /\ OneEntry'
  BY ZenonT(30), <1>1, <1>4 DEF IInv, RefsCounted, Fds, Ips, OneEntry
<1>11. Opened'
  BY ZenonT(30), <1>1, <1>4 DEF IInv, Types, Opened
<1>12. Live'
  BY <1>1, <1>5, <1>7 DEF IInv, Live
<1>13. LinksExact'
  <2>1. \A q \in Proc : /\ pc'[q] \in {"enter", "dec"} <=> pc[q] \in {"enter", "dec"}
                        /\ pc[q] \in {"enter", "dec"} => icache'[ip'[q]].inum = icache[ip[q]].inum
    BY <1>1, <1>5, <1>7 DEF IInv, Homes
  <2>2. \A j \in Inum : Entering(j)' = Entering(j) /\ Names(j)' = Names(j)
    BY Zenon, <1>1, <2>1 DEF Entering, Names
  <2> QED BY Zenon, <1>1, <2>2 DEF IInv, LinksExact
<1>14. FreeInodes' /\ BlocksOwned'
  BY Zenon, <1>1 DEF IInv, FreeInodes, BlocksOwned
<1>15. Coherent'
  <2> SUFFICES ASSUME NEW u \in Slot, Settled(u)' PROVE Settled(u) /\ icache'[u] = icache[u]
    BY Zenon, <1>1 DEF IInv, Coherent
  <2>1. u # s
    BY <1>3 DEF Settled
  <2>2. lock[u] # None => lock[u] \in Proc /\ lock[u] # p
    BY Zenon, <2>1, Locker
  <2> QED BY Zenon, <1>3, <1>5, <2>1, <2>2 DEF Settled
<1>16. Freeing'
  BY <1>1, <1>3, <1>5, <1>6 DEF IInv, Freeing
<1>17. Fresh'
  <2>1. ASSUME NEW q \in Proc, pc'[q] \in {"iget", "fill"} PROVE New(q, arg[q][1], arg[q][2])'
    <3>1. q # p /\ pc[q] = pc'[q] /\ New(q, arg[q][1], arg[q][2])
      BY Zenon, <1>5, <2>1 DEF IInv, Fresh
    <3>2. \A r \in Proc \ {q} : ip[r] # 0 /\ icache'[ip[r]].inum = arg[q][2] => pc'[r] \in {"release", "drop"}
      BY Zenon, <1>5, <1>7, <3>1 DEF New
    <3>3. pc[q] = "fill" => icache'[ip[q]].inum = arg[q][2]
      BY Zenon, <1>7, <3>1 DEF New, IInv, Homes
    <3> QED BY Zenon, <1>1, <3>1, <3>2, <3>3 DEF New
  <2> QED BY Zenon, <2>1 DEF Fresh
<1>18. Args'
  <2>1. \A q \in Proc : pc'[q] \in {"unlink", "inc", "enter", "chmod", "setmode", "chown"} =>
          pc[q] = pc'[q] /\ icache'[ip[q]].inum = icache[ip[q]].inum
    BY Zenon, <1>5, <1>7 DEF IInv, Homes
  <2> QED BY ZenonT(30), <1>1, <2>1 DEF IInv, Args, Fits
<1> QED BY Zenon, <1>8, <1>9, <1>10, <1>11, <1>12, <1>13, <1>14, <1>15, <1>16, <1>17, <1>18 DEF IInv

\* iput drops the reference.
LEMMA DropKeeps ==
  ASSUME IInv, NEW p \in Proc, IputDrop(p)
  PROVE  IInv'
<1> DEFINE s == ip[p]
<1>1. /\ pc[p] = "drop" /\ pc' = [pc EXCEPT ![p] = "user"]
      /\ icache' = [icache EXCEPT ![s].ref = @ - 1] /\ ip' = [ip EXCEPT ![p] = 0]
      /\ UNCHANGED <<disk, dir, used, lock, dlock, fd, fdnum, arg, panicked>>
  BY Zenon DEF IputDrop, At, Goto
<1>2. s # 0 /\ s \in Slot /\ icache[s].ref > 0 /\ icache[s].ref \in Nat
  BY <1>1, Held DEF IInv, Homes, Types, Entry
<1>3. /\ icache' \in [Slot -> Entry] /\ icache'[s].ref = icache[s].ref - 1
      /\ icache'[s].inum = icache[s].inum /\ icache'[s].valid = icache[s].valid /\ icache'[s].d = icache[s].d
      /\ \A u \in Slot : u # s => icache'[u] = icache[u]
  <2>1. icache \in [Slot -> Entry] /\ icache[s].ref - 1 \in Nat
    BY <1>2 DEF IInv, Types
  <2> QED BY Zenon, <1>1, <1>2, <2>1 DEF Entry
<1>4. \A u \in Slot : /\ icache'[u].inum = icache[u].inum /\ icache'[u].d = icache[u].d
                      /\ icache'[u].valid = icache[u].valid
                      /\ icache'[u].ref > 0 => icache[u].ref > 0
  BY Zenon, <1>2, <1>3
<1>5. /\ pc'[p] = "user" /\ ip'[p] = 0
      /\ \A q \in Proc : q # p => pc'[q] = pc[q] /\ ip'[q] = ip[q]
  BY Zenon, <1>1, <1>2 DEF IInv, Types
<1>6. \A q \in Proc : ip[q] # 0 => icache'[ip[q]].inum = icache[ip[q]].inum
  BY Zenon, <1>4 DEF IInv, Types
<1>7. \A u \in Slot : lock[u] # None => lock[u] \in Proc /\ lock[u] # p
  BY Zenon, <1>1, Locker
<1>8. Types'
  BY Zenon, <1>1, <1>3 DEF IInv, Types, Labels
<1>9. Homes'
  <2>1. \A u \in Slot : lock'[u] # None => pc'[lock'[u]] \in {"free", "release"} /\ ip'[lock'[u]] = u
    BY <1>1, <1>5, <1>7, Locker
  <2> QED BY <1>1, <1>5, <2>1 DEF IInv, Homes
<1>10. RefsCounted'
  <2> SUFFICES ASSUME NEW u \in Slot PROVE AtMost(Fds(u)', Ips(u)', icache'[u].ref)
    BY Zenon DEF RefsCounted
  <2>1. icache[u].ref \in Nat /\ icache'[u].ref \in Nat /\ AtMost(Fds(u), Ips(u), icache[u].ref)
    BY Zenon, <1>3 DEF IInv, Types, Entry, RefsCounted
  <2>2. AtMost(Ips(u), Fds(u), icache[u].ref)
    BY Zenon, <2>1, Swap
  <2>3. Fds(u)' = Fds(u)
    BY Zenon, <1>1 DEF Fds
  <2>4. AtMost(Ips(u)', Fds(u), icache'[u].ref)
    <3>1. CASE u = s
      <4>1. Ips(u)' = Ips(u) \ {p} /\ p \in Ips(u)
        BY <1>2, <1>5, <3>1 DEF Ips
      <4>2. AtMost(Ips(u) \ {p}, Fds(u), icache[u].ref - 1)
        BY Zenon, <2>1, <2>2, <4>1, OneGone
      <4>3. icache'[u].ref = icache[u].ref - 1
        BY Zenon, <1>3, <3>1
      <4> QED BY Zenon, <4>1, <4>2, <4>3
    <3>2. CASE u # s
      <4>1. Ips(u)' = Ips(u)
        BY Zenon, <1>5, <3>2, Zero DEF Ips
      <4> QED BY Zenon, <1>3, <2>2, <3>2, <4>1
    <3> QED BY Zenon, <3>1, <3>2
  <2> QED BY Zenon, <2>1, <2>3, <2>4, Swap
<1>11. OneEntry'
  BY ZenonT(30), <1>4 DEF IInv, OneEntry
<1>12. Opened'
  <2>1. \A q \in Proc : fd[q] # 0 => icache'[fd[q]].inum = icache[fd[q]].inum
    BY Zenon, <1>4 DEF IInv, Types
  <2> QED BY Zenon, <1>1, <2>1 DEF IInv, Opened
<1>13. Live'
  BY <1>1, <1>5, <1>6 DEF IInv, Live
<1>14. LinksExact'
  <2>1. \A q \in Proc : /\ pc'[q] \in {"enter", "dec"} <=> pc[q] \in {"enter", "dec"}
                        /\ pc[q] \in {"enter", "dec"} => icache'[ip'[q]].inum = icache[ip[q]].inum
    BY <1>1, <1>5, <1>6 DEF IInv, Homes
  <2>2. \A j \in Inum : Entering(j)' = Entering(j) /\ Names(j)' = Names(j)
    BY Zenon, <1>1, <2>1 DEF Entering, Names
  <2> QED BY Zenon, <1>1, <2>2 DEF IInv, LinksExact
<1>15. FreeInodes' /\ BlocksOwned'
  BY Zenon, <1>1 DEF IInv, FreeInodes, BlocksOwned
<1>16. Coherent'
  <2> SUFFICES ASSUME NEW u \in Slot, Settled(u)' PROVE Settled(u)
    BY Zenon, <1>1, <1>4 DEF IInv, Coherent
  <2> QED BY <1>1, <1>4, <1>5, <1>7 DEF Settled
<1>17. Freeing'
  <2> SUFFICES ASSUME NEW q \in Proc, pc'[q] = "free"
               PROVE  icache'[ip'[q]] = icache[ip[q]] /\ pc[q] = "free"
    BY Zenon DEF IInv, Freeing
  <2>1. q # p /\ pc[q] = "free" /\ ip'[q] = ip[q] /\ ip[q] \in Slot /\ ip[q] # 0
    BY <1>5 DEF IInv, Homes, Types
  <2>2. ip[q] # s
    BY Zenon, <2>1, Held DEF IInv, Freeing
  <2> QED BY Zenon, <1>3, <2>1, <2>2
<1>18. Fresh'
  <2>1. ASSUME NEW q \in Proc, pc'[q] \in {"iget", "fill"} PROVE New(q, arg[q][1], arg[q][2])'
    <3>1. q # p /\ pc[q] = pc'[q] /\ ip'[q] = ip[q] /\ New(q, arg[q][1], arg[q][2])
      BY ZenonT(30), <1>5, <2>1 DEF IInv, Fresh
    <3>2. \A r \in Proc \ {q} : ip'[r] # 0 /\ icache'[ip'[r]].inum = arg[q][2] => pc'[r] \in {"release", "drop"}
      BY <1>5, <1>6, <3>1 DEF New
    <3>3. pc[q] = "fill" => icache'[ip[q]].inum = arg[q][2]
      BY Zenon, <1>6, <3>1 DEF New, IInv, Homes
    <3> QED BY Zenon, <1>1, <3>1, <3>2, <3>3 DEF New
  <2> QED BY Zenon, <2>1 DEF Fresh
<1>19. Args'
  <2>1. \A q \in Proc : pc'[q] \in {"unlink", "inc", "enter", "chmod", "setmode", "chown"} =>
          pc[q] = pc'[q] /\ ip'[q] = ip[q] /\ icache'[ip[q]].inum = icache[ip[q]].inum
    BY Zenon, <1>5, <1>6 DEF IInv, Homes
  <2> QED BY <1>1, <2>1 DEF IInv, Args, Fits
<1> QED BY Zenon, <1>8, <1>9, <1>10, <1>11, <1>12, <1>13, <1>14, <1>15, <1>16, <1>17, <1>18, <1>19
        DEF IInv

-----------------------------------------------------------------------------
(* Steps that work on an entry.                                            *)

\* A process less is no more.
LEMMA Fewer ==
  ASSUME NEW A, NEW B, NEW r \in Nat, AtMost(A, B, r), NEW x
  PROVE  /\ AtMost(A \ {x}, B, r) /\ AtMost(A, B \ {x}, r)
         /\ x \in A => r - 1 \in Nat /\ AtMost(A \ {x}, B, r - 1)
         /\ x \in B => r - 1 \in Nat /\ AtMost(A, B \ {x}, r - 1)
<1>1. ASSUME NEW C, NEW D, AtMost(C, D, r)
      PROVE  AtMost(C \ {x}, D, r) /\ (x \in C => r - 1 \in Nat /\ AtMost(C \ {x}, D, r - 1))
  <2>1. CASE x \in C
    <3>1. r > 0 /\ AtMost(C \ {x}, D, r - 1)
      BY Zenon, <1>1, <2>1, Bounds
    <3>2. r - 1 \in Nat /\ (r - 1) + 1 = r
      BY <3>1
    <3>3. AtMost(C \ {x}, D, (r - 1) + 1)
      BY <3>1, <3>2, Bounds
    <3> QED BY Zenon, <3>1, <3>2, <3>3
  <2>2. CASE x \notin C
    <3>1. C \ {x} = C
      BY Zenon, <2>2
    <3> QED BY Zenon, <1>1, <2>2, <3>1
  <2> QED BY Zenon, <2>1, <2>2
<1>2. AtMost(B, A, r)
  BY Zenon, Swap
<1>3. AtMost(B \ {x}, A, r) /\ (x \in B => r - 1 \in Nat /\ AtMost(B \ {x}, A, r - 1))
  BY Zenon, <1>1, <1>2
<1> QED BY Zenon, <1>1, <1>3, Swap

\* A process that keeps its references, drops the one of its call (to nobody), or turns
\* one into the other.
Turns(p) ==
  \/ fd'[p] = fd[p] /\ ip'[p] = ip[p]
  \/ fd'[p] = fd[p] /\ ip'[p] = 0
  \/ ip[p] # 0 /\ fd'[p] = ip[p] /\ ip'[p] = 0
  \/ fd[p] # 0 /\ ip[p] = 0 /\ ip'[p] = fd[p] /\ fd'[p] = 0

\* The references stay counted.
LEMMA RefsKept ==
  ASSUME IInv, NEW p \in Proc, Others(p), SameEntries, Turns(p)
  PROVE  RefsCounted'
<1> SUFFICES ASSUME NEW u \in Slot PROVE AtMost(Fds(u)', Ips(u)', icache'[u].ref)
  BY Zenon DEF RefsCounted
<1> DEFINE A == Fds(u)
           B == Ips(u)
           r == icache[u].ref
<1>1. r \in Nat /\ AtMost(A, B, r) /\ icache'[u].ref = r /\ u # 0
  BY Zenon, Zero DEF IInv, Types, Entry, RefsCounted, SameEntries
<1>2. \A q \in Proc : q # p => (q \in Fds(u)' <=> q \in A) /\ (q \in Ips(u)' <=> q \in B)
  BY Zenon DEF Others, Fds, Ips
<1>3. /\ p \in Fds(u)' <=> fd'[p] = u
      /\ p \in Ips(u)' <=> ip'[p] = u
      /\ p \in A <=> fd[p] = u
      /\ p \in B <=> ip[p] = u
      /\ A \subseteq Proc /\ B \subseteq Proc /\ Fds(u)' \subseteq Proc /\ Ips(u)' \subseteq Proc
  BY Zenon DEF Fds, Ips
<1> HIDE DEF A, B, r
<1>4. CASE fd'[p] = fd[p] /\ ip'[p] = ip[p]
  <2>1. Fds(u)' = A /\ Ips(u)' = B
    BY <1>2, <1>3, <1>4
  <2> QED BY Zenon, <1>1, <2>1
<1>5. CASE fd'[p] = fd[p] /\ ip'[p] = 0
  <2>1. Fds(u)' = A /\ Ips(u)' = B \ {p}
    BY <1>1, <1>2, <1>3, <1>5
  <2>2. AtMost(A, B \ {p}, r)
    BY Zenon, <1>1, Fewer
  <2> QED BY Zenon, <1>1, <2>1, <2>2
<1>6. CASE ip[p] # 0 /\ fd'[p] = ip[p] /\ ip'[p] = 0
  <2>1. CASE u = ip[p]
    <3>1. Fds(u)' = (A \ {p}) \cup {p} /\ Ips(u)' = B \ {p} /\ p \in B
      BY Zenon, <1>1, <1>2, <1>3, <1>6, <2>1
    <3>2. r - 1 \in Nat /\ AtMost(A, B \ {p}, r - 1) /\ (r - 1) + 1 = r
      <4>1. r - 1 \in Nat /\ AtMost(A, B \ {p}, r - 1)
        BY Zenon, <1>1, <3>1, Fewer
      <4> QED BY <1>1, <4>1
    <3>3. AtMost(A \ {p}, B \ {p}, r - 1)
      BY Zenon, <3>2, Fewer
    <3>4. AtMost((A \ {p}) \cup {p}, B \ {p}, (r - 1) + 1)
      BY <3>2, <3>3, Bounds
    <3> QED BY Zenon, <1>1, <3>1, <3>2, <3>4
  <2>2. CASE u # ip[p]
    <3>1. Fds(u)' = A \ {p} /\ Ips(u)' = B
      BY <1>1, <1>2, <1>3, <1>6, <2>2
    <3>2. AtMost(A \ {p}, B, r)
      BY Zenon, <1>1, Fewer
    <3> QED BY Zenon, <1>1, <3>1, <3>2
  <2> QED BY Zenon, <2>1, <2>2
<1>7. CASE fd[p] # 0 /\ ip[p] = 0 /\ ip'[p] = fd[p] /\ fd'[p] = 0
  <2>1. CASE u = fd[p]
    <3>1. Fds(u)' = A \ {p} /\ Ips(u)' = B \cup {p} /\ p \in A /\ p \notin B
      BY Zenon, <1>1, <1>2, <1>3, <1>7, <2>1
    <3>2. r - 1 \in Nat /\ AtMost(A \ {p}, B, r - 1) /\ (r - 1) + 1 = r
      <4>1. r - 1 \in Nat /\ AtMost(A \ {p}, B, r - 1)
        BY Zenon, <1>1, <3>1, Fewer
      <4> QED BY <1>1, <4>1
    <3>3. AtMost(B, A \ {p}, r - 1)
      BY Zenon, <3>2, Swap
    <3>4. AtMost(B \cup {p}, A \ {p}, (r - 1) + 1)
      BY <3>1, <3>2, <3>3, Bounds
    <3> QED BY Zenon, <1>1, <3>1, <3>2, <3>4, Swap
  <2>2. CASE u # fd[p]
    <3>1. Fds(u)' = A /\ Ips(u)' = B
      BY <1>1, <1>2, <1>3, <1>7, <2>2
    <3> QED BY Zenon, <1>1, <3>1
  <2> QED BY Zenon, <2>1, <2>2
<1> QED BY Zenon, <1>4, <1>5, <1>6, <1>7 DEF Turns

\* The entry s now holds d.
LEMMA Wrote ==
  ASSUME IInv, NEW s \in Slot, NEW d \in Dinode, icache' = [icache EXCEPT ![s].valid = 1, ![s].d = d]
  PROVE  /\ icache' \in [Slot -> Entry] /\ SameEntries /\ icache'[s].d = d
         /\ \A u \in Slot \ {s} : icache'[u] = icache[u]
<1>1. icache \in [Slot -> Entry]
  BY Zenon DEF IInv, Types
<1>2. /\ icache' \in [Slot -> Entry] /\ icache'[s].d = d
      /\ icache'[s].inum = icache[s].inum /\ icache'[s].ref = icache[s].ref
      /\ \A u \in Slot \ {s} : icache'[u] = icache[u]
  BY ZenonT(30), <1>1 DEF Entry
<1> QED BY Zenon, <1>2 DEF SameEntries

\* And so does the disk.
LEMMA Updated ==
  ASSUME IInv, NEW s \in Slot, icache[s].inum \in Inum, NEW d \in Dinode, Iupdate(s, d)
  PROVE  /\ disk' \in [Inum -> Dinode] /\ disk'[icache[s].inum] = d
         /\ \A i \in Inum \ {icache[s].inum} : disk'[i] = disk[i]
         /\ icache' \in [Slot -> Entry] /\ SameEntries /\ icache'[s].d = d
         /\ \A u \in Slot \ {s} : icache'[u] = icache[u]
<1>1. icache' = [icache EXCEPT ![s].valid = 1, ![s].d = d] /\ disk' = [disk EXCEPT ![icache[s].inum] = d]
  BY Zenon DEF Iupdate
<1>2. disk \in [Inum -> Dinode]
  BY Zenon DEF IInv, Types
<1>3. /\ disk' \in [Inum -> Dinode] /\ disk'[icache[s].inum] = d
      /\ \A i \in Inum \ {icache[s].inum} : disk'[i] = disk[i]
  BY Zenon, <1>1, <1>2
<1> QED BY Zenon, <1>1, <1>3, Wrote

\* What ilock finds when p has a reference to s.
LEMMA Found ==
  ASSUME IInv, NEW p \in Proc, NEW s, s # 0,
         s = fd[p] \/ (s = ip[p] /\ pc[p] \notin {"release", "drop"}), lock[s] = None
  PROVE  /\ s \in Slot /\ icache[s].inum \in Inum /\ disk[icache[s].inum].type # 0
         /\ Ilocked(s) \in Dinode /\ Same(Ilocked(s), disk[icache[s].inum])
<1>1. /\ s \in Slot /\ icache[s].ref > 0 /\ icache[s].inum \in Inum
      /\ disk[icache[s].inum].type # 0
  BY Zenon, Referenced
<1> QED BY Zenon, <1>1, IlockedIs DEF IInv

\* A step that makes or takes no link.
LEMMA LinksKept ==
  ASSUME IInv, NEW p \in Proc, Others(p), SameEntries, dir' = dir,
         \A i \in Inum : disk'[i].nlink = disk[i].nlink,
         pc[p] \in {"enter", "dec"} <=> pc'[p] \in {"enter", "dec"},
         pc[p] \in {"enter", "dec"} => ip'[p] = ip[p]
  PROVE  LinksExact'
<1>1. \A q \in Proc : pc[q] \in {"enter", "dec"} => ip[q] \in Slot
  BY DEF IInv, Homes, Types
<1>2. \A q \in Proc : /\ pc'[q] \in {"enter", "dec"} <=> pc[q] \in {"enter", "dec"}
                      /\ pc[q] \in {"enter", "dec"} => icache'[ip'[q]].inum = icache[ip[q]].inum
  BY <1>1 DEF Others, SameEntries
<1>3. \A j \in Inum : Entering(j)' = Entering(j) /\ Names(j)' = Names(j)
  BY Zenon, <1>2 DEF Entering, Names
<1> QED BY Zenon, <1>3 DEF IInv, LinksExact

\* A step that takes or frees no block.
LEMMA BlocksKept ==
  ASSUME IInv, used' = used, \A i \in Inum : disk'[i].addr = disk[i].addr
  PROVE  BlocksOwned'
BY ZenonT(30) DEF IInv, BlocksOwned

\* The parts of the invariant, for a step that works on an entry.
LEMMA WorkDone ==
  ASSUME IInv, NEW p \in Proc, NEW s, Work(p, s), Types', Turns(p), LinksExact', BlocksOwned'
  PROVE  IInv'
<1>1. RefsCounted'
  BY Zenon, RefsKept DEF Work
<1> QED BY Zenon, <1>1, WorkKeeps DEF IInv

\* open: the inode is locked and a descriptor is made, or not.
LEMMA OpenLockKeeps ==
  ASSUME IInv, NEW p \in Proc, OpenLock(p)
  PROVE  IInv'
<1> DEFINE s == ip[p]
<1>1. /\ pc[p] = "open" /\ panicked = "no" /\ lock[s] = None
      /\ icache' = [icache EXCEPT ![s].valid = 1, ![s].d = Ilocked(s)]
      /\ UNCHANGED <<disk, dir, used, lock, dlock, arg>>
  BY Zenon DEF OpenLock, Ilock, At
<1>2. s # 0
  BY Zenon, <1>1 DEF IInv, Homes
<1>3. /\ s \in Slot /\ icache[s].inum \in Inum /\ disk[icache[s].inum].type # 0
      /\ Ilocked(s) \in Dinode /\ Same(Ilocked(s), disk[icache[s].inum])
  BY Zenon, <1>1, <1>2, Found
<1>4. /\ icache' \in [Slot -> Entry] /\ SameEntries /\ icache'[s].d = Ilocked(s)
      /\ \A u \in Slot \ {s} : icache'[u] = icache[u]
  BY Zenon, <1>1, <1>3, Wrote
<1>5. CASE /\ fd' = [fd EXCEPT ![p] = s] /\ fdnum' = [fdnum EXCEPT ![p] = icache[s].inum]
           /\ ip' = [ip EXCEPT ![p] = 0] /\ pc' = [pc EXCEPT ![p] = "user"]
  <2>1. /\ Others(p) /\ pc'[p] = "user" /\ ip'[p] = 0 /\ fd'[p] = s /\ fdnum'[p] = icache[s].inum
    BY Zenon, <1>1, <1>5 DEF Others, IInv, Types
  <2>2. Work(p, s)
    BY Zenon, <1>1, <1>2, <1>3, <1>4, <2>1 DEF Work, Fits
  <2>3. Types'
    BY Zenon, <1>1, <1>3, <1>4, <1>5 DEF IInv, Types, Labels
  <2>4. Turns(p)
    BY Zenon, <1>2, <2>1 DEF Turns
  <2>5. LinksExact'
    BY Zenon, <1>1, <1>4, <2>1, LinksKept
  <2>6. BlocksOwned'
    BY Zenon, <1>1, BlocksKept
  <2> QED BY Zenon, <2>2, <2>3, <2>4, <2>5, <2>6, WorkDone
<1>6. CASE pc' = [pc EXCEPT ![p] = "iput"] /\ UNCHANGED <<fd, fdnum, ip>>
  <2>1. /\ Others(p) /\ pc'[p] = "iput" /\ ip'[p] = s /\ fd'[p] = fd[p] /\ fdnum'[p] = fdnum[p]
    BY Zenon, <1>1, <1>6 DEF Others, IInv, Types
  <2>2. Work(p, s)
    BY Zenon, <1>1, <1>2, <1>3, <1>4, <2>1 DEF Work, Fits, IInv, Opened
  <2>3. Types'
    BY Zenon, <1>1, <1>3, <1>4, <1>6 DEF IInv, Types, Labels
  <2>4. Turns(p)
    BY Zenon, <2>1 DEF Turns
  <2>5. LinksExact'
    BY Zenon, <1>1, <1>4, <2>1, LinksKept
  <2>6. BlocksOwned'
    BY Zenon, <1>1, BlocksKept
  <2> QED BY Zenon, <2>2, <2>3, <2>4, <2>5, <2>6, WorkDone
<1> QED BY Zenon, <1>5, <1>6 DEF OpenLock, Goto

\* A step of p alone, which has the reference s.
LEMMA MoveKeeps ==
  ASSUME IInv, NEW p \in Proc, NEW s, s # 0, s \in {fd[p], ip[p]}, Others(p), Types',
         UNCHANGED <<disk, dir, used, icache, lock, dlock>>, panicked = "no",
         pc[p] \notin {"free", "release", "drop"},
         pc'[p] \notin {"free", "release", "iget", "fill", "unlink"},
         pc[p] \in {"enter", "dec"} <=> pc'[p] \in {"enter", "dec"},
         pc[p] \in {"enter", "dec"} => ip'[p] = ip[p],
         pc'[p] = "user" <=> ip'[p] = 0,
         (fd'[p] = fd[p] /\ fdnum'[p] = fdnum[p]) \/ fd'[p] = 0,
         Turns(p), Fits(p)'
  PROVE  IInv'
<1>1. SameEntries
  BY Zenon DEF SameEntries
<1>2. fd'[p] # 0 => fdnum'[p] = icache[fd'[p]].inum
  BY Zenon DEF IInv, Opened
<1>3. ip'[p] \in {0, ip[p], fd[p]} /\ (fd'[p] # 0 => fd'[p] \in {fd[p], ip[p]})
  BY Zenon DEF Turns
<1>4. Work(p, s)
  BY Zenon, <1>1, <1>2, <1>3 DEF Work
<1>5. LinksExact'
  BY Zenon, <1>1, LinksKept
<1>6. BlocksOwned'
  BY Zenon, BlocksKept
<1> QED BY Zenon, <1>4, <1>5, <1>6, WorkDone

\* close.
LEMMA CloseKeeps ==
  ASSUME IInv, NEW p \in Proc, Close(p)
  PROVE  IInv'
<1> DEFINE s == fd[p]
<1>1. /\ pc[p] = "user" /\ panicked = "no" /\ s # 0
      /\ ip' = [ip EXCEPT ![p] = s] /\ fd' = [fd EXCEPT ![p] = 0] /\ fdnum' = [fdnum EXCEPT ![p] = 0]
      /\ pc' = [pc EXCEPT ![p] = "iput"]
      /\ UNCHANGED <<disk, dir, used, icache, lock, dlock, arg>>
  BY Zenon DEF Close, At, Goto
<1>2. ip[p] = 0 /\ s \in Slot
  BY <1>1 DEF IInv, Homes, Types
<1>3. Others(p) /\ ip'[p] = s /\ fd'[p] = 0 /\ pc'[p] = "iput"
  BY Zenon, <1>1 DEF Others, IInv, Types
<1>4. Types'
  BY Zenon, <1>1, <1>2 DEF IInv, Types, Labels
<1>5. Turns(p) /\ Fits(p)'
  BY Zenon, <1>1, <1>2, <1>3 DEF Turns, Fits
<1> QED BY Zenon, <1>1, <1>3, <1>4, <1>5, MoveKeeps

\* iput, when this is not the last reference to an inode without links.
LEMMA NotLastKeeps ==
  ASSUME IInv, NEW p \in Proc, panicked = "no", pc[p] = "iput", pc' = [pc EXCEPT ![p] = "drop"],
         UNCHANGED <<disk, dir, used, icache, lock, dlock, fd, fdnum, ip, arg, panicked>>
  PROVE  IInv'
<1>1. ip[p] # 0
  BY Zenon DEF IInv, Homes
<1>2. Others(p) /\ pc'[p] = "drop"
  BY Zenon DEF Others, IInv, Types
<1>3. Types'
  BY Zenon DEF IInv, Types, Labels
<1>4. Turns(p) /\ Fits(p)'
  BY Zenon, <1>2 DEF Turns, Fits
<1> QED BY Zenon, <1>1, <1>2, <1>3, <1>4, MoveKeeps

\* chmod and chown return, and keep the reference, or chmod goes on.
LEMMA ReturnKeeps ==
  ASSUME IInv, NEW p \in Proc, panicked = "no", pc[p] \in {"chmod", "denied"},
         \/ pc' = [pc EXCEPT ![p] = "user"] /\ ip' = [ip EXCEPT ![p] = 0] /\ arg' = [arg EXCEPT ![p] = <<>>]
         \/ pc[p] = "chmod" /\ pc' = [pc EXCEPT ![p] = "setmode"] /\ UNCHANGED <<ip, arg>>,
         UNCHANGED <<disk, dir, used, icache, lock, dlock, fd, fdnum, panicked>>
  PROVE  IInv'
<1>1. ip[p] # 0
  BY Zenon DEF IInv, Homes
<1>2. arg' = [q \in Proc |-> arg'[q]] /\ \A q \in Proc : q # p => arg'[q] = arg[q]
  BY Zenon DEF IInv, Types
<1>3. /\ Others(p)
      /\ \/ pc'[p] = "user" /\ ip'[p] = 0
         \/ pc'[p] = "setmode" /\ pc[p] = "chmod" /\ ip'[p] = ip[p] /\ arg' = arg
  BY Zenon, <1>2 DEF Others, IInv, Types
<1>4. Types'
  BY ZenonT(30), <1>2 DEF IInv, Types, Labels
<1>5. Turns(p) /\ Fits(p)'
  BY Zenon, <1>3 DEF Turns, Fits, IInv, Args
<1> QED BY Zenon, <1>1, <1>3, <1>4, <1>5, MoveKeeps

\* chmod and chown change the copy in the cache only.
LEMMA SetKeeps ==
  ASSUME IInv, NEW p \in Proc, NEW d, panicked = "no", pc[p] \in {"setmode", "chown"}, lock[ip[p]] = None,
         \/ pc[p] = "setmode" /\ d = [Ilocked(ip[p]) EXCEPT !.mode = arg[p][1]]
         \/ pc[p] = "chown" /\ d = [Ilocked(ip[p]) EXCEPT !.uid = arg[p][1]],
         SetInode(p, d)
  PROVE  IInv'
<1> DEFINE s == ip[p]
<1>1. /\ icache' = [icache EXCEPT ![s].valid = 1, ![s].d = d]
      /\ ip' = [ip EXCEPT ![p] = 0] /\ arg' = [arg EXCEPT ![p] = <<>>] /\ pc' = [pc EXCEPT ![p] = "user"]
      /\ UNCHANGED <<disk, dir, used, lock, dlock, fd, fdnum>>
  BY Zenon DEF SetInode, Goto
<1>2. s # 0 /\ pc[p] \notin {"enter", "dec", "free", "release", "drop"}
  BY Zenon DEF IInv, Homes
<1>3. /\ s \in Slot /\ icache[s].inum \in Inum /\ disk[icache[s].inum].type # 0
      /\ Ilocked(s) \in Dinode /\ Same(Ilocked(s), disk[icache[s].inum])
  BY Zenon, <1>2, Found
<1>4. d \in Dinode /\ Same(d, disk[icache[s].inum])
  <2>1. /\ pc[p] = "setmode" => arg[p][1] \in Mode
        /\ pc[p] = "chown" => arg[p][1] \in Owner
    BY Zenon DEF IInv, Args, Fits
  <2> HIDE DEF s
  <2> QED BY Zenon, <1>3, <2>1 DEF Dinode, Same, s
<1>5. /\ icache' \in [Slot -> Entry] /\ SameEntries /\ icache'[s].d = d
      /\ \A u \in Slot \ {s} : icache'[u] = icache[u]
  BY Zenon, <1>1, <1>3, <1>4, Wrote
<1>6. /\ Others(p) /\ pc'[p] = "user" /\ ip'[p] = 0 /\ fd'[p] = fd[p] /\ fdnum'[p] = fdnum[p]
      /\ arg' = [q \in Proc |-> arg'[q]]
  <2>1. arg' = [q \in Proc |-> arg'[q]] /\ \A q \in Proc : q # p => arg'[q] = arg[q]
    BY Zenon, <1>1 DEF IInv, Types
  <2> QED BY Zenon, <1>1, <2>1 DEF Others, IInv, Types
<1>7. Work(p, s)
  BY Zenon, <1>1, <1>2, <1>3, <1>4, <1>5, <1>6 DEF Work, Fits, IInv, Opened
<1>8. Types'
  BY Zenon, <1>1, <1>5, <1>6 DEF IInv, Types, Labels
<1>9. Turns(p)
  BY Zenon, <1>6 DEF Turns
<1>10. LinksExact'
  BY Zenon, <1>1, <1>2, <1>5, <1>6, LinksKept
<1>11. BlocksOwned'
  BY Zenon, <1>1, BlocksKept
<1> QED BY Zenon, <1>7, <1>8, <1>9, <1>10, <1>11, WorkDone

\* write: the file gets the block b, which is free.
LEMMA WriteKeeps ==
  ASSUME IInv, NEW p \in Proc, NEW b \in Block \ used, FileWrite(p),
         used' = used \cup {b}, Iupdate(fd[p], [Ilocked(fd[p]) EXCEPT !.addr = b])
  PROVE  IInv'
<1> DEFINE s == fd[p]
           i == icache[s].inum
           d == [Ilocked(s) EXCEPT !.addr = b]
<1>1. /\ pc[p] = "user" /\ panicked = "no" /\ s # 0 /\ lock[s] = None /\ Ilocked(s).addr = 0
      /\ UNCHANGED <<dir, lock, dlock, fd, fdnum, pc, ip, arg>>
  BY Zenon DEF FileWrite, At
<1>2. /\ s \in Slot /\ i \in Inum /\ disk[i].type # 0
      /\ Ilocked(s) \in Dinode /\ Same(Ilocked(s), disk[i])
  BY Zenon, <1>1, Found
<1>3. /\ d \in Dinode /\ d.type = disk[i].type /\ d.nlink = disk[i].nlink /\ d.addr = b
      /\ disk[i].addr = 0
  BY Zenon, <1>1, <1>2 DEF Dinode, Same
<1> HIDE DEF d
<1>4. /\ disk' \in [Inum -> Dinode] /\ disk'[i] = d
      /\ \A j \in Inum \ {i} : disk'[j] = disk[j]
      /\ icache' \in [Slot -> Entry] /\ SameEntries /\ icache'[s].d = d
      /\ \A u \in Slot \ {s} : icache'[u] = icache[u]
  BY Zenon, <1>2, <1>3, Updated DEF d
<1>5. Others(p)
  BY Zenon, <1>1 DEF Others
<1>6. ip[p] = 0 /\ fdnum[p] = icache[s].inum
  BY Zenon, <1>1 DEF IInv, Homes, Opened
<1>7. Same(icache'[s].d, disk'[i])
  BY Zenon, <1>4 DEF Same
<1>8. Work(p, s)
  BY Zenon, <1>1, <1>2, <1>3, <1>4, <1>5, <1>6, <1>7 DEF Work, Fits
<1>9. Types'
  <2>1. used' \subseteq Block
    BY Zenon DEF IInv, Types
  <2> QED BY Zenon, <1>1, <1>4, <2>1 DEF IInv, Types
<1>10. Turns(p)
  BY Zenon, <1>1 DEF Turns
<1>11. LinksExact'
  <2>1. \A j \in Inum : disk'[j].nlink = disk[j].nlink
    BY Zenon, <1>3, <1>4
  <2> QED BY Zenon, <1>1, <1>4, <1>5, <2>1, LinksKept
<1>12. BlocksOwned'
  <2>1. \A j \in Inum : disk'[j].addr = IF j = i THEN b ELSE disk[j].addr
    BY Zenon, <1>3, <1>4
  <2>2. b # 0 /\ b \notin used
    BY Zenon, Zero
  <2>3. used = {disk[j].addr : j \in Inum} \ {0}
        /\ \A j, k \in Inum : disk[j].addr = disk[k].addr /\ j # k => disk[j].addr = 0
    BY Zenon DEF IInv, BlocksOwned
  <2>4. \A j \in Inum : disk[j].addr # b
    BY ZenonT(30), <2>2, <2>3
  <2>5. used' = {disk'[j].addr : j \in Inum} \ {0}
    BY <1>2, <1>3, <2>1, <2>2, <2>3
  <2>6. \A j, k \in Inum : disk'[j].addr = disk'[k].addr /\ j # k => disk'[j].addr = 0
    BY ZenonT(30), <2>1, <2>3, <2>4
  <2> QED BY Zenon, <2>5, <2>6 DEF BlocksOwned
<1> QED BY Zenon, <1>8, <1>9, <1>10, <1>11, <1>12, WorkDone

\* A name or a link that is being made, more or less.
LEMMA Parts ==
  ASSUME NEW A, NEW B, NEW r, Exactly(A, B, r), NEW x
  PROVE  /\ r \in Nat
         /\ x \notin A => Exactly(A \cup {x}, B, r + 1)
         /\ x \notin B => Exactly(A, B \cup {x}, r + 1)
         /\ x \in A => r - 1 \in Nat /\ Exactly(A \ {x}, B, r - 1)
         /\ x \in B => r - 1 \in Nat /\ Exactly(A, B \ {x}, r - 1)
<1>1. ASSUME NEW C, NEW D, Exactly(C, D, r)
      PROVE  /\ r \in Nat /\ Exactly(D, C, r)
             /\ x \notin C => Exactly(C \cup {x}, D, r + 1)
             /\ x \in C => r - 1 \in Nat /\ Exactly(C \ {x}, D, r - 1)
  <2>1. /\ r \in Nat /\ Exactly(D, C, r)
        /\ x \notin C => Exactly(C \cup {x}, D, r + 1)
        /\ x \in C => r > 0 /\ Exactly(C \ {x}, D, r - 1)
    BY Zenon, <1>1, Pairs
  <2>2. r > 0 => r - 1 \in Nat
    BY <2>1
  <2> QED BY Zenon, <2>1, <2>2
<1>2. ASSUME NEW C, NEW D, NEW n, Exactly(C, D, n) PROVE Exactly(D, C, n)
  BY Zenon, <1>2, Pairs
<1>3. Exactly(B, A, r)
  BY Zenon, <1>2
<1> QED BY Zenon, <1>1, <1>2, <1>3

\* The links that other processes are making stay.
LEMMA EnteringKept ==
  ASSUME IInv, NEW p \in Proc, Others(p), SameEntries, NEW j
  PROVE  /\ \A q \in Proc : q # p => (q \in Entering(j)' <=> q \in Entering(j))
         /\ Entering(j)' \subseteq Proc /\ Entering(j) \subseteq Proc
         /\ p \in Entering(j) <=> pc[p] \in {"enter", "dec"} /\ icache[ip[p]].inum = j
         /\ p \in Entering(j)' <=> pc'[p] \in {"enter", "dec"} /\ icache'[ip'[p]].inum = j
<1>1. \A q \in Proc : pc[q] \in {"enter", "dec"} => ip[q] \in Slot
  BY DEF IInv, Homes, Types
<1>2. \A q \in Proc : q # p => /\ pc'[q] = pc[q] /\ ip'[q] = ip[q]
                               /\ pc[q] \in {"enter", "dec"} => icache'[ip'[q]].inum = icache[ip[q]].inum
  BY Zenon, <1>1 DEF Others, SameEntries
<1> QED BY Zenon, <1>2 DEF Entering

\* p, with the inode s locked, writes d, with another link count, and goes on.
LEMMA RelinkKeeps ==
  ASSUME IInv, NEW p \in Proc, NEW s, s = ip[p], s # 0, lock[s] = None, panicked = "no",
         NEW d \in Dinode, Iupdate(s, d), Others(p), Fits(p)', Turns(p),
         d.type = Ilocked(s).type, d.addr = Ilocked(s).addr,
         pc[p] \notin {"free", "release", "drop"},
         pc'[p] \notin {"free", "release", "iget", "fill", "unlink"},
         pc' \in [Proc -> Labels], ip' \in [Proc -> Slot \cup {0}], fd' \in [Proc -> Slot \cup {0}],
         fdnum' \in [Proc -> Inum \cup {0}], arg' = [q \in Proc |-> arg'[q]],
         pc'[p] = "user" <=> ip'[p] = 0,
         (fd'[p] = fd[p] /\ fdnum'[p] = fdnum[p]) \/ (fd'[p] = s /\ fdnum'[p] = icache[s].inum),
         used' = used, lock' = lock, dlock' \in Proc \cup {None},
         dlock' = dlock \/ dlock = p, dir' = dir \/ dlock \in {p, None},
         dir' \in [Name -> Inum \cup {0}],
         SameEntries /\ disk'[icache[s].inum] = d /\ (\A i \in Inum \ {icache[s].inum} : disk'[i] = disk[i])
           => LinksExact'
  PROVE  IInv'
<1> DEFINE i == icache[s].inum
<1>1. /\ s \in Slot /\ i \in Inum /\ disk[i].type # 0 /\ Same(Ilocked(s), disk[i])
  BY ZenonT(30), Found
<1>2. /\ disk' \in [Inum -> Dinode] /\ disk'[i] = d
      /\ \A j \in Inum \ {i} : disk'[j] = disk[j]
      /\ icache' \in [Slot -> Entry] /\ SameEntries /\ icache'[s].d = d
      /\ \A u \in Slot \ {s} : icache'[u] = icache[u]
  BY ZenonT(30), <1>1, Updated
<1>3. disk'[i].type = disk[i].type /\ disk'[i].addr = disk[i].addr /\ Same(icache'[s].d, disk'[i])
  BY Zenon, <1>1, <1>2 DEF Same
<1>4. /\ ip'[p] \in {0, ip[p], fd[p]}
      /\ fd'[p] # 0 => fd'[p] \in {fd[p], ip[p]} /\ fdnum'[p] = icache[fd'[p]].inum
  BY ZenonT(30) DEF Turns, IInv, Opened
<1>5. Work(p, s)
  BY Zenon, <1>2, <1>3, <1>4 DEF Work
<1>6. Types'
  BY Zenon, <1>2 DEF IInv, Types
<1>7. LinksExact'
  BY Zenon, <1>2
<1>8. BlocksOwned'
  <2>1. \A j \in Inum : disk'[j].addr = disk[j].addr
    BY Zenon, <1>2, <1>3
  <2> QED BY Zenon, <2>1, BlocksKept
<1> QED BY Zenon, <1>5, <1>6, <1>7, <1>8, WorkDone

\* link counts the link.
LEMMA LinkIncKeeps ==
  ASSUME IInv, NEW p \in Proc, LinkInc(p)
  PROVE  IInv'
<1> DEFINE s == ip[p]
           i == icache[s].inum
           d == [Ilocked(s) EXCEPT !.nlink = @ + 1]
<1>1. /\ pc[p] = "inc" /\ panicked = "no" /\ lock[s] = None
      /\ Iupdate(s, d) /\ pc' = [pc EXCEPT ![p] = "enter"]
      /\ UNCHANGED <<dir, used, lock, dlock, fd, fdnum, ip, arg>>
  BY Zenon DEF LinkInc, Ilock, At, Goto
<1>2. s # 0 /\ arg[p][1] \in Name
  BY Zenon, <1>1 DEF IInv, Homes, Args, Fits
<1>3. /\ s \in Slot /\ i \in Inum /\ Ilocked(s) \in Dinode /\ Same(Ilocked(s), disk[i])
  BY ZenonT(30), <1>1, <1>2, Found
<1>4. /\ d \in Dinode /\ d.type = Ilocked(s).type /\ d.addr = Ilocked(s).addr /\ d.nlink = disk[i].nlink + 1
  BY <1>3 DEF Dinode, Same
<1> HIDE DEF d
<1>5. Others(p) /\ pc'[p] = "enter" /\ pc' \in [Proc -> Labels]
  BY Zenon, <1>1 DEF Others, IInv, Types, Labels
<1>6. ASSUME SameEntries, disk'[i] = d, \A j \in Inum \ {i} : disk'[j] = disk[j]
      PROVE  LinksExact'
  <2> SUFFICES ASSUME NEW j \in Inum PROVE Exactly(Names(j)', Entering(j)', disk'[j].nlink)
    BY Zenon DEF LinksExact
  <2>1. Exactly(Names(j), Entering(j), disk[j].nlink) /\ Names(j)' = Names(j)
    BY Zenon, <1>1 DEF IInv, LinksExact, Names
  <2>2. icache'[ip'[p]].inum = i
    BY Zenon, <1>1, <1>3, <1>6 DEF SameEntries
  <2>2a. /\ \A q \in Proc : q # p => (q \in Entering(j)' <=> q \in Entering(j))
         /\ Entering(j)' \subseteq Proc /\ Entering(j) \subseteq Proc
         /\ p \notin Entering(j)
         /\ p \in Entering(j)' <=> icache'[ip'[p]].inum = j
    BY Zenon, <1>1, <1>5, <1>6, EnteringKept
  <2>3. CASE j = i
    <3>1. Entering(j)' = Entering(j) \cup {p} /\ p \notin Entering(j)
      BY Zenon, <2>2, <2>3, <2>2a
    <3>2. Exactly(Names(j), Entering(j) \cup {p}, disk[j].nlink + 1)
      BY Zenon, <2>1, <3>1, Parts
    <3> QED BY ZenonT(30), <1>4, <1>6, <2>1, <2>3, <3>1, <3>2
  <2>4. CASE j # i
    <3>0. p \notin Entering(j)'
      BY Zenon, <2>2, <2>4, <2>2a
    <3>1. Entering(j)' = Entering(j)
      BY <2>2a, <3>0
    <3> QED BY Zenon, <1>6, <2>1, <2>4, <3>1
  <2> QED BY Zenon, <2>3, <2>4
<1>7. Turns(p) /\ Fits(p)'
  BY Zenon, <1>1, <1>2, <1>5 DEF Turns, Fits
<1>8. /\ dlock' \in Proc \cup {None} /\ ip' \in [Proc -> Slot \cup {0}] /\ fd' \in [Proc -> Slot \cup {0}]
      /\ fdnum' \in [Proc -> Inum \cup {0}] /\ dir' \in [Name -> Inum \cup {0}]
      /\ arg' = [q \in Proc |-> arg'[q]]
  BY Zenon, <1>1 DEF IInv, Types
<1>9. /\ ip'[p] # 0 /\ fd'[p] = fd[p] /\ fdnum'[p] = fdnum[p]
  BY Zenon, <1>1, <1>2
<1> QED BY ZenonT(30), <1>1, <1>2, <1>4, <1>5, <1>6, <1>7, <1>8, <1>9, RelinkKeeps

\* link takes the link back.
LEMMA LinkDecKeeps ==
  ASSUME IInv, NEW p \in Proc, LinkDec(p)
  PROVE  IInv'
<1> DEFINE s == ip[p]
           i == icache[s].inum
           d == [Ilocked(s) EXCEPT !.nlink = @ - 1]
<1>1. /\ pc[p] = "dec" /\ panicked = "no" /\ lock[s] = None
      /\ Iupdate(s, d) /\ pc' = [pc EXCEPT ![p] = "iput"]
      /\ UNCHANGED <<dir, used, lock, dlock, fd, fdnum, ip, arg>>
  BY Zenon DEF LinkDec, Ilock, At, Goto
<1>2. s # 0
  BY Zenon, <1>1 DEF IInv, Homes
<1>3. /\ s \in Slot /\ i \in Inum /\ Ilocked(s) \in Dinode /\ Same(Ilocked(s), disk[i])
  BY Zenon, <1>1, <1>2, Found
<1>4. Exactly(Names(i), Entering(i), disk[i].nlink) /\ p \in Entering(i)
  BY Zenon, <1>1, <1>3 DEF IInv, LinksExact, Entering
<1>5. disk[i].nlink - 1 \in Nat /\ Exactly(Names(i), Entering(i) \ {p}, disk[i].nlink - 1)
  BY Zenon, <1>4, Parts
<1>6. /\ d \in Dinode /\ d.type = Ilocked(s).type /\ d.addr = Ilocked(s).addr /\ d.nlink = disk[i].nlink - 1
  BY Zenon, <1>3, <1>5 DEF Dinode, Same
<1> HIDE DEF d
<1>7. Others(p) /\ pc'[p] = "iput" /\ pc' \in [Proc -> Labels]
  BY Zenon, <1>1 DEF Others, IInv, Types, Labels
<1>8. ASSUME SameEntries, disk'[i] = d, \A j \in Inum \ {i} : disk'[j] = disk[j]
      PROVE  LinksExact'
  <2> SUFFICES ASSUME NEW j \in Inum PROVE Exactly(Names(j)', Entering(j)', disk'[j].nlink)
    BY Zenon DEF LinksExact
  <2>1. Exactly(Names(j), Entering(j), disk[j].nlink) /\ Names(j)' = Names(j)
    BY Zenon, <1>1 DEF IInv, LinksExact, Names
  <2>2. CASE j = i
    <3>1. Entering(j)' = Entering(j) \ {p}
      BY SMTT(30), <1>7, <1>8, EnteringKept
    <3> QED BY Zenon, <1>5, <1>6, <1>8, <2>1, <2>2, <3>1
  <2>3. CASE j # i
    <3>1. Entering(j)' = Entering(j)
      BY <1>7, <1>8, <2>3, EnteringKept
    <3> QED BY Zenon, <1>8, <2>1, <2>3, <3>1
  <2> QED BY Zenon, <2>2, <2>3
<1>9. Turns(p) /\ Fits(p)'
  BY Zenon, <1>1, <1>7 DEF Turns, Fits
<1>10. /\ dlock' \in Proc \cup {None} /\ ip' \in [Proc -> Slot \cup {0}] /\ fd' \in [Proc -> Slot \cup {0}]
      /\ fdnum' \in [Proc -> Inum \cup {0}] /\ dir' \in [Name -> Inum \cup {0}]
      /\ arg' = [q \in Proc |-> arg'[q]]
  BY Zenon, <1>1 DEF IInv, Types
<1>11. /\ ip'[p] # 0 /\ fd'[p] = fd[p] /\ fdnum'[p] = fdnum[p]
  BY Zenon, <1>1, <1>2
<1> QED BY Zenon, <1>1, <1>2, <1>6, <1>7, <1>8, <1>9, <1>10, <1>11, RelinkKeeps

\* unlink removes the name.
LEMMA UnlinkKeeps ==
  ASSUME IInv, NEW p \in Proc, UnlinkLock(p)
  PROVE  IInv'
<1> DEFINE s == ip[p]
           i == icache[s].inum
           n == arg[p][1]
           d == [Ilocked(s) EXCEPT !.nlink = @ - 1]
<1>1. /\ pc[p] = "unlink" /\ panicked = "no" /\ lock[s] = None
      /\ Iupdate(s, d) /\ dir' = [dir EXCEPT ![n] = 0] /\ dlock' = None
      /\ arg' = [arg EXCEPT ![p] = <<>>] /\ pc' = [pc EXCEPT ![p] = "iput"]
      /\ UNCHANGED <<used, lock, fd, fdnum, ip>>
  BY Zenon DEF UnlinkLock, At, Goto
<1>2. s # 0 /\ dlock = p /\ n \in Name /\ dir[n] = i
  BY Zenon, <1>1 DEF IInv, Homes, Args, Fits
<1>3. /\ s \in Slot /\ i \in Inum /\ Ilocked(s) \in Dinode /\ Same(Ilocked(s), disk[i])
  BY Zenon, <1>1, <1>2, Found
<1>4. Exactly(Names(i), Entering(i), disk[i].nlink) /\ n \in Names(i)
  BY Zenon, <1>2, <1>3 DEF IInv, LinksExact, Names
<1>5. disk[i].nlink - 1 \in Nat /\ Exactly(Names(i) \ {n}, Entering(i), disk[i].nlink - 1)
  BY Zenon, <1>4, Parts
<1>6. /\ d \in Dinode /\ d.type = Ilocked(s).type /\ d.addr = Ilocked(s).addr /\ d.nlink = disk[i].nlink - 1
  BY Zenon, <1>3, <1>5 DEF Dinode, Same
<1> HIDE DEF d
<1>7. /\ arg' = [q \in Proc |-> arg'[q]] /\ Others(p)
      /\ pc'[p] = "iput" /\ pc' \in [Proc -> Labels]
  <2>1. arg' = [q \in Proc |-> arg'[q]] /\ \A q \in Proc : q # p => arg'[q] = arg[q]
    BY Zenon, <1>1 DEF IInv, Types
  <2> QED BY Zenon, <1>1, <2>1 DEF Others, IInv, Types, Labels
<1>8. dir' \in [Name -> Inum \cup {0}] /\ dir'[n] = 0 /\ \A m \in Name : m # n => dir'[m] = dir[m]
  BY Zenon, <1>1, <1>2 DEF IInv, Types
<1>9. ASSUME SameEntries, disk'[i] = d, \A j \in Inum \ {i} : disk'[j] = disk[j]
      PROVE  LinksExact'
  <2> SUFFICES ASSUME NEW j \in Inum PROVE Exactly(Names(j)', Entering(j)', disk'[j].nlink)
    BY Zenon DEF LinksExact
  <2>1. Exactly(Names(j), Entering(j), disk[j].nlink)
    BY Zenon DEF IInv, LinksExact
  <2>2. Entering(j)' = Entering(j)
    <3>1. /\ \A q \in Proc : q # p => (q \in Entering(j)' <=> q \in Entering(j))
          /\ Entering(j)' \subseteq Proc /\ Entering(j) \subseteq Proc
          /\ p \notin Entering(j) /\ p \notin Entering(j)'
      BY Zenon, <1>1, <1>7, <1>9, EnteringKept
    <3> QED BY <3>1
  <2>3. CASE j = i
    <3>1. Names(j)' = Names(j) \ {n}
      BY Zenon, <1>2, <1>8, <2>3, Zero DEF Names
    <3> QED BY Zenon, <1>5, <1>6, <1>9, <2>2, <2>3, <3>1
  <2>4. CASE j # i
    <3>1. Names(j)' = Names(j)
      BY Zenon, <1>2, <1>8, <2>4, Zero DEF Names
    <3> QED BY Zenon, <1>9, <2>1, <2>2, <2>4, <3>1
  <2> QED BY Zenon, <2>3, <2>4
<1>10. Turns(p) /\ Fits(p)'
  BY Zenon, <1>1, <1>7 DEF Turns, Fits
<1>11. /\ dlock' \in Proc \cup {None} /\ ip' \in [Proc -> Slot \cup {0}] /\ fd' \in [Proc -> Slot \cup {0}]
      /\ fdnum' \in [Proc -> Inum \cup {0}]
  BY Zenon, <1>1 DEF IInv, Types
<1>12. /\ ip'[p] # 0 /\ fd'[p] = fd[p] /\ fdnum'[p] = fdnum[p]
  BY Zenon, <1>1, <1>2
<1> QED BY Zenon, <1>1, <1>2, <1>6, <1>7, <1>8, <1>9, <1>10, <1>11, <1>12, RelinkKeeps

\* create's mode and link count make an inode.
LEMMA NewInode ==
  ASSUME NEW e \in Dinode
  PROVE  LET f == [e EXCEPT !.nlink = 1, !.mode = DefaultMode]
         IN  f \in Dinode /\ f.type = e.type /\ f.addr = e.addr /\ f.nlink = 1
<1>1. 1 \in Nat
  BY Zenon
<1>2. e = [type |-> e.type, nlink |-> e.nlink, mode |-> e.mode, uid |-> e.uid, addr |-> e.addr]
  BY Zenon DEF Dinode
<1> QED BY Zenon, <1>1, <1>2 DEF Dinode

\* create gives the inode its name.
LEMMA CreateKeeps ==
  ASSUME IInv, NEW p \in Proc, Create(p)
  PROVE  IInv'
<1> DEFINE s == ip[p]
           n == arg[p][1]
           i == arg[p][2]
           d == [Ilocked(s) EXCEPT !.nlink = 1, !.mode = DefaultMode]
<1>1. /\ pc[p] = "fill" /\ panicked = "no" /\ lock[s] = None
      /\ Iupdate(s, d) /\ dir' = [dir EXCEPT ![n] = i] /\ dlock' = None
      /\ arg' = [arg EXCEPT ![p] = <<>>]
      /\ \/ /\ fd' = [fd EXCEPT ![p] = s] /\ fdnum' = [fdnum EXCEPT ![p] = i]
            /\ ip' = [ip EXCEPT ![p] = 0] /\ pc' = [pc EXCEPT ![p] = "user"]
         \/ pc' = [pc EXCEPT ![p] = "iput"] /\ UNCHANGED <<fd, fdnum, ip>>
      /\ UNCHANGED <<used, lock>>
  BY Zenon DEF Create, Ilock, At, Goto
<1>2. /\ s # 0 /\ dlock = p /\ n \in Name /\ dir[n] = 0 /\ i \in Inum
      /\ icache[s].inum = i /\ disk[i].nlink = 0
  <2>1. New(p, n, i)
    BY Zenon, <1>1 DEF IInv, Fresh
  <2> QED BY Zenon, <1>1, <2>1 DEF New, IInv, Homes
<1>3. /\ s \in Slot /\ Ilocked(s) \in Dinode /\ Same(Ilocked(s), disk[i])
  BY Zenon, <1>1, <1>2, Found
<1>4. /\ d \in Dinode /\ d.type = Ilocked(s).type /\ d.addr = Ilocked(s).addr /\ d.nlink = disk[i].nlink + 1
  <2>2. disk[i].nlink + 1 = 1
    BY <1>2
  <2> QED BY Zenon, <1>3, <2>2, NewInode
<1> HIDE DEF d, n, i
<1>5. /\ arg' = [q \in Proc |-> arg'[q]] /\ Others(p)
      /\ \/ pc'[p] = "user" /\ ip'[p] = 0 /\ fd'[p] = s /\ fdnum'[p] = i
         \/ pc'[p] = "iput" /\ ip'[p] = s /\ fd'[p] = fd[p] /\ fdnum'[p] = fdnum[p]
  <2>1. arg' = [q \in Proc |-> arg'[q]] /\ \A q \in Proc : q # p => arg'[q] = arg[q]
    BY Zenon, <1>1 DEF IInv, Types
  <2> QED BY ZenonT(30), <1>1, <2>1 DEF Others, IInv, Types
<1>6. dir' \in [Name -> Inum \cup {0}] /\ dir'[n] = i /\ \A m \in Name : m # n => dir'[m] = dir[m]
  BY Zenon, <1>1, <1>2 DEF IInv, Types
<1>7. ASSUME SameEntries, disk'[i] = d, \A j \in Inum \ {i} : disk'[j] = disk[j]
      PROVE  LinksExact'
  <2> SUFFICES ASSUME NEW j \in Inum PROVE Exactly(Names(j)', Entering(j)', disk'[j].nlink)
    BY Zenon DEF LinksExact
  <2>1. Exactly(Names(j), Entering(j), disk[j].nlink)
    BY Zenon DEF IInv, LinksExact
  <2>2. Entering(j)' = Entering(j)
    <3>1. /\ \A q \in Proc : q # p => (q \in Entering(j)' <=> q \in Entering(j))
          /\ Entering(j)' \subseteq Proc /\ Entering(j) \subseteq Proc
          /\ p \notin Entering(j) /\ p \notin Entering(j)'
      BY Zenon, <1>1, <1>5, <1>7, EnteringKept
    <3> QED BY <3>1
  <2>3. CASE j = i
    <3>1. Names(j)' = Names(j) \cup {n} /\ n \notin Names(j)
      BY Zenon, <1>2, <1>6, <2>3, Zero DEF Names
    <3>2. Exactly(Names(j) \cup {n}, Entering(j), disk[j].nlink + 1)
      BY Zenon, <2>1, <3>1, Parts
    <3> QED BY Zenon, <1>4, <1>7, <2>2, <2>3, <3>1, <3>2
  <2>4. CASE j # i
    <3>1. Names(j)' = Names(j)
      BY Zenon, <1>2, <1>6, <2>4, Zero DEF Names
    <3> QED BY Zenon, <1>7, <2>1, <2>2, <2>4, <3>1
  <2> QED BY Zenon, <2>3, <2>4
<1>8. Turns(p) /\ Fits(p)'
  BY Zenon, <1>2, <1>5 DEF Turns, Fits
<1>9. /\ dlock' \in Proc \cup {None} /\ ip' \in [Proc -> Slot \cup {0}] /\ fd' \in [Proc -> Slot \cup {0}]
      /\ fdnum' \in [Proc -> Inum \cup {0}] /\ pc' \in [Proc -> Labels]
  BY Zenon, <1>1, <1>2, <1>3 DEF IInv, Types, Labels
<1>10. /\ pc'[p] \notin {"free", "release", "iget", "fill", "unlink"}
       /\ pc'[p] = "user" <=> ip'[p] = 0
       /\ (fd'[p] = fd[p] /\ fdnum'[p] = fdnum[p]) \/ (fd'[p] = s /\ fdnum'[p] = icache[s].inum)
  BY Zenon, <1>2, <1>5
<1> QED BY Zenon, <1>1, <1>2, <1>4, <1>5, <1>6, <1>7, <1>8, <1>9, <1>10, RelinkKeeps

\* link makes the entry.
LEMMA EnterKeeps ==
  ASSUME IInv, NEW p \in Proc, NEW n, n = arg[p][1], panicked = "no", pc[p] = "enter", dlock = None,
         dir[n] = 0, dir' = [dir EXCEPT ![n] = icache[ip[p]].inum], pc' = [pc EXCEPT ![p] = "iput"],
         arg' = [arg EXCEPT ![p] = <<>>],
         UNCHANGED <<disk, used, icache, lock, dlock, fd, fdnum, ip>>
  PROVE  IInv'
<1> DEFINE s == ip[p]
           i == icache[s].inum
<1>1. n \in Name /\ s # 0
  BY Zenon DEF IInv, Homes, Args, Fits
<1>2. s \in Slot /\ i \in Inum
  BY Zenon, <1>1, Referenced
<1>3. arg' = [q \in Proc |-> arg'[q]] /\ Others(p) /\ pc'[p] = "iput" /\ SameEntries
  <2>1. arg' = [q \in Proc |-> arg'[q]] /\ \A q \in Proc : q # p => arg'[q] = arg[q]
    BY Zenon DEF IInv, Types
  <2> QED BY Zenon, <2>1 DEF Others, IInv, Types, SameEntries
<1>4. dir' \in [Name -> Inum \cup {0}] /\ dir'[n] = i /\ \A m \in Name : m # n => dir'[m] = dir[m]
  BY Zenon, <1>1, <1>2 DEF IInv, Types
<1>5. Work(p, s)
  BY Zenon, <1>1, <1>3 DEF Work, Fits, IInv, Opened
<1>6. Types'
  BY Zenon, <1>3, <1>4 DEF IInv, Types, Labels
<1>7. Turns(p)
  BY Zenon DEF Turns
<1>8. LinksExact'
  <2> SUFFICES ASSUME NEW j \in Inum PROVE Exactly(Names(j)', Entering(j)', disk[j].nlink)
    BY Zenon DEF LinksExact
  <2>1. Exactly(Names(j), Entering(j), disk[j].nlink)
    BY Zenon DEF IInv, LinksExact
  <2>2. /\ \A q \in Proc : q # p => (q \in Entering(j)' <=> q \in Entering(j))
        /\ Entering(j)' \subseteq Proc /\ Entering(j) \subseteq Proc
        /\ p \notin Entering(j)'
        /\ p \in Entering(j) <=> i = j
    BY Zenon, <1>3, EnteringKept
  <2>3. CASE j = i
    <3>1. Names(j)' = Names(j) \cup {n} /\ n \notin Names(j)
      BY <1>1, <1>4, <2>3, Zero DEF Names
    <3>2. Entering(j)' = Entering(j) \ {p} /\ p \in Entering(j)
      BY Zenon, <2>2, <2>3
    <3>3. disk[j].nlink \in Nat /\ Exactly(Names(j) \cup {n}, Entering(j), disk[j].nlink + 1)
      BY Zenon, <2>1, <3>1, Parts
    <3>4. Exactly(Names(j) \cup {n}, Entering(j) \ {p}, (disk[j].nlink + 1) - 1)
      BY Zenon, <3>2, <3>3, Parts
    <3>5. (disk[j].nlink + 1) - 1 = disk[j].nlink
      BY <3>3
    <3> QED BY ZenonT(30), <3>1, <3>2, <3>4, <3>5
  <2>4. CASE j # i
    <3>1. Names(j)' = Names(j)
      BY ZenonT(30), <1>1, <1>4, <2>4, Zero DEF Names
    <3>2. Entering(j)' = Entering(j)
      <4>1. p \notin Entering(j)
        BY Zenon, <2>2, <2>4
      <4>2. \A q : q \in Entering(j)' <=> q \in Entering(j)
        BY Zenon, <2>2, <4>1
      <4> QED BY Zenon, <4>2
    <3> QED BY Zenon, <2>1, <3>1, <3>2
  <2> QED BY Zenon, <2>3, <2>4
<1>9. BlocksOwned'
  BY Zenon, BlocksKept
<1> QED BY Zenon, <1>5, <1>6, <1>7, <1>8, <1>9, WorkDone

\* link finds that the name exists.
LEMMA ExistsKeeps ==
  ASSUME IInv, NEW p \in Proc, panicked = "no", pc[p] = "enter", pc' = [pc EXCEPT ![p] = "dec"],
         arg' = [arg EXCEPT ![p] = <<>>],
         UNCHANGED <<disk, dir, used, icache, lock, dlock, fd, fdnum, ip, panicked>>
  PROVE  IInv'
<1>1. ip[p] # 0
  BY Zenon DEF IInv, Homes
<1>2. arg' = [q \in Proc |-> arg'[q]] /\ \A q \in Proc : q # p => arg'[q] = arg[q]
  BY Zenon DEF IInv, Types
<1>3. Others(p) /\ pc'[p] = "dec"
  BY Zenon, <1>2 DEF Others, IInv, Types
<1>4. Types'
  BY Zenon, <1>2 DEF IInv, Types, Labels
<1>5. Turns(p) /\ Fits(p)'
  BY Zenon, <1>3 DEF Turns, Fits
<1> QED BY Zenon, <1>1, <1>3, <1>4, <1>5, MoveKeeps

\* An inode that has a name is allocated, and nobody frees or makes it.
LEMMA NamedInode ==
  ASSUME IInv, NEW n \in Name, dir[n] # 0
  PROVE  /\ dir[n] \in Inum /\ disk[dir[n]].type # 0
         /\ \A q \in Proc : pc[q] = "free" => icache[ip[q]].inum # dir[n]
         /\ \A q \in Proc : pc[q] \in {"iget", "fill"} => arg[q][2] # dir[n]
<1>1. dir[n] \in Inum /\ disk[dir[n]].nlink > 0 /\ disk[dir[n]].type # 0
  BY Zenon, Linked DEF IInv
<1>2. disk[dir[n]].nlink # 0
  BY <1>1
<1>3. ASSUME NEW q \in Proc, pc[q] = "free" PROVE icache[ip[q]].inum # dir[n]
  <2>1. ip[q] # 0 /\ lock[ip[q]] = q
    BY Zenon, <1>3 DEF IInv, Homes
  <2>2. ip[q] \in Slot /\ icache[ip[q]].ref > 0
    BY Zenon, <1>3, <2>1, Referenced
  <2>3. icache[ip[q]].valid = 1 /\ icache[ip[q]].d.nlink = 0
    BY Zenon, <1>3 DEF IInv, Freeing
  <2>4. Settled(ip[q])
    BY Zenon, <1>3, <2>1, <2>2, <2>3 DEF Settled
  <2>5. disk[icache[ip[q]].inum].nlink = 0
    BY Zenon, <2>2, <2>3, <2>4 DEF IInv, Coherent, Same
  <2> QED BY Zenon, <1>2, <2>5
<1>4. ASSUME NEW q \in Proc, pc[q] \in {"iget", "fill"} PROVE arg[q][2] # dir[n]
  BY Zenon, <1>2, <1>4 DEF IInv, Fresh, New
<1> QED BY Zenon, <1>1, <1>3, <1>4

\* What a call that starts with a name leaves alone, and the argument it keeps.
Calling(p, n, l) ==
  /\ UNCHANGED <<disk, dir, used, lock, fd, fdnum>>
  /\ l \in {"open", "inc", "unlink", "chmod", "chown", "denied"}
  /\ panicked' = "no" => dlock' = IF l = "unlink" THEN p ELSE None
  /\ panicked' # "no" => dlock' = None
  /\ arg' = [q \in Proc |-> arg'[q]] /\ \A q \in Proc : q # p => arg'[q] = arg[q]
  /\ l = "unlink" => arg'[p][1] = n
  /\ l = "inc" => arg'[p][1] \in Name
  /\ l = "chmod" => arg'[p][1] \in Mode
  /\ l = "chown" => arg'[p][1] \in Owner

\* A call that starts with a name.
LEMMA NameiKeeps ==
  ASSUME IInv, NEW p \in Proc, NEW n \in Name, NEW l, Namei(p, n, l), Calling(p, n, l)
  PROVE  IInv'
<1> DEFINE i == dir[n]
<1>1. panicked = "no" /\ pc[p] = "user" /\ dlock = None /\ dir[n] # 0 /\ Iget(p, i, l)
  BY Zenon DEF Namei, At
<1>2. /\ i \in Inum /\ disk[i].type # 0
      /\ \A q \in Proc : pc[q] = "free" => icache[ip[q]].inum # i
      /\ \A q \in Proc : pc[q] \in {"iget", "fill"} => arg[q][2] # i
  BY Zenon, <1>1, NamedInode
<1>3. CASE panicked' = "iget: no inodes" /\ UNCHANGED <<icache, ip, pc>>
  <2>1. UNCHANGED <<disk, dir, used, icache, lock, dlock, fd, fdnum, pc, ip>> /\ panicked' # "no"
    BY Zenon, <1>1, <1>3 DEF Calling
  <2>2. \A q \in Proc : pc[q] \in {"iget", "fill", "unlink", "chmod", "setmode", "chown"} => arg'[q] = arg[q]
    BY Zenon, <1>1 DEF Calling
  <2>3. arg' = [q \in Proc |-> arg'[q]]
    BY Zenon DEF Calling
  <2> QED BY Zenon, <2>1, <2>2, <2>3, StopKeeps
<1>4. ASSUME NEW s \in IgetSlot(i),
             icache' = [icache EXCEPT ![s].inum = i, ![s].ref = @ + 1,
                                      ![s].valid = IF s \in Cached(i) THEN @ ELSE 0],
             ip' = [ip EXCEPT ![p] = s], pc' = [pc EXCEPT ![p] = l], panicked' = panicked
      PROVE  IInv'
  <2>1. /\ UNCHANGED <<disk, dir, used, lock, fd, fdnum>> /\ panicked' = "no"
        /\ l \in {"open", "inc", "unlink", "chmod", "chown", "denied"}
        /\ dlock' = IF l = "unlink" THEN p ELSE None
        /\ arg' = [q \in Proc |-> arg'[q]] /\ \A q \in Proc : q # p => arg'[q] = arg[q]
    BY Zenon, <1>1, <1>4 DEF Calling
  <2>2. pc'[p] = l /\ ip'[p] = s
    BY Zenon, <1>4 DEF IInv, Types
  <2>3. l = "unlink" => icache'[ip'[p]].inum = i
    <3>1. s \in Slot
      BY Zenon DEF IgetSlot, First, Cached, Unused
    <3>2. icache \in [Slot -> Entry]
      BY Zenon DEF IInv, Types
    <3>3. icache'[s].inum = i
      BY Zenon, <1>4, <3>1, <3>2 DEF Entry
    <3> QED BY Zenon, <2>2, <3>3
  <2>4. Fits(p)'
    BY Zenon, <2>1, <2>2, <2>3 DEF Calling, Fits
  <2>5. dlock' \in Proc \cup {None} /\ l # "fill" /\ (l \in {"fill", "unlink"} => dlock' = p)
    BY Zenon, <2>1
  <2>6. IgetStep(p, i, l, s)
    BY Zenon, <1>1, <1>2, <1>4, <2>1, <2>4, <2>5 DEF IgetStep
  <2> QED BY Zenon, <1>2, <2>6, IgetKeeps
<1> QED BY Zenon, <1>1, <1>3, <1>4 DEF Iget, Goto, Panic

\* ialloc's iget.
LEMMA IallocIgetKeeps ==
  ASSUME IInv, NEW p \in Proc, IallocIget(p)
  PROVE  IInv'
<1> DEFINE i == arg[p][2]
<1>1. /\ panicked = "no" /\ pc[p] = "iget" /\ Iget(p, i, "fill")
      /\ UNCHANGED <<disk, dir, used, lock, dlock, fd, fdnum, arg>>
  BY Zenon DEF IallocIget, At
<1>2. New(p, arg[p][1], i) /\ ip[p] = 0
  BY Zenon, <1>1 DEF IInv, Fresh, Homes
<1>3. i \in Inum /\ disk[i].type # 0
  BY Zenon, <1>2 DEF New
<1>4. ASSUME NEW q \in Proc, pc[q] = "free" PROVE icache[ip[q]].inum # i
  <2>1. ip[q] # 0 /\ q # p
    BY Zenon, <1>1, <1>4 DEF IInv, Homes
  <2> QED BY Zenon, <1>2, <1>4, <2>1 DEF New
<1>5. ASSUME NEW q \in Proc, q # p, pc[q] \in {"iget", "fill"} PROVE arg[q][2] # i
  BY Zenon, <1>1, <1>5 DEF IInv, Homes
<1>6. arg' = [q \in Proc |-> arg'[q]] /\ dlock = p /\ dlock' = p
  BY <1>1 DEF IInv, Types, Homes
<1>7. CASE panicked' = "iget: no inodes" /\ UNCHANGED <<icache, ip, pc>>
  <2>1. panicked' # "no"
    BY Zenon, <1>7
  <2> QED BY Zenon, <1>1, <1>6, <1>7, <2>1, StopKeeps
<1>8. ASSUME NEW s \in IgetSlot(i),
             icache' = [icache EXCEPT ![s].inum = i, ![s].ref = @ + 1,
                                      ![s].valid = IF s \in Cached(i) THEN @ ELSE 0],
             ip' = [ip EXCEPT ![p] = s], pc' = [pc EXCEPT ![p] = "fill"]
      PROVE  IInv'
  <2>1. pc'[p] = "fill"
    BY Zenon, <1>8 DEF IInv, Types
  <2>2. Fits(p)'
    BY Zenon, <2>1 DEF Fits
  <2>3. arg'[p][1] = arg[p][1] /\ arg'[p][2] = i
    BY Zenon, <1>1
  <2>4. /\ pc[p] \in {"user", "iget"} /\ dlock' \in Proc \cup {None} /\ dlock' = dlock
        /\ "fill" \in {"open", "fill", "inc", "unlink", "chmod", "chown", "denied"}
        /\ New(p, arg'[p][1], i)
        /\ \A q \in Proc : q # p => arg'[q] = arg[q]
    BY Zenon, <1>1, <1>2, <1>6
  <2>5. IgetStep(p, i, "fill", s)
    BY ZenonT(30), <1>1, <1>3, <1>4, <1>5, <1>6, <1>8, <2>2, <2>3, <2>4 DEF IgetStep
  <2> QED BY Zenon, <1>3, <2>5, IgetKeeps
<1> QED BY Zenon, <1>1, <1>7, <1>8 DEF Iget, Goto, Panic

\* The calls that start with a name.
LEMMA NamedKeeps ==
  ASSUME IInv, NEW p \in Proc, NEW n \in Name,
         \/ Open(p, n) \/ Unlink(p, n)
         \/ \E new \in Name : Link(p, n, new)
         \/ \E m \in Mode, u \in Uid : Chmod(p, n, m, u)
         \/ \E o \in Owner, u \in Uid : Chown(p, n, o, u)
  PROVE  IInv'
<1>1. \A e : arg' = [arg EXCEPT ![p] = e] =>
        /\ arg' = [q \in Proc |-> arg'[q]] /\ arg'[p] = e
        /\ \A q \in Proc : q # p => arg'[q] = arg[q]
  <2>1. arg = [q \in Proc |-> arg[q]]
    BY Zenon DEF IInv, Types
  <2> QED BY Zenon, <2>1
<1>2. CASE Open(p, n)
  <2>1. Namei(p, n, "open") /\ dlock = None /\ UNCHANGED <<disk, dir, used, lock, dlock, fd, fdnum, arg>>
    BY Zenon, <1>2 DEF Open, Namei
  <2>2. arg' = [q \in Proc |-> arg'[q]]
    BY Zenon, <2>1 DEF IInv, Types
  <2>3. Calling(p, n, "open")
    BY Zenon, <2>1, <2>2 DEF Calling
  <2> QED BY Zenon, <2>1, <2>3, NameiKeeps
<1>3. CASE Unlink(p, n)
  <2>1. /\ Namei(p, n, "unlink") /\ arg' = [arg EXCEPT ![p] = <<n>>]
        /\ dlock' = IF panicked' = "no" THEN p ELSE None
        /\ UNCHANGED <<disk, dir, used, lock, fd, fdnum>>
    BY Zenon, <1>3 DEF Unlink
  <2>2. <<n>>[1] = n
    BY Zenon
  <2>3. Calling(p, n, "unlink")
    BY Zenon, <1>1, <2>1, <2>2 DEF Calling
  <2> QED BY Zenon, <2>1, <2>3, NameiKeeps
<1>4. ASSUME NEW new \in Name, Link(p, n, new) PROVE IInv'
  <2>1. /\ Namei(p, n, "inc") /\ dlock = None /\ arg' = [arg EXCEPT ![p] = <<new>>]
        /\ UNCHANGED <<disk, dir, used, lock, dlock, fd, fdnum>>
    BY Zenon, <1>4 DEF Link, Namei
  <2>2. <<new>>[1] = new
    BY Zenon
  <2>3. Calling(p, n, "inc")
    BY Zenon, <1>1, <2>1, <2>2 DEF Calling
  <2> QED BY Zenon, <2>1, <2>3, NameiKeeps
<1>5. ASSUME NEW m \in Mode, NEW u \in Uid, Chmod(p, n, m, u) PROVE IInv'
  <2>1. /\ Namei(p, n, "chmod") /\ dlock = None /\ arg' = [arg EXCEPT ![p] = <<m, u>>]
        /\ UNCHANGED <<disk, dir, used, lock, dlock, fd, fdnum>>
    BY Zenon, <1>5 DEF Chmod, Namei
  <2>2. <<m, u>>[1] = m
    BY Zenon
  <2>3. Calling(p, n, "chmod")
    BY Zenon, <1>1, <2>1, <2>2 DEF Calling
  <2> QED BY Zenon, <2>1, <2>3, NameiKeeps
<1>6. ASSUME NEW o \in Owner, NEW u \in Uid, Chown(p, n, o, u) PROVE IInv'
  <2> DEFINE l == IF u = ROOT THEN "chown" ELSE "denied"
  <2>1. /\ Namei(p, n, l) /\ dlock = None /\ arg' = [arg EXCEPT ![p] = <<o>>]
        /\ UNCHANGED <<disk, dir, used, lock, dlock, fd, fdnum>> /\ l \in {"chown", "denied"}
    BY Zenon, <1>6 DEF Chown, Namei
  <2>2. <<o>>[1] = o
    BY Zenon
  <2> HIDE DEF l
  <2>3. Calling(p, n, l)
    BY Zenon, <1>1, <2>1, <2>2 DEF Calling
  <2> QED BY Zenon, <2>1, <2>3, NameiKeeps
<1> QED BY Zenon, <1>2, <1>3, <1>4, <1>5, <1>6

\* create, when the name is new.
LEMMA NewNameKeeps ==
  ASSUME IInv, NEW p \in Proc, NEW n \in Name, Ialloc(p, n)
  PROVE  IInv'
<1> DEFINE free == {i \in Inum : disk[i].type = 0}
<1>1. /\ pc[p] = "user" /\ dlock = None /\ dir[n] = 0
      /\ UNCHANGED <<dir, used, icache, lock, fd, fdnum, ip>>
      /\ \/ /\ \E i \in First(free) :
                 /\ disk' = [disk EXCEPT ![i] = [NoInode EXCEPT !.type = 1]]
                 /\ arg' = [arg EXCEPT ![p] = <<n, i>>]
            /\ dlock' = p /\ pc' = [pc EXCEPT ![p] = "iget"] /\ UNCHANGED panicked
         \/ panicked' = "ialloc: no inodes" /\ UNCHANGED <<disk, arg, dlock, pc>>
  BY Zenon DEF Ialloc, At, Goto, Panic
<1>2. CASE panicked' = "ialloc: no inodes" /\ UNCHANGED <<disk, arg, dlock, pc>>
  <2>1. panicked' # "no" /\ arg' = [q \in Proc |-> arg'[q]]
    BY Zenon, <1>2 DEF IInv, Types
  <2> QED BY Zenon, <1>1, <1>2, <2>1, StopKeeps
<1>3. ASSUME NEW i \in First(free), disk' = [disk EXCEPT ![i] = [NoInode EXCEPT !.type = 1]],
             arg' = [arg EXCEPT ![p] = <<n, i>>],
             dlock' = p, pc' = [pc EXCEPT ![p] = "iget"], UNCHANGED panicked
      PROVE  IInv'
  <2>1. i \in Inum /\ disk[i].type = 0
    BY Zenon DEF First
  <2> QED BY Zenon, <1>1, <1>3, <2>1, IallocKeeps
<1> QED BY Zenon, <1>1, <1>2, <1>3

\* write.
LEMMA FileWriteKeeps ==
  ASSUME IInv, NEW p \in Proc, FileWrite(p)
  PROVE  IInv'
<1>1. Writei(fd[p]) /\ UNCHANGED <<dir, lock, dlock, fd, fdnum, pc, ip, arg>>
  BY Zenon DEF FileWrite
<1>2. CASE panicked' = "balloc: out of blocks" /\ UNCHANGED <<used, icache, disk>>
  <2>1. panicked' # "no" /\ arg' = [q \in Proc |-> arg'[q]]
    BY Zenon, <1>1, <1>2 DEF IInv, Types
  <2> QED BY Zenon, <1>1, <1>2, <2>1, StopKeeps
<1>3. ASSUME NEW b \in Balloc, used' = used \cup {b}, Iupdate(fd[p], [Ilocked(fd[p]) EXCEPT !.addr = b])
      PROVE  IInv'
  <2>1. b \in Block \ used
    BY Zenon DEF Balloc, First
  <2> QED BY Zenon, <1>3, <2>1, WriteKeeps
<1> QED BY Zenon, <1>1, <1>2, <1>3 DEF Writei, Panic

\* link makes the entry, finds that the name exists, or stops the kernel.
LEMMA LinkEnterKeeps ==
  ASSUME IInv, NEW p \in Proc, LinkEnter(p)
  PROVE  IInv'
<1> DEFINE n == arg[p][1]
<1>1. /\ pc[p] = "enter" /\ panicked = "no" /\ dlock = None /\ arg' = [arg EXCEPT ![p] = <<>>]
      /\ UNCHANGED <<disk, used, icache, lock, dlock, fd, fdnum, ip>>
      /\ \/ /\ dir[n] = 0 /\ dir' = [dir EXCEPT ![n] = icache[ip[p]].inum]
            /\ pc' = [pc EXCEPT ![p] = "iput"]
         \/ pc' = [pc EXCEPT ![p] = "dec"] /\ UNCHANGED <<dir, panicked>>
         \/ panicked' = "iget: no inodes" /\ UNCHANGED <<dir, pc>>
  BY Zenon DEF LinkEnter, At, Goto, Panic
<1>2. CASE dir[n] = 0 /\ dir' = [dir EXCEPT ![n] = icache[ip[p]].inum] /\ pc' = [pc EXCEPT ![p] = "iput"]
  BY Zenon, <1>1, <1>2, EnterKeeps
<1>3. CASE pc' = [pc EXCEPT ![p] = "dec"] /\ UNCHANGED <<dir, panicked>>
  BY Zenon, <1>1, <1>3, ExistsKeeps
<1>4. CASE panicked' = "iget: no inodes" /\ UNCHANGED <<dir, pc>>
  <2>1. arg = [q \in Proc |-> arg[q]]
    BY Zenon DEF IInv, Types
  <2>2. /\ panicked' # "no" /\ arg' = [q \in Proc |-> arg'[q]]
        /\ \A q \in Proc : q # p => arg'[q] = arg[q]
    BY Zenon, <1>1, <1>4, <2>1
  <2>3. \A q \in Proc : pc[q] \in {"iget", "fill", "unlink", "chmod", "setmode", "chown"} => arg'[q] = arg[q]
    BY Zenon, <1>1, <2>2
  <2> QED BY Zenon, <1>1, <1>4, <2>2, <2>3, StopKeeps
<1> QED BY Zenon, <1>1, <1>2, <1>3, <1>4

\* The steps inside a system call.
LEMMA KernelKeeps ==
  ASSUME IInv, NEW p \in Proc, Kernel(p)
  PROVE  IInv'
<1>1. CASE IputTest(p)
  <2> DEFINE s == ip[p]
  <2>1. /\ pc[p] = "iput" /\ lock[s] = None /\ panicked = "no"
        /\ UNCHANGED <<disk, dir, used, icache, dlock, fd, fdnum, ip, arg, panicked>>
    BY Zenon, <1>1 DEF IputTest, At
  <2>2. CASE icache[s].valid = 1 /\ icache[s].d.nlink = 0 /\ icache[s].ref = 1
    <3>1. lock' = [lock EXCEPT ![s] = p] /\ pc' = [pc EXCEPT ![p] = "free"]
      BY Zenon, <1>1, <2>2 DEF IputTest, Goto
    <3> QED BY Zenon, <2>1, <2>2, <3>1, LastKeeps
  <2>3. CASE ~(icache[s].valid = 1 /\ icache[s].d.nlink = 0 /\ icache[s].ref = 1)
    <3>1. lock' = lock /\ pc' = [pc EXCEPT ![p] = "drop"]
      BY Zenon, <1>1, <2>3 DEF IputTest, Goto
    <3> QED BY Zenon, <2>1, <3>1, NotLastKeeps
  <2> QED BY Zenon, <2>2, <2>3
<1>2. CASE ChmodCheck(p)
  BY Zenon, <1>2, ReturnKeeps DEF ChmodCheck, At, Goto
<1>3. CASE ChownDenied(p)
  BY Zenon, <1>3, ReturnKeeps DEF ChownDenied, At, Goto
<1>4. CASE ChmodSet(p)
  <2>1. /\ pc[p] = "setmode" /\ panicked = "no" /\ lock[ip[p]] = None
        /\ SetInode(p, [Ilocked(ip[p]) EXCEPT !.mode = arg[p][1]])
    BY Zenon, <1>4 DEF ChmodSet, Ilock, At
  <2> QED BY Zenon, <2>1, SetKeeps
<1>5. CASE ChownSet(p)
  <2>1. /\ pc[p] = "chown" /\ panicked = "no" /\ lock[ip[p]] = None
        /\ SetInode(p, [Ilocked(ip[p]) EXCEPT !.uid = arg[p][1]])
    BY Zenon, <1>5 DEF ChownSet, Ilock, At
  <2> QED BY Zenon, <2>1, SetKeeps
<1>6. CASE IputFree(p) \/ IputRelease(p) \/ IputDrop(p)
  BY Zenon, <1>6, FreeKeeps, ReleaseKeeps, DropKeeps
<1>7. CASE OpenLock(p) \/ IallocIget(p) \/ Create(p)
  BY Zenon, <1>7, OpenLockKeeps, IallocIgetKeeps, CreateKeeps
<1>8. CASE LinkInc(p) \/ LinkEnter(p) \/ LinkDec(p) \/ UnlinkLock(p)
  BY Zenon, <1>8, LinkIncKeeps, LinkEnterKeeps, LinkDecKeeps, UnlinkKeeps
<1> QED BY Zenon, <1>1, <1>2, <1>3, <1>4, <1>5, <1>6, <1>7, <1>8 DEF Kernel, Iput

\* Every step keeps the invariant.
LEMMA NextHolds == IInv /\ [Next]_vars => IInv'
<1> SUFFICES ASSUME IInv, [Next]_vars PROVE IInv'
  BY Zenon
<1>1. ASSUME UNCHANGED vars PROVE IInv'
  <2>1. arg' = [q \in Proc |-> arg'[q]]
    BY Zenon, <1>1 DEF IInv, Types, vars
  <2>2. CASE panicked = "no"
    BY Zenon, <1>1, <2>1, <2>2, StopKeeps DEF vars
  <2>3. CASE panicked # "no"
    BY Zenon, <1>1, <2>1, <2>3, StopKeeps DEF vars
  <2> QED BY Zenon, <2>2, <2>3
<1>2. ASSUME NEW p \in Proc, NEW n \in Name, NullInode(p, n) PROVE IInv'
  <2>1. UNCHANGED <<disk, dir, used, icache, lock, dlock, fd, fdnum, pc, ip, arg>> /\ panicked' # "no"
    BY Zenon, <1>2 DEF NullInode, Panic
  <2>2. arg' = [q \in Proc |-> arg'[q]]
    BY Zenon, <2>1 DEF IInv, Types
  <2> QED BY Zenon, <2>1, <2>2, StopKeeps
<1>3. ASSUME NEW p \in Proc, User(p) PROVE IInv'
  BY Zenon, <1>2, <1>3, CloseKeeps, FileWriteKeeps, NamedKeeps, NewNameKeeps DEF User
<1> QED BY Zenon, <1>1, <1>3, KernelKeeps DEF Next, Frozen

\* The invariant holds in every state of every behaviour.
LEMMA Invariant == Spec => []IInv
BY InitHolds, NextHolds, PTL DEF Spec

-----------------------------------------------------------------------------
(* Theorems.                                                               *)

\* An open file stays the file that was opened, and allocated, whatever other processes
\* unlink, free and create: iput and ialloc never give its cache entry or its inode to
\* somebody else.
THEOREM FileStaysOpen == Spec => []OpenStaysAllocated
<1>1. IInv => OpenStaysAllocated
  <2> SUFFICES ASSUME IInv, NEW p \in Proc, fd[p] # 0
               PROVE  icache[fd[p]].inum = fdnum[p] /\ icache[fd[p]].ref > 0 /\ disk[fdnum[p]].type # 0
    BY Zenon DEF OpenStaysAllocated
  <2>1. icache[fd[p]].inum = fdnum[p] /\ disk[fdnum[p]].type # 0
    BY Zenon DEF IInv, Opened
  <2>2. icache[fd[p]].ref > 0
    BY Zenon, Held DEF IInv
  <2> QED BY Zenon, <2>1, <2>2
<1> QED BY <1>1, Invariant, PTL

\* The bit map marks the blocks of files and no others, and no two files share one: what
\* balloc gave, itrunc gives back.
THEOREM BlocksAccounted == Spec => []BlocksOwned
<1>1. IInv => BlocksOwned
  BY Zenon DEF IInv
<1> QED BY <1>1, Invariant, PTL

\* The panics with which ilock and unlink say that an inode is not what a reference or a
\* name promises.
InodesSound == panicked \notin {"ilock: no type", "unlink: nlink < 1"}

\* ilock finds an allocated inode.
LEMMA IlockFinds ==
  ASSUME IInv, NEW p \in Proc, ip[p] # 0, pc[p] \notin {"release", "drop"}, lock[ip[p]] = None
  PROVE  IlockPanic(p) = "no"
<1>1. Ilocked(ip[p]).type = disk[icache[ip[p]].inum].type /\ disk[icache[ip[p]].inum].type # 0
  BY Zenon, Found DEF Same
<1> QED BY Zenon, <1>1 DEF IlockPanic

\* unlink finds that the inode has a link.
LEMMA UnlinkFinds ==
  ASSUME IInv, NEW p \in Proc, UnlinkLock(p)
  PROVE  panicked' = "no"
<1> DEFINE i == icache[ip[p]].inum
<1>1. pc[p] = "unlink" /\ lock[ip[p]] = None
  BY Zenon DEF UnlinkLock, At
<1>2. ip[p] # 0 /\ arg[p][1] \in Name /\ dir[arg[p][1]] = i
  BY Zenon, <1>1 DEF IInv, Homes, Args, Fits
<1>3. IlockPanic(p) = "no"
  BY Zenon, <1>1, <1>2, IlockFinds
<1>4. i \in Inum /\ Ilocked(ip[p]).nlink = disk[i].nlink
  BY Zenon, <1>1, <1>2, Found DEF Same
<1>5. disk[i].nlink > 0 /\ disk[i].nlink \in Nat
  <2>1. i # 0 /\ disk[i] \in Dinode
    BY Zenon, <1>4, Zero DEF IInv, Types
  <2>2. disk[i].nlink > 0
    BY ZenonT(30), <1>2, <2>1, Linked DEF IInv
  <2> QED BY Zenon, <2>1, <2>2 DEF Dinode
<1>6. ~(Ilocked(ip[p]).nlink < 1)
  BY <1>4, <1>5
<1> QED BY Zenon, <1>3, <1>6 DEF UnlinkLock

\* A reference never leads ilock to an inode that is not allocated, and a name never
\* leads unlink to one without links: neither call panics.
THEOREM NoInodePanics == Spec => []InodesSound
<1>1. Init => InodesSound
  BY Zenon DEF Init, InodesSound
<1>2. IInv /\ InodesSound /\ [Next]_vars => InodesSound'
  <2> SUFFICES ASSUME IInv, InodesSound, [Next]_vars PROVE InodesSound'
    BY Zenon
  <2>1. \A p \in Proc : ip[p] = 0 <=> pc[p] \in {"user", "iget"}
    BY Zenon DEF IInv, Homes
  <2>2. ASSUME NEW p \in Proc, NEW l, Ilock(p, l), l \notin {"user", "iget", "release", "drop"}
        PROVE  panicked' = "no"
    <3>1. pc[p] = l /\ lock[ip[p]] = None /\ panicked' = IlockPanic(p)
      BY Zenon, <2>2 DEF Ilock, At
    <3> QED BY Zenon, <2>1, <2>2, <3>1, IlockFinds
  <2>3. ASSUME NEW p \in Proc, NEW i, NEW l, Iget(p, i, l)
        PROVE  InodesSound'
    BY Zenon, <2>3 DEF Iget, Panic, InodesSound
  <2>4. ASSUME panicked' = "no" \/ panicked' = panicked PROVE InodesSound'
    BY Zenon, <2>4 DEF InodesSound
  <2>5. ASSUME NEW p \in Proc, Iput(p) \/ Close(p) \/ ChmodCheck(p) \/ ChownDenied(p) PROVE InodesSound'
    BY Zenon, <2>4, <2>5 DEF Iput, IputTest, IputFree, IputRelease, IputDrop, Close, ChmodCheck, ChownDenied
  <2>6. ASSUME NEW p \in Proc,
               \/ OpenLock(p) \/ Create(p) \/ LinkInc(p) \/ LinkDec(p) \/ ChmodSet(p) \/ ChownSet(p)
        PROVE  InodesSound'
    <3>1. PICK l \in {"open", "fill", "inc", "dec", "setmode", "chown"} : Ilock(p, l)
      BY Zenon, <2>6 DEF OpenLock, Create, LinkInc, LinkDec, ChmodSet, ChownSet
    <3> QED BY Zenon, <2>2, <2>4, <3>1
  <2>7. ASSUME NEW p \in Proc, LinkEnter(p) PROVE InodesSound'
    BY Zenon, <2>4, <2>7 DEF LinkEnter, Panic, InodesSound
  <2>8. ASSUME NEW p \in Proc, FileWrite(p) PROVE InodesSound'
    BY Zenon, <2>4, <2>8 DEF FileWrite, Writei, Panic, InodesSound
  <2>9. ASSUME NEW p \in Proc, NEW n \in Name, Ialloc(p, n) \/ NullInode(p, n) PROVE InodesSound'
    BY Zenon, <2>4, <2>9 DEF Ialloc, NullInode, Panic, InodesSound
  <2>10. ASSUME NEW p \in Proc, Kernel(p) PROVE InodesSound'
    BY Zenon, <2>3, <2>4, <2>5, <2>6, <2>7, <2>10, UnlinkFinds DEF Kernel, IallocIget
  <2>11. ASSUME NEW p \in Proc, NEW n, NEW l, Namei(p, n, l) PROVE InodesSound'
    BY Zenon, <2>3, <2>11 DEF Namei
  <2>12. ASSUME NEW p \in Proc, User(p) PROVE InodesSound'
    BY Zenon, <2>5, <2>8, <2>9, <2>11, <2>12 DEF User, Open, Unlink, Link, Chmod, Chown
  <2> QED BY Zenon, <2>4, <2>10, <2>12 DEF Next, Frozen, vars
<1> QED BY <1>1, <1>2, Invariant, PTL DEF Spec

-----------------------------------------------------------------------------
INSTANCE FiniteSetTheorems

\* A set whose elements can be numbered from 1 to n has n elements.
LEMMA Counted ==
  ASSUME NEW S, NEW n, HasSize(S, n)
  PROVE  Cardinality(S) = n
<1>1. n \in Nat
  BY Zenon DEF HasSize
<1>2. ExistsBijection(1 .. n, S)
  BY Zenon DEF HasSize, ExistsBijection, Bijection, Injection, Surjection, IsInjective
<1> QED BY Zenon, <1>1, <1>2, FS_CountingElements

\* nlink on disk is the number of names, plus the links that sys_link has counted and not
\* yet entered or taken back, whatever create, link and unlink do to the directory at the
\* same time.
THEOREM LinksAreCounted == Spec => []LinksCounted
<1>1. IInv => LinksCounted
  <2> SUFFICES ASSUME IInv, NEW i \in Inum
               PROVE  disk[i].nlink = Cardinality(Names(i)) + Cardinality(Entering(i))
    BY Zenon DEF LinksCounted, Names, Entering
  <2>1. PICK a \in Nat, b \in Nat : HasSize(Names(i), a) /\ HasSize(Entering(i), b) /\ disk[i].nlink = a + b
    BY Zenon DEF IInv, LinksExact, Exactly
  <2>2. Cardinality(Names(i)) = a /\ Cardinality(Entering(i)) = b
    BY Zenon, <2>1, Counted
  <2> QED BY Zenon, <2>1, <2>2
<1> QED BY <1>1, Invariant, PTL
=============================================================================

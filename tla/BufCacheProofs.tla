--------------------------- MODULE BufCacheProofs ---------------------------
(***************************************************************************)
(* Proofs about BufCache, for every number of processes, blocks and        *)
(* buffers.                                                                *)
(*                                                                         *)
(* The argument.  A reference keeps a buffer from being recycled, a lock   *)
(* keeps everyone but one process from its data and flags, and a request   *)
(* in the queue belongs to the process that holds the lock and sleeps.  So *)
(* a buffer in the queue is left alone until ideintr takes it out, and a   *)
(* block differs from what was last put into it only on the disk, and only *)
(* while its one buffer is dirty or after its last write has failed.       *)
(***************************************************************************)
EXTENDS BufCache, FiniteSetTheorems, TLAPS

PCs == {"user", "lock", "iderw", "wait", "use", "brelse", "unref"}

Users(b) == {p \in Proc : bp[p] = b}

\* p has the sleep-lock of its buffer.
Holds(p) == pc[p] \in {"iderw", "wait", "use", "brelse"}

-----------------------------------------------------------------------------
(* The inductive invariant.                                                *)

Types ==
  /\ blockno \in [Buf -> Block \cup {None}]
  /\ refcnt \in [Buf -> Nat]
  /\ data \in [Buf -> Val]
  /\ valid \in [Buf -> {0, 1}]
  /\ dirty \in [Buf -> {0, 1}]
  /\ lock \in [Buf -> Proc \cup {None}]
  /\ idequeue \in Seq(Buf)
  /\ ready \in {0, 1, 2}
  /\ disk \in [Block -> Val]
  /\ truth \in [Block -> Val]
  /\ pc \in [Proc -> PCs]
  /\ bp \in [Proc -> 0 .. NBUF]
  /\ want \in [Proc -> Block \cup {None}]
  /\ asleep \subseteq Proc

\* A process has a buffer from bget to the end of brelse.
Has ==
  \A p \in Proc : IF pc[p] = "user" THEN bp[p] = 0 ELSE bp[p] \in Buf /\ want[p] \in Block

\* bget and brelse.
Refs == Has /\ Referenced /\ OneCopy

Locked == \A p \in Proc : Holds(p) => lock[bp[p]] = p

\* The queue has no request twice, each request has its sleeper, and who has been
\* woken finds the request done.
Queue ==
  /\ \A i, j \in 1 .. Len(idequeue) : idequeue[i] = idequeue[j] => i = j
  /\ \A i \in 1 .. Len(idequeue) : \E p \in asleep : bp[p] = idequeue[i]
  /\ \A p \in asleep : pc[p] = "wait" /\ \E i \in 1 .. Len(idequeue) : idequeue[i] = bp[p]
  /\ \A p \in Proc \ asleep : pc[p] = "wait" => valid[bp[p]] = 1 /\ dirty[bp[p]] = 0

\* The block of b has the contents of b on the disk, unless its last write failed.
Written(b) == blockno[b] \notin lost => disk[blockno[b]] = data[b]

\* The controller works on the first request, and when it is ready a write is on disk.
Drive ==
  /\ ctl = Started(idequeue)
  /\ ready # 0 => /\ idequeue # <<>>
                  /\ dirty[idequeue[1]] = 1 => Written(idequeue[1])

\* Valid buffers, and blocks without a dirty buffer on the disk, are up to date, but
\* for the effects of commands that failed.
Contents ==
  /\ \A p \in Proc : pc[p] \in {"use", "brelse"} => valid[bp[p]] = 1
  /\ \A b \in Buf : dirty[b] = 1 => valid[b] = 1 /\ b \notin failed
  /\ \A b \in Buf : valid[b] = 1 /\ b \notin failed /\ blockno[b] # None
                      => data[b] = truth[blockno[b]]
  /\ \A k \in Block : k \notin lost /\ (\A b \in Buf : blockno[b] = k => dirty[b] = 0)
                     => disk[k] = truth[k]

IInv == Types /\ Refs /\ Locked /\ Queue /\ Drive /\ Contents

-----------------------------------------------------------------------------
(* Lemmas.                                                                 *)

\* The users of a buffer are finitely many, and one more or less changes the count
\* by one (refcnt++ in bget, refcnt-- in brelse).
LEMMA UsersCounted ==
  ASSUME NEW b, NEW p \in Proc
  PROVE  /\ IsFiniteSet(Users(b)) /\ Cardinality(Users(b)) \in Nat
         /\ Cardinality(Users(b)) = 0 <=> Users(b) = {}
         /\ Cardinality(Users(b) \cup {p}) = IF p \in Users(b) THEN Cardinality(Users(b))
                                             ELSE Cardinality(Users(b)) + 1
         /\ Cardinality(Users(b) \ {p}) = IF p \in Users(b) THEN Cardinality(Users(b)) - 1
                                          ELSE Cardinality(Users(b))
<1>1. Users(b) \in SUBSET Proc
  BY Zenon DEF Users
<1>2. IsFiniteSet(Users(b))
  BY Zenon, <1>1, FS_Subset, SizeAssumption
<1>3. Cardinality(Users(b)) \in Nat
  BY Zenon, <1>2, FS_CardinalityType
<1> QED
  BY Zenon, <1>2, <1>3, FS_EmptySet, FS_AddElement, FS_RemoveElement

\* The initial state satisfies the invariant (binit).
LEMMA InitHolds == Init => IInv
<1> SUFFICES ASSUME Init PROVE IInv
  BY Zenon
<1>1. Types
  BY SizeAssumption DEF Init, Types, Buf, PCs
<1>2. Has /\ OneCopy
  BY Zenon DEF Init, Has, OneCopy
<1>3. Referenced
  <2>1. ASSUME NEW b \in Buf PROVE refcnt[b] = Cardinality({p \in Proc : bp[p] = b})
    <3>1. {p \in Proc : bp[p] = b} = {}
      BY SizeAssumption DEF Init, Buf
    <3> QED BY Zenon, <3>1, FS_EmptySet DEF Init
  <2> QED BY Zenon, <2>1 DEF Referenced, Init
<1>4. Locked /\ Queue
  BY DEF Init, Locked, Holds, Queue
<1>5. Drive
  BY DEF Init, Drive, Started
<1>6. Contents
  BY Zenon DEF Init, Contents
<1> QED BY Zenon, <1>1, <1>2, <1>3, <1>4, <1>5, <1>6 DEF IInv, Refs

\* The buffer of a process that has its lock, and does not sleep in iderw, is not in
\* the queue.
LEMMA NotQueued ==
  ASSUME IInv, NEW p \in Proc, Holds(p), p \notin asleep
  PROVE  \A i \in 1 .. Len(idequeue) : idequeue[i] # bp[p]
<1> SUFFICES ASSUME NEW i \in 1 .. Len(idequeue), idequeue[i] = bp[p] PROVE FALSE
  BY Zenon
<1>1. PICK q \in asleep : bp[q] = bp[p]
  BY DEF IInv, Queue
<1>2. q \in Proc /\ Holds(q)
  BY Zenon, <1>1 DEF IInv, Types, Queue, Holds
<1> QED BY Zenon, <1>1, <1>2 DEF IInv, Locked

\* A step that leaves references, blocks and users alone keeps the first part.
LEMMA RefsKept ==
  ASSUME Refs, UNCHANGED <<blockno, refcnt, bp, want>>,
         \A p \in Proc : pc[p] = "user" <=> pc'[p] = "user"
  PROVE  Refs'
BY Zenon DEF Refs, Has, Referenced, OneCopy

\* A step that leaves the buffers in the queue alone keeps the request of the controller.
LEMMA DriveKept ==
  ASSUME Types, Drive, UNCHANGED <<idequeue, ctl, ready, disk, lost>>,
         \A i \in 1 .. Len(idequeue) : LET b == idequeue[i] IN
           blockno'[b] = blockno[b] /\ dirty'[b] = dirty[b] /\ data'[b] = data[b]
  PROVE  Drive'
<1>1. CASE idequeue = <<>>
  BY Zenon, <1>1 DEF Drive, Started
<1>2. CASE idequeue # <<>>
  <2>1. 1 \in 1 .. Len(idequeue)
    BY <1>2 DEF Types
  <2> QED BY Zenon, <1>2, <2>1 DEF Drive, Written, Started, Command
<1> QED BY Zenon, <1>1, <1>2

-----------------------------------------------------------------------------
(* Every step keeps the invariant.                                         *)

\* bget finds the block in the cache.
LEMMA BgetHitKeeps ==
  ASSUME IInv, NEW p \in Proc, NEW k \in Block, BgetHit(p, k)
  PROVE  IInv'
<1> USE DEF BgetHit, At, Goto, ideVars
<1>1. PICK c \in Buf : /\ blockno[c] = k
                       /\ bp' = [bp EXCEPT ![p] = c]
                       /\ refcnt' = [refcnt EXCEPT ![c] = @ + 1]
  BY Zenon DEF Cached
<1>2. /\ pc[p] = "user" /\ bp[p] = 0 /\ c # 0 /\ p \notin asleep
      /\ pc' = [pc EXCEPT ![p] = "lock"] /\ want' = [want EXCEPT ![p] = k]
  BY SizeAssumption DEF IInv, Refs, Has, Buf, Queue
<1>3. Types'
  <2>1. refcnt \in [Buf -> Nat] /\ c \in 0 .. NBUF
    BY SizeAssumption DEF IInv, Types, Buf
  <2>2. refcnt' \in [Buf -> Nat]
    BY <1>1, <2>1
  <2> QED BY Zenon, <1>1, <1>2, <2>1, <2>2 DEF IInv, Types, PCs
<1>4. Has' /\ OneCopy'
  BY <1>1, <1>2 DEF IInv, Types, Refs, Has, OneCopy
<1>5. Referenced'
  <2>1. ASSUME NEW b \in Buf PROVE refcnt'[b] = Cardinality({q \in Proc : bp'[q] = b})
    <3>1. CASE b = c
      <4>1. {q \in Proc : bp'[q] = b} = Users(b) \cup {p} /\ p \notin Users(b)
        BY <1>1, <1>2, <3>1 DEF IInv, Types, Users
      <4>2. refcnt'[b] = Cardinality(Users(b)) + 1
        BY Zenon, <1>1, <3>1 DEF IInv, Types, Refs, Referenced, Users
      <4> QED BY Zenon, <4>1, <4>2, UsersCounted
    <3>2. CASE b # c
      <4>1. {q \in Proc : bp'[q] = b} = {q \in Proc : bp[q] = b}
        BY <1>1, <1>2, <3>2, SizeAssumption DEF IInv, Types, Buf
      <4> QED BY ZenonT(30), <1>1, <3>2, <4>1 DEF IInv, Types, Refs, Referenced
    <3> QED BY Zenon, <3>1, <3>2
  <2>2. \A q \in Proc : bp'[q] # 0 => blockno'[bp'[q]] = want'[q]
    BY <1>1, <1>2 DEF IInv, Types, Refs, Referenced
  <2> QED BY Zenon, <2>1, <2>2 DEF Referenced
<1>6. Locked' /\ Queue'
  BY SMTT(30), <1>1, <1>2 DEF IInv, Types, Locked, Holds, Queue
<1>7. Drive'
  BY Zenon, DriveKept DEF IInv
<1>8. Contents'
  BY <1>1, <1>2 DEF IInv, Types, Contents
<1> QED BY Zenon, <1>3, <1>4, <1>5, <1>6, <1>7, <1>8 DEF IInv, Refs

\* bget recycles a buffer that nobody uses, or panics.
LEMMA BgetRecycleKeeps ==
  ASSUME IInv, NEW p \in Proc, NEW k \in Block, BgetRecycle(p, k)
  PROVE  IInv'
<1>0. /\ pc[p] = "user" /\ Cached(k) = {}
      /\ UNCHANGED <<data, lock, idequeue, ctl, ready, disk, lost, asleep, truth>>
  BY Zenon DEF BgetRecycle, At, ideVars
<1>1. CASE Free = {}
  <2>1. UNCHANGED <<blockno, refcnt, data, valid, dirty, lock, idequeue, ctl, ready, disk, lost,
                    truth, pc, bp, want, asleep, failed>>
    BY Zenon, <1>0, <1>1 DEF BgetRecycle
  <2>2. Types' /\ Locked' /\ Queue' /\ Contents'
    BY <2>1 DEF IInv, Types, Locked, Holds, Queue, Contents
  <2>3. Refs'
    BY Zenon, <2>1, RefsKept DEF IInv
  <2>4. Drive'
    BY Zenon, <2>1, DriveKept DEF IInv
  <2> QED BY Zenon, <2>2, <2>3, <2>4 DEF IInv
<1>2. CASE Free # {}
  <2>1. PICK c \in Free : /\ blockno' = [blockno EXCEPT ![c] = k]
                          /\ refcnt' = [refcnt EXCEPT ![c] = 1]
                          /\ valid' = [valid EXCEPT ![c] = 0]
                          /\ dirty' = [dirty EXCEPT ![c] = 0]
                          /\ bp' = [bp EXCEPT ![p] = c]
                          /\ want' = [want EXCEPT ![p] = k]
                          /\ failed' = failed \ {c}
                          /\ pc' = [pc EXCEPT ![p] = "lock"]
    BY Zenon, <1>2 DEF BgetRecycle, Goto
  <2>2. /\ c \in Buf /\ c # 0 /\ refcnt[c] = 0 /\ dirty[c] = 0
        /\ pc[p] = "user" /\ bp[p] = 0 /\ p \notin asleep
        /\ \A b \in Buf : blockno[b] # k
    <3>1. c \in Buf /\ refcnt[c] = 0 /\ dirty[c] = 0
      BY Zenon, <2>1 DEF Free
    <3>2. c # 0
      BY <3>1, SizeAssumption DEF Buf
    <3>3. bp[p] = 0 /\ p \notin asleep
      BY <1>0 DEF IInv, Refs, Has, Queue
    <3>4. \A b \in Buf : blockno[b] # k
      BY Zenon, <1>0 DEF Cached
    <3> QED BY Zenon, <1>0, <3>1, <3>2, <3>3, <3>4
  <2>3. Users(c) = {}
    <3>1. refcnt[c] = Cardinality(Users(c))
      BY Zenon, <2>2 DEF IInv, Refs, Referenced, Users
    <3> QED BY Zenon, <2>2, <3>1, UsersCounted
  <2>4. \A q \in Proc : bp[q] # c
    BY Zenon, <1>0, <2>3 DEF Users
  <2>5. Types'
    BY <1>0, <2>1, <2>2, SizeAssumption DEF IInv, Types, Buf, PCs
  <2>6. Has'
    BY Zenon, <1>0, <2>1, <2>2 DEF IInv, Types, Refs, Has
  <2>7. OneCopy'
    BY Zenon, <1>0, <2>1, <2>2 DEF IInv, Types, Refs, OneCopy
  <2>8. Referenced'
    <3>1. ASSUME NEW b \in Buf PROVE refcnt'[b] = Cardinality({q \in Proc : bp'[q] = b})
      <4>1. CASE b = c
        <5>1. {q \in Proc : bp'[q] = b} = Users(b) \cup {p} /\ p \notin Users(b)
          BY <1>0, <2>1, <2>2, <2>3, <4>1 DEF IInv, Types, Users
        <5>2. refcnt'[b] = 1
          BY Zenon, <1>0, <2>1, <2>2, <4>1 DEF IInv, Types
        <5>3. Cardinality(Users(b)) = 0
          BY <1>0, <2>3, <4>1, FS_EmptySet
        <5> QED BY <5>1, <5>2, <5>3, UsersCounted
      <4>2. CASE b # c
        <5>1. {q \in Proc : bp'[q] = b} = {q \in Proc : bp[q] = b}
          BY <1>0, <2>1, <2>2, <4>2, SizeAssumption DEF IInv, Types, Buf
        <5> QED BY Zenon, <1>0, <2>1, <4>2, <5>1 DEF IInv, Types, Refs, Referenced
      <4> QED BY Zenon, <4>1, <4>2
    <3>2. ASSUME NEW q \in Proc, bp'[q] # 0 PROVE blockno'[bp'[q]] = want'[q]
      <4>1. /\ bp'[p] = c /\ want'[p] = k
            /\ q # p => bp'[q] = bp[q] /\ want'[q] = want[q]
        BY Zenon, <1>0, <2>1, <2>2 DEF IInv, Types
      <4>2. blockno'[c] = k /\ \A b \in Buf : b # c => blockno'[b] = blockno[b]
        BY Zenon, <2>1, <2>2 DEF IInv, Types
      <4>3. q # p => bp[q] \in Buf /\ blockno[bp[q]] = want[q] /\ bp[q] # c
        BY <2>4, <3>2, <4>1, SizeAssumption DEF IInv, Types, Refs, Referenced, Buf
      <4> QED BY Zenon, <4>1, <4>2, <4>3
    <3> QED BY Zenon, <3>1, <3>2 DEF Referenced
  <2>9. Locked'
    BY Zenon, <1>0, <2>1, <2>2, <2>4 DEF IInv, Types, Locked, Holds
  <2>10. Queue'
    <3>1. \A q \in asleep : q \in Proc /\ bp'[q] = bp[q] /\ pc'[q] = pc[q]
      BY Zenon, <1>0, <2>1, <2>2 DEF IInv, Types
    <3>2. ASSUME NEW q \in Proc \ asleep, pc'[q] = "wait"
          PROVE  valid'[bp'[q]] = 1 /\ dirty'[bp'[q]] = 0
      <4>1. q # p /\ pc[q] = "wait" /\ bp'[q] = bp[q]
        BY Zenon, <1>0, <2>1, <2>2, <3>2 DEF IInv, Types
      <4>2. bp[q] \in Buf /\ bp[q] # c /\ valid[bp[q]] = 1 /\ dirty[bp[q]] = 0
        BY Zenon, <2>4, <3>2, <4>1 DEF IInv, Refs, Has, Queue
      <4> QED BY Zenon, <2>1, <4>1, <4>2 DEF IInv, Types
    <3>3. idequeue' = idequeue /\ asleep' = asleep
      BY Zenon, <1>0
    <3>4. /\ \A i, j \in 1 .. Len(idequeue) : idequeue[i] = idequeue[j] => i = j
          /\ \A i \in 1 .. Len(idequeue) : \E q \in asleep : bp[q] = idequeue[i]
          /\ \A q \in asleep : pc[q] = "wait" /\ \E i \in 1 .. Len(idequeue) : idequeue[i] = bp[q]
      BY Zenon DEF IInv, Queue
    <3>5. /\ \A i \in 1 .. Len(idequeue) : \E q \in asleep : bp'[q] = idequeue[i]
          /\ \A q \in asleep : pc'[q] = "wait" /\ \E i \in 1 .. Len(idequeue) : idequeue[i] = bp'[q]
      BY <3>1, <3>4
    <3> QED BY ZenonT(30), <3>2, <3>3, <3>4, <3>5 DEF Queue
  <2>11. \A i \in 1 .. Len(idequeue) : idequeue[i] # c
    BY <1>0, <2>4 DEF IInv, Queue, Types
  <2>12. Drive'
    BY <1>0, <2>1, <2>11, DriveKept DEF IInv, Types
  <2>13. Contents'
    <3>1. \A q \in Proc : pc'[q] \in {"use", "brelse"} => valid'[bp'[q]] = 1
      BY <1>0, <2>1, <2>2, <2>4, SizeAssumption DEF IInv, Types, Contents, Refs, Has, Buf
    <3>2. \A b \in Buf : dirty'[b] = 1 => valid'[b] = 1 /\ b \notin failed'
      BY Zenon, <1>0, <2>1, <2>2 DEF IInv, Types, Contents
    <3>3. \A b \in Buf : valid'[b] = 1 /\ b \notin failed' /\ blockno'[b] # None
                           => data'[b] = truth'[blockno'[b]]
      BY <1>0, <2>1, <2>2 DEF IInv, Types, Contents
    <3>4. \A m \in Block : m \notin lost' /\ (\A b \in Buf : blockno'[b] = m => dirty'[b] = 0)
                          => disk'[m] = truth'[m]
      BY Zenon, <1>0, <2>1, <2>2 DEF IInv, Types, Contents
    <3> QED BY Zenon, <3>1, <3>2, <3>3, <3>4 DEF Contents
  <2> QED BY Zenon, <1>0, <2>5, <2>6, <2>7, <2>8, <2>9, <2>10, <2>12, <2>13 DEF IInv, Refs
<1> QED BY Zenon, <1>1, <1>2

\* bget takes the sleep-lock of the buffer.
LEMMA BgetLockKeeps ==
  ASSUME IInv, NEW p \in Proc, BgetLock(p)
  PROVE  IInv'
<1>1. /\ pc[p] = "lock" /\ lock[bp[p]] = None /\ p \notin asleep /\ bp[p] \in Buf
      /\ lock' = [lock EXCEPT ![bp[p]] = p]
      /\ pc' = [pc EXCEPT ![p] = IF valid[bp[p]] = 1 THEN "use" ELSE "iderw"]
      /\ UNCHANGED <<blockno, refcnt, data, valid, dirty, idequeue, ctl, ready, disk, lost, asleep,
                     bp, want, truth, failed>>
  BY Zenon DEF BgetLock, At, Goto, bufVars, ideVars, IInv, Queue, Refs, Has
<1>2. Types' /\ Contents'
  BY <1>1 DEF IInv, Types, PCs, Contents
<1>3. Refs'
  BY Zenon, <1>1, RefsKept DEF IInv, Types
<1>4. Locked'
  BY <1>1, NoneAssumption DEF IInv, Types, Locked, Holds
<1>5. Queue'
  BY <1>1 DEF IInv, Types, Queue
<1>6. Drive'
  BY Zenon, <1>1, DriveKept DEF IInv
<1> QED BY Zenon, <1>2, <1>3, <1>4, <1>5, <1>6 DEF IInv

\* iderw queues the buffer, and starts the controller when it is alone.
LEMMA IderwKeeps ==
  ASSUME IInv, NEW p \in Proc, Iderw(p)
  PROVE  IInv'
<1>1. /\ pc[p] = "iderw" /\ Holds(p) /\ p \notin asleep /\ bp[p] \in Buf
      /\ UNCHANGED <<blockno, refcnt, data, valid, dirty, lock, ready, disk, lost, bp, want,
                     truth, failed>>
  BY Zenon DEF Iderw, At, Holds, bufVars, IInv, Queue, Refs, Has
<1>2. CASE UNCHANGED <<idequeue, ctl, asleep, pc>>
  <2>1. Types' /\ Locked' /\ Queue' /\ Contents'
    BY <1>1, <1>2 DEF IInv, Types, Locked, Holds, Queue, Contents
  <2>2. Refs'
    BY Zenon, <1>1, <1>2, RefsKept DEF IInv
  <2>3. Drive'
    BY Zenon, <1>1, <1>2, DriveKept DEF IInv
  <2> QED BY Zenon, <2>1, <2>2, <2>3 DEF IInv
<1>3. CASE /\ idequeue' = Append(idequeue, bp[p])
           /\ ctl' = IF idequeue = <<>> THEN Command(bp[p]) ELSE ctl
           /\ asleep' = asleep \cup {p}
           /\ pc' = [pc EXCEPT ![p] = "wait"]
  <2>1. \A i \in 1 .. Len(idequeue) : idequeue[i] # bp[p]
    BY Zenon, <1>1, NotQueued
  <2>2. /\ Len(idequeue) \in Nat /\ Len(idequeue') = Len(idequeue) + 1
        /\ idequeue' \in Seq(Buf) /\ idequeue' # <<>>
        /\ idequeue'[Len(idequeue) + 1] = bp[p]
        /\ \A i \in 1 .. Len(idequeue) : idequeue'[i] = idequeue[i]
    BY <1>1, <1>3 DEF IInv, Types
  <2>3. Types'
    BY Zenon, <1>1, <1>3, <2>2 DEF IInv, Types, PCs
  <2>4. Refs'
    BY Zenon, <1>1, <1>3, RefsKept DEF IInv, Types
  <2>5. Locked' /\ Contents'
    BY <1>1, <1>3 DEF IInv, Types, Locked, Holds, Contents
  <2>6. Queue'
    <3>1. \A i, j \in 1 .. Len(idequeue') : idequeue'[i] = idequeue'[j] => i = j
      BY <2>1, <2>2 DEF IInv, Queue
    <3>2. \A i \in 1 .. Len(idequeue') : \E q \in asleep' : bp'[q] = idequeue'[i]
      BY <1>1, <1>3, <2>2 DEF IInv, Queue
    <3>3. \A q \in asleep' : pc'[q] = "wait" /\ \E i \in 1 .. Len(idequeue') : idequeue'[i] = bp'[q]
      <4> SUFFICES ASSUME NEW q \in asleep'
                   PROVE  pc'[q] = "wait" /\ \E i \in 1 .. Len(idequeue') : idequeue'[i] = bp'[q]
        BY Zenon
      <4>1. CASE q = p
        <5>1. Len(idequeue) + 1 \in 1 .. Len(idequeue')
          BY <2>2
        <5> QED BY Zenon, <1>1, <1>3, <2>2, <4>1, <5>1 DEF IInv, Types
      <4>2. CASE q # p
        <5>1. PICK i \in 1 .. Len(idequeue) : idequeue[i] = bp[q]
          BY Zenon, <1>3, <4>2 DEF IInv, Queue
        <5>2. i \in 1 .. Len(idequeue') /\ idequeue'[i] = bp'[q]
          BY <1>1, <2>2, <5>1
        <5> QED BY Zenon, <1>3, <4>2, <5>2 DEF IInv, Types, Queue
      <4> QED BY Zenon, <4>1, <4>2
    <3>4. \A q \in Proc \ asleep' : pc'[q] = "wait" => valid'[bp'[q]] = 1 /\ dirty'[bp'[q]] = 0
      BY Zenon, <1>1, <1>3 DEF IInv, Types, Queue
    <3> QED BY ZenonT(30), <3>1, <3>2, <3>3, <3>4 DEF Queue
  <2>7. Drive'
    <3>1. CASE idequeue = <<>>
      <4>1. idequeue'[1] = bp[p]
        BY <2>2, <3>1
      <4> QED BY Zenon, <1>1, <1>3, <2>2, <3>1, <4>1 DEF IInv, Drive, Written, Started, Command
    <3>2. CASE idequeue # <<>>
      <4>1. idequeue'[1] = idequeue[1]
        BY <2>2, <3>2 DEF IInv, Types
      <4> QED BY Zenon, <1>1, <1>3, <2>2, <3>2, <4>1 DEF IInv, Drive, Written, Started, Command
    <3> QED BY Zenon, <3>1, <3>2
  <2> QED BY Zenon, <2>3, <2>4, <2>5, <2>6, <2>7 DEF IInv
<1> QED BY Zenon, <1>2, <1>3 DEF Iderw, Goto

\* The first buffer of the queue has a block, and a process that waits for it.
LEMMA HeadOwned ==
  ASSUME IInv, idequeue # <<>>
  PROVE  /\ 1 \in 1 .. Len(idequeue)
         /\ idequeue[1] \in Buf
         /\ blockno[idequeue[1]] \in Block
<1>1. 1 \in 1 .. Len(idequeue) /\ idequeue[1] \in Buf
  BY DEF IInv, Types
<1>2. PICK q \in asleep : bp[q] = idequeue[1]
  BY Zenon, <1>1 DEF IInv, Queue
<1>3. q \in Proc /\ pc[q] = "wait"
  BY Zenon, <1>2 DEF IInv, Types, Queue
<1>4. want[q] \in Block /\ blockno[bp[q]] = want[q]
  BY <1>1, <1>2, <1>3, SizeAssumption DEF IInv, Refs, Has, Referenced, Buf
<1> QED BY Zenon, <1>1, <1>2, <1>4

\* The controller finishes a command, or fails.
LEMMA ControllerKeeps ==
  ASSUME IInv, NEW bad \in BOOLEAN, Controller(bad)
  PROVE  IInv'
<1> DEFINE b == idequeue[1]
<1>1. /\ ready = 0 /\ ready' \in {1, 2} /\ idequeue # <<>> /\ ctl = Command(b)
      /\ UNCHANGED <<blockno, refcnt, data, valid, dirty, lock, idequeue, ctl, asleep, pc, bp,
                     want, truth, failed>>
  BY Zenon DEF Controller, bufVars, IInv, Drive, Started
<1>2. b \in Buf /\ blockno[b] \in Block
  BY Zenon, <1>1, HeadOwned
<1>3. \/ UNCHANGED <<disk, lost>> /\ dirty[b] # 1
      \/ /\ dirty[b] = 1
         /\ UNCHANGED disk
         /\ lost' = lost \cup {blockno[b]}
      \/ /\ dirty[b] = 1
         /\ disk' = [disk EXCEPT ![blockno[b]] = data[b]]
         /\ lost' = lost \ {blockno[b]}
  <2>1. CASE dirty[b] = 1
    <3>1. ctl[1] = "write" /\ ctl[2] = blockno[b] /\ ctl[3] = data[b]
      BY Zenon, <1>1, <2>1 DEF Command
    <3> QED BY Zenon, <2>1, <3>1 DEF Controller
  <2>2. CASE dirty[b] # 1
    <3>1. ctl[1] = "read"
      BY Zenon, <1>1, <2>2 DEF Command
    <3> QED BY <2>2, <3>1 DEF Controller
  <2> QED BY Zenon, <2>1, <2>2
<1>4. Types'
  BY SMTT(30), <1>1, <1>2, <1>3 DEF IInv, Types
<1>5. Refs'
  BY Zenon, <1>1, RefsKept DEF IInv
<1>6. Locked' /\ Queue'
  BY <1>1 DEF IInv, Locked, Holds, Queue
<1>7. Drive'
  <2>1. dirty[b] = 1 => Written(b)'
    BY <1>1, <1>2, <1>3 DEF IInv, Types, Written
  <2> QED BY Zenon, <1>1, <2>1 DEF IInv, Drive, Started, Command
<1>8. Contents'
  BY <1>1, <1>2, <1>3 DEF IInv, Types, Contents
<1> QED BY Zenon, <1>4, <1>5, <1>6, <1>7, <1>8 DEF IInv

\* ideintr ends the first request, and starts the next one.
LEMMA IdeIntrKeeps ==
  ASSUME IInv, IdeIntr
  PROVE  IInv'
<1> DEFINE b == idequeue[1]
<1> DEFINE wrong == dirty[b] = 0 /\ (ready = 2 \/ ctl[2] \in lost)
<1>1. /\ ready # 0 /\ ready' = 0 /\ idequeue # <<>> /\ idequeue' = Tail(idequeue)
      /\ failed' = IF wrong THEN failed \cup {b} ELSE failed
      /\ valid' = [valid EXCEPT ![b] = 1] /\ dirty' = [dirty EXCEPT ![b] = 0]
      /\ asleep' = {p \in asleep : bp[p] # b}
      /\ ctl' = Started(Tail(idequeue))
      /\ UNCHANGED <<blockno, refcnt, lock, disk, lost, pc, bp, want, truth>>
  BY Zenon DEF IdeIntr, bufVars
<1>2. 1 \in 1 .. Len(idequeue) /\ b \in Buf /\ blockno[b] \in Block
  BY Zenon, <1>1, HeadOwned
<1>3. /\ ctl[2] = blockno[b]
      /\ data' = IF dirty[b] = 0 /\ ready = 1 THEN [data EXCEPT ![b] = disk[blockno[b]]] ELSE data
  <2>1. ctl = Command(b)
    BY Zenon, <1>1 DEF IInv, Drive, Started
  <2>2. ctl[2] = blockno[b]
    BY Zenon, <2>1 DEF Command
  <2> QED BY Zenon, <2>2 DEF IdeIntr
<1>4. /\ idequeue' \in Seq(Buf) /\ Len(idequeue) \in Nat /\ Len(idequeue') = Len(idequeue) - 1
      /\ \A i \in 1 .. Len(idequeue') : i + 1 \in 1 .. Len(idequeue) /\ idequeue'[i] = idequeue[i + 1]
  <2>1. idequeue \in Seq(Buf) /\ idequeue # <<>> /\ idequeue' = Tail(idequeue)
    BY Zenon, <1>1 DEF IInv, Types
  <2> QED BY <2>1
<1>5. \A i \in 1 .. Len(idequeue') : idequeue'[i] # b
  <2>1. \A i, j \in 1 .. Len(idequeue) : idequeue[i] = idequeue[j] => i = j
    BY Zenon DEF IInv, Queue
  <2>2. \A i \in 1 .. Len(idequeue') : i + 1 # 1
    BY <1>4
  <2> QED BY Zenon, <1>2, <1>4, <2>1, <2>2
<1>6. Types'
  BY Zenon, <1>1, <1>2, <1>3, <1>4 DEF IInv, Types
<1>7. Refs'
  BY Zenon, <1>1, RefsKept DEF IInv
<1>8. Locked'
  BY Zenon, <1>1 DEF IInv, Locked, Holds
<1>9. Queue'
  <2>1. \A i, j \in 1 .. Len(idequeue') : idequeue'[i] = idequeue'[j] => i = j
    <3> SUFFICES ASSUME NEW i \in 1 .. Len(idequeue'), NEW j \in 1 .. Len(idequeue'),
                        idequeue'[i] = idequeue'[j]
                 PROVE  i = j
      BY Zenon
    <3>0. /\ i + 1 \in 1 .. Len(idequeue) /\ j + 1 \in 1 .. Len(idequeue)
          /\ idequeue[i + 1] = idequeue[j + 1]
      BY Zenon, <1>4
    <3>1. i + 1 = j + 1
      BY Zenon, <3>0 DEF IInv, Queue
    <3>2. i \in Nat /\ j \in Nat
      BY <1>4
    <3> QED BY <3>1, <3>2
  <2>2. \A i \in 1 .. Len(idequeue') : \E p \in asleep' : bp'[p] = idequeue'[i]
    <3> SUFFICES ASSUME NEW i \in 1 .. Len(idequeue') PROVE \E p \in asleep' : bp'[p] = idequeue'[i]
      BY Zenon
    <3>1. PICK p \in asleep : bp[p] = idequeue[i + 1]
      BY Zenon, <1>4 DEF IInv, Queue
    <3> QED BY Zenon, <1>1, <1>4, <1>5, <3>1
  <2>3. \A p \in asleep' : pc'[p] = "wait" /\ \E i \in 1 .. Len(idequeue') : idequeue'[i] = bp'[p]
    <3> SUFFICES ASSUME NEW p \in asleep'
                 PROVE  pc'[p] = "wait" /\ \E i \in 1 .. Len(idequeue') : idequeue'[i] = bp'[p]
      BY Zenon
    <3>1. PICK i \in 1 .. Len(idequeue) : idequeue[i] = bp[p]
      BY Zenon, <1>1 DEF IInv, Queue
    <3>2. i # 1
      BY Zenon, <1>1, <3>1
    <3>3. i - 1 \in 1 .. Len(idequeue') /\ (i - 1) + 1 = i
      BY <1>4, <3>1, <3>2
    <3>4. idequeue'[i - 1] = idequeue[i]
      BY Zenon, <1>4, <3>3
    <3> QED BY Zenon, <1>1, <3>1, <3>3, <3>4 DEF IInv, Queue
  <2>4. \A p \in Proc \ asleep' : pc'[p] = "wait" => valid'[bp'[p]] = 1 /\ dirty'[bp'[p]] = 0
    <3> SUFFICES ASSUME NEW p \in Proc \ asleep', pc[p] = "wait"
                 PROVE  valid'[bp[p]] = 1 /\ dirty'[bp[p]] = 0
      BY Zenon, <1>1
    <3>1. bp[p] \in Buf
      BY Zenon DEF IInv, Refs, Has
    <3>2. bp[p] = b \/ p \notin asleep
      BY Zenon, <1>1
    <3> QED BY <1>1, <1>2, <3>1, <3>2 DEF IInv, Types, Queue
  <2> QED BY Zenon, <2>1, <2>2, <2>3, <2>4 DEF Queue
<1>10. Drive'
  <2>1. CASE idequeue' = <<>>
    BY <1>1, <2>1 DEF Drive, Started
  <2>2. CASE idequeue' # <<>>
    <3>1. 1 \in 1 .. Len(idequeue') /\ idequeue'[1] \in Buf
      BY <1>4, <2>2
    <3>2. idequeue'[1] # b
      BY Zenon, <1>5, <3>1
    <3>3. Started(idequeue)' = Command(idequeue'[1])
      BY Zenon, <1>1, <1>2, <1>3, <2>2, <3>1, <3>2 DEF IInv, Types, Started, Command
    <3> QED BY <1>1, <2>2, <3>3 DEF Drive, Started
  <2> QED BY ZenonT(30), <2>1, <2>2
<1>11. Contents'
  <2>1. \A p \in Proc : pc'[p] \in {"use", "brelse"} => valid'[bp'[p]] = 1
    <3> SUFFICES ASSUME NEW p \in Proc, pc[p] \in {"use", "brelse"} PROVE valid'[bp[p]] = 1
      BY Zenon, <1>1
    <3>1. bp[p] \in Buf /\ valid[bp[p]] = 1
      BY Zenon DEF IInv, Refs, Has, Contents
    <3> QED BY Zenon, <1>1, <1>2, <3>1 DEF IInv, Types
  <2>2. \A c \in Buf : dirty'[c] = 1 => valid'[c] = 1 /\ c \notin failed'
    BY <1>1, <1>2 DEF IInv, Types, Contents
  <2>3. dirty[b] = 0 /\ blockno[b] \notin lost => disk[blockno[b]] = truth[blockno[b]]
    BY Zenon, <1>2, NoneAssumption DEF IInv, Refs, OneCopy, Contents
  <2>4. dirty[b] = 1 => /\ data[b] = truth[blockno[b]]
                        /\ blockno[b] \notin lost => disk[blockno[b]] = data[b]
    BY Zenon, <1>1, <1>2, NoneAssumption DEF IInv, Contents, Drive, Written
  <2>5. dirty[b] \in {0, 1}
    BY Zenon, <1>2 DEF IInv, Types
  <2>6. \A c \in Buf : valid'[c] = 1 /\ c \notin failed' /\ blockno'[c] # None
                         => data'[c] = truth'[blockno'[c]]
    <3> SUFFICES ASSUME NEW c \in Buf, valid'[c] = 1, c \notin failed', blockno'[c] # None
                 PROVE  data'[c] = truth[blockno[c]]
      BY Zenon, <1>1
    <3>1. CASE c = b
      <4>1. ~wrong
        BY Zenon, <1>1, <3>1
      <4>2. dirty[b] = 0 => ready = 1 /\ blockno[b] \notin lost
        BY <1>1, <1>3, <4>1 DEF IInv, Types
      <4> QED BY Zenon, <1>2, <1>3, <2>3, <2>4, <2>5, <3>1, <4>2 DEF IInv, Types
    <3>2. CASE c # b
      <4>1. data'[c] = data[c] /\ valid[c] = 1 /\ c \notin failed /\ blockno[c] # None
        BY ZenonT(30), <1>1, <1>2, <1>3, <3>2 DEF IInv, Types
      <4> QED BY Zenon, <4>1 DEF IInv, Contents
    <3> QED BY Zenon, <3>1, <3>2
  <2>7. \A k \in Block : k \notin lost' /\ (\A c \in Buf : blockno'[c] = k => dirty'[c] = 0)
                          => disk'[k] = truth'[k]
    BY <1>1, <1>2, <2>3, <2>4, <2>5 DEF IInv, Types, Contents
  <2> QED BY Zenon, <2>1, <2>2, <2>6, <2>7 DEF Contents
<1> QED BY Zenon, <1>6, <1>7, <1>8, <1>9, <1>10, <1>11 DEF IInv

\* A process that ideintr has woken leaves iderw.
LEMMA IderwWokenKeeps ==
  ASSUME IInv, NEW p \in Proc, IderwWoken(p)
  PROVE  IInv'
<1>1. /\ pc[p] = "wait" /\ p \notin asleep /\ bp[p] \in Buf
      /\ valid[bp[p]] = 1 /\ dirty[bp[p]] = 0
  BY Zenon DEF IderwWoken, At, IInv, Queue, Refs, Has
<1>2. /\ pc' = [pc EXCEPT ![p] = "use"]
      /\ UNCHANGED <<blockno, refcnt, data, valid, dirty, lock, idequeue, ctl, ready, disk, lost,
                     asleep, bp, want, truth, failed>>
  BY Zenon, <1>1 DEF IderwWoken, Goto, bufVars
<1>3. Types' /\ Locked' /\ Queue' /\ Contents'
  BY <1>1, <1>2 DEF IInv, Types, PCs, Locked, Holds, Queue, Contents
<1>4. Refs'
  BY Zenon, <1>1, <1>2, RefsKept DEF IInv, Types
<1>5. Drive'
  BY Zenon, <1>2, DriveKept DEF IInv
<1> QED BY Zenon, <1>3, <1>4, <1>5 DEF IInv

\* The holder changes the contents and marks the buffer dirty: for bwrite, or for the log.
LEMMA WriteKeeps ==
  ASSUME IInv, NEW p \in Proc, NEW v \in Val, Bwrite(p, v) \/ LogWrite(p, v)
  PROVE  IInv'
<1> DEFINE b == bp[p]
<1>1. /\ pc[p] = "use" /\ Holds(p) /\ p \notin asleep /\ b \in Buf /\ want[p] \in Block
      /\ blockno[b] = want[p] /\ lock[b] = p /\ valid[b] = 1
  <2>1. pc[p] = "use" /\ Holds(p) /\ p \notin asleep
    BY ZenonT(30) DEF Bwrite, LogWrite, At, Holds, IInv, Queue
  <2>2. b \in Buf /\ blockno[b] = want[p] /\ want[p] \in Block
    BY <2>1, SizeAssumption DEF Holds, IInv, Refs, Has, Referenced, Buf
  <2>3. lock[b] = p
    BY Zenon, <2>1 DEF IInv, Locked
  <2>4. valid[b] = 1
    BY Zenon, <2>1 DEF IInv, Contents
  <2> QED BY Zenon, <2>1, <2>2, <2>3, <2>4
<1>2. /\ data' = [data EXCEPT ![b] = v] /\ truth' = [truth EXCEPT ![want[p]] = v]
      /\ dirty' = [dirty EXCEPT ![b] = 1] /\ failed' = failed \ {b}
      /\ pc' = [pc EXCEPT ![p] = "iderw"] \/ pc' = [pc EXCEPT ![p] = "brelse"]
      /\ UNCHANGED <<blockno, refcnt, valid, lock, idequeue, ctl, ready, disk, lost, asleep, bp, want>>
  BY Zenon DEF Bwrite, LogWrite, Goto, bufVars, ideVars
<1>3. Types'
  BY Zenon, <1>1, <1>2 DEF IInv, Types, PCs
<1>4. Refs'
  BY Zenon, <1>1, <1>2, RefsKept DEF IInv, Types
<1>5. Locked'
  BY Zenon, <1>1, <1>2 DEF IInv, Types, Locked, Holds
<1>6. \A q \in Proc : q # p /\ Holds(q) => bp[q] # b
  BY Zenon, <1>1 DEF IInv, Locked
<1>7. Queue'
  <2>1. \A q \in Proc \ asleep' : pc'[q] = "wait" => valid'[bp'[q]] = 1 /\ dirty'[bp'[q]] = 0
    <3> SUFFICES ASSUME NEW q \in Proc \ asleep, pc'[q] = "wait"
                 PROVE  valid[bp[q]] = 1 /\ dirty'[bp[q]] = 0
      BY Zenon, <1>2
    <3>1. q # p /\ pc[q] = "wait"
      BY Zenon, <1>2 DEF IInv, Types
    <3>2. bp[q] # b /\ bp[q] \in Buf
      BY Zenon, <1>6, <3>1 DEF Holds, IInv, Refs, Has
    <3> QED BY Zenon, <1>2, <3>1, <3>2 DEF IInv, Types, Queue
  <2>2. \A q \in asleep' : pc'[q] = "wait"
    BY <1>1, <1>2 DEF IInv, Types, Queue
  <2>3. UNCHANGED <<idequeue, asleep, bp>>
    BY ZenonT(30), <1>2
  <2>4. /\ \A i, j \in 1 .. Len(idequeue') : idequeue'[i] = idequeue'[j] => i = j
        /\ \A i \in 1 .. Len(idequeue') : \E q \in asleep' : bp'[q] = idequeue'[i]
        /\ \A q \in asleep' : \E i \in 1 .. Len(idequeue') : idequeue'[i] = bp'[q]
    BY <2>3 DEF IInv, Queue
  <2> QED BY Zenon, <2>1, <2>2, <2>4 DEF Queue
<1>8. Drive'
  <2>1. \A i \in 1 .. Len(idequeue) : idequeue[i] # b
    BY Zenon, <1>1, NotQueued
  <2> QED BY <1>2, <2>1, DriveKept DEF IInv, Types
<1>9. Contents'
  <2>1. \A q \in Proc : pc'[q] \in {"use", "brelse"} => valid'[bp'[q]] = 1
    BY Zenon, <1>1, <1>2 DEF IInv, Types, Contents
  <2>2. \A c \in Buf : dirty'[c] = 1 => valid'[c] = 1 /\ c \notin failed'
    BY Zenon, <1>1, <1>2 DEF IInv, Types, Contents
  <2>3. \A c \in Buf : c # b => blockno[c] # want[p]
    BY Zenon, <1>1, NoneAssumption DEF IInv, Refs, OneCopy
  <2>4. \A c \in Buf : valid'[c] = 1 /\ c \notin failed' /\ blockno'[c] # None
                         => data'[c] = truth'[blockno'[c]]
    BY <1>1, <1>2, <2>3 DEF IInv, Types, Contents
  <2>5. \A k \in Block : k \notin lost' /\ (\A c \in Buf : blockno'[c] = k => dirty'[c] = 0)
                          => disk'[k] = truth'[k]
    BY <1>1, <1>2, <2>3 DEF IInv, Types, Contents
  <2> QED BY Zenon, <2>1, <2>2, <2>4, <2>5 DEF Contents
<1> QED BY Zenon, <1>3, <1>4, <1>5, <1>7, <1>8, <1>9 DEF IInv

\* brelse gives up the sleep-lock.
LEMMA BrelseKeeps ==
  ASSUME IInv, NEW p \in Proc, Brelse(p)
  PROVE  IInv'
<1>1. /\ pc[p] \in {"use", "brelse"} /\ Holds(p) /\ p \notin asleep /\ bp[p] \in Buf
      /\ lock[bp[p]] = p
  BY Zenon DEF Brelse, At, Holds, IInv, Queue, Refs, Has, Locked
<1>2. /\ lock' = [lock EXCEPT ![bp[p]] = None]
      /\ pc' = [pc EXCEPT ![p] = "unref"]
      /\ UNCHANGED <<blockno, refcnt, data, valid, dirty, idequeue, ctl, ready, disk, lost, asleep,
                     bp, want, truth, failed>>
  BY Zenon DEF Brelse, Goto, bufVars, ideVars
<1>3. Types' /\ Queue' /\ Contents'
  BY SMTT(30), <1>1, <1>2 DEF IInv, Types, PCs, Queue, Contents
<1>4. Refs'
  BY Zenon, <1>1, <1>2, RefsKept DEF IInv, Types
<1>5. Locked'
  BY <1>1, <1>2 DEF IInv, Types, Locked, Holds
<1>6. Drive'
  BY Zenon, <1>2, DriveKept DEF IInv
<1> QED BY Zenon, <1>3, <1>4, <1>5, <1>6 DEF IInv

\* brelse gives up the reference.
LEMMA BrelseUnrefKeeps ==
  ASSUME IInv, NEW p \in Proc, BrelseUnref(p)
  PROVE  IInv'
<1> DEFINE b == bp[p]
<1>1. /\ pc[p] = "unref" /\ p \notin asleep /\ b \in Buf
  BY Zenon DEF BrelseUnref, At, IInv, Queue, Refs, Has
<1>2. /\ refcnt' = [refcnt EXCEPT ![b] = @ - 1]
      /\ bp' = [bp EXCEPT ![p] = 0]
      /\ want' = [want EXCEPT ![p] = None]
      /\ pc' = [pc EXCEPT ![p] = "user"]
      /\ UNCHANGED <<blockno, data, valid, dirty, lock, idequeue, ctl, ready, disk, lost, asleep,
                     truth, failed>>
  BY Zenon DEF BrelseUnref, Goto, ideVars
<1>3. p \in Users(b) /\ refcnt[b] = Cardinality(Users(b))
  BY Zenon, <1>1 DEF IInv, Refs, Referenced, Users
<1>4. refcnt[b] - 1 \in Nat
  <2>1. Cardinality(Users(b)) \in Nat /\ Cardinality(Users(b)) # 0
    BY Zenon, <1>3, UsersCounted
  <2> QED BY <1>3, <2>1
<1>5. Types'
  BY <1>1, <1>2, <1>4, SizeAssumption DEF IInv, Types, PCs
<1>6. Has' /\ OneCopy'
  BY Zenon, <1>1, <1>2 DEF IInv, Types, Refs, Has, OneCopy
<1>7. Referenced'
  <2>1. ASSUME NEW c \in Buf PROVE refcnt'[c] = Cardinality({q \in Proc : bp'[q] = c})
    <3>1. CASE c = b
      <4>1. {q \in Proc : bp'[q] = c} = Users(b) \ {p}
        BY <1>1, <1>2, <3>1, SizeAssumption DEF IInv, Types, Users, Buf
      <4>2. Cardinality(Users(b) \ {p}) = Cardinality(Users(b)) - 1
        BY Zenon, <1>3, UsersCounted
      <4>3. refcnt'[c] = refcnt[b] - 1
        BY Zenon, <1>1, <1>2, <3>1 DEF IInv, Types
      <4> QED BY Zenon, <1>3, <4>1, <4>2, <4>3
    <3>2. CASE c # b
      <4>1. {q \in Proc : bp'[q] = c} = {q \in Proc : bp[q] = c}
        BY <1>1, <1>2, <3>2, SizeAssumption DEF IInv, Types, Buf
      <4> QED BY Zenon, <1>2, <3>2, <4>1 DEF IInv, Types, Refs, Referenced
    <3> QED BY Zenon, <3>1, <3>2
  <2>2. \A q \in Proc : bp'[q] # 0 => blockno'[bp'[q]] = want'[q]
    BY Zenon, <1>2 DEF IInv, Types, Refs, Referenced
  <2> QED BY Zenon, <2>1, <2>2 DEF Referenced
<1>8. Locked'
  BY SMTT(30), <1>1, <1>2 DEF IInv, Types, Locked, Holds
<1>9. Contents'
  BY <1>1, <1>2 DEF IInv, Types, Contents
<1>10. Queue'
  BY <1>1, <1>2 DEF IInv, Types, Queue
<1>11. Drive'
  BY Zenon, <1>2, DriveKept DEF IInv
<1> QED BY Zenon, <1>5, <1>6, <1>7, <1>8, <1>9, <1>10, <1>11 DEF IInv, Refs

\* Every step of the cache and of the driver keeps the invariant.
LEMMA NextHolds == IInv /\ [Next]_vars => IInv'
<1> SUFFICES ASSUME IInv, [Next]_vars PROVE IInv'
  BY Zenon
<1>1. CASE UNCHANGED vars
  <2>1. UNCHANGED <<blockno, refcnt, data, valid, dirty, lock, idequeue, ctl, ready, disk, lost,
                    asleep, pc, bp, want, truth, failed>>
    BY ZenonT(30), <1>1 DEF vars, bufVars, ideVars
  <2>2. Types' /\ Locked' /\ Queue' /\ Contents'
    BY <2>1 DEF IInv, Types, Locked, Holds, Queue, Contents
  <2>3. Refs'
    BY Zenon, <2>1, RefsKept DEF IInv
  <2>4. Drive'
    BY Zenon, <2>1, DriveKept DEF IInv
  <2> QED BY Zenon, <2>2, <2>3, <2>4 DEF IInv
<1>2. CASE Next
  <2>1. ASSUME NEW p \in Proc, NEW k \in Block, BgetHit(p, k) \/ BgetRecycle(p, k) PROVE IInv'
    BY Zenon, <2>1, BgetHitKeeps, BgetRecycleKeeps
  <2>2. ASSUME NEW p \in Proc, BgetLock(p) \/ Iderw(p) \/ IderwWoken(p) \/ Brelse(p) \/ BrelseUnref(p)
        PROVE  IInv'
    BY Zenon, <2>2, BgetLockKeeps, IderwKeeps, IderwWokenKeeps, BrelseKeeps, BrelseUnrefKeeps
  <2>3. ASSUME NEW p \in Proc, NEW v \in Val, Bwrite(p, v) \/ LogWrite(p, v) PROVE IInv'
    BY Zenon, <2>3, WriteKeeps
  <2>4. ASSUME NEW bad \in BOOLEAN, Controller(bad) PROVE IInv'
    BY Zenon, <2>4, ControllerKeeps
  <2>5. CASE IdeIntr
    BY Zenon, <2>5, IdeIntrKeeps
  <2> QED BY Zenon, <1>2, <2>1, <2>2, <2>3, <2>4, <2>5 DEF Next
<1> QED BY Zenon, <1>1, <1>2

-----------------------------------------------------------------------------
(* Theorems.                                                               *)

\* In every reachable state.
LEMMA Invariant == Spec => []IInv
BY InitHolds, NextHolds, PTL DEF Spec

\* A block is never in two buffers of the cache (bget looks it up and recycles a
\* buffer in one section under bcache.lock).
THEOREM CachedOnce == Spec => []OneCopy
<1>1. IInv => OneCopy
  BY Zenon DEF IInv, Refs
<1> QED BY <1>1, Invariant, PTL

\* refcnt counts the users of a buffer, and no buffer is recycled under a user (bget
\* and brelse).
THEOREM NotRecycledInUse == Spec => []Referenced
<1>1. IInv => Referenced
  BY Zenon DEF IInv, Refs
<1> QED BY <1>1, Invariant, PTL

\* The holder of a buffer sees what the last holder of the block left in it, through
\* brelse, recycling, iderw and ideintr, unless the command that filled the buffer, or
\* the last command that wrote the block, has failed.
THEOREM NoWriteLost == Spec => []LastWriteSeen
<1>1. IInv => LastWriteSeen
  <2> SUFFICES ASSUME IInv, NEW p \in Proc, pc[p] \in {"use", "brelse"}, bp[p] \notin failed
               PROVE  data[bp[p]] = truth[want[p]]
    BY Zenon DEF LastWriteSeen
  <2>1. bp[p] \in Buf /\ want[p] \in Block /\ valid[bp[p]] = 1
    BY ZenonT(30) DEF IInv, Refs, Has, Contents
  <2>2. blockno[bp[p]] = want[p]
    BY <2>1, SizeAssumption DEF IInv, Refs, Referenced, Buf
  <2> QED BY Zenon, <2>1, <2>2, NoneAssumption DEF IInv, Contents
<1> QED BY <1>1, Invariant, PTL

\* A process that sleeps in iderw has its buffer in the queue, once, and the controller
\* works on the first buffer of the queue.
THEOREM SleepersQueued == Spec => []RequestQueued
<1>1. IInv => RequestQueued
  <2> SUFFICES ASSUME IInv PROVE RequestQueued
    BY Zenon
  <2>1. DOMAIN idequeue = 1 .. Len(idequeue)
    BY DEF IInv, Types
  <2>2. \A p \in asleep : \E i \in DOMAIN idequeue : idequeue[i] = bp[p]
    BY Zenon, <2>1 DEF IInv, Queue
  <2>3. ctl = Started(idequeue)
    BY Zenon DEF IInv, Drive
  <2>4. \A b : Command(b) # <<>>
    BY Zenon DEF Command
  <2> QED BY Zenon, <2>1, <2>2, <2>3, <2>4 DEF IInv, Queue, RequestQueued, Started
<1> QED BY <1>1, Invariant, PTL
=============================================================================

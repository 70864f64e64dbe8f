----------------------------- MODULE PipeProofs -----------------------------
(***************************************************************************)
(* Proofs about Pipe: nobody sleeps in vain, the page is freed once, and   *)
(* the ring with its wrapping counters is a FIFO queue.                    *)
(***************************************************************************)
EXTENDS Pipe, Integers, TLAPS

-----------------------------------------------------------------------------
(* Arithmetic of counters that wrap.                                       *)

\* Quotient and remainder.
LEMMA DivMod ==
  ASSUME NEW m \in Nat \ {0}, NEW a \in Nat
  PROVE  /\ a % m \in 0 .. m - 1
         /\ a \div m \in Nat
         /\ a % m = a - m * (a \div m)
OBVIOUS

\* The remainder is the one in the range.
LEMMA ModOf ==
  ASSUME NEW m \in Nat \ {0}, NEW q \in Nat, NEW r \in 0 .. m - 1
  PROVE  (m * q + r) % m = r
OBVIOUS

\* A multiple of m does not change the remainder.
LEMMA ModAdd ==
  ASSUME NEW m \in Nat \ {0}, NEW a \in Nat, NEW k \in Nat
  PROVE  (a + m * k) % m = a % m
<1> DEFINE d == a \div m  r == a % m
<1>1. d \in Nat /\ r \in 0 .. m - 1 /\ r = a - m * d
  BY DivMod, Zenon
<1>2. a + m * k = m * (d + k) + r
  BY <1>1
<1> HIDE DEF d, r
<1>3. d + k \in Nat
  BY <1>1
<1>4. (m * (d + k) + r) % m = r
  BY <1>1, <1>3, ModOf, Zenon
<1> QED BY Zenon, <1>2, <1>4 DEF r

\* Numbers that are closer than m have different remainders.
LEMMA ModInj ==
  ASSUME NEW m \in Nat \ {0}, NEW a \in Nat, NEW b \in Nat,
         a % m = b % m, a - b < m, b - a < m
  PROVE  a = b
<1> DEFINE c == a \div m  d == b \div m
<1>1. c \in Nat /\ a % m = a - m * c /\ d \in Nat /\ b % m = b - m * d
  BY DivMod, Zenon
<1> HIDE DEF c, d
<1>2. a - b = m * (c - d)
  BY <1>1
<1>3. CASE c > d
  <2>1. m * (c - d) >= m * 1
    BY <1>1, <1>3
  <2> QED BY <1>2, <2>1
<1>4. CASE c < d
  <2>1. m * (d - c) >= m * 1
    BY <1>1, <1>4
  <2>2. b - a = m * (d - c)
    BY <1>1
  <2> QED BY <2>1, <2>2
<1> QED BY <1>1, <1>2, <1>3, <1>4

\* A number below 2 m.
LEMMA ModOnce ==
  ASSUME NEW m \in Nat \ {0}, NEW a \in Nat, a < 2 * m
  PROVE  a % m = IF a < m THEN a ELSE a - m
<1>1. CASE a < m
  BY <1>1
<1>2. CASE a >= m
  <2>1. (a - m) % m = a - m
    BY <1>2
  <2>2. ((a - m) + m * 1) % m = (a - m) % m
    BY <1>2, ModAdd
  <2> QED BY <1>2, <2>1, <2>2
<1> QED BY <1>1, <1>2

\* The assumption on the constants, in the form the proofs use.
LEMMA Sizes ==
  /\ PIPESIZE \in Nat \ {0} /\ MOD \in Nat \ {0}
  /\ MOD % PIPESIZE = 0 /\ PIPESIZE < MOD
BY PipeAssumption

\* The index into the ring does not notice that the counter wrapped.
LEMMA ModAddMod ==
  ASSUME NEW a \in Nat, NEW x \in Nat
  PROVE  ((a % MOD) + x) % PIPESIZE = (a + x) % PIPESIZE
<1> DEFINE d == a \div MOD  r == a % MOD  e == MOD \div PIPESIZE
<1>1. d \in Nat /\ r \in 0 .. MOD - 1 /\ r = a - MOD * d
  BY DivMod, Sizes, Zenon
<1>2. e \in Nat /\ MOD = PIPESIZE * e
  BY DivMod, Sizes
<1> HIDE DEF d, r, e
<1>3. MOD * d = PIPESIZE * (e * d) /\ e * d \in Nat
  BY <1>1, <1>2, Sizes
<1>4. a + x = (r + x) + PIPESIZE * (e * d)
  BY <1>1, <1>3, Sizes
<1>5. r + x \in Nat
  BY <1>1, Sizes
<1>6. ((r + x) + PIPESIZE * (e * d)) % PIPESIZE = (r + x) % PIPESIZE
  BY <1>3, <1>5, ModAdd, Sizes, Zenon
<1> QED BY Zenon, <1>4, <1>6 DEF r

-----------------------------------------------------------------------------
(* The ring.                                                               *)

Counters == nread \in 0 .. MOD - 1 /\ nwrite \in 0 .. MOD - 1

\* A counter that advances by less than MOD.
LEMMA Advance ==
  ASSUME NEW a \in 0 .. MOD - 1, NEW k \in 0 .. MOD - 1
  PROVE  /\ (a + k) % MOD = IF a + k < MOD THEN a + k ELSE a + k - MOD
         /\ (a + k) % MOD \in 0 .. MOD - 1
<1> DEFINE c == a + k
<1>1. c \in Nat /\ c < 2 * MOD /\ MOD \in Nat \ {0}
  BY Sizes
<1>2. c % MOD = IF c < MOD THEN c ELSE c - MOD
  <2> HIDE DEF c
  <2> QED BY <1>1, ModOnce, Zenon
<1> QED BY <1>1, <1>2

\* The distance of two counters.
LEMMA Distance ==
  ASSUME NEW r \in 0 .. MOD - 1, NEW w \in 0 .. MOD - 1
  PROVE  (w + MOD - r) % MOD = IF r <= w THEN w - r ELSE w + MOD - r
<1> DEFINE c == w + MOD - r
<1>1. c \in Nat /\ c < 2 * MOD /\ MOD \in Nat \ {0}
  BY Sizes
<1>2. c % MOD = IF c < MOD THEN c ELSE c - MOD
  <2> HIDE DEF c
  <2> QED BY <1>1, ModOnce, Zenon
<1> QED BY <1>1, <1>2

\* Used is that distance; Full and Empty are its limits.
LEMMA UsedIs ==
  ASSUME Counters
  PROVE  /\ Used \in 0 .. MOD - 1
         /\ Used = IF nread <= nwrite THEN nwrite - nread ELSE nwrite + MOD - nread
         /\ nwrite = (nread + Used) % MOD
         /\ Empty <=> Used = 0
         /\ Full <=> Used = PIPESIZE
<1>1. /\ nread \in 0 .. MOD - 1 /\ nwrite \in 0 .. MOD - 1
      /\ PIPESIZE \in 0 .. MOD - 1 /\ PIPESIZE > 0 /\ MOD \in Nat
  BY Sizes DEF Counters
<1>2. Used = IF nread <= nwrite THEN nwrite - nread ELSE nwrite + MOD - nread
  BY Zenon, <1>1, Distance DEF Used
<1>3. Used \in 0 .. MOD - 1
  BY <1>1, <1>2
<1>4. (nread + Used) % MOD = IF nread + Used < MOD THEN nread + Used ELSE nread + Used - MOD
  BY Zenon, <1>1, <1>3, Advance
<1>5. (nread + PIPESIZE) % MOD = IF nread + PIPESIZE < MOD THEN nread + PIPESIZE
                                 ELSE nread + PIPESIZE - MOD
  BY Zenon, <1>1, Advance
<1>6. nwrite = (nread + Used) % MOD
  BY <1>1, <1>2, <1>4
<1>7. Empty <=> Used = 0
  BY <1>1, <1>2 DEF Empty
<1>8. Full <=> Used = PIPESIZE
  BY <1>1, <1>2, <1>5 DEF Full
<1> QED BY Zenon, <1>2, <1>3, <1>6, <1>7, <1>8

\* Full and Empty by what is in the pipe, now and after a step.
LEMMA Limits == Counters => (Full <=> Used = PIPESIZE) /\ (Empty <=> Used = 0)
BY Zenon, UsedIs

LEMMA NextLimits == Counters' => (Full' <=> Used' = PIPESIZE) /\ (Empty' <=> Used' = 0)
<1>1. (Counters => (Full <=> Used = PIPESIZE) /\ (Empty <=> Used = 0))'
  BY Limits, PTL
<1> QED BY Zenon, <1>1

\* What a write of k bytes does to the counters.
LEMMA UsedWrite ==
  ASSUME Counters, NEW k \in Nat, Used + k <= PIPESIZE,
         nwrite' = (nwrite + k) % MOD, nread' = nread
  PROVE  Counters' /\ Used' = Used + k
<1>1. k \in 0 .. MOD - 1 /\ Used + k < MOD /\ MOD \in Nat
  BY UsedIs, Sizes
<1>2. nwrite' = (IF nwrite + k < MOD THEN nwrite + k ELSE nwrite + k - MOD) /\ nwrite' \in 0 .. MOD - 1
  BY Zenon, <1>1, Advance DEF Counters
<1>3. Counters'
  BY Zenon, <1>2 DEF Counters
<1>4. Used' = IF nread' <= nwrite' THEN nwrite' - nread' ELSE nwrite' + MOD - nread'
  BY Zenon, <1>3, Distance DEF Counters, Used
<1> QED BY <1>1, <1>2, <1>3, <1>4, UsedIs DEF Counters

\* What a read of k bytes does to them.
LEMMA UsedRead ==
  ASSUME Counters, NEW k \in Nat, k <= Used,
         nread' = (nread + k) % MOD, nwrite' = nwrite
  PROVE  Counters' /\ Used' = Used - k
<1>1. k \in 0 .. MOD - 1 /\ MOD \in Nat
  BY UsedIs, Sizes
<1>2. nread' = (IF nread + k < MOD THEN nread + k ELSE nread + k - MOD) /\ nread' \in 0 .. MOD - 1
  BY Zenon, <1>1, Advance DEF Counters
<1>3. Counters'
  BY Zenon, <1>2 DEF Counters
<1>4. Used' = IF nread' <= nwrite' THEN nwrite' - nread' ELSE nwrite' + MOD - nread'
  BY Zenon, <1>3, Distance DEF Counters, Used
<1>5. /\ nread \in Nat /\ nread < MOD /\ nwrite \in Nat /\ nwrite < MOD
      /\ Used = IF nread <= nwrite THEN nwrite - nread ELSE nwrite + MOD - nread
  BY <1>1, UsedIs DEF Counters
<1>6. Used' = Used - k
  BY <1>1, <1>2, <1>4, <1>5
<1> QED BY Zenon, <1>3, <1>6

\* Where a byte is in the ring.
LEMMA Index ==
  ASSUME NEW a \in Nat
  PROVE  a % PIPESIZE \in 0 .. PIPESIZE - 1
BY Zenon, Sizes, DivMod

\* The place of the next byte is the one behind the bytes in the pipe.
LEMMA WriteIndex ==
  ASSUME Counters, NEW j \in Nat \ {0}
  PROVE  (nwrite + j - 1) % PIPESIZE = (nread + Used + j - 1) % PIPESIZE
<1> DEFINE a == nread + Used  x == j - 1
<1>1. a \in Nat /\ x \in Nat /\ nwrite = a % MOD /\ nwrite \in Nat
  BY UsedIs, Sizes DEF Counters
<1>2. nwrite + j - 1 = nwrite + x /\ nread + Used + j - 1 = a + x
  BY Zenon, <1>1, UsedIs, Sizes DEF Counters
<1> HIDE DEF a, x
<1>3. ((a % MOD) + x) % PIPESIZE = (a + x) % PIPESIZE
  BY Zenon, <1>1, ModAddMod
<1> QED BY Zenon, <1>1, <1>2, <1>3

\* The bytes that go into the ring come behind those that are there, which stay.
LEMMA StoreContent ==
  ASSUME Counters, data \in [0 .. PIPESIZE - 1 -> Byte],
         NEW k \in Nat, NEW s \in [1 .. k -> Byte], Used + k <= PIPESIZE,
         Store(s), nread' = nread
  PROVE  /\ Counters' /\ Used' = Used + k
         /\ data' \in [0 .. PIPESIZE - 1 -> Byte]
         /\ Content' = [i \in 1 .. Used + k |-> IF i <= Used THEN Content[i] ELSE s[i - Used]]
<1> DEFINE js(x) == {j \in 1 .. k : (nwrite + j - 1) % PIPESIZE = x}
<1>1. s \in Seq(Byte) /\ Len(s) = k
  OBVIOUS
<1>2. nwrite' = (nwrite + k) % MOD
  BY Zenon, <1>1 DEF Store
<1>3. data' = [x \in 0 .. PIPESIZE - 1 |->
                 IF js(x) = {} THEN data[x] ELSE s[CHOOSE j \in js(x) : TRUE]]
  BY <1>1 DEF Store
<1>4. Counters' /\ Used' = Used + k
  BY Zenon, <1>2, UsedWrite
<1>5. Used \in Nat /\ nread \in Nat /\ PIPESIZE \in Nat \ {0}
  BY UsedIs, Sizes DEF Counters
<1>6. ASSUME NEW i \in 1 .. Used + k, NEW j \in 1 .. k,
             (nwrite + j - 1) % PIPESIZE = (nread + i - 1) % PIPESIZE
      PROVE  i = Used + j
  <2> DEFINE a == nread + i - 1  b == nread + Used + j - 1
  <2>1. b % PIPESIZE = a % PIPESIZE
    BY <1>6, WriteIndex
  <2>2. a \in Nat /\ b \in Nat /\ a - b < PIPESIZE /\ b - a < PIPESIZE
    BY <1>5
  <2>3. a = b
    <3> HIDE DEF a, b
    <3> QED BY <1>5, <2>1, <2>2, ModInj, Zenon
  <2> QED BY <1>5, <2>3
<1>7. ASSUME NEW i \in 1 .. Used
      PROVE  data'[(nread + i - 1) % PIPESIZE] = data[(nread + i - 1) % PIPESIZE]
  <2> DEFINE x == (nread + i - 1) % PIPESIZE
  <2>1. nread + i - 1 \in Nat
    BY <1>5
  <2>a. x \in 0 .. PIPESIZE - 1
    BY Zenon, <2>1, Index
  <2>2. ASSUME NEW j \in js(x) PROVE FALSE
    <3>1. j \in 1 .. k /\ (nwrite + j - 1) % PIPESIZE = (nread + i - 1) % PIPESIZE
      BY Zenon, <2>2
    <3>2. i \in 1 .. Used + k
      BY <1>5
    <3>3. i = Used + j
      BY Zenon, <1>6, <3>1, <3>2
    <3> QED BY <1>5, <3>1, <3>3
  <2> HIDE DEF x
  <2> QED BY Zenon, <1>3, <2>a, <2>2 DEF x
<1>8. ASSUME NEW i \in Used + 1 .. Used + k
      PROVE  data'[(nread + i - 1) % PIPESIZE] = s[i - Used]
  <2> DEFINE x == (nread + i - 1) % PIPESIZE
  <2>1. nread + i - 1 \in Nat
    BY <1>5
  <2>a. x \in 0 .. PIPESIZE - 1
    BY Zenon, <2>1, Index
  <2>2. i - Used \in 1 .. k /\ Used + (i - Used) = i
    BY <1>5
  <2>3. (nwrite + (i - Used) - 1) % PIPESIZE = (nread + Used + (i - Used) - 1) % PIPESIZE
    BY <2>2, WriteIndex
  <2>4. nread + Used + (i - Used) - 1 = nread + i - 1
    BY <1>5
  <2>5. i - Used \in js(x)
    BY Zenon, <2>2, <2>3, <2>4
  <2>6. \A j \in js(x) : j = i - Used
    BY <1>5, <1>6
  <2>7. (CHOOSE j \in js(x) : TRUE) = i - Used
    <3> HIDE DEF js
    <3> QED BY Zenon, <2>5, <2>6
  <2> HIDE DEF x, js
  <2> QED BY Zenon, <1>3, <2>a, <2>5, <2>7 DEF x
<1>9. data' \in [0 .. PIPESIZE - 1 -> Byte]
  <2>1. ASSUME NEW x \in 0 .. PIPESIZE - 1, js(x) # {}
        PROVE  s[CHOOSE j \in js(x) : TRUE] \in Byte
    <3>1. (CHOOSE j \in js(x) : TRUE) \in js(x)
      BY Zenon, <2>1
    <3> QED BY Zenon, <3>1
  <2> HIDE DEF js
  <2> QED BY Zenon, <1>3, <2>1
<1>10. Content' = [i \in 1 .. Used + k |-> data'[(nread + i - 1) % PIPESIZE]]
  BY Zenon, <1>4 DEF Content
<1>11. ASSUME NEW i \in 1 .. Used + k
       PROVE  data'[(nread + i - 1) % PIPESIZE] = IF i <= Used THEN Content[i] ELSE s[i - Used]
  <2>1. CASE i <= Used
    <3>1. i \in 1 .. Used
      BY <1>5, <2>1
    <3>2. Content[i] = data[(nread + i - 1) % PIPESIZE]
      BY Zenon, <3>1 DEF Content
    <3> QED BY Zenon, <1>7, <2>1, <3>1, <3>2
  <2>2. CASE ~(i <= Used)
    <3>1. i \in Used + 1 .. Used + k
      BY <1>5, <2>2
    <3> QED BY Zenon, <1>8, <2>2, <3>1
  <2> QED BY Zenon, <1>5, <2>1, <2>2
<1> QED BY Zenon, <1>4, <1>9, <1>10, <1>11

\* A read takes the first k bytes.
LEMMA ReadContent ==
  ASSUME Counters, NEW k \in Nat, k <= Used,
         nread' = (nread + k) % MOD, nwrite' = nwrite, data' = data
  PROVE  /\ Counters' /\ Used' = Used - k
         /\ Content' = [i \in 1 .. Used - k |-> Content[i + k]]
<1>1. Counters' /\ Used' = Used - k
  BY Zenon, UsedRead
<1>2. Used \in Nat /\ nread \in Nat
  BY UsedIs, Sizes DEF Counters
<1>3. ASSUME NEW i \in 1 .. Used - k
      PROVE  (nread' + i - 1) % PIPESIZE = (nread + (i + k) - 1) % PIPESIZE
  <2> DEFINE a == nread + k  x == i - 1
  <2>1. a \in Nat /\ x \in Nat
    BY <1>2
  <2>2. nread' + i - 1 = nread' + x /\ nread + (i + k) - 1 = a + x /\ nread' = a % MOD
    BY <1>1, <1>2, Sizes DEF Counters
  <2> HIDE DEF a, x
  <2>3. ((a % MOD) + x) % PIPESIZE = (a + x) % PIPESIZE
    BY Zenon, <2>1, ModAddMod
  <2> QED BY Zenon, <2>2, <2>3
<1>4. Content' = [i \in 1 .. Used - k |-> data[(nread' + i - 1) % PIPESIZE]]
  BY Zenon, <1>1 DEF Content
<1>5. ASSUME NEW i \in 1 .. Used - k
      PROVE  data[(nread' + i - 1) % PIPESIZE] = Content[i + k]
  <2>1. i + k \in 1 .. Used
    BY <1>2
  <2> QED BY Zenon, <1>3, <2>1 DEF Content
<1> QED BY Zenon, <1>1, <1>4, <1>5

-----------------------------------------------------------------------------
(* The inductive invariant.                                                *)

Types ==
  /\ data \in [0 .. PIPESIZE - 1 -> Byte] /\ Counters /\ Used <= PIPESIZE
  /\ readopen \in {0, 1} /\ writeopen \in {0, 1} /\ freed \in {0, 1}
  /\ lock \in Proc \cup {None}
  /\ born \subseteq Proc /\ rfd \subseteq born /\ wfd \subseteq born
  /\ pc \in [Proc -> {"user", "write", "wsleep", "read", "rsleep", "wclose", "rclose"}]
  /\ chan \in [Proc -> {"none", "nread", "nwrite"}]
  /\ rem \in [Proc -> Nat] /\ killed \in [Proc -> {0, 1}]

\* S has n elements: its elements can be numbered from 1 to n.
HasSize(S, n) ==
  /\ n \in Nat
  /\ \E f \in [1 .. n -> S] : /\ \A x \in S : \E i \in 1 .. n : f[i] = x
                             /\ \A i, j \in 1 .. n : f[i] = f[j] => i = j

\* The reference counts of the two files count the descriptors.
Counted == HasSize(rfd, rref) /\ HasSize(wfd, wref)

\* A process inside read or write has the descriptor, one that closes has taken the
\* last one; who sleeps is inside; who is about to sleep holds the lock.
Inside ==
  \A p \in Proc :
    /\ pc[p] \in {"write", "wsleep"} => p \in wfd
    /\ pc[p] \in {"read", "rsleep"} => p \in rfd /\ rem[p] \in Req
    /\ pc[p] = "wclose" => wfd = {} /\ writeopen = 1
    /\ pc[p] = "rclose" => rfd = {} /\ readopen = 1
    /\ chan[p] = "nwrite" => pc[p] = "write"
    /\ chan[p] = "nread" => pc[p] = "read"
    /\ lock = p <=> pc[p] \in {"wsleep", "rsleep"}

\* An end is open as long as there is a descriptor of it, or a process that is about
\* to close it, and this is one process.
Ends ==
  /\ wfd # {} => writeopen = 1
  /\ rfd # {} => readopen = 1
  /\ wfd = {} /\ writeopen = 1 => \E p \in Proc : pc[p] = "wclose"
  /\ rfd = {} /\ readopen = 1 => \E p \in Proc : pc[p] = "rclose"
  /\ \A p, q \in Proc : pc[p] = pc[q] /\ pc[p] \in {"wclose", "rclose"} => p = q
  /\ freed = 1 <=> readopen = 0 /\ writeopen = 0

\* Whoever sleeps, or is about to, has a reason.
Reasons ==
  \A p \in Proc :
    /\ chan[p] = "nread" => writeopen = 1 /\ (Empty \/ (\E w \in Proc : killed[w] = 1))
    /\ chan[p] = "nwrite" => Full /\ readopen = 1
    /\ pc[p] = "rsleep" => Empty /\ writeopen = 1
    /\ pc[p] = "wsleep" => Full /\ readopen = 1

PipeInv == Types /\ Counted /\ Inside /\ Ends /\ Reasons

\* A descriptor more.
LEMMA OneMore ==
  ASSUME NEW S, NEW n, HasSize(S, n), NEW x, x \notin S
  PROVE  HasSize(S \cup {x}, n + 1)
<1> DEFINE All(f, m, T) == /\ \A y \in T : \E i \in 1 .. m : f[i] = y
                           /\ \A i, j \in 1 .. m : f[i] = f[j] => i = j
<1>1. PICK f \in [1 .. n -> S] : All(f, n, S)
  BY Zenon DEF HasSize
<1>2. n \in Nat
  BY Zenon DEF HasSize
<1> DEFINE g == [i \in 1 .. n + 1 |-> IF i <= n THEN f[i] ELSE x]
<1>3. g \in [1 .. n + 1 -> S \cup {x}]
  BY <1>2
<1>4. \A i \in 1 .. n : g[i] = f[i] /\ g[i] \in S
  BY <1>2
<1>5. g[n + 1] = x /\ n + 1 \in 1 .. n + 1
  BY <1>2
<1> HIDE DEF g
<1>6. \A y \in S \cup {x} : \E i \in 1 .. n + 1 : g[i] = y
  BY <1>1, <1>2, <1>4, <1>5
<1>7. \A i \in 1 .. n + 1 : i \in 1 .. n \/ i = n + 1
  BY <1>2
<1>8. \A i, j \in 1 .. n + 1 : g[i] = g[j] => i = j
  BY Zenon, <1>1, <1>4, <1>5, <1>7
<1>9. n + 1 \in Nat
  BY <1>2
<1> QED BY <1>3, <1>6, <1>8, <1>9, Zenon DEF HasSize

\* A descriptor less; it was the last one if there was one.
LEMMA OneLess ==
  ASSUME NEW S, NEW n, HasSize(S, n), NEW x \in S
  PROVE  HasSize(S \ {x}, n - 1) /\ (n = 1 <=> S \ {x} = {})
<1>1. n \in Nat
  BY Zenon DEF HasSize
<1>2. PICK f \in [1 .. n -> S] : /\ \A y \in S : \E i \in 1 .. n : f[i] = y
                                 /\ \A i, j \in 1 .. n : f[i] = f[j] => i = j
  BY Zenon DEF HasSize
<1>3. PICK k \in 1 .. n : f[k] = x
  BY Zenon, <1>2
<1> DEFINE g == [i \in 1 .. n - 1 |-> IF i = k THEN f[n] ELSE f[i]]
<1>4. n - 1 \in Nat /\ n \in 1 .. n /\ \A i \in 1 .. n - 1 : i \in 1 .. n /\ i # n
  BY <1>1, <1>3
<1>5. \A i \in 1 .. n - 1 : g[i] = (IF i = k THEN f[n] ELSE f[i]) /\ g[i] \in S /\ g[i] # x
  BY Zenon, <1>2, <1>3, <1>4
<1>6. g \in [1 .. n - 1 -> S \ {x}]
  BY Zenon, <1>5
<1>7. ASSUME NEW y \in S \ {x} PROVE \E i \in 1 .. n - 1 : g[i] = y
  <2>1. PICK i \in 1 .. n : f[i] = y
    BY Zenon, <1>2
  <2>2. i # k
    BY Zenon, <1>3, <2>1
  <2>3. CASE i = n
    <3>1. k \in 1 .. n - 1
      BY <1>1, <1>3, <2>2, <2>3
    <3> QED BY Zenon, <1>5, <2>1, <2>3, <3>1
  <2>4. CASE i # n
    <3>1. i \in 1 .. n - 1
      BY <1>1, <2>4
    <3> QED BY Zenon, <1>5, <2>1, <2>2, <3>1
  <2> QED BY Zenon, <2>3, <2>4
<1>8. ASSUME NEW i \in 1 .. n - 1, NEW j \in 1 .. n - 1, g[i] = g[j] PROVE i = j
  <2> HIDE DEF g
  <2> QED BY <1>2, <1>4, <1>5, <1>8
<1> HIDE DEF g
<1>9. HasSize(S \ {x}, n - 1)
  BY <1>4, <1>6, <1>7, <1>8, Zenon DEF HasSize
<1>10. n = 1 => S \ {x} = {}
  BY <1>2, <1>3
<1>11. ASSUME S \ {x} = {} PROVE n = 1
  <2>1. f[1] = f[n]
    BY <1>1, <1>3, <1>11
  <2> QED BY <1>1, <1>2, <1>3, <2>1
<1> QED BY Zenon, <1>9, <1>10, <1>11

\* The invariant holds in the beginning.
LEMMA InitInv == Init => PipeInv
<1> SUFFICES ASSUME Init PROVE PipeInv
  BY Zenon
<1> USE PipeAssumption DEF Init
<1>1. Counters
  BY Sizes DEF Counters
<1>2. Used = 0
  BY <1>1, UsedIs
<1>4. Types
  BY <1>1, <1>2, Sizes DEF Types
<1>5. Counted
  <2> DEFINE f == [i \in 1 .. 1 |-> Creator]
  <2>1. f \in [1 .. 1 -> {Creator}] /\ f[1] = Creator
    OBVIOUS
  <2>2. \A i, j \in 1 .. 1 : i = j
    OBVIOUS
  <2> HIDE DEF f
  <2>3. HasSize({Creator}, 1)
    BY <2>1, <2>2 DEF HasSize
  <2> QED BY Zenon, <2>3 DEF Counted
<1>6. Inside /\ Ends /\ Reasons
  BY Zenon DEF Inside, Ends, Reasons
<1> QED BY Zenon, <1>4, <1>5, <1>6 DEF PipeInv

\* The ring stays as it is when none of its parts changes.
LEMMA SameRing ==
  ASSUME UNCHANGED <<nread, nwrite>>
  PROVE  Used' = Used /\ Full' = Full /\ Empty' = Empty /\ Counters' = Counters
BY Zenon DEF Used, Full, Empty, Counters

\* fork keeps the invariant: the child gets the descriptors, and they are counted.
LEMMA ForkInv ==
  ASSUME Types, Counted, Inside, Ends, Reasons, NEW p \in Proc, NEW c \in Proc, Fork(p, c)
  PROVE  PipeInv'
<1>1. /\ UNCHANGED <<data, nread, nwrite, readopen, writeopen, freed, lock, pc, chan, rem, killed>>
      /\ p \in born /\ c \notin born /\ born' = born \cup {c}
      /\ rfd' = (IF p \in rfd THEN rfd \cup {c} ELSE rfd)
      /\ wfd' = (IF p \in wfd THEN wfd \cup {c} ELSE wfd)
      /\ rref' = (IF p \in rfd THEN rref + 1 ELSE rref)
      /\ wref' = (IF p \in wfd THEN wref + 1 ELSE wref)
  BY Zenon DEF Fork, Calls, pipe
<1>2. Used' = Used /\ Full' = Full /\ Empty' = Empty /\ Counters' = Counters
  BY Zenon, <1>1, SameRing
<1>3. c \notin rfd /\ c \notin wfd
  BY Zenon, <1>1 DEF Types
<1>4. Types'
  BY Zenon, <1>1, <1>2 DEF Types
<1>5. Counted'
  BY Zenon, <1>1, <1>3, OneMore DEF Counted
<1>6. Inside'
  BY Zenon, <1>1 DEF Inside
<1>7. Ends'
  BY Zenon, <1>1 DEF Ends
<1>8. Reasons'
  BY Zenon, <1>1, <1>2 DEF Reasons
<1> QED BY Zenon, <1>4, <1>5, <1>6, <1>7, <1>8 DEF PipeInv

\* kill keeps the invariant: who is killed sleeps no longer.
LEMMA KillInv ==
  ASSUME Types, Counted, Inside, Ends, Reasons, NEW p \in Proc, Kill(p)
  PROVE  PipeInv'
<1>1. /\ UNCHANGED <<data, nread, nwrite, readopen, writeopen, freed, lock, pc, rem,
                     rref, wref, rfd, wfd, born>>
      /\ killed' = [killed EXCEPT ![p] = 1]
      /\ chan' = [chan EXCEPT ![p] = "none"]
  BY Zenon DEF Kill, pipe, files
<1>2. Used' = Used /\ Full' = Full /\ Empty' = Empty /\ Counters' = Counters
  BY Zenon, <1>1, SameRing
<1>3. Types'
  BY Zenon, <1>1, <1>2 DEF Types
<1>4. Counted' /\ Ends'
  BY Zenon, <1>1 DEF Counted, Ends
<1>5. Inside'
  BY <1>1 DEF Inside, Types
<1>6. Reasons'
  BY Zenon, <1>1, <1>2 DEF Reasons, Types
<1> QED BY Zenon, <1>3, <1>4, <1>5, <1>6 DEF PipeInv

\* The entry of read and of write.
LEMMA CallInv ==
  ASSUME Types, Counted, Inside, Ends, Reasons, NEW p \in Proc, NEW n \in Req, SysWrite(p, n) \/ SysRead(p, n)
  PROVE  PipeInv'
<1> PICK l : /\ l \in {"write", "read"} /\ pc' = [pc EXCEPT ![p] = l]
             /\ l = "write" => p \in wfd
             /\ l = "read" => p \in rfd
  BY Zenon DEF SysWrite, SysRead, Goto
<1>1. /\ UNCHANGED <<data, nread, nwrite, readopen, writeopen, freed, lock, chan, killed,
                     rref, wref, rfd, wfd, born>>
      /\ rem' = [rem EXCEPT ![p] = n]
      /\ pc[p] = "user" /\ chan[p] = "none" /\ n \in Nat
  BY Zenon, PipeAssumption DEF SysWrite, SysRead, Calls, At, pipe, files
<1>2. Used' = Used /\ Full' = Full /\ Empty' = Empty /\ Counters' = Counters
  BY Zenon, <1>1, SameRing
<1>3. Types'
  BY Zenon, <1>1, <1>2 DEF Types
<1>4. Counted'
  BY Zenon, <1>1 DEF Counted
<1>5. Inside'
  BY <1>1 DEF Inside, Types
<1>6. Ends'
  BY Zenon, <1>1 DEF Ends, Types
<1>7. Reasons'
  BY Zenon, <1>1, <1>2 DEF Reasons, Types
<1> QED BY Zenon, <1>3, <1>4, <1>5, <1>6, <1>7 DEF PipeInv

\* pipewrite keeps the invariant: it sleeps only when the ring is full and there are
\* readers, whom it has woken.
LEMMA PipeWriteInv ==
  ASSUME Types, Counted, Inside, Ends, Reasons, NEW p \in Proc, PipeWrite(p)
  PROVE  PipeInv'
<1> DEFINE k == Least(rem[p], PIPESIZE - Used)  left == rem[p] - k
           gaveup == left # 0 /\ (readopen = 0 \/ killed[p] = 1)
           blocks == left # 0 /\ ~gaveup
<1>1. Used \in Nat /\ Used <= PIPESIZE /\ rem[p] \in Nat /\ PIPESIZE \in Nat /\ Counters
  BY UsedIs, Sizes DEF Types
<1>2. k \in Nat /\ Used + k <= PIPESIZE /\ left \in Nat /\ (left # 0 => Used + k = PIPESIZE)
  BY <1>1 DEF Least
<1>3. PICK s \in [1 .. k -> Byte] :
        /\ Store(s)
        /\ rem' = [rem EXCEPT ![p] = IF blocks THEN left ELSE 0]
        /\ pc' = [pc EXCEPT ![p] = IF blocks THEN "wsleep" ELSE "user"]
        /\ lock' = IF blocks THEN p ELSE None
        /\ chan' = IF gaveup THEN chan ELSE Wakeup("nread")
  <2>1. PICK s \in [1 .. k -> Byte] :
          LET rest == rem[p] - Len(s)
              gives == rest # 0 /\ (readopen = 0 \/ killed[p] = 1)
              waits == rest # 0 /\ ~gives IN
          /\ Store(s)
          /\ rem' = [rem EXCEPT ![p] = IF waits THEN rest ELSE 0]
          /\ Goto(p, IF waits THEN "wsleep" ELSE "user")
          /\ lock' = IF waits THEN p ELSE None
          /\ chan' = IF gives THEN chan ELSE Wakeup("nread")
    BY Zenon DEF PipeWrite
  <2>2. Len(s) = k
    BY <1>2
  <2> HIDE DEF k
  <2> QED BY Zenon, <2>1, <2>2 DEF Goto
<1>4. /\ UNCHANGED <<nread, readopen, writeopen, freed, rref, wref, rfd, wfd, born, killed>>
      /\ pc[p] = "write" /\ chan[p] = "none" /\ lock = None
  BY Zenon DEF PipeWrite, files, Enters, At
<1>5. Counters' /\ Used' = Used + k /\ data' \in [0 .. PIPESIZE - 1 -> Byte]
  BY <1>1, <1>2, <1>3, <1>4, StoreContent, Zenon DEF Types
<1>6. (Full <=> Used = PIPESIZE) /\ (Empty <=> Used = 0)
      /\ (Full' <=> Used' = PIPESIZE) /\ (Empty' <=> Used' = 0)
  BY Zenon, <1>1, <1>5, Limits, NextLimits
<1>7. (left # 0 => Full') /\ (Full => Full' /\ k = 0) /\ (k = 0 /\ Empty => Empty')
  BY <1>1, <1>2, <1>5, <1>6, SMTT(30)
<1>8. p \in wfd /\ writeopen = 1
  BY Zenon, <1>4 DEF Inside, Ends
<1>9. chan' \in [Proc -> {"none", "nread", "nwrite"}]
      /\ \A q \in Proc : /\ chan'[q] = "nwrite" => chan[q] = "nwrite"
                         /\ chan'[q] = "nread" => chan[q] = "nread" /\ gaveup
  BY Zenon, <1>3 DEF Wakeup, Types
<1> HIDE DEF k, left
<1>10. Types'
  BY Zenon, <1>1, <1>2, <1>3, <1>4, <1>5, <1>9 DEF Types
<1>11. Counted'
  BY Zenon, <1>4 DEF Counted
<1>12. Inside'
  BY <1>3, <1>4, <1>8, <1>9, PipeAssumption DEF Inside, Types
<1>13. Ends'
  BY Zenon, <1>3, <1>4 DEF Ends, Types
<1>14. Reasons'
  <2> SUFFICES ASSUME NEW q \in Proc
               PROVE  /\ chan'[q] = "nread" => /\ writeopen' = 1
                                               /\ Empty' \/ (\E w \in Proc : killed'[w] = 1)
                      /\ chan'[q] = "nwrite" => Full' /\ readopen' = 1
                      /\ pc'[q] = "rsleep" => Empty' /\ writeopen' = 1
                      /\ pc'[q] = "wsleep" => Full' /\ readopen' = 1
    BY Zenon DEF Reasons
  <2>1. ASSUME chan'[q] = "nread"
        PROVE  writeopen' = 1 /\ \E w \in Proc : killed'[w] = 1
    <3>1. gaveup /\ pc[q] = "read" /\ q \in rfd
      BY Zenon, <1>9, <2>1 DEF Inside
    <3>2. readopen = 1
      BY Zenon, <3>1 DEF Ends
    <3> QED BY <1>4, <1>8, <3>1, <3>2
  <2>2. chan'[q] = "nwrite" => Full' /\ readopen' = 1
    BY Zenon, <1>4, <1>7, <1>9 DEF Reasons
  <2>3. pc'[q] # "rsleep"
    BY Zenon, <1>3, <1>4, PipeAssumption DEF Inside, Types
  <2>4. pc'[q] = "wsleep" => Full' /\ readopen' = 1
    BY Zenon, <1>3, <1>4, <1>7, PipeAssumption DEF Inside, Types
  <2> QED BY Zenon, <2>1, <2>2, <2>3, <2>4
<1> QED BY Zenon, <1>10, <1>11, <1>12, <1>13, <1>14 DEF PipeInv

\* sleep keeps the invariant: nothing has changed since the test.
LEMMA SleepInv ==
  ASSUME Types, Counted, Inside, Ends, Reasons, NEW p \in Proc, WriteSleep(p) \/ ReadSleep(p)
  PROVE  PipeInv'
<1>a. ASSUME WriteSleep(p)
      PROVE  pc[p] = "wsleep" /\ chan' = [chan EXCEPT ![p] = "nwrite"] /\ pc' = [pc EXCEPT ![p] = "write"]
  BY Zenon, <1>a DEF WriteSleep, At, Goto
<1>b. ASSUME ReadSleep(p)
      PROVE  pc[p] = "rsleep" /\ chan' = [chan EXCEPT ![p] = "nread"] /\ pc' = [pc EXCEPT ![p] = "read"]
  BY Zenon, <1>b DEF ReadSleep, At, Goto
<1>c. PICK l, c, m :
        /\ <<l, c, m>> \in {<<"wsleep", "nwrite", "write">>, <<"rsleep", "nread", "read">>}
        /\ pc[p] = l /\ chan' = [chan EXCEPT ![p] = c] /\ pc' = [pc EXCEPT ![p] = m]
  BY <1>a, <1>b
<1>1. /\ UNCHANGED <<data, nread, nwrite, readopen, writeopen, freed, rem, killed,
                     rref, wref, rfd, wfd, born>>
      /\ lock' = None /\ lock = p
  BY Zenon, <1>c DEF WriteSleep, ReadSleep, pipe, files, Inside
<1>2. Used' = Used /\ Full' = Full /\ Empty' = Empty /\ Counters' = Counters
  BY Zenon, <1>1, SameRing
<1>3. Types'
  BY Zenon, <1>1, <1>2, <1>c DEF Types
<1>4. Counted'
  BY Zenon, <1>1 DEF Counted
<1>5. Inside'
  BY <1>1, <1>c, PipeAssumption DEF Inside, Types
<1>6. Ends'
  BY <1>1, <1>c DEF Ends, Types
<1>7. Reasons'
  BY Zenon, <1>1, <1>2, <1>c DEF Reasons, Types
<1> QED BY Zenon, <1>3, <1>4, <1>5, <1>6, <1>7 DEF PipeInv

\* piperead with nothing to read.
LEMMA ReadEmptyInv ==
  ASSUME Types, Counted, Inside, Ends, Reasons, NEW p \in Proc, ReadEmpty(p)
  PROVE  PipeInv'
<1>1. /\ UNCHANGED <<data, nread, nwrite, readopen, writeopen, freed, chan, killed,
                     rref, wref, rfd, wfd, born>>
      /\ pc[p] = "read" /\ lock = None /\ Empty /\ writeopen = 1
      /\ \/ pc' = [pc EXCEPT ![p] = "user"] /\ rem' = [rem EXCEPT ![p] = 0] /\ lock' = lock
         \/ pc' = [pc EXCEPT ![p] = "rsleep"] /\ lock' = p /\ rem' = rem
      /\ chan[p] = "none"
  BY Zenon DEF ReadEmpty, Enters, At, Goto, pipe, files
<1>a. /\ pc' \in [Proc -> {"user", "write", "wsleep", "read", "rsleep", "wclose", "rclose"}]
      /\ rem' \in [Proc -> Nat] /\ lock' \in Proc \cup {None}
  <2>1. pc \in [Proc -> {"user", "write", "wsleep", "read", "rsleep", "wclose", "rclose"}]
        /\ rem \in [Proc -> Nat]
    BY Zenon DEF Types
  <2>2. CASE pc' = [pc EXCEPT ![p] = "user"] /\ rem' = [rem EXCEPT ![p] = 0] /\ lock' = lock
    BY Zenon, <1>1, <2>1, <2>2
  <2>3. CASE pc' = [pc EXCEPT ![p] = "rsleep"] /\ lock' = p /\ rem' = rem
    BY Zenon, <2>1, <2>3
  <2> QED BY Zenon, <1>1, <2>2, <2>3
<1>b. /\ \A q \in Proc : q # p => pc'[q] = pc[q] /\ rem'[q] = rem[q]
      /\ (pc'[p] = "user" /\ lock' = None) \/ (pc'[p] = "rsleep" /\ lock' = p /\ rem'[p] = rem[p])
  BY Zenon, <1>1 DEF Types
<1>2. Used' = Used /\ Full' = Full /\ Empty' = Empty /\ Counters' = Counters
  BY Zenon, <1>1, SameRing
<1>3. Types'
  BY Zenon, <1>1, <1>2, <1>a DEF Types
<1>4. Counted'
  BY Zenon, <1>1 DEF Counted
<1>5. Inside'
  BY <1>1, <1>b, PipeAssumption, SMTT(30) DEF Inside
<1>6. Ends'
  BY <1>1, <1>b DEF Ends
<1>7. Reasons'
  BY <1>1, <1>2, <1>b, Zenon DEF Reasons
<1> QED BY Zenon, <1>3, <1>4, <1>5, <1>6, <1>7 DEF PipeInv

\* piperead keeps the invariant: the writers are woken.
LEMMA PipeReadInv ==
  ASSUME Types, Counted, Inside, Ends, Reasons, NEW p \in Proc, PipeRead(p)
  PROVE  PipeInv'
<1> DEFINE k == Least(rem[p], Used)
<1>1. Used \in Nat /\ Used <= PIPESIZE /\ rem[p] \in Nat /\ PIPESIZE \in Nat /\ Counters
  BY UsedIs, Sizes DEF Types
<1>2. k \in Nat /\ k <= Used
  BY <1>1 DEF Least
<1>3. /\ UNCHANGED <<data, nwrite, readopen, writeopen, freed, lock, killed,
                     rref, wref, rfd, wfd, born>>
      /\ nread' = (nread + k) % MOD /\ rem' = [rem EXCEPT ![p] = 0]
      /\ pc' = [pc EXCEPT ![p] = "user"] /\ chan' = Wakeup("nwrite")
      /\ pc[p] = "read" /\ lock = None /\ chan[p] = "none"
      /\ ~Empty \/ writeopen = 0
  BY Zenon DEF PipeRead, Enters, At, Goto, files
<1> HIDE DEF k
<1>4. Counters' /\ Used' = Used - k
  BY Zenon, <1>1, <1>2, <1>3, UsedRead
<1>5. Empty => Empty'
  BY <1>1, <1>2, <1>4, Limits, NextLimits
<1>6. chan' \in [Proc -> {"none", "nread", "nwrite"}]
      /\ \A q \in Proc : chan'[q] # "nwrite" /\ (chan'[q] = "nread" => chan[q] = "nread")
  BY Zenon, <1>3 DEF Wakeup, Types
<1>7. Types'
  BY <1>1, <1>2, <1>3, <1>4, <1>6 DEF Types
<1>8. Counted'
  BY Zenon, <1>3 DEF Counted
<1>9. Inside'
  BY <1>3, <1>6, PipeAssumption DEF Inside, Types
<1>10. Ends'
  BY Zenon, <1>3 DEF Ends, Types
<1>11. Reasons'
  <2>1. \A q \in Proc : pc'[q] \notin {"rsleep", "wsleep"}
    BY Zenon, <1>3, PipeAssumption DEF Inside, Types
  <2> QED BY <1>3, <1>5, <1>6, <2>1, Zenon DEF Reasons
<1> QED BY <1>7, <1>8, <1>9, <1>10, <1>11 DEF PipeInv

\* close of a descriptor of the write end: the last one goes on to pipeclose.
LEMMA CloseWriteInv ==
  ASSUME Types, Counted, Inside, Ends, Reasons, NEW p \in Proc, CloseWrite(p)
  PROVE  PipeInv'
<1>1. /\ UNCHANGED <<data, nread, nwrite, readopen, writeopen, freed, lock, chan, rem, killed,
                     rref, rfd, born>>
      /\ pc[p] = "user" /\ chan[p] = "none" /\ p \in wfd
      /\ wfd' = wfd \ {p} /\ wref' = wref - 1
      /\ pc' = [pc EXCEPT ![p] = IF wref = 1 THEN "wclose" ELSE "user"]
  BY Zenon DEF CloseWrite, At, Goto, pipe
<1>2. Used' = Used /\ Full' = Full /\ Empty' = Empty /\ Counters' = Counters
  BY Zenon, <1>1, SameRing
<1>3. writeopen = 1
  BY Zenon, <1>1 DEF Ends
<1>4. (wref = 1 <=> wfd' = {}) /\ HasSize(wfd', wref')
  BY Zenon, <1>1, OneLess DEF Counted
<1>5. Types'
  BY Zenon, <1>1, <1>2 DEF Types
<1>6. Counted'
  BY Zenon, <1>1, <1>4 DEF Counted
<1>7. \A q \in Proc : q # p => pc'[q] = pc[q]
  BY Zenon, <1>1 DEF Types
<1>8. pc'[p] = IF wfd' = {} THEN "wclose" ELSE "user"
  BY Zenon, <1>1, <1>4 DEF Types
<1>9. \A q \in Proc : pc[q] # "wclose"
  BY Zenon, <1>1 DEF Inside
<1>10. Inside'
  BY <1>1, <1>3, <1>7, <1>8, <1>9 DEF Inside
<1>11. Ends'
  BY <1>1, <1>3, <1>7, <1>8, <1>9, SMTT(30) DEF Ends
<1>12. Reasons'
  BY <1>1, <1>2, <1>7, <1>8, SMTT(30) DEF Reasons
<1> QED BY <1>5, <1>6, <1>10, <1>11, <1>12 DEF PipeInv

\* The same for the read end.
LEMMA CloseReadInv ==
  ASSUME Types, Counted, Inside, Ends, Reasons, NEW p \in Proc, CloseRead(p)
  PROVE  PipeInv'
<1>1. /\ UNCHANGED <<data, nread, nwrite, readopen, writeopen, freed, lock, chan, rem, killed,
                     wref, wfd, born>>
      /\ pc[p] = "user" /\ chan[p] = "none" /\ p \in rfd
      /\ rfd' = rfd \ {p} /\ rref' = rref - 1
      /\ pc' = [pc EXCEPT ![p] = IF rref = 1 THEN "rclose" ELSE "user"]
  BY Zenon DEF CloseRead, At, Goto, pipe
<1>2. Used' = Used /\ Full' = Full /\ Empty' = Empty /\ Counters' = Counters
  BY Zenon, <1>1, SameRing
<1>3. readopen = 1
  BY Zenon, <1>1 DEF Ends
<1>4. (rref = 1 <=> rfd' = {}) /\ HasSize(rfd', rref')
  BY Zenon, <1>1, OneLess DEF Counted
<1>5. Types'
  BY Zenon, <1>1, <1>2 DEF Types
<1>6. Counted'
  BY Zenon, <1>1, <1>4 DEF Counted
<1>7. \A q \in Proc : q # p => pc'[q] = pc[q]
  BY Zenon, <1>1 DEF Types
<1>8. pc'[p] = IF rfd' = {} THEN "rclose" ELSE "user"
  BY Zenon, <1>1, <1>4 DEF Types
<1>9. \A q \in Proc : pc[q] # "rclose"
  BY Zenon, <1>1 DEF Inside
<1>10. Inside'
  BY <1>1, <1>3, <1>7, <1>8, <1>9 DEF Inside
<1>11. Ends'
  BY <1>1, <1>3, <1>7, <1>8, <1>9, SMTT(30) DEF Ends
<1>12. Reasons'
  BY <1>1, <1>2, <1>7, <1>8 DEF Reasons
<1> QED BY <1>5, <1>6, <1>10, <1>11, <1>12 DEF PipeInv

\* pipeclose keeps the invariant: one process closes an end, once, wakes the other
\* side, and frees the page if that was the second end.
LEMMA PipeCloseInv ==
  ASSUME Types, Counted, Inside, Ends, Reasons, NEW p \in Proc, PipeClose(p)
  PROVE  PipeInv'
<1>1. /\ UNCHANGED <<data, nread, nwrite, lock, rem, killed, rref, wref, rfd, wfd, born>>
      /\ chan[p] = "none" /\ lock = None
      /\ pc' = [pc EXCEPT ![p] = "user"]
      /\ freed' = (IF readopen' = 0 /\ writeopen' = 0 THEN freed + 1 ELSE freed)
      /\ \/ pc[p] = "wclose" /\ writeopen' = 0 /\ chan' = Wakeup("nread") /\ readopen' = readopen
         \/ pc[p] = "rclose" /\ readopen' = 0 /\ chan' = Wakeup("nwrite") /\ writeopen' = writeopen
  BY Zenon DEF PipeClose, Enters, At, Goto, files
<1>2. Used' = Used /\ Full' = Full /\ Empty' = Empty /\ Counters' = Counters
  BY Zenon, <1>1, SameRing
<1>3. chan' \in [Proc -> {"none", "nread", "nwrite"}]
      /\ \A q \in Proc : /\ chan'[q] = "nwrite" => chan[q] = "nwrite"
                         /\ chan'[q] = "nread" => chan[q] = "nread"
                         /\ pc[p] = "wclose" => chan'[q] # "nread"
                         /\ pc[p] = "rclose" => chan'[q] # "nwrite"
  BY <1>1 DEF Wakeup, Types
<1>4. /\ pc'[p] = "user" /\ \A q \in Proc : q # p => pc'[q] = pc[q]
      /\ pc' \in [Proc -> {"user", "write", "wsleep", "read", "rsleep", "wclose", "rclose"}]
  BY Zenon, <1>1 DEF Types
<1>5. freed = 0 /\ readopen' \in {0, 1} /\ writeopen' \in {0, 1} /\ freed' \in {0, 1}
      /\ (freed' = 1 <=> readopen' = 0 /\ writeopen' = 0)
  BY <1>1, SMTT(30) DEF Types, Inside, Ends
<1>6. Types'
  BY Zenon, <1>1, <1>2, <1>3, <1>4, <1>5 DEF Types
<1>7. Counted'
  BY Zenon, <1>1 DEF Counted
<1>7a. \A q \in Proc : pc[q] \notin {"wsleep", "rsleep"} /\ pc'[q] \notin {"wsleep", "rsleep"}
  BY Zenon, <1>1, <1>4, PipeAssumption DEF Inside
<1>8. CASE pc[p] = "wclose"
  <2>1. writeopen' = 0 /\ readopen' = readopen /\ wfd = {}
    BY <1>1, <1>8, Zenon DEF Inside
  <2>2. \A q \in Proc : pc[q] \notin {"write", "wsleep"} /\ (pc[q] = "wclose" => q = p)
    BY Zenon, <1>8, <2>1 DEF Inside, Ends
  <2>3. Inside'
    BY <1>1, <1>3, <1>4, <2>1, <2>2 DEF Inside
  <2>4. Ends'
    BY <1>1, <1>4, <1>5, <1>8, <2>1, SMTT(30) DEF Ends
  <2>5. Reasons'
    BY Zenon, <1>1, <1>2, <1>3, <1>7a, <1>8, <2>1 DEF Reasons
  <2> QED BY <1>6, <1>7, <2>3, <2>4, <2>5 DEF PipeInv
<1>9. CASE pc[p] = "rclose"
  <2>1. readopen' = 0 /\ writeopen' = writeopen /\ rfd = {}
    BY Zenon, <1>1, <1>9 DEF Inside
  <2>2. \A q \in Proc : pc[q] \notin {"read", "rsleep"} /\ (pc[q] = "rclose" => q = p)
    BY Zenon, <1>9, <2>1 DEF Inside, Ends
  <2>3. Inside'
    BY <1>1, <1>3, <1>4, <2>1, <2>2 DEF Inside
  <2>4. Ends'
    BY <1>1, <1>4, <1>5, <1>9, <2>1, SMTT(30) DEF Ends
  <2>5. Reasons'
    BY Zenon, <1>1, <1>2, <1>3, <1>7a, <1>9, <2>1 DEF Reasons
  <2> QED BY <1>6, <1>7, <2>3, <2>4, <2>5 DEF PipeInv
<1> QED BY Zenon, <1>1, <1>8, <1>9

\* Every step keeps the invariant.
LEMMA NextInv == PipeInv /\ [Next]_vars => PipeInv'
<1> SUFFICES ASSUME PipeInv, [Next]_vars PROVE PipeInv'
  BY Zenon
<1>1. ASSUME NEW p \in Proc, Kernel(p) PROVE PipeInv'
  BY Zenon, <1>1, PipeWriteInv, SleepInv, ReadEmptyInv, PipeReadInv, PipeCloseInv DEF Kernel, PipeInv
<1>2. ASSUME NEW p \in Proc, User(p) PROVE PipeInv'
  BY Zenon, <1>2, ForkInv, KillInv, CallInv, CloseWriteInv, CloseReadInv DEF User, PipeInv
<1>3. CASE UNCHANGED vars
  <2>1. UNCHANGED <<data, nread, nwrite, readopen, writeopen, freed, lock, rref, wref, rfd, wfd,
                    born, pc, chan, rem, killed>>
    BY Zenon, <1>3 DEF vars, pipe, files
  <2>2. Used' = Used /\ Full' = Full /\ Empty' = Empty /\ Counters' = Counters
    BY Zenon, <2>1, SameRing
  <2> QED BY <2>1, <2>2 DEF PipeInv, Types, Counted, Inside, Ends, Reasons
<1> QED BY Zenon, <1>1, <1>2, <1>3 DEF Next

\* The invariant holds in every state.
LEMMA Invariant == Spec => []PipeInv
BY InitInv, NextInv, PTL DEF Spec

-----------------------------------------------------------------------------
(* The theorems.                                                           *)

\* No change of the pipe between the test and the sleep of piperead or pipewrite is
\* missed: a sleeping reader has an empty pipe with a writer, unless somebody was
\* killed, and a sleeping writer a full pipe with a reader.
THEOREM NobodySleepsInVain == Spec => []NoSleepInVain
<1>1. PipeInv => NoSleepInVain
  BY Zenon DEF PipeInv, Reasons, NoSleepInVain
<1> QED BY <1>1, Invariant, PTL

\* pipeclose frees the page once, and only when nobody has a descriptor or is still
\* inside a function of the pipe.
THEOREM FreedOnce == Spec => []FreedWhenUnused
<1>1. PipeInv => FreedWhenUnused
  <2> SUFFICES ASSUME PipeInv PROVE FreedWhenUnused
    BY Zenon
  <2>1. freed \in {0, 1}
    BY Zenon DEF PipeInv, Types
  <2>2. ASSUME freed = 1
        PROVE  rfd = {} /\ wfd = {} /\ lock = None /\ \A p \in Proc : pc[p] = "user"
    <3>1. rfd = {} /\ wfd = {} /\ readopen = 0 /\ writeopen = 0
      BY <2>2 DEF PipeInv, Ends
    <3>2. \A p \in Proc : pc[p] = "user"
      BY <3>1 DEF PipeInv, Types, Inside
    <3>3. lock = None
      BY Zenon, <3>2 DEF PipeInv, Types, Inside
    <3> QED BY Zenon, <3>1, <3>2, <3>3
  <2> QED BY <2>1, <2>2 DEF FreedWhenUnused
<1> QED BY <1>1, Invariant, PTL

\* The bytes in the pipe are a sequence.
LEMMA ContentSeq ==
  ASSUME Types
  PROVE  Content \in Seq(Byte) /\ Len(Content) = Used /\ Used \in Nat
<1>1. Used \in Nat /\ nread \in Nat
  BY UsedIs, Sizes DEF Types, Counters
<1>2. ASSUME NEW i \in 1 .. Used PROVE data[(nread + i - 1) % PIPESIZE] \in Byte
  <2>1. nread + i - 1 \in Nat
    BY <1>1
  <2> QED BY Zenon, <2>1, Index DEF Types
<1>3. Content \in [1 .. Used -> Byte]
  BY Zenon, <1>2 DEF Content
<1> QED BY <1>1, <1>3

\* A function that gives the elements of one sequence, then those of another, is
\* their concatenation.
LEMMA Concat ==
  ASSUME NEW a \in Seq(Byte), NEW b \in Seq(Byte), NEW f \in Seq(Byte),
         Len(f) = Len(a) + Len(b),
         \A i \in 1 .. Len(f) : f[i] = IF i <= Len(a) THEN a[i] ELSE b[i - Len(a)]
  PROVE  f = a \o b
<1> DEFINE c == a \o b
<1>1. c \in Seq(Byte) /\ Len(c) = Len(f)
  OBVIOUS
<1>2. \A i \in 1 .. Len(f) : c[i] = f[i]
  OBVIOUS
<1> HIDE DEF c
<1>3. c = f
  BY <1>1, <1>2
<1> QED BY Zenon, <1>3 DEF c

\* The bytes that pipewrite stores go to the end of the queue.
LEMMA WritePuts ==
  ASSUME PipeInv, NEW p \in Proc, PipeWrite(p)
  PROVE  F!Next
<1> DEFINE k == Least(rem[p], PIPESIZE - Used)
<1>1. Content \in Seq(Byte) /\ Len(Content) = Used /\ Used \in Nat /\ Used <= PIPESIZE
      /\ rem[p] \in Nat /\ PIPESIZE \in Nat /\ Counters /\ data \in [0 .. PIPESIZE - 1 -> Byte]
  BY Zenon, ContentSeq, Sizes DEF PipeInv, Types
<1>2. k \in Nat /\ Used + k <= PIPESIZE
  BY <1>1 DEF Least
<1>3. PICK s \in [1 .. k -> Byte] : Store(s)
  BY Zenon DEF PipeWrite
<1>4. UNCHANGED <<nread, readopen, writeopen>> /\ got' = <<>> /\ writeopen = 1
  BY Zenon DEF PipeWrite, Enters, At, PipeInv, Inside, Ends
<1>5. Content' = [i \in 1 .. Used + k |-> IF i <= Used THEN Content[i] ELSE s[i - Used]]
  BY <1>1, <1>2, <1>3, <1>4, StoreContent, Zenon
<1> HIDE DEF k
<1>6. CASE k = 0
  <2>1. Content' = Content
    BY <1>1, <1>5, <1>6
  <2> QED BY Zenon, <1>4, <2>1 DEF F!Next, F!Other
<1>7. CASE k # 0
  <2> DEFINE r == [i \in 1 .. PIPESIZE |-> IF i <= k THEN s[i] ELSE s[1]]
  <2>1. r \in [1 .. PIPESIZE -> Byte] /\ r \in Seq(Byte) /\ Len(r) = PIPESIZE
    BY <1>1, <1>2, <1>7
  <2>2. k \in 1 .. PIPESIZE - Len(Content) /\ k <= PIPESIZE
    BY <1>1, <1>2, <1>7
  <2>3. SubSeq(r, 1, k) = s
    <3>1. SubSeq(r, 1, k) = [i \in 1 .. k |-> r[i]]
      <4> HIDE DEF r
      <4> QED BY <1>1, <1>2, <2>1, <2>2
    <3>2. \A i \in 1 .. k : r[i] = s[i]
      BY <1>1, <1>2
    <3> HIDE DEF r
    <3> QED BY Zenon, <3>1, <3>2
  <2>4. s \in Seq(Byte) /\ Len(s) = k
    BY <1>2
  <2>5. Content' = Content \o s
    <3> DEFINE f == Content'
    <3>1. /\ Content \in Seq(Byte) /\ s \in Seq(Byte)
          /\ f \in Seq(Byte) /\ Len(f) = Len(Content) + Len(s)
          /\ \A i \in 1 .. Len(f) :
               f[i] = IF i <= Len(Content) THEN Content[i] ELSE s[i - Len(Content)]
      BY <1>1, <1>2, <1>5, <2>4
    <3> HIDE DEF f
    <3>2. f = Content \o s
      BY <3>1, Concat, Zenon
    <3> QED BY Zenon, <3>2 DEF f
  <2> HIDE DEF r
  <2> QED BY <1>4, <2>1, <2>2, <2>3, <2>5, Zenon DEF F!Next, F!Put
<1> QED BY Zenon, <1>6, <1>7

\* piperead takes the first bytes of the queue; it finds none only at the end.
LEMMA ReadTakes ==
  ASSUME PipeInv, NEW p \in Proc, PipeRead(p)
  PROVE  F!Next
<1> DEFINE n == rem[p]  k == Least(n, Used)
<1>1. Content \in Seq(Byte) /\ Len(Content) = Used /\ Used \in Nat /\ n \in Nat /\ Counters
  BY Zenon, ContentSeq DEF PipeInv, Types
<1>2. k \in Nat /\ k <= Used
  BY <1>1 DEF Least
<1>3. /\ UNCHANGED <<data, nwrite, readopen, writeopen>>
      /\ nread' = (nread + k) % MOD /\ got' = <<SubSeq(Content, 1, k)>>
      /\ ~Empty \/ writeopen = 0
      /\ pc[p] = "read"
  BY Zenon DEF PipeRead, Enters, At
<1>4. n \in Req /\ readopen = 1
  BY Zenon, <1>3 DEF PipeInv, Inside, Ends
<1>5. Content = <<>> => writeopen = 0
  BY Zenon, <1>1, <1>3, Limits
<1>6. k = F!Least(n, Len(Content))
  BY Zenon, <1>1 DEF Least, F!Least
<1> HIDE DEF k, n
<1>7. Content' = [i \in 1 .. Used - k |-> Content[i + k]]
  BY Zenon, <1>1, <1>2, <1>3, ReadContent
<1>8. Content' = SubSeq(Content, k + 1, Len(Content))
  <2>1. SubSeq(Content, k + 1, Len(Content)) = [i \in 1 .. Used - k |-> Content[i + k]]
    BY <1>1, <1>2
  <2> QED BY Zenon, <1>7, <2>1
<1> QED BY <1>3, <1>4, <1>5, <1>6, <1>8, Zenon DEF F!Next, F!Take

\* Every other step leaves the bytes alone; pipeclose closes an end.
LEMMA OthersKeep ==
  ASSUME PipeInv, NEW p \in Proc, Kernel(p) \/ User(p), ~PipeWrite(p), ~PipeRead(p)
  PROVE  F!Next
<1>1. UNCHANGED <<data, nread, nwrite>> /\ got' = <<>>
  BY Zenon DEF Kernel, User, WriteSleep, ReadEmpty, ReadSleep, PipeClose, Fork, Kill, SysWrite, SysRead,
         CloseWrite, CloseRead, pipe
<1>2. Content' = Content
  BY Zenon, <1>1 DEF Content, Used
<1>3. CASE PipeClose(p)
  <2>1. \/ writeopen = 1 /\ writeopen' = 0 /\ readopen' = readopen
        \/ readopen = 1 /\ readopen' = 0 /\ writeopen' = writeopen
    BY <1>3, Zenon DEF PipeClose, Enters, At, PipeInv, Inside
  <2> QED BY Zenon, <1>1, <1>2, <2>1 DEF F!Next, F!Close
<1>4. CASE ~PipeClose(p)
  <2>1. UNCHANGED <<readopen, writeopen>>
    BY Zenon, <1>4 DEF Kernel, User, WriteSleep, ReadEmpty, ReadSleep, Fork, Kill, SysWrite, SysRead,
                CloseWrite, CloseRead, pipe
  <2> QED BY Zenon, <1>1, <1>2, <2>1 DEF F!Next, F!Other
<1> QED BY <1>3, <1>4, Zenon

\* The ring of pipe.c, whose counters wrap, is a FIFO queue: whatever the processes
\* do, bytes come out in the order in which they went in, each once.
THEOREM RingIsFifo == Spec => ImplementsFifo
<1>1. Init => F!Init
  <2> SUFFICES ASSUME Init PROVE F!Init
    OBVIOUS
  <2>1. Used = 0
    BY Zenon, InitInv, Limits DEF Init, PipeInv, Types, Empty
  <2>2. Content = <<>>
    BY <2>1 DEF Content
  <2> QED BY Zenon, <2>2 DEF Init, F!Init
<1>2. PipeInv /\ [Next]_vars => [F!Next]_F!vars
  <2> SUFFICES ASSUME PipeInv, [Next]_vars PROVE [F!Next]_F!vars
    BY Zenon
  <2>1. CASE Next
    BY Zenon, <2>1, WritePuts, ReadTakes, OthersKeep DEF Next
  <2>2. CASE UNCHANGED vars
    BY Zenon, <2>2 DEF vars, pipe, F!vars, Content, Used
  <2> QED BY Zenon, <2>1, <2>2
<1> QED BY <1>1, <1>2, Invariant, PTL DEF Spec, ImplementsFifo, F!Spec
=============================================================================

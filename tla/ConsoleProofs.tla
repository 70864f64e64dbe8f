--------------------------- MODULE ConsoleProofs ---------------------------
(***************************************************************************)
(* Proofs about Console: the cursor stays on the screen, readers are woken,*)
(* and the ring implements Tty.                                            *)
(***************************************************************************)
EXTENDS Console, Integers, TLAPS

-----------------------------------------------------------------------------
(* Indices that wrap.                                                      *)

\* Quotient and remainder.
LEMMA DivMod ==
  ASSUME NEW m \in Nat \ {0}, NEW a \in Nat
  PROVE  a % m \in 0 .. m - 1 /\ \E d \in Nat : a = m * d + (a % m)
<1> DEFINE c == a \div m  x == a % m
<1>1. x \in 0 .. m - 1 /\ c \in Nat /\ x = a - m * c
  OBVIOUS
<1> HIDE DEF c, x
<1>2. a = m * c + x
  BY <1>1
<1>3. \E d \in Nat : a = m * d + x
  BY <1>1, <1>2
<1> QED BY Zenon, <1>1, <1>3 DEF x

\* The remainder is determined by this.
LEMMA ModOf ==
  ASSUME NEW m \in Nat \ {0}, NEW d \in Nat, NEW x \in 0 .. m - 1
  PROVE  (m * d + x) % m = x
OBVIOUS

\* A number below 2 m.
LEMMA ModOnce ==
  ASSUME NEW m \in Nat \ {0}, NEW a \in Nat, a < 2 * m
  PROVE  a % m = IF a < m THEN a ELSE a - m
<1>1. CASE a < m
  BY <1>1
<1>2. CASE a >= m
  <2>1. a - m \in 0 .. m - 1 /\ a = m * 1 + (a - m)
    BY <1>2
  <2> QED BY <1>2, <2>1, ModOf
<1> QED BY <1>1, <1>2

\* Different numbers that are closer than m have different remainders.
LEMMA ModDiffer ==
  ASSUME NEW m \in Nat \ {0}, NEW a \in Nat, NEW b \in Nat, a < b, b < a + m
  PROVE  a % m # b % m
<1> SUFFICES ASSUME a % m = b % m PROVE FALSE
  OBVIOUS
<1>1. PICK c \in Nat, d \in Nat : a = m * c + (a % m) /\ b = m * d + (b % m)
  BY Zenon, DivMod
<1>2. b - a = m * d - m * c
  <2> DEFINE x == a % m
  <2>1. x \in 0 .. m - 1 /\ a = m * c + x /\ b = m * d + x
    BY Zenon, <1>1, DivMod
  <2> HIDE DEF x
  <2> QED BY <2>1
<1>3. CASE d <= c
  <2>1. m * d <= m * c
    BY <1>3
  <2> QED BY <1>2, <2>1
<1>4. CASE d >= c + 1
  <2>1. m * d >= m * (c + 1) /\ m * (c + 1) = m * c + m
    BY <1>4
  <2> QED BY <1>2, <2>1
<1> QED BY <1>3, <1>4

\* The assumption on sizes, for the index arithmetic.
LEMMA Sizes ==
  /\ INPUT_BUF \in Nat \ {0} /\ MOD \in Nat \ {0} /\ INPUT_BUF < MOD
  /\ \E d \in Nat : MOD = INPUT_BUF * d
<1>1. INPUT_BUF \in Nat \ {0} /\ MOD \in Nat \ {0} /\ INPUT_BUF < MOD /\ MOD % INPUT_BUF = 0
  BY SizeAssumption
<1>2. PICK d \in Nat : MOD = INPUT_BUF * d + (MOD % INPUT_BUF)
  BY Zenon, <1>1, DivMod
<1>3. MOD = INPUT_BUF * d
  BY <1>1, <1>2
<1> QED BY <1>1, <1>3

\* An index that goes on by k.
LEMMA PlusIs ==
  ASSUME NEW x \in 0 .. MOD - 1, NEW k \in 0 .. MOD - 1
  PROVE  /\ (x + k) % MOD = IF x + k < MOD THEN x + k ELSE x + k - MOD
         /\ (x + k) % MOD \in 0 .. MOD - 1
<1> DEFINE c == x + k
<1>1. c \in Nat /\ c < 2 * MOD /\ MOD \in Nat \ {0}
  BY Sizes
<1>2. c % MOD = IF c < MOD THEN c ELSE c - MOD
  <2> HIDE DEF c
  <2> QED BY Zenon, <1>1, ModOnce
<1> QED BY <1>1, <1>2

\* The place in the ring does not notice that the index has wrapped.
LEMMA Place ==
  ASSUME NEW i \in 0 .. MOD - 1, NEW k \in 0 .. MOD - 1, NEW j \in Nat
  PROVE  /\ (i + j) % INPUT_BUF \in 0 .. INPUT_BUF - 1
         /\ (((i + k) % MOD) + j) % INPUT_BUF = (i + (k + j)) % INPUT_BUF
<1>1. (i + k) % MOD = IF i + k < MOD THEN i + k ELSE i + k - MOD
  BY Zenon, PlusIs
<1>2. (i + j) % INPUT_BUF \in 0 .. INPUT_BUF - 1
  <2>1. i + j \in Nat
    BY Sizes
  <2> QED BY Zenon, <2>1, Sizes, DivMod
<1>3. CASE i + k < MOD
  <2>1. (i + k) + j = i + (k + j)
    BY Sizes
  <2> QED BY Zenon, <1>1, <1>2, <1>3, <2>1
<1>4. CASE ~(i + k < MOD)
  <2>1. PICK d \in Nat : MOD = INPUT_BUF * d
    BY Zenon, Sizes
  <2> DEFINE a == i + k - MOD + j
  <2>2. a \in Nat /\ i + (k + j) = a + MOD
    BY <1>4, Sizes
  <2> HIDE DEF a
  <2>3. PICK c \in Nat, x \in 0 .. INPUT_BUF - 1 : a = INPUT_BUF * c + x /\ a % INPUT_BUF = x
    BY Zenon, <2>2, Sizes, DivMod
  <2>4. a + MOD = INPUT_BUF * (c + d) + x /\ c + d \in Nat
    BY <2>1, <2>3, Sizes
  <2>5. (a + MOD) % INPUT_BUF = x
    BY <2>4, Sizes, ModOf
  <2> QED BY <1>1, <1>2, <1>4, <2>2, <2>3, <2>5 DEF a
<1> QED BY <1>3, <1>4

\* The place of the index itself.
LEMMA PlaceOf ==
  ASSUME NEW i \in 0 .. MOD - 1, NEW k \in 0 .. MOD - 1
  PROVE  ((i + k) % MOD) % INPUT_BUF = (i + k) % INPUT_BUF
<1> DEFINE x == (i + k) % MOD
<1>1. (x + 0) % INPUT_BUF = (i + (k + 0)) % INPUT_BUF
  BY ZenonT(30), Place
<1>2. x \in 0 .. MOD - 1
  BY Zenon, PlusIs
<1> HIDE DEF x
<1>3. x + 0 = x /\ k + 0 = k
  BY <1>2, Sizes
<1> QED BY Zenon, <1>1, <1>3 DEF x

\* The distance of two indices.
LEMMA MinusIs ==
  ASSUME NEW x \in 0 .. MOD - 1, NEW y \in 0 .. MOD - 1
  PROVE  /\ Minus(x, y) = IF y <= x THEN x - y ELSE x + MOD - y
         /\ Minus(x, y) \in 0 .. MOD - 1
<1> DEFINE c == x + MOD - y
<1>1. c \in Nat /\ c < 2 * MOD /\ MOD \in Nat \ {0}
  BY Sizes
<1>2. Minus(x, y) = c % MOD
  BY Zenon DEF Minus
<1>3. c % MOD = IF c < MOD THEN c ELSE c - MOD
  <2> HIDE DEF c
  <2> QED BY Zenon, <1>1, ModOnce
<1> QED BY <1>1, <1>2, <1>3

\* Distances add up, and an index is its distance from another one ahead of it.
LEMMA MinusAdds ==
  ASSUME NEW x \in 0 .. MOD - 1, NEW y \in 0 .. MOD - 1, NEW z \in 0 .. MOD - 1
  PROVE  /\ Minus(z, y) + Minus(y, x) < MOD => Minus(z, x) = Minus(z, y) + Minus(y, x)
         /\ y = (x + Minus(y, x)) % MOD
         /\ Minus(x, y) = 0 <=> x = y
<1>1. MOD \in Nat
  BY Sizes
<1>2. /\ Minus(z, y) = IF y <= z THEN z - y ELSE z + MOD - y
      /\ Minus(y, x) = IF x <= y THEN y - x ELSE y + MOD - x
      /\ Minus(x, y) = IF y <= x THEN x - y ELSE x + MOD - y
      /\ Minus(z, x) = IF x <= z THEN z - x ELSE z + MOD - x
      /\ Minus(y, x) \in 0 .. MOD - 1
  BY Zenon, MinusIs
<1>3. (x + Minus(y, x)) % MOD = IF x + Minus(y, x) < MOD THEN x + Minus(y, x) ELSE x + Minus(y, x) - MOD
  BY Zenon, <1>2, PlusIs
<1> QED BY <1>1, <1>2, <1>3

\* The front index goes on by k.
LEMMA MinusGrows ==
  ASSUME NEW x \in 0 .. MOD - 1, NEW y \in 0 .. MOD - 1, NEW k \in Nat, Minus(x, y) + k < MOD
  PROVE  (x + k) % MOD \in 0 .. MOD - 1 /\ Minus((x + k) % MOD, y) = Minus(x, y) + k
<1> DEFINE z == (x + k) % MOD
<1>1. MOD \in Nat /\ Minus(x, y) \in 0 .. MOD - 1
      /\ Minus(x, y) = IF y <= x THEN x - y ELSE x + MOD - y
  BY Zenon, Sizes, MinusIs
<1>2. k \in 0 .. MOD - 1
  BY <1>1
<1>3. z \in 0 .. MOD - 1 /\ z = IF x + k < MOD THEN x + k ELSE x + k - MOD
  BY Zenon, <1>2, PlusIs
<1> HIDE DEF z
<1>4. Minus(z, y) = IF y <= z THEN z - y ELSE z + MOD - y
  BY Zenon, <1>3, MinusIs
<1>5. Minus(z, y) = Minus(x, y) + k
  BY <1>1, <1>2, <1>3, <1>4
<1> QED BY <1>3, <1>5 DEF z

\* The front index goes back by k, or the rear one goes on by k.
LEMMA MinusShrinks ==
  ASSUME NEW x \in 0 .. MOD - 1, NEW y \in 0 .. MOD - 1, NEW k \in Nat, k <= Minus(x, y)
  PROVE  /\ Minus(x, k) \in 0 .. MOD - 1 /\ Minus(Minus(x, k), y) = Minus(x, y) - k
         /\ (y + k) % MOD \in 0 .. MOD - 1 /\ Minus(x, (y + k) % MOD) = Minus(x, y) - k
<1> DEFINE u == Minus(x, k)
           v == (y + k) % MOD
<1>1. MOD \in Nat /\ Minus(x, y) \in 0 .. MOD - 1
      /\ Minus(x, y) = IF y <= x THEN x - y ELSE x + MOD - y
  BY Zenon, Sizes, MinusIs
<1>2. k \in 0 .. MOD - 1
  BY <1>1
<1>3. u \in 0 .. MOD - 1 /\ u = IF k <= x THEN x - k ELSE x + MOD - k
  BY Zenon, <1>2, MinusIs
<1>4. v \in 0 .. MOD - 1 /\ v = IF y + k < MOD THEN y + k ELSE y + k - MOD
  BY Zenon, <1>2, PlusIs
<1> HIDE DEF u, v
<1>5. Minus(u, y) = (IF y <= u THEN u - y ELSE u + MOD - y) /\ Minus(x, v) = IF v <= x THEN x - v ELSE x + MOD - v
  BY Zenon, <1>3, <1>4, MinusIs
<1>6. Minus(u, y) = Minus(x, y) - k
  BY <1>1, <1>2, <1>3, <1>5
<1>7. Minus(x, v) = Minus(x, y) - k
  BY <1>1, <1>2, <1>4, <1>5
<1> QED BY Zenon, <1>3, <1>4, <1>6, <1>7 DEF u, v

-----------------------------------------------------------------------------
(* The bytes in the ring.                                                  *)

\* Slice in a ring b.
In(b, i, k) == [j \in 1 .. k |-> b[(i + j - 1) % INPUT_BUF]]

\* A ring.
Rings == [0 .. INPUT_BUF - 1 -> {"x", "NL", "EOF"}]

\* The byte behind the first j ones.
LEMMA InAt ==
  ASSUME NEW b \in Rings, NEW i \in 0 .. MOD - 1, NEW k \in Nat
  PROVE  /\ In(b, i, k) \in Seq({"x", "NL", "EOF"}) /\ Len(In(b, i, k)) = k
         /\ \A j \in 1 .. k : In(b, i, k)[j] = b[(i + (j - 1)) % INPUT_BUF]
<1>1. ASSUME NEW j \in 1 .. k
      PROVE  i + j - 1 = i + (j - 1) /\ (i + (j - 1)) % INPUT_BUF \in 0 .. INPUT_BUF - 1
  <2>1. i + j - 1 = i + (j - 1) /\ j - 1 \in Nat /\ 0 \in 0 .. MOD - 1
    BY Sizes
  <2>2. (i + (j - 1)) % INPUT_BUF \in 0 .. INPUT_BUF - 1
    BY Zenon, <2>1, Place
  <2> QED BY Zenon, <2>1, <2>2
<1>2. ASSUME NEW j \in 1 .. k
      PROVE  /\ b[(i + j - 1) % INPUT_BUF] = b[(i + (j - 1)) % INPUT_BUF]
             /\ b[(i + j - 1) % INPUT_BUF] \in {"x", "NL", "EOF"}
  BY Zenon, <1>1 DEF Rings
<1>3. In(b, i, k) \in [1 .. k -> {"x", "NL", "EOF"}]
  BY Zenon, <1>2 DEF In
<1>4. In(b, i, k) \in Seq({"x", "NL", "EOF"}) /\ Len(In(b, i, k)) = k
  BY <1>3
<1>5. ASSUME NEW j \in 1 .. k PROVE In(b, i, k)[j] = b[(i + (j - 1)) % INPUT_BUF]
  BY Zenon, <1>2 DEF In
<1> QED BY Zenon, <1>4, <1>5

\* Two sequences are equal when they have the same length and elements.
LEMMA SeqEqual ==
  ASSUME NEW S, NEW s \in Seq(S), NEW u \in Seq(S), Len(s) = Len(u),
         \A j \in 1 .. Len(s) : s[j] = u[j]
  PROVE  s = u
OBVIOUS

\* An element behind two sequences is behind the second one.
Behind(s, u, c) == Append(s \o u, c) = s \o Append(u, c)

\* It always is.
LEMMA AppendBehind ==
  ASSUME NEW S, NEW s \in Seq(S), NEW u \in Seq(S), NEW c \in S
  PROVE  Behind(s, u, c)
<1> DEFINE v == Append(s \o u, c)
           x == s \o Append(u, c)
<1>1. /\ v \in Seq(S) /\ x \in Seq(S) /\ Len(v) = Len(x)
      /\ \A j \in 1 .. Len(v) : v[j] = x[j]
  OBVIOUS
<1> HIDE DEF v, x
<1>2. v = x
  BY Zenon, <1>1, SeqEqual
<1> QED BY Zenon, <1>2 DEF v, x, Behind

\* Nothing.
LEMMA InNone ==
  ASSUME NEW b, NEW i
  PROVE  In(b, i, 0) = <<>>
BY DEF In

\* Without the first byte.
LEMMA InTail ==
  ASSUME NEW b \in Rings, NEW i \in 0 .. MOD - 1, NEW k \in Nat \ {0}
  PROVE  In(b, i, k) # <<>> /\ Tail(In(b, i, k)) = In(b, (i + 1) % MOD, k - 1)
<1> DEFINE s == In(b, i, k)
           u == In(b, (i + 1) % MOD, k - 1)
           B == {"x", "NL", "EOF"}
<1>1. 1 \in 0 .. MOD - 1 /\ k - 1 \in Nat /\ k \in Nat
  BY Sizes
<1>2. (i + 1) % MOD \in 0 .. MOD - 1
  BY Zenon, <1>1, PlusIs
<1>3. s \in Seq(B) /\ Len(s) = k /\ \A j \in 1 .. k : s[j] = b[(i + (j - 1)) % INPUT_BUF]
  BY Zenon, <1>1, InAt
<1>4. u \in Seq(B) /\ Len(u) = k - 1 /\ \A j \in 1 .. k - 1 : u[j] = b[(((i + 1) % MOD) + (j - 1)) % INPUT_BUF]
  BY Zenon, <1>1, <1>2, InAt
<1>5. ASSUME NEW j \in 1 .. k - 1 PROVE s[j + 1] = u[j]
  <2>1. j - 1 \in Nat /\ j + 1 \in 1 .. k /\ (j + 1) - 1 = 1 + (j - 1)
    BY <1>1
  <2>2. (((i + 1) % MOD) + (j - 1)) % INPUT_BUF = (i + (1 + (j - 1))) % INPUT_BUF
    BY Zenon, <1>1, <2>1, Place
  <2> HIDE DEF s, u
  <2>3. s[j + 1] = b[(i + ((j + 1) - 1)) % INPUT_BUF]
    BY Zenon, <1>3, <2>1
  <2>4. u[j] = b[(((i + 1) % MOD) + (j - 1)) % INPUT_BUF]
    BY Zenon, <1>4
  <2> QED BY Zenon, <2>1, <2>2, <2>3, <2>4
<1> HIDE DEF s, u, B
<1>6. s # <<>> /\ Tail(s) \in Seq(B) /\ Len(Tail(s)) = k - 1 /\ \A j \in 1 .. k - 1 : Tail(s)[j] = s[j + 1]
  BY <1>1, <1>3
<1>7. Tail(s) = u
  <2>1. Len(Tail(s)) = Len(u) /\ \A j \in 1 .. Len(Tail(s)) : Tail(s)[j] = u[j]
    BY Zenon, <1>4, <1>5, <1>6
  <2> QED BY Zenon, <1>4, <1>6, <2>1, SeqEqual
<1> QED BY Zenon, <1>6, <1>7 DEF s, u

\* The first bytes.
LEMMA InFront ==
  ASSUME NEW b \in Rings, NEW i \in 0 .. MOD - 1, NEW k \in Nat \ {0}
  PROVE  SubSeq(In(b, i, k), 1, Len(In(b, i, k)) - 1) = In(b, i, k - 1)
<1> DEFINE s == In(b, i, k)
           u == In(b, i, k - 1)
           B == {"x", "NL", "EOF"}
<1>1. k - 1 \in Nat /\ k \in Nat
  OBVIOUS
<1>2. s \in Seq(B) /\ Len(s) = k /\ \A j \in 1 .. k : s[j] = b[(i + (j - 1)) % INPUT_BUF]
  BY Zenon, <1>1, InAt
<1>3. u \in Seq(B) /\ Len(u) = k - 1 /\ \A j \in 1 .. k - 1 : u[j] = b[(i + (j - 1)) % INPUT_BUF]
  BY Zenon, <1>1, InAt
<1>4. \A j \in 1 .. k - 1 : j \in 1 .. k
  BY <1>1
<1> HIDE DEF s, u, B
<1>5. /\ SubSeq(s, 1, Len(s) - 1) \in Seq(B) /\ Len(SubSeq(s, 1, Len(s) - 1)) = k - 1
      /\ \A j \in 1 .. k - 1 : SubSeq(s, 1, Len(s) - 1)[j] = s[j]
  BY <1>1, <1>2
<1>6. \A j \in 1 .. k - 1 : SubSeq(s, 1, Len(s) - 1)[j] = u[j]
  BY Zenon, <1>2, <1>3, <1>4, <1>5
<1>7. SubSeq(s, 1, Len(s) - 1) = u
  BY Zenon, <1>3, <1>5, <1>6, SeqEqual
<1> QED BY Zenon, <1>7 DEF s, u

\* A byte stored behind k others, of which there are fewer than the ring has places.
LEMMA InStore ==
  ASSUME NEW b \in Rings, NEW i \in 0 .. MOD - 1, NEW k \in 0 .. INPUT_BUF - 1, NEW c \in {"x", "NL", "EOF"}
  PROVE  LET d == [b EXCEPT ![(i + k) % INPUT_BUF] = c]
         IN d \in Rings /\ In(d, i, k) = In(b, i, k) /\ In(d, i, k + 1) = Append(In(b, i, k), c)
<1> DEFINE x == (i + k) % INPUT_BUF
           d == [b EXCEPT ![x] = c]
           B == {"x", "NL", "EOF"}
           s == In(b, i, k)
           u == In(d, i, k)
           v == In(d, i, k + 1)
<1>1. k \in Nat /\ k + 1 \in Nat
  BY Sizes
<1>2. x \in 0 .. INPUT_BUF - 1
  BY Zenon, <1>1, Place, Sizes
<1>3. d \in Rings
  BY Zenon, <1>2 DEF Rings
<1>4. d[x] = c
  BY Zenon, <1>2 DEF Rings
<1>5. ASSUME NEW j \in 1 .. k PROVE d[(i + (j - 1)) % INPUT_BUF] = b[(i + (j - 1)) % INPUT_BUF]
  <2>1. i + (j - 1) \in Nat /\ i + k \in Nat /\ i + (j - 1) < i + k /\ i + k < (i + (j - 1)) + INPUT_BUF
        /\ INPUT_BUF \in Nat \ {0} /\ j - 1 \in Nat
    BY Sizes
  <2>2. (i + (j - 1)) % INPUT_BUF # x
    BY Zenon, <2>1, ModDiffer
  <2>3. (i + (j - 1)) % INPUT_BUF \in 0 .. INPUT_BUF - 1
    BY Zenon, <2>1, DivMod
  <2> HIDE DEF x
  <2> QED BY Zenon, <2>2, <2>3 DEF Rings
<1> HIDE DEF d
<1>6. s \in Seq(B) /\ Len(s) = k /\ \A j \in 1 .. k : s[j] = b[(i + (j - 1)) % INPUT_BUF]
  BY Zenon, <1>1, InAt
<1>7. u \in Seq(B) /\ Len(u) = k /\ \A j \in 1 .. k : u[j] = d[(i + (j - 1)) % INPUT_BUF]
  BY Zenon, <1>1, <1>3, InAt
<1>8. v \in Seq(B) /\ Len(v) = k + 1 /\ \A j \in 1 .. k + 1 : v[j] = d[(i + (j - 1)) % INPUT_BUF]
  BY Zenon, <1>1, <1>3, InAt
<1>9. k + 1 \in 1 .. k + 1 /\ i + ((k + 1) - 1) = i + k /\ \A j \in 1 .. k : j \in 1 .. k + 1
  BY <1>1, Sizes
<1>10. v[k + 1] = c
  BY Zenon, <1>4, <1>8, <1>9
<1>11. \A j \in 1 .. k : v[j] = s[j] /\ u[j] = s[j]
  BY Zenon, <1>5, <1>6, <1>7, <1>8, <1>9
<1>12. c \in B
  OBVIOUS
<1> HIDE DEF s, u, v, B, x
<1>13. u = s
  BY Zenon, <1>6, <1>7, <1>11, SeqEqual
<1>14. /\ Append(s, c) \in Seq(B) /\ Len(Append(s, c)) = k + 1 /\ Append(s, c)[k + 1] = c
       /\ \A j \in 1 .. k : Append(s, c)[j] = s[j]
  BY <1>1, <1>6, <1>12
<1>15. \A j \in 1 .. k + 1 : j \in 1 .. k \/ j = k + 1
  BY <1>1
<1>16. \A j \in 1 .. k + 1 : v[j] = Append(s, c)[j]
  BY Zenon, <1>10, <1>11, <1>14, <1>15
<1>17. v = Append(s, c)
  BY Zenon, <1>8, <1>14, <1>16, SeqEqual
<1> QED BY Zenon, <1>3, <1>13, <1>17 DEF s, u, v, d, x

\* The rings d and b have the same l bytes from i on.
Same(d, b, i, l) == In(d, i, l) = In(b, i, l)

\* Rings with the same first l bytes have the same first k ones.
LEMMA InPrefix ==
  ASSUME NEW b, NEW d, NEW i, NEW l \in Nat, NEW k \in 0 .. l, Same(d, b, i, l)
  PROVE  Same(d, b, i, k)
<1>1. \A j \in 1 .. k : j \in 1 .. l
  OBVIOUS
<1>2. ASSUME NEW j \in 1 .. k PROVE d[(i + j - 1) % INPUT_BUF] = b[(i + j - 1) % INPUT_BUF]
  <2>1. In(d, i, l)[j] = d[(i + j - 1) % INPUT_BUF] /\ In(b, i, l)[j] = b[(i + j - 1) % INPUT_BUF]
    BY Zenon, <1>1 DEF In
  <2> QED BY Zenon, <2>1 DEF Same
<1> QED BY Zenon, <1>2 DEF In, Same

\* The bytes from i on are k bytes, and l behind them.
Joins(b, i, k, l) == In(b, i, k) \o In(b, (i + k) % MOD, l) = In(b, i, k + l)

\* They always are.
LEMMA InJoin ==
  ASSUME NEW b \in Rings, NEW i \in 0 .. MOD - 1, NEW k \in 0 .. MOD - 1, NEW l \in Nat
  PROVE  Joins(b, i, k, l)
<1> DEFINE B == {"x", "NL", "EOF"}
           h == (i + k) % MOD
           s == In(b, i, k)
           u == In(b, h, l)
           v == In(b, i, k + l)
<1>1. k \in Nat /\ l \in Nat /\ k + l \in Nat
  BY Sizes
<1>2. h \in 0 .. MOD - 1
  BY Zenon, PlusIs
<1>3. s \in Seq(B) /\ Len(s) = k /\ \A j \in 1 .. k : s[j] = b[(i + (j - 1)) % INPUT_BUF]
  BY Zenon, <1>1, InAt
<1>4. u \in Seq(B) /\ Len(u) = l /\ \A j \in 1 .. l : u[j] = b[(h + (j - 1)) % INPUT_BUF]
  BY Zenon, <1>1, <1>2, InAt
<1>5. v \in Seq(B) /\ Len(v) = k + l /\ \A j \in 1 .. k + l : v[j] = b[(i + (j - 1)) % INPUT_BUF]
  BY Zenon, <1>1, InAt
<1>6. ASSUME NEW j \in 1 .. l PROVE v[k + j] = u[j]
  <2>1. j - 1 \in Nat /\ k + j \in 1 .. k + l /\ (k + j) - 1 = k + (j - 1)
    BY <1>1
  <2>2. (h + (j - 1)) % INPUT_BUF = (i + (k + (j - 1))) % INPUT_BUF
    BY Zenon, <2>1, Place
  <2> QED BY Zenon, <1>4, <1>5, <2>1, <2>2
<1>7. \A j \in 1 .. k : j \in 1 .. k + l
  BY <1>1
<1>8. \A j \in 1 .. k : v[j] = s[j]
  BY Zenon, <1>3, <1>5, <1>7
<1> HIDE DEF s, u, v, B, h
<1>9. /\ s \o u \in Seq(B) /\ Len(s \o u) = k + l
      /\ \A j \in 1 .. k : (s \o u)[j] = s[j]
      /\ \A j \in 1 .. l : (s \o u)[k + j] = u[j]
  <2>1. s \in Seq(B) /\ u \in Seq(B) /\ Len(s) = k /\ Len(u) = l
    BY Zenon, <1>3, <1>4
  <2>2. /\ s \o u \in Seq(B) /\ Len(s \o u) = Len(s) + Len(u)
        /\ \A j \in 1 .. Len(s) : (s \o u)[j] = s[j]
        /\ \A j \in 1 .. Len(u) : (s \o u)[Len(s) + j] = u[j]
    BY SMTT(30), <2>1
  <2> QED BY Zenon, <2>1, <2>2
<1>11. \A j \in 1 .. k + l : j \in 1 .. k \/ (j - k \in 1 .. l /\ j = k + (j - k))
  BY <1>1
<1>12. ASSUME NEW j \in 1 .. k + l PROVE (s \o u)[j] = v[j]
  <2>1. CASE j \in 1 .. k
    BY Zenon, <1>8, <1>9, <2>1
  <2>2. CASE j - k \in 1 .. l /\ j = k + (j - k)
    <3>1. v[k + (j - k)] = u[j - k] /\ (s \o u)[k + (j - k)] = u[j - k]
      BY Zenon, <1>6, <1>9, <2>2
    <3> QED BY Zenon, <2>2, <3>1
  <2> QED BY Zenon, <1>11, <2>1, <2>2
<1>13. s \o u = v
  BY Zenon, <1>5, <1>9, <1>12, SeqEqual
<1> QED BY Zenon, <1>13 DEF s, u, v, h, Joins

-----------------------------------------------------------------------------
(* The invariant.                                                          *)

Types ==
  /\ buf \in Rings
  /\ r \in 0 .. MOD - 1 /\ w \in 0 .. MOD - 1 /\ e \in 0 .. MOD - 1
  /\ pc \in [Proc -> {"user", "read", "asleep"}]

\* The finished bytes, and the line.
Done == Slice(r, Minus(w, r))
Edit == Slice(w, Minus(e, w))

\* The ring has room for the finished bytes and for the line, which has no newline.
Ring ==
  /\ Minus(w, r) + Minus(e, w) <= INPUT_BUF
  /\ \A j \in 1 .. Minus(e, w) : Edit[j] = "x"

\* On the screen, above the last row.
OnScreen(q) == q \in Nat /\ q < (ROWS - 1) * COLS

\* The cursor as far as it is known, and the panic.
Cursor == OnScreen(pos) /\ (panicked => mixed)

IInv == Types /\ Ring /\ Cursor /\ NoSleepInVain

\* Slice is In, now and after a step.
LEMMA SliceIs == Done = In(buf, r, Minus(w, r)) /\ Edit = In(buf, w, Minus(e, w))
BY Zenon DEF Done, Edit, Slice, In

LEMMA NextSlice == Done' = In(buf', r', Minus(w', r')) /\ Edit' = In(buf', w', Minus(e', w'))
<1>1. (Done = In(buf, r, Minus(w, r)) /\ Edit = In(buf, w, Minus(e, w)))'
  BY SliceIs, PTL
<1> QED BY Zenon, <1>1 DEF Minus

\* The lengths of the finished bytes and of the line.
LEMMA Lengths ==
  ASSUME Types, Ring
  PROVE  /\ Minus(w, r) \in 0 .. INPUT_BUF /\ Minus(e, w) \in 0 .. INPUT_BUF
         /\ Minus(e, r) = Minus(w, r) + Minus(e, w)
         /\ w = (r + Minus(w, r)) % MOD /\ e = (r + Minus(e, r)) % MOD /\ e = (w + Minus(e, w)) % MOD
         /\ Minus(w, r) = 0 <=> w = r
         /\ Minus(e, w) = 0 <=> e = w
<1>1. Minus(w, r) \in 0 .. MOD - 1 /\ Minus(e, w) \in 0 .. MOD - 1
  BY Zenon, MinusIs DEF Types
<1>2. Minus(w, r) \in 0 .. INPUT_BUF /\ Minus(e, w) \in 0 .. INPUT_BUF /\ Minus(e, w) + Minus(w, r) < MOD
      /\ Minus(e, w) + Minus(w, r) = Minus(w, r) + Minus(e, w)
  BY <1>1, Sizes DEF Ring
<1>3. /\ Minus(e, r) = Minus(e, w) + Minus(w, r)
      /\ w = (r + Minus(w, r)) % MOD /\ e = (r + Minus(e, r)) % MOD /\ e = (w + Minus(e, w)) % MOD
      /\ Minus(w, r) = 0 <=> w = r
      /\ Minus(e, w) = 0 <=> e = w
  BY Zenon, <1>2, MinusAdds DEF Types
<1> QED BY Zenon, <1>2, <1>3

-----------------------------------------------------------------------------
(* The cursor.                                                             *)

\* The size of the screen above its last row.
LEMMA Screen ==
  /\ COLS \in Nat \ {0} /\ (ROWS - 1) * COLS \in Nat /\ COLS <= (ROWS - 1) * COLS
  /\ \A q \in Nat : q \div COLS >= ROWS - 1 <=> q >= (ROWS - 1) * COLS
<1>1. COLS \in Nat \ {0} /\ ROWS \in Nat /\ ROWS - 1 \in Nat \ {0}
  BY SizeAssumption
<1> DEFINE m == ROWS - 1
<1> HIDE DEF m
<1>2. m \in Nat \ {0} /\ m * COLS \in Nat
  BY <1>1 DEF m
<1>3. COLS <= m * COLS
  BY <1>1, <1>2
<1>4. ASSUME NEW q \in Nat PROVE q \div COLS >= m <=> q >= m * COLS
  <2> DEFINE d == q \div COLS  x == q % COLS
  <2>1. d \in Nat /\ x \in 0 .. COLS - 1 /\ x = q - COLS * d
    BY <1>1
  <2> HIDE DEF d, x
  <2>2. q = COLS * d + x
    BY <1>1, <2>1
  <2>3. CASE d >= m
    <3>1. COLS * d >= COLS * m /\ COLS * m = m * COLS
      BY <1>1, <1>2, <2>1, <2>3
    <3> QED BY <1>1, <1>2, <2>1, <2>2, <2>3, <3>1 DEF d
  <2>4. CASE d + 1 <= m
    <3>1. COLS * (d + 1) <= COLS * m /\ COLS * m = m * COLS /\ COLS * (d + 1) = COLS * d + COLS
      BY <1>1, <1>2, <2>1, <2>4
    <3>2. COLS * d \in Nat
      BY <1>1, <2>1
    <3>3. q < m * COLS
      BY <1>1, <1>2, <2>1, <2>2, <3>1, <3>2
    <3> QED BY <1>2, <2>1, <2>4, <3>3 DEF d
  <2> QED BY <1>2, <2>1, <2>3, <2>4
<1> QED BY Zenon, <1>1, <1>2, <1>3, <1>4 DEF m

\* A position that is at most one behind is scrolled onto the screen, and one on the
\* screen stays.
LEMMA ScrolledOn ==
  ASSUME NEW q \in Nat, q <= (ROWS - 1) * COLS
  PROVE  OnScreen(Scrolled(q))
<1> DEFINE l == (ROWS - 1) * COLS
<1>1. COLS \in Nat \ {0} /\ l \in Nat /\ COLS <= l /\ (q \div COLS >= ROWS - 1 <=> q >= l) /\ q <= l
  BY Zenon, Screen
<1> HIDE DEF l
<1>2. Scrolled(q) = IF q >= l THEN q - COLS ELSE q
  BY Zenon, <1>1 DEF Scrolled
<1>3. Scrolled(q) \in Nat /\ Scrolled(q) < l
  BY <1>1, <1>2
<1> QED BY Zenon, <1>3 DEF OnScreen, l

\* The next row begins at most one behind the screen.
LEMMA NextRow ==
  ASSUME NEW q, OnScreen(q)
  PROVE  q + COLS - (q % COLS) \in Nat /\ q + COLS - (q % COLS) <= (ROWS - 1) * COLS
<1>1. COLS \in Nat \ {0} /\ ROWS \in Nat /\ ROWS - 1 \in Nat \ {0} /\ q \in Nat
  BY SizeAssumption DEF OnScreen
<1> DEFINE m == ROWS - 1  d == q \div COLS  x == q % COLS
<1>2. d \in Nat /\ x \in 0 .. COLS - 1 /\ x = q - COLS * d
  BY <1>1
<1>3. ~(d >= m)
  BY <1>1, Screen DEF OnScreen
<1>4. m \in Nat
  BY <1>1
<1> HIDE DEF m, d, x
<1>5. d + 1 <= m
  BY <1>2, <1>3, <1>4
<1>6. q + COLS - x = COLS * (d + 1) /\ COLS * (d + 1) \in Nat
  BY <1>1, <1>2
<1>7. COLS * (d + 1) <= COLS * m /\ COLS * m = m * COLS
  BY <1>1, <1>2, <1>4, <1>5
<1> QED BY Zenon, <1>6, <1>7 DEF m, x

\* A character moves the cursor at most one behind the screen.
LEMMA AdvancedOn ==
  ASSUME NEW q, OnScreen(q), NEW c
  PROVE  Advanced(q, c) \in Nat /\ Advanced(q, c) <= (ROWS - 1) * COLS
<1> DEFINE l == (ROWS - 1) * COLS
<1>1. l \in Nat /\ q \in Nat /\ q < l
  BY Zenon, Screen DEF OnScreen
<1>2. CASE c = "NL"
  BY Zenon, <1>2, NextRow DEF Advanced
<1>3. CASE c # "NL" /\ c = "BS"
  <2>1. Advanced(q, c) = IF q > 0 THEN q - 1 ELSE q
    BY Zenon, <1>3 DEF Advanced
  <2> HIDE DEF l
  <2>2. q <= l /\ (q > 0 => q - 1 \in Nat /\ q - 1 <= l)
    BY <1>1
  <2> QED BY Zenon, <1>1, <2>1, <2>2 DEF l
<1>4. CASE c # "NL" /\ c # "BS"
  <2>1. Advanced(q, c) = q + 1
    BY Zenon, <1>4 DEF Advanced
  <2> HIDE DEF l
  <2>2. q + 1 \in Nat /\ q + 1 <= l
    BY <1>1
  <2> QED BY Zenon, <2>1, <2>2 DEF l
<1> QED BY Zenon, <1>2, <1>3, <1>4

\* The backspaces of ^U do not move it behind the screen.
LEMMA BackOn ==
  ASSUME NEW q, OnScreen(q), NEW k \in Nat
  PROVE  Back(q, k) \in Nat /\ Back(q, k) <= (ROWS - 1) * COLS
<1> DEFINE l == (ROWS - 1) * COLS
           x == IF q > k THEN q - k ELSE 0
<1>1. l \in Nat /\ q \in Nat /\ q < l
  BY Zenon, Screen DEF OnScreen
<1>2. x \in Nat /\ x <= l
  <2> HIDE DEF l
  <2> QED BY <1>1
<1> HIDE DEF x
<1> QED BY Zenon, <1>2 DEF Back, x

\* From there cgaputc scrolls, and does not panic, unless it mixes with a clear.
LEMMA ShowOn ==
  ASSUME Cursor, NEW q \in Nat, q <= (ROWS - 1) * COLS, Show(q)
  PROVE  Cursor'
<1>1. CASE isPrintable = 0
  BY Zenon, <1>1 DEF Show, Cursor, screenVars
<1>2. CASE isPrintable # 0 /\ clearing = {} /\ ~mixed
  <2>1. pos' = Scrolled(q) /\ panicked' = (q > ROWS * COLS)
    BY Zenon, <1>2 DEF Show
  <2>2. (ROWS - 1) * COLS \in Nat /\ ROWS * COLS \in Nat /\ (ROWS - 1) * COLS <= ROWS * COLS
    BY SizeAssumption
  <2>3. ~(q > ROWS * COLS)
    BY <2>2
  <2> QED BY Zenon, <2>1, <2>3, ScrolledOn DEF Cursor
<1>3. CASE isPrintable # 0 /\ ~(clearing = {} /\ ~mixed)
  <2>1. pos' = 0 /\ mixed' = TRUE
    BY Zenon, <1>3 DEF Show
  <2>2. OnScreen(0)
    BY Screen DEF OnScreen
  <2> QED BY Zenon, <2>1, <2>2 DEF Cursor
<1> QED BY Zenon, <1>1, <1>2, <1>3

\* A character on the screen, or not shown.
LEMMA ConsputcOn ==
  ASSUME Cursor, NEW c, Consputc(c)
  PROVE  Cursor'
<1>1. OnScreen(pos)
  BY Zenon DEF Cursor
<1> QED BY Zenon, <1>1, AdvancedOn, ShowOn DEF Consputc

-----------------------------------------------------------------------------
(* Steps.                                                                  *)

\* The initial state.
LEMMA InitHolds == Init => IInv /\ Done = <<>> /\ Edit = <<>>
<1> SUFFICES ASSUME Init PROVE IInv /\ Done = <<>> /\ Edit = <<>>
  OBVIOUS
<1>1. Types
  <2>1. 0 \in 0 .. MOD - 1
    BY Sizes
  <2>2. buf \in Rings
    BY Zenon DEF Init, Rings
  <2> QED BY <2>1, <2>2 DEF Init, Types
<1>2. Minus(w, r) = 0 /\ Minus(e, w) = 0
  BY Zenon, <1>1, MinusAdds DEF Types, Init
<1>3. Done = <<>> /\ Edit = <<>>
  BY Zenon, <1>2, SliceIs, InNone
<1>4. Ring
  BY <1>2, Sizes DEF Ring
<1>5. Cursor
  <2>1. OnScreen(0)
    BY Screen DEF OnScreen
  <2> QED BY Zenon, <2>1 DEF Init, Cursor
<1>6. NoSleepInVain
  BY Zenon DEF Init, NoSleepInVain
<1> QED BY Zenon, <1>1, <1>3, <1>4, <1>5, <1>6 DEF IInv

\* A step that leaves the ring alone.
LEMMA RingSame ==
  ASSUME Ring, UNCHANGED inputVars
  PROVE  Ring' /\ Done' = Done /\ Edit' = Edit
BY Zenon DEF Ring, Done, Edit, Slice, Minus, inputVars

\* A step that leaves the screen alone.
LEMMA CursorSame ==
  ASSUME Cursor, UNCHANGED screenVars
  PROVE  Cursor'
BY Zenon DEF Cursor, screenVars

\* consoleintr stores a byte: Type of Tty.
LEMMA TypeKeeps ==
  ASSUME IInv, NEW key \in {"x", "CR", "EOF"}, Type(key)
  PROVE  IInv' /\ T!Type(Stored(key))
<1> DEFINE c == Stored(key)
           a == Minus(w, r)
           b == Minus(e, w)
           B == {"x", "NL", "EOF"}
           e1 == (e + 1) % MOD
<1>1. Types /\ Ring /\ Cursor /\ NoSleepInVain
  BY Zenon DEF IInv
<1>2. c \in B
  BY DEF Stored
<1>3. /\ ~Full /\ buf' = [buf EXCEPT ![e % INPUT_BUF] = c] /\ e' = e1 /\ Consputc(c) /\ r' = r
      /\ IF Finishes(c, e1) THEN w' = e1 /\ Wakeup ELSE w' = w /\ pc' = pc
  BY Zenon DEF Type
<1>4. /\ a \in 0 .. INPUT_BUF /\ b \in 0 .. INPUT_BUF /\ Minus(e, r) = a + b
      /\ w = (r + a) % MOD /\ e = (r + (a + b)) % MOD /\ e = (w + b) % MOD
  BY Zenon, <1>1, Lengths
<1>5. a \in Nat /\ b \in Nat /\ a + b \in 0 .. INPUT_BUF - 1 /\ b \in 0 .. INPUT_BUF - 1 /\ a \in 0 .. a + b
      /\ INPUT_BUF \in Nat /\ a \in 0 .. MOD - 1 /\ a + b + 1 < MOD /\ b + 1 < MOD
      /\ a + b \in 0 .. MOD - 1 /\ b \in 0 .. MOD - 1 /\ a + b \in Nat
  BY <1>3, <1>4, Sizes DEF Full
<1>6. buf \in Rings /\ r \in 0 .. MOD - 1 /\ w \in 0 .. MOD - 1 /\ e \in 0 .. MOD - 1
  BY Zenon, <1>1 DEF Types
<1> DEFINE l == a + b
<1> HIDE DEF a, b, c, e1, B, l
<1>7. l \in 0 .. INPUT_BUF - 1 /\ l \in Nat /\ l \in 0 .. MOD - 1 /\ a \in 0 .. l /\ e = (r + l) % MOD
  BY Zenon, <1>4, <1>5 DEF l
<1>8. buf' \in Rings /\ In(buf', w, b + 1) = Append(In(buf, w, b), c)
  <2>1. e % INPUT_BUF = (w + b) % INPUT_BUF
    <3>1. ((w + b) % MOD) % INPUT_BUF = (w + b) % INPUT_BUF
      BY Zenon, <1>5, <1>6, PlaceOf
    <3>2. e = (w + b) % MOD
      BY Zenon, <1>4
    <3> QED BY Zenon, <3>1, <3>2
  <2>2. buf' = [buf EXCEPT ![(w + b) % INPUT_BUF] = c]
    BY Zenon, <1>3, <2>1
  <2> QED BY ZenonT(30), <1>2, <1>5, <1>6, <2>2, InStore DEF B
<1>9. In(buf', r, l) = In(buf, r, l) /\ In(buf', r, l + 1) = Append(In(buf, r, l), c)
  <2>1. e % INPUT_BUF = (r + l) % INPUT_BUF
    BY Zenon, <1>6, <1>7, PlaceOf
  <2>2. buf' = [buf EXCEPT ![(r + l) % INPUT_BUF] = c]
    BY Zenon, <1>3, <2>1
  <2> QED BY ZenonT(30), <1>2, <1>7, <1>6, <2>2, InStore DEF B
<1>10. Done = In(buf, r, a) /\ Edit = In(buf, w, b)
  BY Zenon, SliceIs DEF a, b
<1>11. In(buf, r, l) = Done \o Edit
  <2>1. Joins(buf, r, a, b)
    BY Zenon, <1>5, <1>6, InJoin
  <2> QED BY Zenon, <1>4, <1>10, <2>1 DEF l, Joins
<1>12. In(buf', r, a) = Done
  <2>1. l \in Nat /\ a \in 0 .. l /\ Same(buf', buf, r, l)
    BY Zenon, <1>7, <1>9 DEF Same
  <2>2. Same(buf', buf, r, a)
    BY Zenon, <2>1, InPrefix
  <2> QED BY Zenon, <2>2, <1>10 DEF Same
<1>13. /\ Done \in Seq(B) /\ Len(Done) = a /\ Edit \in Seq(B) /\ Len(Edit) = b
  BY Zenon, <1>5, <1>6, <1>10, InAt DEF B
<1>14. e1 \in 0 .. MOD - 1 /\ Minus(e1, w) = b + 1 /\ Minus(e1, r) = a + b + 1
  <2>1. Minus(e, r) + 1 < MOD /\ Minus(e, w) + 1 < MOD /\ 1 \in Nat
    BY <1>4, <1>5 DEF b
  <2>2. e1 \in 0 .. MOD - 1 /\ Minus(e1, w) = Minus(e, w) + 1 /\ Minus(e1, r) = Minus(e, r) + 1
    BY Zenon, <1>6, <2>1, MinusGrows DEF e1
  <2> QED BY Zenon, <1>4, <2>2 DEF b
<1>15. Cursor'
  BY Zenon, <1>1, <1>3, ConsputcOn
<1>16. pc \in [Proc -> {"user", "read", "asleep"}]
  BY Zenon, <1>1 DEF Types
<1>17. CASE Finishes(c, e1)
  <2>1. w' = e1 /\ Wakeup /\ e' = e1 /\ r' = r
    BY Zenon, <1>3, <1>17
  <2>2. Minus(e', w') = 0 /\ Minus(w', r') = l + 1
    BY Zenon, <1>14, <2>1, MinusAdds DEF l
  <2>3. Edit' = <<>>
    BY Zenon, <2>2, NextSlice, InNone
  <2>4. Done' = Append(Done \o Edit, c)
    BY Zenon, <1>9, <1>11, <2>1, <2>2, NextSlice
  <2>5. Done' = Done \o Append(Edit, c)
    <3>1. Behind(Done, Edit, c)
      BY Zenon, <1>2, <1>13, AppendBehind
    <3> QED BY Zenon, <2>4, <3>1 DEF Behind
  <2>6. c \in {"NL", "EOF"} \/ a + b + 1 = INPUT_BUF
    BY Zenon, <1>14, <1>17 DEF Finishes
  <2>7. T!Type(c)
    <3>1. Len(Edit) + Len(Done) < INPUT_BUF
      BY <1>5, <1>13
    <3>2. Len(Edit) + Len(Done) + 1 = a + b + 1
      BY <1>5, <1>13
    <3> QED BY Zenon, <2>3, <2>5, <2>6, <3>1, <3>2 DEF T!Type, Edit, Done
  <2>8. Ring'
    <3>1. Minus(w', r') + Minus(e', w') <= INPUT_BUF
      BY <1>5, <1>7, <2>2
    <3>2. \A j \in 1 .. Minus(e', w') : FALSE
      BY <2>2
    <3> QED BY Zenon, <3>1, <3>2 DEF Ring, Minus
  <2>9. pc' = [p \in Proc |-> IF pc[p] = "asleep" THEN "read" ELSE pc[p]]
    BY Zenon, <2>1 DEF Wakeup
  <2>10. pc' \in [Proc -> {"user", "read", "asleep"}] /\ \A p \in Proc : pc'[p] # "asleep"
    BY <1>16, <2>9
  <2>11. Types' /\ NoSleepInVain'
    BY Zenon, <1>6, <1>8, <1>14, <2>1, <2>10 DEF Types, NoSleepInVain
  <2> QED BY Zenon, <1>15, <2>7, <2>8, <2>11 DEF IInv, c
<1>18. CASE ~Finishes(c, e1)
  <2>1. w' = w /\ e' = e1 /\ r' = r /\ pc' = pc
    BY Zenon, <1>3, <1>18
  <2>2. Minus(e', w') = b + 1 /\ Minus(w', r') = a
    BY Zenon, <1>14, <2>1 DEF a
  <2>3. Edit' = Append(Edit, c) /\ Done' = Done
    BY Zenon, <1>8, <1>10, <1>12, <2>1, <2>2, NextSlice
  <2>4. c \notin {"NL", "EOF"} /\ a + b + 1 # INPUT_BUF
    BY Zenon, <1>14, <1>18 DEF Finishes
  <2>5. T!Type(c)
    <3>1. Len(Edit) + Len(Done) < INPUT_BUF
      BY <1>5, <1>13
    <3>2. Len(Edit) + Len(Done) + 1 = a + b + 1
      BY <1>5, <1>13
    <3> QED BY Zenon, <2>3, <2>4, <3>1, <3>2 DEF T!Type, Edit, Done
  <2>6. c = "x"
    BY Zenon, <1>2, <2>4 DEF B
  <2>7. Ring'
    <3>1. Minus(w', r') + Minus(e', w') <= INPUT_BUF
      BY <1>5, <2>2
    <3>2. \A j \in 1 .. b : Edit[j] = "x"
      BY Zenon, <1>1 DEF Ring, b
    <3>3. \A j \in 1 .. b + 1 : Append(Edit, c)[j] = "x"
      BY <1>2, <1>5, <1>13, <2>6, <3>2
    <3>4. \A j \in 1 .. Minus(e', w') : Edit'[j] = "x"
      BY Zenon, <2>2, <2>3, <3>3
    <3> QED BY Zenon, <3>1, <3>4 DEF Ring, Minus
  <2>8. Types' /\ NoSleepInVain'
    BY Zenon, <1>1, <1>6, <1>8, <1>14, <1>16, <2>1 DEF Types, NoSleepInVain
  <2> QED BY Zenon, <1>15, <2>5, <2>7, <2>8 DEF IInv, c
<1> QED BY Zenon, <1>17, <1>18

\* ^H: Erase of Tty.
LEMMA EraseKeeps ==
  ASSUME IInv, Erase
  PROVE  IInv' /\ T!Erase
<1> DEFINE a == Minus(w, r)
           b == Minus(e, w)
<1>1. Types /\ Ring /\ Cursor /\ NoSleepInVain
  BY Zenon DEF IInv
<1>2. /\ e # w /\ e' = Minus(e, 1) /\ Consputc("BS") /\ buf' = buf /\ r' = r /\ w' = w /\ pc' = pc
  BY Zenon DEF Erase
<1>3. buf \in Rings /\ r \in 0 .. MOD - 1 /\ w \in 0 .. MOD - 1 /\ e \in 0 .. MOD - 1
      /\ pc \in [Proc -> {"user", "read", "asleep"}]
  BY Zenon, <1>1 DEF Types
<1>4. a \in 0 .. INPUT_BUF /\ b \in 0 .. INPUT_BUF /\ b # 0
  BY Zenon, <1>1, <1>2, Lengths
<1>5. a + b <= INPUT_BUF /\ \A j \in 1 .. b : Edit[j] = "x"
  BY Zenon, <1>1 DEF Ring
<1>6. Done = In(buf, r, a) /\ Edit = In(buf, w, b)
  BY Zenon, SliceIs
<1>7. 1 \in Nat /\ 1 <= b
  BY <1>4, Sizes
<1>8. e' \in 0 .. MOD - 1 /\ Minus(e', w) = b - 1
  BY Zenon, <1>2, <1>3, <1>7, MinusShrinks
<1>9. Minus(e', w') = b - 1 /\ Minus(w', r') = a
  BY Zenon, <1>2, <1>8
<1> HIDE DEF a, b
<1>10. Done' = Done /\ Edit' = In(buf, w, b - 1)
  BY Zenon, <1>2, <1>6, <1>9, NextSlice
<1>11. b \in Nat \ {0} /\ b \in Nat /\ b - 1 \in Nat /\ a + (b - 1) <= INPUT_BUF /\ \A j \in 1 .. b - 1 : j \in 1 .. b
  BY <1>4, <1>5, Sizes
<1>12. T!Erase
  <2>1. SubSeq(Edit, 1, Len(Edit) - 1) = In(buf, w, b - 1)
    BY Zenon, <1>3, <1>6, <1>11, InFront
  <2>2. Edit # <<>>
    BY Zenon, <1>3, <1>6, <1>11, InTail
  <2> QED BY Zenon, <1>10, <2>1, <2>2 DEF T!Erase, Edit, Done
<1>13. Ring'
  <2>1. \A j \in 1 .. b - 1 : In(buf, w, b - 1)[j] = In(buf, w, b)[j]
    <3>1. \A j \in 1 .. b - 1 : In(buf, w, b - 1)[j] = buf[(w + (j - 1)) % INPUT_BUF]
      BY Zenon, <1>3, <1>11, InAt
    <3>2. \A j \in 1 .. b : In(buf, w, b)[j] = buf[(w + (j - 1)) % INPUT_BUF]
      BY Zenon, <1>3, <1>11, InAt
    <3> QED BY Zenon, <1>11, <3>1, <3>2
  <2>2. \A j \in 1 .. b - 1 : Edit'[j] = "x"
    BY Zenon, <1>5, <1>6, <1>10, <1>11, <2>1
  <2> QED BY Zenon, <1>9, <1>11, <2>2 DEF Ring, Minus
<1>14. Cursor'
  BY Zenon, <1>1, <1>2, ConsputcOn
<1>15. Types' /\ NoSleepInVain'
  BY Zenon, <1>1, <1>2, <1>3, <1>8 DEF Types, NoSleepInVain
<1> QED BY Zenon, <1>12, <1>13, <1>14, <1>15 DEF IInv

\* The line has no newline: ^U does not stop before its first byte.
LEMMA LineOfText ==
  ASSUME Types, Ring, NEW k \in 0 .. Minus(e, w) - 1
  PROVE  buf[Minus(e, k + 1) % INPUT_BUF] = "x"
<1> DEFINE b == Minus(e, w)
           u == Minus(e, k + 1)
           j == b - k
<1>1. buf \in Rings /\ w \in 0 .. MOD - 1 /\ e \in 0 .. MOD - 1
  BY Zenon DEF Types
<1>2. b \in 0 .. INPUT_BUF /\ \A i \in 1 .. b : Edit[i] = "x"
  BY Zenon, Lengths DEF Ring
<1>3. k + 1 \in Nat /\ k + 1 <= b /\ b \in Nat /\ b - (k + 1) \in 0 .. MOD - 1 /\ j \in 1 .. b /\ j - 1 = b - (k + 1)
  <2>1. k \in 0 .. b - 1
    OBVIOUS
  <2> HIDE DEF b
  <2> QED BY <1>2, <2>1, Sizes
<1>4. u \in 0 .. MOD - 1 /\ Minus(u, w) = b - (k + 1)
  BY Zenon, <1>1, <1>3, MinusShrinks
<1>5. u = (w + (b - (k + 1))) % MOD
  <2> HIDE DEF u, b
  <2>1. u = (w + Minus(u, w)) % MOD
    BY Zenon, <1>1, <1>4, MinusAdds
  <2> QED BY Zenon, <1>4, <2>1
<1> HIDE DEF u, b, j
<1>6. u % INPUT_BUF = (w + (j - 1)) % INPUT_BUF
  BY Zenon, <1>1, <1>3, <1>5, PlaceOf
<1>7. Edit[j] = buf[(w + (j - 1)) % INPUT_BUF]
  BY Zenon, <1>1, <1>3, InAt, SliceIs DEF b
<1>8. Edit[j] = "x"
  BY Zenon, <1>2, <1>3
<1> QED BY Zenon, <1>6, <1>7, <1>8 DEF u

\* ^U erases the whole line.
LEMMA KilledAll ==
  ASSUME Types, Ring
  PROVE  Killed = Minus(e, w)
<1> DEFINE b == Minus(e, w)
           newline(k) == buf[Minus(e, k + 1) % INPUT_BUF] = "NL"
           P(k) == (k = b \/ newline(k)) /\ \A j \in 0 .. k - 1 : ~newline(j)
<1>1. b \in 0 .. INPUT_BUF
  BY Zenon, Lengths
<1>2. \A k \in 0 .. b - 1 : ~newline(k)
  BY LineOfText
<1>3. Killed = CHOOSE k \in 0 .. b : P(k)
  BY Zenon DEF Killed
<1> HIDE DEF b, newline
<1>4. b \in 0 .. b /\ \A k \in 0 .. b : k = b \/ k \in 0 .. b - 1
  BY <1>1, Sizes
<1>5. \E k \in 0 .. b : P(k)
  BY Zenon, <1>2, <1>4
<1>6. Killed \in 0 .. b /\ P(Killed)
  <2> HIDE DEF P
  <2> QED BY Zenon, <1>3, <1>5
<1> QED BY Zenon, <1>2, <1>4, <1>6 DEF b

\* ^U: Kill of Tty.
LEMMA KillLineKeeps ==
  ASSUME IInv, KillLine
  PROVE  IInv' /\ T!Kill
<1> DEFINE a == Minus(w, r)
           b == Minus(e, w)
<1>1. Types /\ Ring /\ Cursor /\ NoSleepInVain
  BY Zenon DEF IInv
<1>2. Killed = b
  BY Zenon, <1>1, KilledAll
<1>3. /\ e' = Minus(e, b) /\ (UNCHANGED screenVars \/ Show(Back(pos, b)))
      /\ buf' = buf /\ r' = r /\ w' = w /\ pc' = pc
  BY Zenon, <1>2 DEF KillLine
<1>4. buf \in Rings /\ r \in 0 .. MOD - 1 /\ w \in 0 .. MOD - 1 /\ e \in 0 .. MOD - 1
      /\ pc \in [Proc -> {"user", "read", "asleep"}]
  BY Zenon, <1>1 DEF Types
<1>5. a \in 0 .. INPUT_BUF /\ b \in 0 .. INPUT_BUF
  BY Zenon, <1>1, Lengths
<1>6. b \in Nat /\ b <= b /\ b - b = 0
  <2> HIDE DEF b
  <2> QED BY <1>5, Sizes
<1>7. e' \in 0 .. MOD - 1 /\ Minus(e', w) = 0
  <2>1. b <= Minus(e, w) /\ Minus(e, w) - b = 0
    BY Zenon, <1>6
  <2> HIDE DEF b
  <2>2. Minus(e, b) \in 0 .. MOD - 1 /\ Minus(Minus(e, b), w) = Minus(e, w) - b
    BY Zenon, <1>4, <1>6, <2>1, MinusShrinks
  <2> QED BY Zenon, <1>3, <2>1, <2>2
<1>8. Minus(e', w') = 0 /\ Minus(w', r') = a
  BY Zenon, <1>3, <1>7
<1>9. Done' = Done /\ Edit' = <<>>
  BY Zenon, <1>3, <1>8, NextSlice, SliceIs, InNone
<1>10. T!Kill
  BY Zenon, <1>9 DEF T!Kill, Edit, Done
<1> HIDE DEF a, b
<1>11. Ring'
  <2>1. Minus(w', r') + Minus(e', w') <= INPUT_BUF /\ \A j \in 1 .. Minus(e', w') : FALSE
    BY <1>5, <1>8, Sizes
  <2> QED BY Zenon, <2>1 DEF Ring, Minus
<1>12. Cursor'
  <2>1. Back(pos, b) \in Nat /\ Back(pos, b) <= (ROWS - 1) * COLS
    BY Zenon, <1>1, <1>6, BackOn DEF Cursor
  <2> QED BY Zenon, <1>1, <1>3, <2>1, ShowOn, CursorSame
<1>13. Types' /\ NoSleepInVain'
  BY Zenon, <1>1, <1>3, <1>4, <1>7 DEF Types, NoSleepInVain
<1> QED BY Zenon, <1>10, <1>11, <1>12, <1>13 DEF IInv

\* Processes move, and the ring stays: nobody goes to sleep on a finished line.
LEMMA Quiet ==
  ASSUME IInv, UNCHANGED inputVars, Cursor',
         pc' \in [Proc -> {"user", "read", "asleep"}],
         \A p \in Proc : pc'[p] = "asleep" => pc[p] = "asleep" \/ r = w
  PROVE  IInv' /\ Edit' = Edit /\ Done' = Done
<1>1. Types /\ Ring /\ NoSleepInVain
  BY Zenon DEF IInv
<1>2. buf' = buf /\ r' = r /\ w' = w /\ e' = e
  BY Zenon DEF inputVars
<1>3. Types'
  BY Zenon, <1>1, <1>2 DEF Types
<1>4. NoSleepInVain'
  BY Zenon, <1>1, <1>2 DEF NoSleepInVain
<1> QED BY Zenon, <1>1, <1>3, <1>4, RingSame DEF IInv

\* A process leaves for a place that is not the sleep.
LEMMA Moved ==
  ASSUME IInv, NEW p \in Proc, NEW v \in {"user", "read"}, pc' = [pc EXCEPT ![p] = v]
  PROVE  /\ pc' \in [Proc -> {"user", "read", "asleep"}]
         /\ \A q \in Proc : pc'[q] = "asleep" => pc[q] = "asleep"
<1>1. pc \in [Proc -> {"user", "read", "asleep"}]
  BY Zenon DEF IInv, Types
<1> QED BY <1>1

\* What is left alone.
LEMMA Stays ==
  ASSUME IInv
  PROVE  /\ UNCHANGED screenVars => Cursor'
         /\ pc' = pc => /\ pc' \in [Proc -> {"user", "read", "asleep"}]
                        /\ \A q \in Proc : pc'[q] = "asleep" => pc[q] = "asleep"
<1>1. Types /\ Cursor
  BY Zenon DEF IInv
<1>2. UNCHANGED screenVars => Cursor'
  BY Zenon, <1>1, CursorSame
<1>3. pc \in [Proc -> {"user", "read", "asleep"}]
  BY Zenon, <1>1 DEF Types
<1> QED BY Zenon, <1>2, <1>3

\* A stutter of Tty.
Idle == Edit' = Edit /\ Done' = Done

\* Output and clears move the cursor only.
LEMMA OutputKeeps ==
  ASSUME IInv, ~panicked, NEW p \in Proc,
         (\E c \in {"x", "NL"} : ConsoleWrite(p, c)) \/ ClearBegin(p) \/ ClearEnd(p)
  PROVE  IInv' /\ Idle
<1>1. UNCHANGED inputVars /\ pc' = pc
  BY Zenon DEF ConsoleWrite, ClearBegin, ClearEnd
<1>2. CASE \E c \in {"x", "NL"} : ConsoleWrite(p, c)
  <2>1. PICK c \in {"x", "NL"} : Consputc(c)
    BY Zenon, <1>2 DEF ConsoleWrite
  <2>2. Cursor'
    BY Zenon, <2>1, ConsputcOn DEF IInv
  <2> QED BY Zenon, <1>1, <2>2, Stays, Quiet DEF Idle
<1>3. CASE ClearBegin(p)
  <2>1. Cursor'
    BY Zenon, <1>3 DEF ClearBegin, Cursor, IInv
  <2> QED BY Zenon, <1>1, <2>1, Stays, Quiet DEF Idle
<1>4. CASE ClearEnd(p)
  <2>1. OnScreen(0)
    BY Screen DEF OnScreen
  <2>2. Cursor'
    BY Zenon, <1>4, <2>1 DEF ClearEnd, Cursor, IInv
  <2> QED BY Zenon, <1>1, <2>2, Stays, Quiet DEF Idle
<1> QED BY Zenon, <1>2, <1>3, <1>4

\* A read begins.
LEMMA ReadKeeps ==
  ASSUME IInv, NEW p \in Proc, NEW k, Read(p, k)
  PROVE  IInv' /\ Idle
<1>1. UNCHANGED inputVars /\ UNCHANGED screenVars
      /\ pc' = [pc EXCEPT ![p] = "read"]
  BY Zenon DEF Read
<1> QED BY Zenon, <1>1, Stays, Moved, Quiet DEF Idle

\* A read that finds nothing sleeps, or fails for a killed process.
LEMMA ReadWaitKeeps ==
  ASSUME IInv, NEW p \in Proc, ReadWait(p)
  PROVE  IInv' /\ Idle
<1>1. UNCHANGED inputVars /\ UNCHANGED screenVars /\ r = w
  BY Zenon DEF ReadWait
<1>2. pc' = [pc EXCEPT ![p] = "user"] \/ pc' = [pc EXCEPT ![p] = "asleep"]
  BY Zenon DEF ReadWait, Return
<1>3. pc' \in [Proc -> {"user", "read", "asleep"}]
  BY <1>2 DEF IInv, Types
<1> QED BY Zenon, <1>1, <1>3, Stays, Quiet DEF Idle

\* A read of 0 bytes returns.
LEMMA ReadNoneKeeps ==
  ASSUME IInv, NEW p \in Proc, ReadNone(p)
  PROVE  IInv' /\ Idle
<1>1. UNCHANGED inputVars /\ UNCHANGED screenVars
      /\ pc' = [pc EXCEPT ![p] = "user"]
  BY Zenon DEF ReadNone, Return
<1> QED BY Zenon, <1>1, Stays, Moved, Quiet DEF Idle

\* kill wakes its process, and exit takes the flag away.
LEMMA KillKeeps ==
  ASSUME IInv, NEW p \in Proc, Kill(p) \/ Exit(p)
  PROVE  IInv' /\ Idle
<1>1. UNCHANGED inputVars /\ UNCHANGED screenVars
  BY Zenon DEF Kill, Exit
<1>2. CASE Kill(p)
  <2>1. pc' = [pc EXCEPT ![p] = IF @ = "asleep" THEN "read" ELSE @] /\ pc \in [Proc -> {"user", "read", "asleep"}]
    BY Zenon, <1>2 DEF Kill, IInv, Types
  <2>2. /\ pc' \in [Proc -> {"user", "read", "asleep"}]
        /\ \A q \in Proc : pc'[q] = "asleep" => pc[q] = "asleep"
    BY <2>1
  <2> QED BY Zenon, <1>1, <2>2, Stays, Quiet DEF Idle
<1>3. CASE Exit(p)
  <2>1. pc' = pc
    BY Zenon, <1>3 DEF Exit
  <2> QED BY Zenon, <1>1, <2>1, Stays, Quiet DEF Idle
<1> QED BY Zenon, <1>2, <1>3

\* A prompt switches the echo.
LEMMA PromptKeeps ==
  ASSUME IInv, NEW p \in Proc, PromptOff(p) \/ PromptOn(p)
  PROVE  IInv' /\ Idle
<1>1. UNCHANGED inputVars /\ UNCHANGED screenVars /\ pc' = pc
  BY Zenon DEF PromptOff, PromptOn
<1> QED BY Zenon, <1>1, Stays, Quiet DEF Idle

\* A byte is read: Take of Tty, or nothing when ^D stays.  Nobody sleeps meanwhile.
LEMMA ReadByteKeeps ==
  ASSUME IInv, NEW p \in Proc, ReadByte(p)
  PROVE  IInv' /\ (T!Take \/ Idle)
<1> DEFINE a == Minus(w, r)
           b == Minus(e, w)
<1>1. Types /\ Ring /\ Cursor /\ NoSleepInVain
  BY Zenon DEF IInv
<1>2. /\ r # w /\ buf' = buf /\ w' = w /\ e' = e /\ UNCHANGED screenVars
      /\ r' = r \/ r' = (r + 1) % MOD
      /\ pc' = [pc EXCEPT ![p] = "user"] \/ pc' = pc
  BY Zenon DEF ReadByte, Return
<1>3. /\ pc' \in [Proc -> {"user", "read", "asleep"}]
      /\ \A q \in Proc : pc'[q] = "asleep" => pc[q] = "asleep"
  BY Zenon, <1>2, Stays, Moved
<1>4. Cursor'
  BY Zenon, <1>2, Stays
<1>5. CASE r' = r
  BY Zenon, <1>2, <1>3, <1>4, <1>5, Quiet DEF inputVars, Idle
<1>6. CASE r' = (r + 1) % MOD
  <2>1. buf \in Rings /\ r \in 0 .. MOD - 1 /\ w \in 0 .. MOD - 1 /\ e \in 0 .. MOD - 1
    BY Zenon, <1>1 DEF Types
  <2>2. a \in 0 .. INPUT_BUF /\ b \in 0 .. INPUT_BUF /\ a # 0
    BY Zenon, <1>1, <1>2, Lengths
  <2>3. a + b <= INPUT_BUF /\ \A j \in 1 .. b : Edit[j] = "x"
    BY Zenon, <1>1 DEF Ring
  <2>4. 1 \in Nat /\ 1 <= a
    BY <2>2, Sizes
  <2>5. r' \in 0 .. MOD - 1 /\ Minus(w, r') = a - 1
    <3>1. (r + 1) % MOD \in 0 .. MOD - 1 /\ Minus(w, (r + 1) % MOD) = a - 1
      BY Zenon, <2>1, <2>4, MinusShrinks
    <3> QED BY Zenon, <1>6, <3>1
  <2>6. Minus(e', w') = b /\ Minus(w', r') = a - 1
    BY Zenon, <1>2, <2>5
  <2>7. Done = In(buf, r, a) /\ Edit = In(buf, w, b)
    BY Zenon, SliceIs
  <2> HIDE DEF a, b
  <2>8. Edit' = Edit /\ Done' = In(buf, (r + 1) % MOD, a - 1)
    BY Zenon, <1>2, <1>6, <2>6, <2>7, NextSlice
  <2>9. a \in Nat \ {0} /\ (a - 1) + b <= INPUT_BUF
    BY <2>2, <2>3, Sizes
  <2>10. Done # <<>> /\ Done' = Tail(Done)
    BY Zenon, <2>1, <2>7, <2>8, <2>9, InTail
  <2>11. T!Take
    BY Zenon, <2>8, <2>10 DEF T!Take, Edit, Done
  <2>12. Ring'
    BY Zenon, <2>3, <2>6, <2>8, <2>9 DEF Ring, Minus
  <2>13. Types' /\ NoSleepInVain'
    BY Zenon, <1>1, <1>2, <1>3, <2>1, <2>5 DEF Types, NoSleepInVain
  <2> QED BY Zenon, <1>4, <2>11, <2>12, <2>13 DEF IInv
<1> QED BY Zenon, <1>2, <1>5, <1>6

\* A step keeps the invariant and is a step of Tty, or none.
LEMMA NextKeeps ==
  ASSUME IInv, [Next]_vars
  PROVE  IInv' /\ (T!Next \/ Idle)
<1>1. ASSUME NEW key \in {"x", "CR", "EOF"}, Type(key) PROVE IInv' /\ T!Next
  <2>1. Stored(key) \in {"x", "NL", "EOF"}
    BY DEF Stored
  <2> QED BY Zenon, <1>1, <2>1, TypeKeeps DEF T!Next
<1>2. CASE Erase
  BY Zenon, <1>2, EraseKeeps DEF T!Next
<1>3. CASE KillLine
  BY Zenon, <1>3, KillLineKeeps DEF T!Next
<1>4. ASSUME ~panicked, NEW p \in Proc, Call(p)
      PROVE  IInv' /\ (T!Next \/ Idle)
  <2>1. CASE (\E k \in Req : secret[p] = 0 /\ Read(p, k)) \/ Gets(p)
    BY Zenon, <2>1, ReadKeeps DEF Gets
  <2>2. CASE Step(p)
    BY Zenon, <2>2, ReadWaitKeeps, ReadByteKeeps, ReadNoneKeeps DEF Step, T!Next
  <2>3. CASE Kill(p) \/ Exit(p)
    BY Zenon, <2>3, KillKeeps
  <2>4. CASE (\E c \in {"x", "NL"} : ConsoleWrite(p, c)) \/ ClearBegin(p) \/ ClearEnd(p)
    BY Zenon, <1>4, <2>4, OutputKeeps
  <2>5. CASE PromptOff(p) \/ PromptOn(p)
    BY Zenon, <2>5, PromptKeeps
  <2> QED BY Zenon, <1>4, <2>1, <2>2, <2>3, <2>4, <2>5 DEF Call
<1>5. CASE UNCHANGED vars
  <2>1. UNCHANGED inputVars /\ UNCHANGED screenVars /\ pc' = pc
    BY Zenon, <1>5 DEF vars
  <2> QED BY Zenon, <2>1, Stays, Quiet DEF Idle
<1> QED BY Zenon, <1>1, <1>2, <1>3, <1>4, <1>5 DEF Next, Keyboard, Frozen

-----------------------------------------------------------------------------
(* Theorems.                                                               *)

\* The inductive invariant: types, a ring that is never over-full and whose line has no
\* newline, a cursor on the screen with no panic but in the mix with a clear, and the
\* property of sleeping readers.
THEOREM ConsoleInv == Spec => []IInv
<1>1. Init => IInv
  BY Zenon, InitHolds
<1>2. IInv /\ [Next]_vars => IInv'
  BY Zenon, NextKeeps
<1> QED BY <1>1, <1>2, PTL DEF Spec

\* cgaputc keeps the cursor on the screen and does not reach its panic "pos
\* under/overflow" unless its output came within a sys_clear, for a screen of any size
\* with two rows or more and any number of processes.
THEOREM CursorStays == Spec => []CursorOnScreen
<1>1. IInv => CursorOnScreen
  BY Zenon DEF IInv, Cursor, OnScreen, CursorOnScreen
<1> QED BY <1>1, ConsoleInv, PTL

\* consoleread never sleeps on a finished line: no wakeup of consoleintr is lost, for
\* any number of readers.
THEOREM ReadersWoken == Spec => []NoSleepInVain
<1>1. IInv => NoSleepInVain
  BY Zenon DEF IInv
<1> QED BY <1>1, ConsoleInv, PTL

\* The ring of consoleintr and consoleread, with indices that wrap, implements the line
\* and the queue of Tty: bytes are read in the order in which they were typed, none twice,
\* and erasing does not reach a finished line.
THEOREM ConsoleIsTty == Spec => ImplementsTty
<1>1. Init => T!Init
  BY Zenon, InitHolds DEF T!Init, Edit, Done
<1>2. IInv /\ [Next]_vars => [T!Next]_<<Edit, Done>>
  BY Zenon, NextKeeps DEF Idle
<1>3. IInv /\ [Next]_vars => [T!Next]_<<Slice(w, Minus(e, w)), Slice(r, Minus(w, r))>>
  BY <1>2 DEF Edit, Done
<1> QED BY <1>1, <1>3, ConsoleInv, PTL DEF Spec, ImplementsTty, T!Spec
=============================================================================

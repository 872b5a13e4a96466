------------------------- MODULE ScalarMulBaseProofs -------------------------
(***************************************************************************)
(* ScalarMulBase is correct for every number of bits, every set of block   *)
(* sizes and every order that satisfy its assumptions: it computes the     *)
(* multiple, stays in its table, and the mixed addition is never given the *)
(* doubling it cannot do.                                                  *)
(***************************************************************************)
EXTENDS ScalarMulBase, ArithmeticFacts

-----------------------------------------------------------------------------
(* Powers of two.                                                           *)

\* Pow2 is a function and does what its equation says.
LEMMA Pow2Facts ==
  /\ Pow2 \in [Nat -> Nat] /\ Pow2[0] = 1
  /\ \A n \in Nat : Pow2[n + 1] = 2 * Pow2[n] /\ Pow2[n] > 0
<1>1. \E f : f = [n \in Nat |-> IF n = 0 THEN 1 ELSE 2 * f[n - 1]]
  <2>1. 1 \in Nat /\ 2 \in Nat
    OBVIOUS
  <2>2. QED
    BY <2>1, GeometricExists
<1>2. IsGeometric(Pow2, 1, 2)
  BY <1>1 DEF Pow2, IsGeometric
<1>3. Pow2 \in [Nat -> Nat] /\ Pow2[0] = 1 /\ \A n \in Nat : Pow2[n + 1] = 2 * Pow2[n]
  <2>1. 1 \in Nat /\ 2 \in Nat
    OBVIOUS
  <2>2. QED
    BY <1>2, <2>1, GeometricFacts
<1> DEFINE T == {n \in Nat : Pow2[n] > 0}
<1>4. 0 \in T
  BY <1>3
<1>5. ASSUME NEW n \in T PROVE n + 1 \in T
  BY <1>3
<1>6. T = Nat
  <2>1. T \in SUBSET Nat
    OBVIOUS
  <2> HIDE DEF T
  <2>2. QED
    BY <1>4, <1>5, <2>1, InductionOnNat
<1>7. QED
  BY <1>3, <1>6

\* Exponents add.
LEMMA Pow2Sum ==
  ASSUME NEW a \in Nat, NEW c \in Nat
  PROVE  Pow2[a + c] = Pow2[a] * Pow2[c]
<1> DEFINE T == {n \in Nat : Pow2[a + n] = Pow2[a] * Pow2[n]}
<1>1. 0 \in T
  BY Pow2Facts
<1>2. ASSUME NEW n \in T PROVE n + 1 \in T
  <2>1. n \in Nat /\ a + n \in Nat /\ a + (n + 1) = (a + n) + 1
    OBVIOUS
  <2>2. Pow2[a + (n + 1)] = 2 * Pow2[a + n] /\ Pow2[n + 1] = 2 * Pow2[n]
    BY <2>1, Pow2Facts
  <2>3. Pow2[a] \in Nat /\ Pow2[n] \in Nat
    BY <2>1, Pow2Facts
  <2>4. 2 * (Pow2[a] * Pow2[n]) = Pow2[a] * (2 * Pow2[n])
    BY <2>3
  <2>5. QED
    BY <2>1, <2>2, <2>4
<1>3. T = Nat
  <2>1. T \in SUBSET Nat
    OBVIOUS
  <2> HIDE DEF T
  <2>2. QED
    BY <1>1, <1>2, <2>1, InductionOnNat
<1>4. QED
  BY <1>3

\* Greater exponents make greater powers.
LEMMA Pow2Grows ==
  ASSUME NEW a \in Nat, NEW c \in Nat, a <= c
  PROVE  Pow2[a] <= Pow2[c] /\ (a < c => 2 * Pow2[a] <= Pow2[c])
<1>1. c - a \in Nat /\ c = a + (c - a)
  OBVIOUS
<1>2. Pow2[a] \in Nat /\ Pow2[c - a] \in Nat /\ Pow2[c - a] >= 1
  BY <1>1, Pow2Facts
<1>3. Pow2[c] = Pow2[a] * Pow2[c - a]
  BY <1>1, Pow2Sum
<1>4. Pow2[a] * Pow2[c - a] >= Pow2[a]
  BY <1>2
<1>5. ASSUME a < c PROVE 2 * Pow2[a] <= Pow2[c]
  <2>1. c - a - 1 \in Nat /\ c - a = (c - a - 1) + 1
    BY <1>5
  <2>2. Pow2[c - a] = 2 * Pow2[c - a - 1] /\ Pow2[c - a - 1] \in Nat /\ Pow2[c - a - 1] >= 1
    BY <2>1, Pow2Facts
  <2>3. Pow2[c - a] >= 2
    BY <2>2
  <2>4. Pow2[a] * Pow2[c - a] >= Pow2[a] * 2
    BY <1>2, <2>3
  <2>5. QED
    BY <1>2, <1>3, <2>4
<1>6. QED
  BY <1>3, <1>4, <1>5

\* An odd order divides no multiple of a power of two that is not one of its own:
\* the table has no point at infinity.
LEMMA OddDivisor ==
  ASSUME NEW x \in Int, NEW k \in Nat, N \in Nat, N % 2 = 1, (x * Pow2[k]) % N = 0
  PROVE  x % N = 0
<1> DEFINE T == {n \in Nat : \A y \in Int : (y * Pow2[n]) % N = 0 => y % N = 0}
<1>0. N > 0
  <2>1. 0 % 2 = 0
    OBVIOUS
  <2>2. QED
    BY <2>1
<1>1. 0 \in T
  BY Pow2Facts
<1>2. ASSUME NEW n \in T PROVE n + 1 \in T
  <2>1. SUFFICES ASSUME NEW y \in Int, (y * Pow2[n + 1]) % N = 0 PROVE y % N = 0
    OBVIOUS
  <2>2. n \in Nat /\ Pow2[n] \in Nat /\ Pow2[n + 1] = 2 * Pow2[n]
    BY Pow2Facts
  <2>3. y * (2 * Pow2[n]) = (2 * y) * Pow2[n] /\ 2 * y \in Int
    BY <2>2
  <2>4. (2 * y) % N = 0
    BY <2>1, <2>2, <2>3
  <2>5. PICK q \in Int : 2 * y = N * q
    <3> DEFINE z == 2 * y
    <3>1. z \in Int /\ z % N = 0
      BY <2>3, <2>4
    <3> HIDE DEF z
    <3>2. z \div N \in Int /\ z = N * (z \div N) + (z % N)
      BY <1>0, <3>1, DivMod
    <3>3. z = N * (z \div N)
      BY <1>0, <3>1, <3>2
    <3>4. QED
      BY <3>2, <3>3 DEF z
  <2>6. PICK s \in Int : N = 2 * s + 1
    <3>1. N \div 2 \in Int /\ N = 2 * (N \div 2) + (N % 2)
      OBVIOUS
    <3>2. QED
      BY <3>1
  <2>7. N * q = 2 * (s * q) + q /\ s * q \in Int
    BY <2>5, <2>6
  <2>8. q = 2 * (y - s * q) /\ y - s * q \in Int
    BY <2>5, <2>7
  <2>9. PICK p \in Int : q = 2 * p
    BY <2>8
  <2>10. 2 * y = 2 * (N * p)
    BY <2>5, <2>9
  <2>11. y = 0 + N * p
    BY <2>10
  <2>12. y % N = 0 % N
    BY <1>0, <2>11, ModShift
  <2>13. QED
    BY <1>0, <2>12
<1>3. T = Nat
  <2>1. T \in SUBSET Nat
    OBVIOUS
  <2> HIDE DEF T
  <2>2. QED
    BY <1>1, <1>2, <2>1, InductionOnNat
<1>4. QED
  BY <1>3

-----------------------------------------------------------------------------
(* The constants.                                                           *)

\* Where the last block with bits of the scalar starts.
Last(b) == b * ((Bits - 1) \div b)

\* After the blocks that end by then come that block and, if block size
\* divides the number of bits, one more for the carry.
LEMMA LastBlock ==
  ASSUME NEW b \in Blocksizes
  PROVE  /\ b \in Nat /\ b >= 2 /\ Bits \in Nat /\ b < Bits
         /\ Last(b) \in Nat /\ b <= Last(b) /\ Last(b) < Bits
         /\ \A n \in Nat : b * n <= Bits =>
              b * (n + 1) <= Last(b) \/ b * n = Last(b) \/ b * n = Bits
<1> DEFINE q == (Bits - 1) \div b
           r == (Bits - 1) % b
<1>1. b \in Nat /\ b >= 2 /\ Bits \in Nat /\ b < Bits
  BY BitsAssumption, BlocksizesAssumption
<1>2. q \in Int /\ r \in Int /\ Bits - 1 = b * q + r /\ 0 <= r /\ r < b
  <2>1. Bits - 1 \in Int /\ b > 0
    BY <1>1
  <2>2. QED
    BY <1>1, <2>1, DivMod
<1>3. Last(b) = b * q
  BY DEF Last
<1> HIDE DEF q, r
<1>4. q >= 1
  <2>1. CASE q <= 0
    <3>1. b * q <= 0
      BY <1>1, <1>2, <2>1
    <3>2. QED
      BY <1>1, <1>2, <3>1
  <2>2. QED
    BY <1>2, <2>1
<1>5. b * q >= b /\ b * q \in Nat
  BY <1>1, <1>2, <1>4
<1>6. ASSUME NEW n \in Nat, b * n <= Bits
      PROVE  b * (n + 1) <= b * q \/ b * n = b * q \/ b * n = Bits
  <2>1. CASE n + 1 <= q
    BY <1>1, <1>2, <2>1
  <2>2. CASE n = q
    BY <2>2
  <2>3. CASE n >= q + 1
    <3>1. b * n >= b * (q + 1)
      BY <1>1, <1>2, <2>3
    <3>2. b * (q + 1) = b * q + b
      BY <1>1, <1>2
    <3>3. b * n \in Int
      BY <1>1
    <3>4. QED
      BY <1>1, <1>2, <1>5, <1>6, <3>1, <3>2, <3>3
  <2>4. QED
    BY <1>2, <2>1, <2>2, <2>3
<1>7. QED
  BY <1>1, <1>2, <1>3, <1>5, <1>6

\* The order is close below 2^Bits.
LEMMA OrderBounds ==
  ASSUME NEW b \in Blocksizes
  PROVE  /\ N \in Nat /\ N > 0 /\ N % 2 = 1
         /\ N < Pow2[Bits] /\ Pow2[Bits] < 2 * N
         /\ 2 * (Pow2[Bits] - N) < Pow2[Last(b)]
         /\ Pow2[Last(b)] < N /\ 2 * Pow2[Last(b)] <= Pow2[Bits]
         /\ Pow2[b - 1] < N
<1>1. Last(b) \in Nat /\ Last(b) < Bits /\ Bits \in Nat /\ b <= Last(b) /\ b \in Nat /\ b >= 2
  BY LastBlock
<1>2. Pow2[Bits] \in Nat /\ Pow2[Last(b)] \in Nat /\ Pow2[b - 1] \in Nat /\ b - 1 \in Nat
  BY <1>1, Pow2Facts
<1>3. 2 * Pow2[Last(b)] <= Pow2[Bits] /\ Pow2[b - 1] <= Pow2[Last(b)]
  BY <1>1, <1>2, Pow2Grows
<1>4. N \in Nat /\ N % 2 = 1 /\ N < Pow2[Bits] /\ 2 * (Pow2[Bits] - N) < Pow2[Last(b)]
  BY OrderAssumption DEF Last
<1>5. QED
  BY <1>2, <1>3, <1>4

-----------------------------------------------------------------------------
(* The accumulator and the entry differ.  With the digit d, the weight w,   *)
(* the bits below worth m, and c and cn the carries into the block and out  *)
(* of it, the entry stands for d * w and the accumulator for m - c * w.     *)

\* No multiple of n but 0 is within n of 0, and none lies between n and 2 * n.
LEMMA NotMultiple ==
  ASSUME NEW n \in Nat, n > 0, NEW D \in Int, NEW q \in Int, D = n * q,
         (D # 0 /\ 0 - n < D /\ D < n) \/ (n < D /\ D < 2 * n)
  PROVE  FALSE
<1>1. CASE D # 0 /\ 0 - n < D /\ D < n
  <2>1. q = 0
    BY <1>1, NoMultipleBetween
  <2>2. QED
    BY <1>1, <2>1
<1>2. CASE n < D /\ D < 2 * n
  <2>1. n * (q - 1) = D - n /\ q - 1 \in Int
    OBVIOUS
  <2>2. q - 1 = 0
    BY <1>2, <2>1, NoMultipleBetween
  <2>3. QED
    BY <1>2, <2>2
<1>3. QED
  BY <1>1, <1>2

\* Products keep the order of their factors.
LEMMA Monotone ==
  ASSUME NEW w \in Nat, NEW x \in Int, NEW y \in Int, x <= y
  PROVE  x * w <= y * w
OBVIOUS

\* What Block makes of the bits f of a block and the carry c.
IsDigit(h, f, c, cn, d) ==
  /\ h \in Nat /\ h >= 2 /\ f \in 0 .. (2 * h - 1) /\ c \in {0, 1} /\ cn \in {0, 1}
  /\ d = f + c - 2 * h * cn /\ d # 0
  /\ f + c <= h => cn = 0
  /\ f + c > h => cn = 1

IsPrefix(w, m, c) == w \in Nat /\ w > 0 /\ m \in 0 .. (w - 1) /\ (c = 1 => 2 * m > w)

\* A block whose end is far below the order.
LEMMA ApartBelow ==
  ASSUME NEW h, NEW f, NEW c, NEW cn, NEW d, IsDigit(h, f, c, cn, d),
         NEW w, NEW m, IsPrefix(w, m, c), NEW n \in Nat, (2 * h) * w <= n
  PROVE  LET D == d * w - (m - c * w) IN D \in Int /\ D # 0 /\ 0 - n < D /\ D < n
<1> DEFINE e == d + c
           P == e * w
<1>1. h \in Nat /\ h >= 2 /\ w \in Nat /\ w > 0 /\ m \in 0 .. (w - 1) /\ d \in Int /\ c \in {0, 1}
  BY DEF IsDigit, IsPrefix
<1>2. e \in Int /\ 1 - h <= e /\ e <= h + 1 /\ e <= 2 * h - 1
  BY DEF IsDigit
<1>3. P \in Int /\ (1 - h) * w <= P /\ P <= (2 * h - 1) * w
  <2>1. 1 - h \in Int /\ 2 * h - 1 \in Int
    BY <1>1
  <2> HIDE DEF e
  <2>2. QED
    BY <1>1, <1>2, <2>1, Monotone
<1>4. (1 - h) * w = w - h * w /\ (2 * h - 1) * w = (2 * h) * w - w /\ h * w \in Nat
      /\ (2 * h) * w = 2 * (h * w)
  BY <1>1
<1>5. d * w - (m - c * w) = P - m
  <2>1. (d + c) * w = d * w + c * w /\ d * w \in Int /\ c * w \in Int
    BY <1>1
  <2>2. QED
    BY <1>1, <2>1
<1>6. CASE e >= 1
  <2>1. 1 * w <= P
    <3> HIDE DEF e
    <3>1. QED
      BY <1>1, <1>2, <1>6, Monotone
  <2> HIDE DEF P
  <2>2. QED
    BY <1>1, <1>3, <1>4, <1>5, <2>1
<1>7. CASE e <= 0 /\ m > 0
  <2>1. P <= 0 * w
    <3> HIDE DEF e
    <3>1. QED
      BY <1>1, <1>2, <1>7, Monotone
  <2> HIDE DEF P
  <2>2. QED
    BY <1>1, <1>3, <1>4, <1>5, <1>7, <2>1
<1>8. CASE e <= 0 /\ m = 0
  <2>1. e <= 0 - 1
    BY <1>1, <1>8 DEF IsDigit, IsPrefix
  <2>2. P <= (0 - 1) * w
    <3> HIDE DEF e
    <3>1. QED
      BY <1>1, <1>2, <2>1, Monotone
  <2> HIDE DEF P
  <2>3. QED
    BY <1>1, <1>3, <1>4, <1>5, <1>8, <2>2
<1>9. QED
  BY <1>1, <1>2, <1>6, <1>7, <1>8

\* The last block with bits of the scalar: n = v * w - g.
LEMMA ApartLast ==
  ASSUME NEW h, NEW f, NEW c, NEW cn, NEW d, IsDigit(h, f, c, cn, d),
         NEW w, NEW m, IsPrefix(w, m, c),
         NEW v \in Nat, v >= 2, NEW g \in Nat, g > 0, 2 * g < w,
         NEW n \in Nat, n = v * w - g, f * w + m < n
  PROVE  LET D == d * w - (m - c * w) IN
           /\ D \in Int
           /\ (D # 0 /\ 0 - n < D /\ D < n) \/ (n < D /\ D < 2 * n)
<1> DEFINE e == d + c
           P == e * w
           F == f * w
           V == v * w
           Z == h * w
<1>1. /\ h \in Nat /\ h >= 2 /\ w \in Nat /\ w > 0 /\ m \in 0 .. (w - 1)
      /\ d \in Int /\ c \in {0, 1} /\ cn \in {0, 1} /\ f \in Nat
  BY DEF IsDigit, IsPrefix
<1>2. e \in Int /\ P \in Int /\ F \in Int /\ V \in Int /\ Z \in Int
  BY <1>1
<1>3. d * w - (m - c * w) = P - m
  <2>1. (d + c) * w = d * w + c * w /\ d * w \in Int /\ c * w \in Int
    BY <1>1
  <2>2. QED
    BY <1>1, <2>1
<1>4. f <= v - 1
  <2>1. CASE f >= v
    <3>1. V <= F
      BY <1>1, <2>1, Monotone
    <3> HIDE DEF V, F
    <3>2. n = V - g /\ F + m < n
      BY DEF V, F
    <3>3. QED
      BY <1>1, <1>2, <3>1, <3>2
  <2>2. QED
    BY <1>1, <2>1
<1>5. n = V - g /\ F + m < n
  OBVIOUS
<1>6. 2 * w <= V
  BY <1>1, Monotone
<1>7. CASE c = 0 /\ cn = 0
  <2>1. e = f /\ f >= 1
    BY <1>7 DEF IsDigit
  <2>2. P = F
    BY <2>1
  <2>3. 1 * w <= F
    BY <1>1, <2>1, Monotone
  <2> HIDE DEF P, F, V, Z
  <2>4. QED
    BY <1>1, <1>2, <1>3, <1>5, <2>2, <2>3
<1>8. CASE c = 0 /\ cn = 1
  <2>1. e = f - 2 * h /\ f >= h + 1 /\ f <= 2 * h - 1
    BY <1>8 DEF IsDigit
  <2>2. e <= 0 - 1 /\ 1 - h <= e /\ h + 2 <= v
    BY <1>1, <1>4, <2>1
  <2>3. P <= (0 - 1) * w /\ (1 - h) * w <= P /\ (h + 2) * w <= V
    <3>1. 0 - 1 \in Int /\ 1 - h \in Int /\ h + 2 \in Int
      BY <1>1
    <3> HIDE DEF e
    <3>2. QED
      BY <1>1, <1>2, <2>2, <3>1, Monotone
  <2>4. (1 - h) * w = w - Z /\ (h + 2) * w = Z + 2 * w
    BY <1>1
  <2> HIDE DEF P, F, V, Z
  <2>5. QED
    BY <1>1, <1>2, <1>3, <1>5, <2>3, <2>4
<1>9. CASE c = 1 /\ cn = 0
  <2>1. e = f + 2 /\ 2 * m > w
    BY <1>9 DEF IsDigit, IsPrefix
  <2>2. P = F + 2 * w
    BY <1>1, <2>1
  <2>3. F \in Nat
    BY <1>1
  <2>4. CASE f <= v - 2
    <3>1. P <= V
      <4>1. e <= v
        BY <1>1, <2>1, <2>4
      <4> HIDE DEF e
      <4>2. QED
        BY <1>1, <1>2, <4>1, Monotone
    <3> HIDE DEF P, F, V, Z
    <3>2. QED
      BY <1>1, <1>2, <1>3, <1>5, <2>1, <2>2, <2>3, <3>1
  <2>5. CASE f = v - 1
    <3>1. F = V - w
      BY <1>1, <2>5
    <3> HIDE DEF P, F, V, Z
    <3>2. QED
      BY <1>1, <1>2, <1>3, <1>5, <1>6, <2>1, <2>2, <3>1
  <2>6. QED
    BY <1>1, <1>4, <2>4, <2>5
<1>10. CASE c = 1 /\ cn = 1
  <2>1. e = f + 2 - 2 * h /\ f >= h /\ f <= 2 * h - 2 /\ 2 * m > w
    BY <1>10 DEF IsDigit, IsPrefix
  <2>2. e <= 0 /\ 2 - h <= e /\ h + 1 <= v
    BY <1>1, <1>4, <2>1
  <2>3. P <= 0 * w /\ (2 - h) * w <= P /\ (h + 1) * w <= V
    <3>1. 2 - h \in Int /\ h + 1 \in Int
      BY <1>1
    <3> HIDE DEF e
    <3>2. QED
      BY <1>1, <1>2, <2>2, <3>1, Monotone
  <2>4. (2 - h) * w = 2 * w - Z /\ (h + 1) * w = Z + w
    BY <1>1
  <2> HIDE DEF P, F, V, Z
  <2>5. QED
    BY <1>1, <1>2, <1>3, <1>5, <2>1, <2>3, <2>4
<1>11. QED
  BY <1>1, <1>7, <1>8, <1>9, <1>10

\* The block of the carry alone: n = w - g.
LEMMA ApartCarry ==
  ASSUME NEW h, NEW c, NEW cn, NEW d, IsDigit(h, 0, c, cn, d),
         NEW w, NEW m, IsPrefix(w, m, c),
         NEW g \in Nat, g > 0, 4 * g < w, NEW n \in Nat, n = w - g
  PROVE  LET D == d * w - (m - c * w) IN D \in Int /\ n < D /\ D < 2 * n
<1>1. c = 1 /\ d = 1 /\ w \in Nat /\ m \in 0 .. (w - 1) /\ 2 * m > w
  BY DEF IsDigit, IsPrefix
<1>2. QED
  BY <1>1

-----------------------------------------------------------------------------
(* The inductive invariant.                                                 *)

Reduced == IF scalar >= N THEN scalar - N ELSE scalar

\* The weights of the block in work and of the one after it.
Weight == Pow2[blocksize * i]
Heavier == Pow2[blocksize * (i + 1)]

\* What the bits below a weight are worth; a carry is owed only when they are
\* worth more than half of it.
Under(w) == Reduced - w * rscalar
Settled(w) == Under(w) \in 0 .. (w - 1) /\ (cf = 1 => 2 * Under(w) > w)

\* The digit of the block in work, and the entry that stands for it.
Digit == IF cf = 1 THEN 0 - j ELSE j
Entry == (Digit * Weight) % N

Types ==
  /\ scalar \in 0 .. (Pow2[Bits] - 1) /\ blocksize \in Blocksizes
  /\ rscalar \in Nat /\ table \in Nat /\ i \in Nat /\ cf \in {0, 1} /\ j \in Nat /\ acc \in Point
  /\ pc \in {"reduce", "loop", "entry", "add", "commit", "affine", "done"}

Counters ==
  /\ pc = "reduce" => i = 0 /\ cf = 0 /\ table = 0 /\ acc = 0
  /\ pc \in {"loop", "entry"} => table = B * i
  /\ pc \in {"add", "commit"} => table = B * (i + 1)
  /\ pc \in {"loop", "entry", "add", "commit"} => blocksize * i <= Bits
  /\ pc = "affine" => blocksize * i > Bits

BetweenBlocks ==
  pc \in {"loop", "affine"} =>
    Settled(Weight) /\ acc = (Under(Weight) - Weight * cf) % N

WithinBlock ==
  pc \in {"entry", "add", "commit"} =>
    /\ j <= B
    /\ Settled(Heavier)
    /\ acc = (Under(Heavier) - Heavier * cf - Digit * Weight) % N
    /\ j # 0 => Entry # acc /\ Entry # 0

Selected ==
  /\ pc \in {"add", "commit"} /\ j # 0 => tabent = Entry
  /\ pc = "commit" /\ j # 0 => nacc = Jadd(acc, tabent)

IInv == Types /\ Counters /\ BetweenBlocks /\ WithinBlock /\ Selected /\ Result

-----------------------------------------------------------------------------
(* Facts about a state that satisfies the invariant.                        *)

\* The ranges of the values in a state.
LEMMA StateFacts ==
  ASSUME Types
  PROVE  /\ blocksize \in Blocksizes /\ blocksize \in Nat /\ blocksize >= 2
         /\ i \in Nat /\ blocksize * i \in Nat /\ blocksize * (i + 1) \in Nat
         /\ B \in Nat /\ B >= 2 /\ B < N /\ Pow2[blocksize] = 2 * B
         /\ Weight \in Nat /\ Weight > 0 /\ Heavier = (2 * B) * Weight /\ Heavier \in Nat
         /\ N \in Nat /\ N > 0 /\ N % 2 = 1 /\ Pow2[Bits] \in Nat
         /\ Reduced \in 0 .. (N - 1) /\ scalar \in Nat /\ Reduced % N = scalar % N
<1>1. blocksize \in Blocksizes /\ blocksize \in Nat /\ blocksize >= 2 /\ i \in Nat /\ Bits \in Nat
  BY LastBlock DEF Types
<1>2. blocksize * i \in Nat /\ blocksize * (i + 1) \in Nat /\ blocksize * (i + 1) = blocksize * i + blocksize
  BY <1>1
<1>3. B \in Nat /\ B >= 2 /\ Pow2[blocksize] = 2 * B
  <2>1. blocksize - 1 \in Nat /\ blocksize - 2 \in Nat /\ blocksize = (blocksize - 1) + 1
        /\ blocksize - 1 = (blocksize - 2) + 1
    BY <1>1
  <2>2. Pow2[blocksize] = 2 * Pow2[blocksize - 1] /\ Pow2[blocksize - 1] = 2 * Pow2[blocksize - 2]
        /\ Pow2[blocksize - 2] \in Nat /\ Pow2[blocksize - 2] > 0
    BY <2>1, Pow2Facts
  <2>3. QED
    BY <2>2 DEF B
<1>4. Weight \in Nat /\ Weight > 0
  BY <1>2, Pow2Facts DEF Weight
<1>5. Heavier = (2 * B) * Weight /\ Heavier \in Nat
  <2>1. Heavier = Pow2[blocksize * i] * Pow2[blocksize]
    BY <1>1, <1>2, Pow2Sum DEF Heavier
  <2>2. Heavier = Weight * (2 * B)
    BY <1>3, <2>1 DEF Weight
  <2>3. QED
    BY <1>3, <1>4, <2>2
<1>6. N \in Nat /\ N > 0 /\ N % 2 = 1 /\ B < N /\ N < Pow2[Bits] /\ Pow2[Bits] < 2 * N
  BY <1>1, OrderBounds DEF B
<1>7. Pow2[Bits] \in Nat
  BY <1>1, Pow2Facts
<1>8. scalar \in Nat /\ scalar < Pow2[Bits]
  BY <1>7 DEF Types
<1>9. Reduced \in 0 .. (N - 1)
  BY <1>6, <1>7, <1>8 DEF Reduced
<1>10. Reduced % N = scalar % N
  <2>1. CASE scalar >= N
    <3>1. Reduced \in Int /\ scalar \in Int /\ 1 \in Int /\ scalar = Reduced + N * 1
      BY <1>6, <1>8, <2>1 DEF Reduced
    <3>2. N \in Nat /\ N > 0
      BY <1>6
    <3>3. scalar % N = Reduced % N
      BY <3>1, <3>2, ModShift
    <3>4. QED
      BY <3>3
  <2>2. CASE ~ (scalar >= N)
    BY <2>2 DEF Reduced
  <2>3. QED
    BY <2>1, <2>2
<1>11. QED
  BY <1>1, <1>2, <1>3, <1>4, <1>5, <1>6, <1>7, <1>8, <1>9, <1>10

\* The addition formulas give the sum of different points.
LEMMA JaddSum ==
  ASSUME NEW a \in Point, NEW e \in Point, N \in Nat, N > 0, a # e
  PROVE  Jadd(a, e) = (a + e) % N /\ Jadd(a, e) \in Point
<1>1. a \in Int /\ e \in Int /\ 0 <= a /\ a < N /\ 0 <= e /\ e < N
  BY DEF Point
<1>2. CASE a = 0
  <2>1. (a + e) % N = e
    BY <1>1, <1>2
  <2>2. QED
    BY <1>2, <2>1 DEF Jadd
<1>3. CASE a # 0 /\ e = 0
  <2>1. (a + e) % N = a
    BY <1>1, <1>3
  <2>2. QED
    BY <1>3, <2>1 DEF Jadd
<1>4. CASE a # 0 /\ e # 0
  <2>1. (a + e) % N \in Point
    BY <1>1 DEF Point
  <2>2. QED
    BY <1>4, <2>1 DEF Jadd
<1>5. QED
  BY <1>2, <1>3, <1>4

\* Negating an entry of the table negates the multiple.
LEMMA NegationMod ==
  ASSUME NEW x \in Int, N \in Nat, N > 0
  PROVE  Negation(x % N) = (0 - x) % N
<1> DEFINE e == x % N
           q == x \div N
<1>1. e \in Int /\ 0 <= e /\ e < N /\ q \in Int /\ x = N * q + e
  BY DivMod
<1> HIDE DEF e, q
<1>2. CASE e = 0
  <2>1. 0 - x = N * (0 - q) + 0 /\ 0 - q \in Int /\ 0 \in 0 .. (N - 1)
    BY <1>1, <1>2
  <2>2. (0 - x) % N = 0
    BY <2>1, DivUnique
  <2>3. QED
    BY <1>2, <2>2 DEF Negation, e
<1>3. CASE e # 0
  <2>1. 0 - x = N * (0 - q - 1) + (N - e) /\ 0 - q - 1 \in Int /\ N - e \in 0 .. (N - 1)
    BY <1>1, <1>3
  <2>2. (0 - x) % N = N - e
    BY <2>1, DivUnique
  <2>3. QED
    BY <1>3, <2>2 DEF Negation, e
<1>4. QED
  BY <1>2, <1>3

\* The entry of the block in work is a point.
LEMMA EntryPoint ==
  ASSUME Types
  PROVE  Entry \in Point /\ Digit \in Int /\ Digit * Weight \in Int
<1>1. Digit \in Int /\ Weight \in Int
  BY StateFacts DEF Digit, Types
<1>2. Digit * Weight \in Int
  BY <1>1
<1>3. QED
  BY <1>1, <1>2, StateFacts DEF Entry, Point

-----------------------------------------------------------------------------
(* The block.                                                               *)

\* For the digit d of a block the entry d * Weight is neither infinity nor the
\* accumulator.
LEMMA EntryApart ==
  ASSUME Types, Settled(Weight), blocksize * i <= Bits,
         NEW cn, NEW d, IsDigit(B, rscalar % (2 * B), cf, cn, d)
  PROVE  (d * Weight) % N # (Under(Weight) - Weight * cf) % N /\ (d * Weight) % N # 0
<1> DEFINE f == rscalar % (2 * B)
           w == Weight
           m == Under(Weight)
           E == d * w - (m - cf * w)
<1>1. /\ B \in Nat /\ B >= 2 /\ B < N /\ w \in Nat /\ w > 0 /\ N \in Nat /\ N > 0
      /\ rscalar \in Nat /\ cf \in {0, 1} /\ i \in Nat
  BY StateFacts DEF Types
<1>2. IsPrefix(w, m, cf)
  BY <1>1 DEF IsPrefix, Settled
<1>3. m \in Int /\ f \in Nat /\ f <= rscalar /\ Reduced = rscalar * w + m /\ Reduced < N
  <2>1. 2 * B \in Nat /\ 2 * B > 0
    BY <1>1
  <2>2. f \in Nat /\ f <= rscalar
    BY <1>1, <2>1
  <2>3. m = Reduced - w * rscalar /\ Reduced \in Nat /\ Reduced < N
    BY StateFacts DEF Under
  <2>4. w * rscalar = rscalar * w /\ w * rscalar \in Int
    BY <1>1
  <2>5. QED
    BY <2>2, <2>3, <2>4
<1>4. f * w + m < N
  <2>1. f * w <= rscalar * w
    BY <1>1, <1>3, Monotone
  <2>2. f * w \in Int /\ rscalar * w \in Int
    BY <1>1, <1>3
  <2>3. QED
    BY <1>1, <1>3, <2>1, <2>2
<1>5. d \in Int /\ d # 0 /\ 0 - N < d /\ d < N
  BY <1>1 DEF IsDigit
<1>6. E \in Int /\ ((E # 0 /\ 0 - N < E /\ E < N) \/ (N < E /\ E < 2 * N))
  <2>1. /\ blocksize \in Blocksizes /\ Last(blocksize) \in Nat /\ Last(blocksize) < Bits /\ Bits \in Nat
        /\ \/ blocksize * (i + 1) <= Last(blocksize)
           \/ blocksize * i = Last(blocksize)
           \/ blocksize * i = Bits
    BY <1>1, LastBlock DEF Types
  <2>2. /\ N < Pow2[Bits] /\ 2 * (Pow2[Bits] - N) < Pow2[Last(blocksize)]
        /\ Pow2[Last(blocksize)] < N /\ 2 * Pow2[Last(blocksize)] <= Pow2[Bits]
        /\ Pow2[Bits] \in Nat /\ Pow2[Last(blocksize)] \in Nat
    BY <2>1, OrderBounds, Pow2Facts
  <2>3. CASE blocksize * (i + 1) <= Last(blocksize)
    <3>1. Pow2[blocksize * (i + 1)] <= Pow2[Last(blocksize)]
      BY <2>1, <2>3, StateFacts, Pow2Grows
    <3>2. (2 * B) * w = Pow2[blocksize * (i + 1)]
      BY StateFacts DEF Heavier
    <3>3. (2 * B) * w <= N
      <4>1. (2 * B) * w \in Nat
        BY <1>1
      <4> HIDE DEF w
      <4>2. QED
        BY <1>1, <2>2, <3>1, <3>2, <4>1
    <3> HIDE DEF w, m, f, E
    <3>4. QED
      BY <1>1, <1>2, <3>3, ApartBelow DEF E, f
  <2>4. CASE blocksize * i = Last(blocksize)
    <3> DEFINE v == Pow2[Bits - Last(blocksize)]
               g == Pow2[Bits] - N
    <3>1. w = Pow2[Last(blocksize)]
      BY <2>4 DEF Weight
    <3>2. v \in Nat /\ v >= 2
      <4>1. Bits - Last(blocksize) - 1 \in Nat
            /\ Bits - Last(blocksize) = (Bits - Last(blocksize) - 1) + 1
        BY <2>1
      <4>2. v = 2 * Pow2[Bits - Last(blocksize) - 1] /\ Pow2[Bits - Last(blocksize) - 1] \in Nat
            /\ Pow2[Bits - Last(blocksize) - 1] > 0
        BY <4>1, Pow2Facts
      <4> HIDE DEF v
      <4>3. QED
        BY <4>2
    <3>3. Pow2[Bits] = v * w
      <4>1. Bits - Last(blocksize) \in Nat /\ Bits = Last(blocksize) + (Bits - Last(blocksize))
        BY <2>1
      <4>2. Pow2[Bits] = Pow2[Last(blocksize)] * v
        BY <2>1, <4>1, Pow2Sum
      <4> HIDE DEF v, w
      <4>3. QED
        BY <1>1, <3>1, <3>2, <4>2
    <3>4. g \in Nat /\ g > 0 /\ 2 * g < w /\ N = v * w - g
      <4> HIDE DEF v, w
      <4>1. QED
        BY <1>1, <2>2, <3>1, <3>3
    <3> HIDE DEF w, m, f, E, v, g
    <3>5. QED
      BY <1>1, <1>2, <1>4, <3>2, <3>4, ApartLast DEF E, f
  <2>5. CASE blocksize * i = Bits
    <3> DEFINE g == Pow2[Bits] - N
    <3>1. w = Pow2[Bits]
      BY <2>5 DEF Weight
    <3>2. rscalar = 0
      <4>1. CASE rscalar >= 1
        <5>1. 1 * w <= rscalar * w
          BY <1>1, <4>1, Monotone
        <5>2. m >= 0 /\ rscalar * w \in Int
          BY <1>1, <1>2 DEF IsPrefix
        <5> HIDE DEF w, m
        <5>3. QED
          BY <1>1, <1>3, <2>2, <3>1, <5>1, <5>2
      <4>2. QED
        BY <1>1, <4>1
    <3>3. f = 0
      BY <1>1, <1>3, <3>2
    <3>4. g \in Nat /\ g > 0 /\ 4 * g < w /\ N = w - g
      <4> HIDE DEF w
      <4>1. QED
        BY <1>1, <2>2, <3>1
    <3> HIDE DEF w, m, f, E, g
    <3>5. IsDigit(B, 0, cf, cn, d)
      BY <3>3 DEF f
    <3>6. QED
      BY <1>1, <1>2, <3>4, <3>5, ApartCarry DEF E
  <2>6. QED
    BY <2>1, <2>3, <2>4, <2>5
<1>7. d * w \in Int /\ m - w * cf \in Int /\ w * cf = cf * w
  BY <1>1, <1>3, <1>5
<1>8. ASSUME (d * w) % N = (m - w * cf) % N PROVE FALSE
  <2>1. PICK q \in Int : d * w - (m - w * cf) = N * q
    <3> HIDE DEF w, m
    <3>1. QED
      BY <1>1, <1>7, <1>8, SameResidue
  <2>2. E = N * q
    <3> HIDE DEF w, m
    <3>1. QED
      BY <1>7, <2>1 DEF E
  <2> HIDE DEF E
  <2>3. QED
    BY <1>1, <1>6, <2>1, <2>2, NotMultiple
<1>9. ASSUME (d * w) % N = 0 PROVE FALSE
  <2>1. d % N = 0
    BY <1>5, <1>9, StateFacts, OddDivisor DEF Weight
  <2>2. d = N * (d \div N) /\ d \div N \in Int
    <3>1. d = N * (d \div N) + (d % N) /\ d \div N \in Int /\ N * (d \div N) \in Int
      BY <1>1, <1>5, DivMod
    <3>2. QED
      BY <2>1, <3>1
  <2>3. QED
    BY <1>1, <1>5, <2>2, NotMultiple
<1>10. QED
  BY <1>8, <1>9

-----------------------------------------------------------------------------
(* The actions.                                                             *)

\* The invariant holds at entry.
LEMMA Initially == Init => IInv
<1> SUFFICES ASSUME Init PROVE IInv
  OBVIOUS
<1>1. blocksize \in Blocksizes /\ N \in Nat /\ N > 0
  BY OrderBounds DEF Init
<1>2. Types
  BY <1>1 DEF Init, Types, Point
<1>3. Counters
  BY DEF Init, Counters
<1>4. BetweenBlocks /\ WithinBlock /\ Selected /\ Result
  BY DEF Init, BetweenBlocks, WithinBlock, Selected, Result
<1>5. QED
  BY <1>2, <1>3, <1>4 DEF IInv

\* Before the first block nothing is below the weight.
LEMMA ReduceStep == IInv /\ Reduce => IInv'
<1> SUFFICES ASSUME IInv, Reduce PROVE IInv'
  OBVIOUS
<1>1. /\ pc = "reduce" /\ pc' = "loop" /\ rscalar' = Reduced
      /\ i' = 0 /\ i = 0 /\ cf' = 0 /\ table' = 0 /\ acc' = 0
      /\ UNCHANGED <<scalar, blocksize, table, i, cf, j, tabent, acc, nacc, res>>
  BY DEF IInv, Counters, Reduce, Reduced
<1>2. Types /\ Reduced \in 0 .. (N - 1) /\ B \in Nat /\ blocksize \in Nat /\ N \in Nat /\ N > 0
      /\ Bits \in Nat
  BY StateFacts, BitsAssumption DEF IInv
<1>3. Types'
  BY <1>1, <1>2 DEF Types
<1>4. Weight' = 1 /\ Under(Weight)' = 0
  <2>1. blocksize' * i' = 0 /\ Pow2[0] = 1
    BY <1>1, <1>2, Pow2Facts
  <2>2. Weight' = 1
    BY <2>1 DEF Weight
  <2>3. Reduced' = Reduced
    BY <1>1 DEF Reduced
  <2>4. Under(Weight)' = Reduced - 1 * Reduced
    BY <1>1, <2>2, <2>3 DEF Under
  <2>5. QED
    BY <1>2, <2>2, <2>4
<1>5. Counters'
  <2>1. B' = B /\ B * 0 = 0 /\ blocksize * 0 = 0
    BY <1>1, <1>2 DEF B
  <2>2. QED
    BY <1>1, <1>2, <2>1 DEF Counters
<1>6. BetweenBlocks'
  <2>1. (Under(Weight) - Weight * cf)' = 0
    BY <1>1, <1>4
  <2>2. 0 % N = 0
    BY <1>2
  <2>3. Settled(Weight)'
    BY <1>1, <1>4 DEF Settled
  <2>4. QED
    BY <1>1, <2>1, <2>2, <2>3 DEF BetweenBlocks
<1>7. WithinBlock' /\ Selected' /\ Result'
  BY <1>1 DEF WithinBlock, Selected, Result
<1>8. QED
  BY <1>3, <1>5, <1>6, <1>7 DEF IInv

\* What a block turns into: the digit, and the bits below the next block.
LEMMA BlockDigit ==
  ASSUME IInv, Block
  PROVE  /\ j' \in Nat /\ j' <= B /\ cf' \in {0, 1}
         /\ Digit' = (rscalar % (2 * B)) + cf - 2 * B * cf' /\ (j' # 0 <=> Digit' # 0)
         /\ (rscalar % (2 * B)) + cf <= B => cf' = 0
         /\ (rscalar % (2 * B)) + cf > B => cf' = 1
<1> DEFINE f == rscalar % (2 * B)
<1>1. B \in Nat /\ B >= 2 /\ Pow2[blocksize] = 2 * B /\ rscalar \in Nat /\ cf \in {0, 1}
  BY StateFacts DEF IInv, Types
<1>2. f \in 0 .. (2 * B - 1)
  <2>1. 2 * B \in Nat /\ 2 * B > 0
    BY <1>1
  <2>2. QED
    BY <1>1, <2>1
<1>3. IF f + cf <= B THEN cf' = 0 /\ j' = f + cf ELSE cf' = 1 /\ j' = 2 * B - (f + cf)
  BY <1>1 DEF Block
<1> HIDE DEF f
<1>4. CASE f + cf <= B
  BY <1>1, <1>2, <1>3, <1>4 DEF Digit, f
<1>5. CASE ~ (f + cf <= B)
  <2>1. cf' = 1 /\ j' = 2 * B - (f + cf) /\ j' \in Nat /\ j' <= B
    BY <1>1, <1>2, <1>3, <1>5
  <2>2. Digit' = f + cf - 2 * B * cf'
    BY <1>1, <1>2, <2>1 DEF Digit
  <2>3. QED
    BY <1>1, <1>2, <1>5, <2>1, <2>2 DEF f
<1>6. QED
  BY <1>4, <1>5

\* The accumulator of a block in terms of the block before it and after it.
Balanced(m, w, f, b, c, cn) ==
  (m + f * w) - ((2 * b) * w) * cn - (f + c - 2 * b * cn) * w = m - w * c

\* Taking a digit off the scalar moves its weight, and the carry, to the next block.
LEMMA BlockBalance ==
  \A m, w, f, b \in Int, c, cn \in {0, 1} : Balanced(m, w, f, b, c, cn)
<1> SUFFICES ASSUME NEW m \in Int, NEW w \in Int, NEW f \in Int, NEW b \in Int,
                    NEW c \in {0, 1}, NEW cn \in {0, 1}
             PROVE  (m + f * w) - ((2 * b) * w) * cn - (f + c - 2 * b * cn) * w = m - w * c
  BY DEF Balanced
<1>1. f * w \in Int /\ w * c \in Int /\ (2 * b) * w \in Int
  OBVIOUS
<1>2. CASE cn = 0
  <2>1. (f + c - 2 * b * cn) * w = f * w + w * c
    BY <1>2
  <2>2. ((2 * b) * w) * cn = 0
    BY <1>2
  <2>3. QED
    BY <1>1, <2>1, <2>2
<1>3. CASE cn = 1
  <2>1. (f + c - 2 * b * cn) * w = f * w + w * c - (2 * b) * w
    BY <1>3
  <2>2. ((2 * b) * w) * cn = (2 * b) * w
    BY <1>1, <1>3
  <2>3. QED
    BY <1>1, <2>1, <2>2
<1>4. QED
  BY <1>2, <1>3

\* Forming the digit of a block keeps the invariant.
LEMMA BlockStep == IInv /\ Block => IInv'
<1> SUFFICES ASSUME IInv, Block PROVE IInv'
  OBVIOUS
<1> DEFINE f == rscalar % (2 * B)
           q == rscalar \div (2 * B)
           w == Weight
           m == Under(Weight)
<1>1. /\ pc = "loop" /\ pc' = "entry" /\ rscalar' = rscalar \div Pow2[blocksize]
      /\ UNCHANGED <<scalar, blocksize, table, i, tabent, acc, nacc, res>>
  BY DEF Block
<1>2. /\ B \in Nat /\ B >= 2 /\ Pow2[blocksize] = 2 * B /\ rscalar \in Nat /\ cf \in {0, 1}
      /\ w \in Nat /\ w > 0 /\ Heavier = (2 * B) * w /\ Reduced \in Nat
  BY StateFacts DEF IInv, Types
<1>3. f \in 0 .. (2 * B - 1) /\ q \in Nat /\ rscalar = (2 * B) * q + f
  <2>1. 2 * B \in Nat /\ 2 * B > 0
    BY <1>2
  <2>2. q \in Int /\ f \in 0 .. (2 * B - 1) /\ rscalar = (2 * B) * q + f
    BY <1>2, <2>1, DivMod
  <2>3. q \in Nat
    BY <1>2, <2>1
  <2>4. QED
    BY <2>2, <2>3
<1>4. /\ j' \in Nat /\ j' <= B /\ cf' \in {0, 1}
      /\ Digit' = f + cf - 2 * B * cf' /\ (j' # 0 <=> Digit' # 0)
      /\ (f + cf <= B => cf' = 0) /\ (f + cf > B => cf' = 1)
  BY BlockDigit
<1>5. Types'
  BY <1>1, <1>2, <1>3, <1>4 DEF IInv, Types
<1>6. Weight' = w /\ Heavier' = Heavier /\ B' = B /\ Reduced' = Reduced
  BY <1>1 DEF Weight, Heavier, B, Reduced
<1>7. Counters'
  BY <1>1, <1>6 DEF IInv, Counters
<1>8. Settled(Weight) /\ acc = (m - w * cf) % N /\ m \in 0 .. (w - 1) /\ (cf = 1 => 2 * m > w)
  BY <1>1 DEF IInv, BetweenBlocks, Settled
<1>9. Under(Heavier)' = m + f * w
  <2>1. Under(Heavier)' = Reduced - ((2 * B) * w) * q
    BY <1>1, <1>2, <1>6 DEF Under
  <2>2. m = Reduced - w * rscalar
    BY DEF Under
  <2>3. w * rscalar = ((2 * B) * w) * q + f * w
    <3> HIDE DEF w, q, f
    <3>1. w * ((2 * B) * q + f) = ((2 * B) * w) * q + f * w
      BY <1>2, <1>3
    <3>2. QED
      BY <1>3, <3>1
  <2>4. ((2 * B) * w) * q \in Int /\ f * w \in Int
    BY <1>2, <1>3
  <2> HIDE DEF w, q, f, m
  <2>5. QED
    BY <1>2, <2>1, <2>2, <2>3, <2>4
<1>10. Settled(Heavier)'
  <2>1. f * w \in Nat /\ f * w <= (2 * B - 1) * w /\ (2 * B - 1) * w = (2 * B) * w - w
    <3>1. 2 * B - 1 \in Int /\ f \in Int
      BY <1>2, <1>3
    <3> HIDE DEF f
    <3>2. f * w <= (2 * B - 1) * w
      BY <1>2, <1>3, <3>1, Monotone
    <3>3. QED
      BY <1>2, <1>3, <3>2
  <2>2. m + f * w \in 0 .. ((2 * B) * w - 1)
    <3> HIDE DEF m, f, w
    <3>1. (2 * B) * w \in Int
      BY <1>2
    <3>2. QED
      BY <1>2, <1>8, <2>1, <3>1
  <2>3. ASSUME cf' = 1 PROVE 2 * (m + f * w) > (2 * B) * w
    <3>1. f + cf > B
      BY <1>2, <1>3, <1>4, <2>3
    <3>2. B * w \in Int /\ (2 * B) * w = 2 * (B * w) /\ (B + 1) * w = B * w + w
      BY <1>2
    <3>3. CASE cf = 0
      <4>1. (B + 1) * w <= f * w
        <5>1. B + 1 \in Int /\ f \in Int /\ B + 1 <= f
          BY <1>2, <1>3, <3>1, <3>3
        <5> HIDE DEF f
        <5>2. QED
          BY <1>2, <5>1, Monotone
      <4> HIDE DEF m, f, w
      <4>2. QED
        BY <1>2, <1>8, <2>1, <3>2, <4>1
    <3>4. CASE cf = 1
      <4>1. B * w <= f * w
        <5>1. f \in Int /\ B <= f
          BY <1>2, <1>3, <3>1, <3>4
        <5> HIDE DEF f
        <5>2. QED
          BY <1>2, <5>1, Monotone
      <4> HIDE DEF m, f, w
      <4>2. QED
        BY <1>2, <1>8, <2>1, <3>2, <3>4, <4>1
    <3>5. QED
      BY <1>2, <3>3, <3>4
  <2> HIDE DEF m, f, w
  <2>4. QED
    BY <1>2, <1>6, <1>9, <2>2, <2>3 DEF Settled
<1>11. acc' = (Under(Heavier)' - Heavier' * cf' - Digit' * Weight') % N
  <2>1. Under(Heavier)' = m + f * w /\ Heavier' = (2 * B) * w /\ Weight' = w
        /\ Digit' = f + cf - 2 * B * cf'
    BY <1>2, <1>4, <1>6, <1>9
  <2>2. m \in Int /\ w \in Int /\ f \in Int /\ B \in Int
    BY <1>2, <1>3, <1>8
  <2> DEFINE u == Under(Heavier)'
             h == Heavier'
             d == Digit'
             v == Weight'
  <2>3. u = m + f * w /\ h = (2 * B) * w /\ v = w /\ d = f + cf - 2 * B * cf'
    BY <2>1
  <2> HIDE DEF m, f, w, u, h, d, v
  <2>4. u - h * cf' - d * v = m - w * cf
    <3>1. cf \in {0, 1} /\ cf' \in {0, 1}
      BY <1>2, <1>4
    <3>2. Balanced(m, w, f, B, cf, cf')
      BY <2>2, <3>1, BlockBalance
    <3>3. (m + f * w) - ((2 * B) * w) * cf' - (f + cf - 2 * B * cf') * w = m - w * cf
      BY <3>2, Zenon DEF Balanced
    <3>4. QED
      BY <2>3, <3>3, Zenon
  <2>5. acc' = (m - w * cf) % N
    BY <1>1, <1>8
  <2>6. acc' = (u - h * cf' - d * v) % N
    BY <2>4, <2>5
  <2>7. QED
    BY <2>6 DEF u, h, d, v
<1>12. ASSUME j' # 0 PROVE Entry' # acc' /\ Entry' # 0
  <2>1. IsDigit(B, f, cf, cf', Digit')
    BY <1>2, <1>3, <1>4, <1>12 DEF IsDigit
  <2>2. Types /\ blocksize * i <= Bits
    BY <1>1 DEF IInv, Counters
  <2>3. (Digit' * Weight) % N # (Under(Weight) - Weight * cf) % N /\ (Digit' * Weight) % N # 0
    BY <1>8, <2>1, <2>2, EntryApart
  <2>4. Entry' = (Digit' * Weight) % N
    BY <1>6 DEF Entry
  <2>5. QED
    BY <1>1, <1>8, <2>3, <2>4
<1>13. WithinBlock'
  BY <1>1, <1>4, <1>6, <1>10, <1>11, <1>12 DEF WithinBlock
<1>14. BetweenBlocks' /\ Selected' /\ Result'
  BY <1>1 DEF BetweenBlocks, Selected, Result
<1>15. QED
  BY <1>5, <1>7, <1>13, <1>14 DEF IInv

\* The entry j of the table for the block in work.
LEMMA TableEntry ==
  ASSUME Types, table = B * i, j \in 1 .. B
  PROVE  Tabulation(table + j - 1) = (j * Weight) % N
<1>1. B \in Nat /\ B > 0 /\ i \in Int /\ j - 1 \in 0 .. (B - 1) /\ Weight \in Nat
  BY StateFacts
<1>2. (B * i + (j - 1)) \div B = i /\ (B * i + (j - 1)) % B = j - 1
  BY <1>1, DivUnique
<1>3. table + j - 1 = B * i + (j - 1)
  BY <1>1
<1>4. Tabulation(table + j - 1) = (Weight * ((j - 1) + 1)) % N
  BY <1>2, <1>3 DEF Tabulation, Weight
<1>5. Weight * ((j - 1) + 1) = j * Weight
  BY <1>1
<1>6. QED
  BY <1>4, <1>5

\* The scan finds the entry of the digit.
LEMMA SelectEntryStep == IInv /\ SelectEntry => IInv'
<1> SUFFICES ASSUME IInv, SelectEntry PROVE IInv'
  OBVIOUS
<1>1. /\ pc = "entry" /\ pc' = "add" /\ table' = table + B
      /\ tabent' = IF j = 0 THEN NotAPoint
                   ELSE LET e == Tabulation(table + j - 1)
                        IN  IF cf = 1 THEN Negation(e) ELSE e
      /\ UNCHANGED <<scalar, blocksize, rscalar, i, cf, j, acc, nacc, res>>
  BY DEF SelectEntry
<1>2. /\ Types /\ B \in Nat /\ i \in Nat /\ j \in Nat /\ cf \in {0, 1} /\ Weight \in Nat
      /\ N \in Nat /\ N > 0 /\ table = B * i /\ blocksize * i <= Bits /\ j <= B
  BY <1>1, StateFacts DEF IInv, Types, Counters, WithinBlock
<1>3. B' = B /\ Weight' = Weight /\ Heavier' = Heavier /\ Reduced' = Reduced
      /\ Digit' = Digit /\ Entry' = Entry
  BY <1>1 DEF B, Weight, Heavier, Reduced, Digit, Entry
<1>4. table' = B' * (i' + 1) /\ table' \in Nat
  BY <1>1, <1>2, <1>3
<1>5. Types' /\ Counters'
  BY <1>1, <1>2, <1>4 DEF Types, Counters
<1>6. Settled(Heavier)' <=> Settled(Heavier)
  BY <1>1, <1>3 DEF Settled, Under
<1>7. Under(Heavier)' = Under(Heavier)
  BY <1>1, <1>3 DEF Under
<1>8. WithinBlock'
  BY <1>1, <1>3, <1>6, <1>7 DEF IInv, WithinBlock
<1>9. ASSUME j # 0 PROVE tabent' = Entry
  <2>1. j \in 1 .. B /\ j * Weight \in Int
    BY <1>2, <1>9
  <2>2. Tabulation(table + j - 1) = (j * Weight) % N
    BY <1>2, <2>1, TableEntry
  <2>3. CASE cf = 1
    <3>1. tabent' = Negation((j * Weight) % N)
      BY <1>1, <1>9, <2>2, <2>3
    <3>2. tabent' = (0 - j * Weight) % N
      BY <1>2, <2>1, <3>1, NegationMod
    <3>3. (0 - j) * Weight = 0 - j * Weight
      BY <1>2
    <3>4. QED
      BY <2>3, <3>2, <3>3 DEF Entry, Digit
  <2>4. CASE cf # 1
    BY <1>1, <1>9, <2>2, <2>4 DEF Entry, Digit
  <2>5. QED
    BY <2>3, <2>4
<1>10. Selected'
  BY <1>1, <1>3, <1>9 DEF Selected
<1>11. BetweenBlocks' /\ Result'
  BY <1>1 DEF BetweenBlocks, Result
<1>12. QED
  BY <1>5, <1>8, <1>10, <1>11 DEF IInv

\* What the addition, given the entry, proposes.
LEMMA AddEntryStep == IInv /\ AddEntry => IInv'
<1> SUFFICES ASSUME IInv, AddEntry PROVE IInv'
  OBVIOUS
<1>1. /\ pc = "add" /\ pc' = "commit"
      /\ nacc' = IF tabent = NotAPoint THEN NotAPoint ELSE Jadd(acc, tabent)
      /\ UNCHANGED <<scalar, blocksize, rscalar, table, i, cf, j, tabent, acc, res>>
  BY DEF AddEntry
<1>2. B' = B /\ Weight' = Weight /\ Heavier' = Heavier /\ Reduced' = Reduced
      /\ Digit' = Digit /\ Entry' = Entry
  BY <1>1 DEF B, Weight, Heavier, Reduced, Digit, Entry
<1>3. Types' /\ Counters'
  BY <1>1, <1>2 DEF IInv, Types, Counters
<1>4. (Settled(Heavier)' <=> Settled(Heavier)) /\ Under(Heavier)' = Under(Heavier)
  BY <1>1, <1>2 DEF Settled, Under
<1>5. WithinBlock'
  BY <1>1, <1>2, <1>4 DEF IInv, WithinBlock
<1>6. ASSUME j # 0 PROVE tabent = Entry /\ nacc' = Jadd(acc, tabent)
  <2>1. tabent = Entry
    BY <1>1, <1>6 DEF IInv, Selected
  <2>2. Entry \in Point /\ N \in Nat
    BY EntryPoint, StateFacts DEF IInv
  <2>3. tabent # NotAPoint
    BY <2>1, <2>2 DEF Point, NotAPoint
  <2>4. QED
    BY <1>1, <2>1, <2>3
<1>7. Selected'
  BY <1>1, <1>2, <1>6 DEF Selected
<1>8. BetweenBlocks' /\ Result'
  BY <1>1 DEF BetweenBlocks, Result
<1>9. QED
  BY <1>3, <1>5, <1>7, <1>8 DEF IInv

\* The block's digit is added, and the next block's weight is the heavier one.
LEMMA CommitStep == IInv /\ Commit => IInv'
<1> SUFFICES ASSUME IInv, Commit PROVE IInv'
  OBVIOUS
<1> DEFINE X == Under(Heavier) - Heavier * cf
           D == Digit * Weight
<1>1. /\ pc = "commit" /\ acc' = (IF j # 0 THEN nacc ELSE acc) /\ i' = i + 1
      /\ pc' = (IF blocksize * (i + 1) < Bits + 1 THEN "loop" ELSE "affine")
      /\ UNCHANGED <<scalar, blocksize, rscalar, table, cf, j, tabent, nacc, res>>
  BY DEF Commit
<1>2. /\ Types /\ B \in Nat /\ i \in Nat /\ j \in Nat /\ cf \in {0, 1} /\ rscalar \in Nat
      /\ Heavier \in Nat /\ Reduced \in Nat /\ N \in Nat /\ N > 0 /\ Bits \in Nat
      /\ table = B * (i + 1) /\ blocksize * (i + 1) \in Nat /\ acc \in Point
  BY <1>1, StateFacts, BitsAssumption DEF IInv, Types, Counters
<1>3. B' = B /\ Weight' = Heavier /\ Reduced' = Reduced
  BY <1>1 DEF B, Weight, Heavier, Reduced
<1>4. Under(Weight)' = Under(Heavier)
  BY <1>1, <1>3 DEF Under
<1>5. Settled(Weight)'
  BY <1>1, <1>3, <1>4 DEF IInv, WithinBlock, Settled
<1>6. X \in Int /\ D \in Int /\ X - D \in Int /\ (X - D) + D = X
  BY <1>2, EntryPoint DEF Under
<1>7. acc = (X - D) % N
  BY <1>1 DEF IInv, WithinBlock
<1>8. acc' = X % N
  <2>1. CASE j = 0
    <3>1. D = 0
      BY <1>2, <2>1, StateFacts DEF Digit
    <3>2. X - D = X
      BY <1>6, <3>1
    <3>3. QED
      BY <1>1, <1>7, <2>1, <3>2
  <2>2. CASE j # 0
    <3>1. acc' = Jadd(acc, Entry) /\ Entry # acc
      BY <1>1, <2>2 DEF IInv, Selected, WithinBlock
    <3>2. Entry \in Point /\ Entry = D % N
      BY <1>2, EntryPoint DEF Entry
    <3>3. acc' = (acc + Entry) % N
      BY <1>2, <3>1, <3>2, JaddSum
    <3> HIDE DEF X, D
    <3>4. (((X - D) % N) + (D % N)) % N = ((X - D) + D) % N
      BY <1>2, <1>6, ModPlus
    <3>5. QED
      BY <1>6, <1>7, <3>2, <3>3, <3>4
  <2>3. QED
    BY <2>1, <2>2
<1>9. acc' \in Point
  BY <1>2, <1>6, <1>8 DEF Point
<1>10. Types'
  BY <1>1, <1>2, <1>9 DEF Types
<1>11. Counters'
  BY <1>1, <1>2, <1>3 DEF Counters
<1>12. BetweenBlocks'
  <2>1. (Under(Weight) - Weight * cf)' = X
    BY <1>1, <1>3, <1>4
  <2>2. QED
    BY <1>1, <1>5, <1>8, <2>1 DEF BetweenBlocks
<1>13. WithinBlock' /\ Selected' /\ Result'
  BY <1>1 DEF WithinBlock, Selected, Result
<1>14. QED
  BY <1>10, <1>11, <1>12, <1>13 DEF IInv

\* After the last block nothing is left and no carry is owed.
LEMMA Finished ==
  ASSUME IInv, pc = "affine"
  PROVE  acc = scalar % N
<1>1. /\ Settled(Weight) /\ acc = (Under(Weight) - Weight * cf) % N
      /\ blocksize * i > Bits /\ Types /\ cf \in {0, 1} /\ rscalar \in Nat
  BY DEF IInv, BetweenBlocks, Counters, Types
<1>2. /\ blocksize * i \in Nat /\ Weight \in Nat /\ Reduced \in 0 .. (N - 1)
      /\ Reduced % N = scalar % N /\ N \in Nat /\ Bits \in Nat /\ Pow2[Bits] \in Nat
  BY <1>1, StateFacts, BitsAssumption
<1>3. 2 * Pow2[Bits] <= Weight /\ N < Pow2[Bits]
  BY <1>1, <1>2, StateFacts, OrderBounds, Pow2Grows DEF Weight
<1>4. rscalar = 0
  <2>1. CASE rscalar >= 1
    <3>1. 1 * Weight <= rscalar * Weight
      BY <1>1, <1>2, <2>1, Monotone
    <3>2. Weight * rscalar = rscalar * Weight /\ Weight * rscalar \in Int
      BY <1>1, <1>2
    <3>3. Reduced - Weight * rscalar >= 0
      BY <1>1 DEF Settled, Under
    <3>4. QED
      BY <1>2, <1>3, <3>1, <3>2, <3>3
  <2>2. QED
    BY <1>1, <2>1
<1>5. Under(Weight) = Reduced
  BY <1>2, <1>4 DEF Under
<1>6. cf = 0
  BY <1>1, <1>2, <1>3, <1>5 DEF Settled
<1>7. Under(Weight) - Weight * cf = Reduced
  BY <1>2, <1>5, <1>6
<1>8. QED
  BY <1>1, <1>2, <1>7

\* The conversion at the end returns what the scalar is worth.
LEMMA AffineStep == IInv /\ Affine => IInv'
<1> SUFFICES ASSUME IInv, Affine PROVE IInv'
  OBVIOUS
<1>1. /\ pc = "affine" /\ pc' = "done" /\ res' = acc
      /\ UNCHANGED <<scalar, blocksize, rscalar, table, i, cf, j, tabent, acc, nacc>>
  BY DEF Affine
<1>2. acc = scalar % N
  BY <1>1, Finished
<1>3. Types'
  BY <1>1 DEF IInv, Types
<1>4. Counters' /\ BetweenBlocks' /\ WithinBlock' /\ Selected' /\ Result'
  BY <1>1, <1>2 DEF Counters, BetweenBlocks, WithinBlock, Selected, Result
<1>5. QED
  BY <1>3, <1>4 DEF IInv

\* A stutter keeps the invariant.
LEMMA StutterStep == IInv /\ UNCHANGED vars => IInv'
<1> SUFFICES ASSUME IInv, UNCHANGED vars PROVE IInv'
  OBVIOUS
<1>1. UNCHANGED <<scalar, blocksize, rscalar, table, i, cf, j, tabent, acc, nacc, res, pc>>
  BY DEF vars
<1>2. B' = B /\ Weight' = Weight /\ Heavier' = Heavier /\ Reduced' = Reduced
      /\ Digit' = Digit /\ Entry' = Entry
  BY <1>1 DEF B, Weight, Heavier, Reduced, Digit, Entry
<1>3. /\ (Settled(Weight)' <=> Settled(Weight)) /\ (Settled(Heavier)' <=> Settled(Heavier))
      /\ Under(Weight)' = Under(Weight) /\ Under(Heavier)' = Under(Heavier)
  BY <1>1, <1>2 DEF Settled, Under
<1>4. Types' /\ Counters' /\ Result' /\ Selected'
  BY <1>1, <1>2 DEF IInv, Types, Counters, Result, Selected
<1>5. BetweenBlocks' /\ WithinBlock'
  BY <1>1, <1>2, <1>3 DEF IInv, BetweenBlocks, WithinBlock
<1>6. QED
  BY <1>4, <1>5 DEF IInv

\* The invariant holds in every state of a call.
LEMMA Invariance == Spec => []IInv
<1>1. Init => IInv
  BY Initially
<1>2. IInv /\ [Next]_vars => IInv'
  <2> SUFFICES ASSUME IInv, [Next]_vars PROVE IInv'
    OBVIOUS
  <2>1. CASE Reduce
    BY <2>1, ReduceStep
  <2>2. CASE Block
    BY <2>2, BlockStep
  <2>3. CASE SelectEntry
    BY <2>3, SelectEntryStep
  <2>4. CASE AddEntry
    BY <2>4, AddEntryStep
  <2>5. CASE Commit
    BY <2>5, CommitStep
  <2>6. CASE Affine
    BY <2>6, AffineStep
  <2>7. CASE Returned
    BY <2>7, StutterStep DEF Returned
  <2>8. CASE UNCHANGED vars
    BY <2>8, StutterStep
  <2>9. QED
    BY <2>1, <2>2, <2>3, <2>4, <2>5, <2>6, <2>7, <2>8 DEF Next
<1>3. QED
  BY <1>1, <1>2, PTL DEF Spec

-----------------------------------------------------------------------------
(* The properties of the runs, for every order, width and block size.       *)

\* The loop of p256_scalarmulbase keeps acc at the multiple of P by the blocks
\* it has processed, less the deferred carry.
THEOREM BasePrefixCorrect == Spec => []PrefixOK
<1>1. IInv => PrefixOK
  <2> SUFFICES ASSUME IInv, pc \in {"loop", "affine"}
               PROVE  (acc + Pow2[blocksize * i] * (rscalar + cf)) % N = scalar % N
    BY DEF PrefixOK
  <2> DEFINE U == Under(Weight) - Weight * cf
             Z == Weight * (rscalar + cf)
  <2>1. /\ acc = U % N /\ Types /\ cf \in Int /\ rscalar \in Int
    BY DEF IInv, BetweenBlocks, Types
  <2>2. /\ Weight \in Int /\ Reduced \in Int /\ Reduced % N = scalar % N /\ N \in Nat /\ N > 0
    BY <2>1, StateFacts
  <2>3. U \in Int /\ Z \in Int /\ U + Z = Reduced
    BY <2>1, <2>2 DEF Under
  <2> HIDE DEF U, Z
  <2>4. PICK q \in Int : (U % N) \in Int /\ U = N * q + (U % N)
    BY <2>2, <2>3, DivMod
  <2>5. PICK y \in Int : y = acc + Z /\ Reduced = y + N * q
    BY <2>1, <2>2, <2>3, <2>4
  <2>6. Reduced % N = y % N
    BY <2>2, <2>5, ModShift
  <2>7. QED
    BY <2>2, <2>5, <2>6 DEF Z, Weight
<1>2. QED
  BY <1>1, Invariance, PTL

\* The scan of a block by p256_scalarmulbase stays inside the table its caller
\* promised.
THEOREM BaseTableBounds == Spec => []TableBounds
<1>1. IInv => TableBounds
  <2> SUFFICES ASSUME IInv, pc = "entry" PROVE table + B <= TableLength
    BY DEF TableBounds
  <2>1. /\ table = B * i /\ blocksize * i <= Bits /\ Types
    BY DEF IInv, Counters
  <2>2. B \in Nat /\ i \in Nat /\ blocksize \in Nat /\ blocksize > 0 /\ Bits \in Nat
    BY <2>1, StateFacts, BitsAssumption
  <2>3. i <= Bits \div blocksize /\ Bits \div blocksize \in Int
    <3>1. PICK q, r \in Int : q = Bits \div blocksize /\ Bits = blocksize * q + r /\ r < blocksize
      BY <2>2, DivMod
    <3>2. CASE i >= q + 1
      <4>1. (q + 1) * blocksize <= i * blocksize
        BY <2>2, <3>1, <3>2, Monotone
      <4>2. (q + 1) * blocksize = blocksize * q + blocksize /\ i * blocksize = blocksize * i
        BY <2>2, <3>1
      <4>3. blocksize * q \in Int /\ blocksize * i \in Int
        BY <2>2, <3>1
      <4>4. QED
        BY <2>1, <2>2, <3>1, <4>1, <4>2, <4>3
    <3>3. QED
      BY <2>2, <3>1, <3>2
  <2>4. (i + 1) * B <= ((Bits \div blocksize) + 1) * B
    <3>1. PICK q \in Int : q = Bits \div blocksize
      BY <2>3
    <3>2. (i + 1) * B <= (q + 1) * B
      BY <2>2, <2>3, <3>1, Monotone
    <3>3. QED
      BY <3>1, <3>2
  <2>5. table + B = (i + 1) * B
    BY <2>1, <2>2
  <2>6. ((Bits \div blocksize) + 1) * B = B * ((Bits \div blocksize) + 1)
    BY <2>2, <2>3
  <2>7. QED
    BY <2>4, <2>5, <2>6 DEF TableLength
<1>2. QED
  BY <1>1, Invariance, PTL

\* p256_scalarmulbase never gives its mixed addition a point and the same
\* point, nor the point at infinity as the entry.
THEOREM BaseNoDegenerateAddition == Spec => []NoDegenerateAdd
<1>1. IInv => NoDegenerateAdd
  <2> SUFFICES ASSUME IInv, pc = "add", j # 0
               PROVE  tabent \in Point \ {0} /\ acc # tabent
    BY DEF NoDegenerateAdd
  <2>1. tabent = Entry /\ Entry # acc /\ Entry # 0
    BY DEF IInv, Selected, WithinBlock
  <2>2. Entry \in Point
    BY EntryPoint DEF IInv
  <2>3. QED
    BY <2>1, <2>2
<1>2. QED
  BY <1>1, Invariance, PTL

\* p256_scalarmulbase returns scalar * P.
THEOREM BaseResultCorrect == Spec => []Result
<1>1. IInv => Result
  BY DEF IInv
<1>2. QED
  BY <1>1, Invariance, PTL
=============================================================================

--------------------------- MODULE ScalarMulProofs ---------------------------
(***************************************************************************)
(* ScalarMul is correct for every group order, radix, number of windows    *)
(* and threshold that satisfy its assumptions: the table, the recoding and *)
(* the main loop compute scalar * P, and no addition on the way is one the *)
(* addition formulas get wrong.                                            *)
(***************************************************************************)
EXTENDS ScalarMul, ArithmeticFacts

-----------------------------------------------------------------------------
(* The constants.                                                           *)

\* The ranges of the parameters, collected.
LEMMA Parameters ==
  /\ N \in Nat /\ R \in Nat /\ H \in Nat /\ Windows \in Nat
  /\ H >= 2 /\ R = 2 * H /\ N > R /\ Windows >= 1
  /\ MaxScalar \in Nat /\ Threshold \in Nat /\ Threshold >= 1
BY RadixAssumption, OrderAssumption, WindowsAssumption, ScalarAssumption,
   ThresholdAssumption

\* The reduced and possibly negated scalar is below the order.
LEMMA LargestBound ==
  /\ Largest \in 0 .. (N - 1)
  /\ Threshold < N => N - Threshold <= Largest
  /\ Threshold - 1 <= Largest \/ N - 1 <= Largest
BY Parameters DEF Largest

\* The weights of the windows are the powers of the radix.
LEMMA WeightFacts ==
  /\ Weight \in [Nat -> Nat] /\ Weight[0] = 1
  /\ \A i \in Nat : Weight[i + 1] = R * Weight[i] /\ Weight[i] > 0
<1>1. R \in Nat /\ 1 \in Nat
  BY Parameters
<1>2. \E f : f = [i \in Nat |-> IF i = 0 THEN 1 ELSE R * f[i - 1]]
  BY <1>1, GeometricExists
<1>3. IsGeometric(Weight, 1, R)
  BY <1>2 DEF Weight, IsGeometric
<1>4. Weight \in [Nat -> Nat] /\ Weight[0] = 1 /\ \A i \in Nat : Weight[i + 1] = R * Weight[i]
  BY <1>1, <1>3, GeometricFacts
<1> DEFINE T == {i \in Nat : Weight[i] > 0}
<1>5. 0 \in T
  BY <1>4
<1>6. ASSUME NEW i \in T PROVE i + 1 \in T
  <2>1. i \in Nat /\ Weight[i] \in Nat /\ Weight[i] > 0
    BY <1>4
  <2>2. R * Weight[i] > 0
    BY <2>1, Parameters
  <2>3. QED
    BY <1>4, <2>1, <2>2
<1>7. T = Nat
  <2>1. T \in SUBSET Nat
    OBVIOUS
  <2> HIDE DEF T
  <2>2. QED
    BY <1>5, <1>6, <2>1, InductionOnNat
<1>8. QED
  BY <1>4, <1>7

\* The recoding constant puts H into every window.
LEMMA OffsetFacts ==
  /\ Offset \in [Nat -> Nat] /\ Offset[0] = 0
  /\ \A i \in Nat : Offset[i + 1] = R * Offset[i] + H
<1>1. R \in Nat /\ 0 \in Nat /\ H \in Nat
  BY Parameters
<1>2. \E f : f = [i \in Nat |-> IF i = 0 THEN 0 ELSE R * f[i - 1] + H]
  BY <1>1, AffineExists
<1>3. IsAffine(Offset, 0, R, H)
  BY <1>2 DEF Offset, IsAffine
<1>4. Offset \in [Nat -> Nat] /\ Offset[0] = 0 /\ AffineSteps(Offset, R, H)
  BY <1>1, <1>3, AffineFacts
<1>5. QED
  BY <1>4 DEF AffineSteps

-----------------------------------------------------------------------------
(* The recoded scalar.                                                      *)

\* A recoded digit is in -H .. H-1, so the table of H entries serves it.
LEMMA DigitRange ==
  ASSUME k \in Nat, NEW i \in Nat
  PROVE  SignedDigit(i) \in (-H) .. (H - 1) /\ SignedDigit(i) \in Int
<1>1. k \div Weight[i] \in Int
  BY WeightFacts
<1>2. (k \div Weight[i]) % R \in 0 .. (R - 1)
  BY <1>1, Parameters
<1>3. QED
  BY <1>2, Parameters DEF SignedDigit, Bitfield

\* Arithmetic of one step of the loop.
LEMMA Regroup ==
  ASSUME NEW q \in Int, NEW o \in Int, NEW f \in Int, NEW h \in Int, NEW r \in Int
  PROVE  (r * q + f) - (r * o + h) = r * (q - o) + (f - h)
<1>1. r * (q - o) = r * q - r * o
  OBVIOUS
<1>2. r * q \in Int /\ r * o \in Int
  OBVIOUS
<1>3. QED
  BY <1>1, <1>2

\* A prefix of the scalar is R times the next shorter one plus a digit.
LEMMA PrefixStep ==
  ASSUME k \in Nat, NEW i \in 0 .. (Windows - 1)
  PROVE  /\ Prefix(i) = R * Prefix(i + 1) + SignedDigit(i)
         /\ Prefix(i) \in Int /\ Prefix(i + 1) \in Int
<1> DEFINE W == Weight[i]
           o == Offset[Windows - (i + 1)]
           q == k \div (R * W)
           f == (k \div W) % R
<1>1. i \in Nat /\ Windows - (i + 1) \in Nat /\ Windows - i = (Windows - (i + 1)) + 1
  BY Parameters
<1>2. W \in Nat /\ W > 0 /\ Weight[i + 1] = R * W
  BY <1>1, WeightFacts
<1>3. o \in Nat /\ Offset[Windows - i] = R * o + H
  BY <1>1, OffsetFacts
<1>4. k \div W = R * q + f
  <2> HIDE DEF W
  <2>1. k \in Int /\ W \in Nat /\ W > 0 /\ R \in Nat /\ R > 0
    BY <1>2, Parameters
  <2>2. QED
    BY <2>1, Bitfields
<1>5. q \in Int /\ f \in Int
  <2>1. R * W \in Nat /\ R * W > 0
    BY <1>2, Parameters
  <2> HIDE DEF W
  <2>2. k \div W \in Int
    BY <1>2
  <2>3. QED
    BY <1>2, <2>1, <2>2, DivMod, Parameters
<1>6. Prefix(i + 1) = q - o
  BY <1>2 DEF Prefix
<1>7. SignedDigit(i) = f - H
  BY DEF SignedDigit, Bitfield
<1>8. Prefix(i) = (R * q + f) - (R * o + H)
  BY <1>3, <1>4 DEF Prefix
<1> HIDE DEF W, o, q, f
<1>9. Prefix(i) = R * (q - o) + (f - H)
  BY <1>3, <1>5, <1>8, Parameters, Regroup
<1>10. R * (q - o) + (f - H) \in Int
  BY <1>3, <1>5, Parameters
<1>11. QED
  BY <1>3, <1>5, <1>6, <1>7, <1>9, <1>10

\* The whole recoded scalar, less the constant, is the scalar.
LEMMA PrefixAll ==
  ASSUME k \in Nat
  PROVE  Prefix(0) = k - Offset[Windows]
<1>1. Weight[0] = 1 /\ Windows - 0 = Windows
  BY WeightFacts, Parameters
<1>2. k \div 1 = k
  BY DivMod
<1>3. QED
  BY <1>1, <1>2 DEF Prefix

\* No recoding constant belongs to the top bitfield.
LEMMA PrefixTop ==
  ASSUME k \in Nat
  PROVE  Prefix(Windows) = TopField /\ TopField \in Int
<1>1. Windows - Windows = 0 /\ Offset[0] = 0
  BY OffsetFacts, Parameters
<1>2. k \div Weight[Windows] \in Int
  BY WeightFacts, Parameters
<1>3. QED
  BY <1>1, <1>2 DEF Prefix, TopField

\* One step of the bounds below.
LEMMA BoundStep ==
  ASSUME NEW v \in Int, NEW u \in Int, NEW d \in (-H) .. (H - 1), NEW L \in Nat,
         v = R * u + d, 0 <= v, v <= L
  PROVE  0 <= u /\ u <= L
<1>1. ASSUME u <= -1 PROVE FALSE
  <2>1. R * u <= -R
    BY <1>1, Parameters
  <2>2. R * u \in Int
    BY Parameters
  <2>3. QED
    BY <2>1, <2>2, Parameters
<1>2. ASSUME u >= L + 1 PROVE FALSE
  <2>1. R * u >= R * (L + 1)
    BY <1>2, Parameters
  <2>2. R * (L + 1) >= L + R
    BY Parameters
  <2>3. R * u \in Int /\ R * (L + 1) \in Int
    BY Parameters
  <2>4. QED
    BY <2>1, <2>2, <2>3, Parameters
<1>3. QED
  BY <1>1, <1>2

\* Recoding makes digits negative, but no prefix of the scalar, nor one larger
\* than the scalar may be.
LEMMA PrefixBounds ==
  ASSUME k \in Nat, k - Offset[Windows] \in 0 .. Largest, NEW i \in 0 .. Windows
  PROVE  Prefix(i) \in 0 .. Largest
<1> DEFINE T == {e \in Nat : e <= Windows => Prefix(e) \in 0 .. Largest}
<1>1. 0 \in T
  BY PrefixAll
<1>2. ASSUME NEW e \in T PROVE e + 1 \in T
  <2>1. CASE e + 1 <= Windows
    <3>1. e \in 0 .. (Windows - 1) /\ Prefix(e) \in 0 .. Largest
      BY <2>1, Parameters
    <3>2. Prefix(e) = R * Prefix(e + 1) + SignedDigit(e) /\ Prefix(e + 1) \in Int
      BY <3>1, PrefixStep
    <3>3. SignedDigit(e) \in (-H) .. (H - 1)
      BY DigitRange
    <3>4. Largest \in Nat
      BY LargestBound, Parameters
    <3> DEFINE v == Prefix(e)
               u == Prefix(e + 1)
               d == SignedDigit(e)
               L == Largest
    <3>5. v \in Int /\ u \in Int /\ d \in (-H) .. (H - 1) /\ L \in Nat /\ v = R * u + d
          /\ 0 <= v /\ v <= L
      BY <3>1, <3>2, <3>3, <3>4
    <3> HIDE DEF v, u, d, L
    <3>6. 0 <= u /\ u <= L
      BY <3>5, BoundStep
    <3>7. u \in 0 .. L
      BY <3>5, <3>6
    <3>8. QED
      BY <3>7 DEF u, L
  <2>2. CASE ~ (e + 1 <= Windows)
    BY <2>2
  <2>3. QED
    BY <2>1, <2>2
<1>3. T = Nat
  <2>1. T \in SUBSET Nat
    OBVIOUS
  <2> HIDE DEF T
  <2>2. QED
    BY <1>1, <1>2, <2>1, InductionOnNat
<1>4. i \in Nat /\ i <= Windows
  BY Parameters
<1>5. QED
  BY <1>3, <1>4

-----------------------------------------------------------------------------
(* The point operations.                                                    *)

\* The point the table is built on is infinity, the input point or its negation.
LEMMA BaseValues ==
  ASSUME TypeOK
  PROVE  /\ Base \in {0, 1, N - 1} /\ Base \in Point /\ Base \in Int
         /\ Base = 0 <=> unit = 0
BY Parameters DEF TypeOK, Base, Negation, Point

\* Negating a point negates its multiplier.
LEMMA NegationCorrect ==
  ASSUME NEW x \in Int
  PROVE  Negation(x % N) = (-x) % N
<1> DEFINE q == x \div N
           s == x % N
<1>1. q \in Int /\ s \in 0 .. (N - 1) /\ x = N * q + s
  BY Parameters, DivMod
<1> HIDE DEF q, s
<1>2. N * q \in Int /\ -q \in Int /\ -(q + 1) \in Int
  BY <1>1, Parameters
<1>3. N * (-q) = -(N * q) /\ N * (-(q + 1)) = -(N * q) - N
  BY <1>1, Parameters
<1>4. CASE s = 0
  <2>1. (N * (-q) + 0) % N = 0
    BY <1>2, Parameters, DivUnique
  <2>2. -x = N * (-q) + 0
    BY <1>1, <1>2, <1>3, <1>4
  <2>3. QED
    BY <1>4, <2>1, <2>2 DEF Negation, s
<1>5. CASE s # 0
  <2>1. N - s \in 0 .. (N - 1)
    BY <1>1, <1>5, Parameters
  <2> DEFINE e == -(q + 1)
             f == N - s
  <2>2. (N * e + f) % N = f
    <3>1. e \in Int /\ f \in 0 .. (N - 1) /\ N \in Nat /\ N > 0
      BY <1>2, <2>1, Parameters
    <3> HIDE DEF e, f
    <3>2. QED
      BY <3>1, DivUnique
  <2>3. -x = N * (-(q + 1)) + (N - s)
    BY <1>1, <1>2, <1>3, Parameters
  <2>4. QED
    BY <1>5, <2>2, <2>3 DEF Negation, s
<1>6. QED
  BY <1>4, <1>5

\* Residues are points.
LEMMA Residue ==
  ASSUME NEW x \in Int
  PROVE  x % N \in Point /\ x % N \in Int
BY Parameters, DivMod DEF Point

\* The addition formulas add, unless the two inputs are the same finite point.
LEMMA JaddCorrect ==
  ASSUME NEW x \in Int, NEW y \in Int, x % N # y % N \/ x % N = 0
  PROVE  Jadd(x % N, y % N) = (x + y) % N
<1> DEFINE s == x % N
           t == y % N
<1>1. s \in 0 .. (N - 1) /\ t \in 0 .. (N - 1)
  BY Parameters, DivMod
<1>2. (s + t) % N = (x + y) % N
  <2>1. N \in Nat /\ N > 0
    BY Parameters
  <2>2. QED
    BY <2>1, ModPlus
<1>3. s % N = s /\ t % N = t
  <2> HIDE DEF s, t
  <2>1. N * 0 + s = s /\ N * 0 + t = t
    BY <1>1, Parameters
  <2>2. QED
    BY <1>1, <2>1, Parameters, DivUnique
<1>4. s # t \/ s = 0
  OBVIOUS
<1>5. Jadd(s, t) = (s + t) % N
  <2> HIDE DEF s, t
  <2>1. CASE s = 0
    BY <1>1, <1>3, <2>1 DEF Jadd
  <2>2. CASE s # 0 /\ t = 0
    BY <1>1, <1>3, <2>2 DEF Jadd
  <2>3. CASE s # 0 /\ t # 0
    BY <1>1, <1>4, <2>3 DEF Jadd
  <2>4. QED
    BY <2>1, <2>2, <2>3
<1>6. QED
  BY <1>2, <1>5

\* Multiples of a finite point determine the multiplier up to the order.
LEMMA BaseCancels ==
  ASSUME NEW b \in {1, N - 1}, NEW x \in Int, NEW y \in Int,
         (x * b) % N = (y * b) % N
  PROVE  \E q \in Int : x - y = N * q
<1>1. CASE b = 1
  <2>1. x * b = x /\ y * b = y
    BY <1>1
  <2>2. x % N = y % N
    BY <2>1
  <2>3. N \in Nat /\ N > 0
    BY Parameters
  <2>4. QED
    BY <2>2, <2>3, SameResidue
<1>2. CASE b = N - 1
  <2>1. b \in Int /\ x * b \in Int /\ y * b \in Int
    BY Parameters
  <2>2. PICK q \in Int : x * b - y * b = N * q
    <3> DEFINE xx == x * b
               yy == y * b
    <3>1. xx \in Int /\ yy \in Int /\ xx % N = yy % N /\ N \in Nat /\ N > 0
      BY <2>1, Parameters
    <3> HIDE DEF xx, yy
    <3>2. \E q \in Int : xx - yy = N * q
      BY <3>1, SameResidue
    <3>3. QED
      BY <3>2 DEF xx, yy
  <2>3. x * b = x * N - x /\ y * b = y * N - y
    BY <1>2, Parameters
  <2>4. x * N \in Int /\ y * N \in Int /\ N * q \in Int
    BY Parameters
  <2>5. N * (x - y - q) = x * N - y * N - N * q
    BY Parameters
  <2>6. x - y = N * (x - y - q)
    BY <2>2, <2>3, <2>4, <2>5
  <2>7. x - y - q \in Int
    OBVIOUS
  <2>8. QED
    BY <2>6, <2>7
<1>3. QED
  BY <1>1, <1>2

-----------------------------------------------------------------------------
(* The invariant.                                                           *)

IInv == TypeOK /\ Progress /\ TableOK /\ ScalarOK /\ PrefixOK

\* The recoded scalar, once the constant is added.
LEMMA RecodedScalar ==
  ASSUME IInv, pc \in {"top", "double", "select", "add", "done"}
  PROVE  /\ k \in Nat /\ k - Offset[Windows] \in 0 .. Largest
         /\ ((k - Offset[Windows]) * Base) % N = (scalar * unit) % N
BY DEF IInv, TypeOK, ScalarOK, Reduced

\* What selecting an entry of the finished table gives.
LEMMA SelectCorrect ==
  ASSUME IInv, built = H, NEW i \in 0 .. H
  PROVE  Select(i) = (i * Base) % N
<1>1. CASE i = 0
  <2>1. Base \in Int
    BY BaseValues DEF IInv
  <2>2. i * Base = 0 /\ N * 0 + 0 = 0
    BY <1>1, <2>1, Parameters
  <2>3. (N * 0 + 0) % N = 0
    BY Parameters, DivUnique
  <2>4. QED
    BY <1>1, <2>2, <2>3 DEF Select
<1>2. CASE i # 0
  <2>1. i \in 1 .. H
    BY <1>2, Parameters
  <2>2. QED
    BY <2>1 DEF IInv, TableOK, Select
<1>3. QED
  BY <1>1, <1>2

\* The top bitfield fits its selection: the recoding constant cannot push the
\* largest scalar past the table.
LEMMA TopFieldBound ==
  ASSUME IInv, pc = "top"
  PROVE  TopField \in 0 .. (IF SingleTop THEN 1 ELSE H)
<1> DEFINE W == Weight[Windows]
           o == Offset[Windows]
           M == IF SingleTop THEN 2 ELSE H + 1
           q == k \div W
           s == k % W
<1>1. k \in Nat /\ k - o \in 0 .. Largest
  BY RecodedScalar
<1>2. W \in Nat /\ W > 0 /\ o \in Nat
  BY WeightFacts, OffsetFacts, Parameters
<1>3. Largest + o < M * W
  BY TopAssumption
<1>4. M \in Nat /\ Largest \in Nat
  BY LargestBound, Parameters
<1>5. q = TopField
  BY DEF TopField
<1> HIDE DEF W, o, M
<1>6. q \in Int /\ s \in Int /\ k = W * q + s /\ 0 <= s /\ s < W
  BY <1>1, <1>2, DivMod
<1> HIDE DEF q, s
<1>7. M * W \in Int /\ W * q \in Int
  BY <1>2, <1>4, <1>6
<1>8. W * q < M * W /\ W * q > -W
  BY <1>1, <1>2, <1>3, <1>4, <1>6, <1>7
<1>9. ASSUME q >= M PROVE FALSE
  <2>1. W * q >= M * W
    BY <1>2, <1>4, <1>6, <1>9
  <2>2. QED
    BY <1>7, <1>8, <2>1
<1>10. ASSUME q <= -1 PROVE FALSE
  <2>1. W * q <= -W
    BY <1>2, <1>6, <1>10
  <2>2. QED
    BY <1>2, <1>7, <1>8, <2>1
<1>11. q >= 0 /\ q <= M - 1
  BY <1>4, <1>6, <1>9, <1>10
<1>12. M - 1 = (IF SingleTop THEN 1 ELSE H)
  BY Parameters DEF M
<1>13. TopField \in Int /\ 0 <= TopField /\ TopField <= (IF SingleTop THEN 1 ELSE H)
  BY <1>5, <1>6, <1>11, <1>12
<1>14. CASE SingleTop
  BY <1>13, <1>14
<1>15. CASE ~ SingleTop
  BY <1>13, <1>15, Parameters
<1>16. QED
  BY <1>14, <1>15

-----------------------------------------------------------------------------
(* The additions.                                                           *)

\* While the table is built, the entry before an odd one is not the point itself.
LEMMA TableAddition ==
  ASSUME IInv, pc = "table", built % 2 = 0
  PROVE  /\ tab[built] # tab[1] \/ tab[built] = 0
         /\ tab[built] # tab[1] \/ unit = 0
<1>1. built \in 1 .. (H - 1) /\ built # 1
  BY DEF IInv, Progress
<1>2. tab[built] = (built * Base) % N /\ tab[1] = (1 * Base) % N
  <2>1. 1 \in 1 .. built
    BY <1>1, Parameters
  <2>2. QED
    BY <1>1, <2>1, Parameters DEF IInv, TableOK
<1>3. Base \in {0, 1, N - 1} /\ Base \in Int /\ (Base = 0 <=> unit = 0)
  BY BaseValues DEF IInv
<1>4. CASE Base = 0
  <2>1. built * Base = 0 /\ N * 0 + 0 = 0
    BY <1>1, <1>4, Parameters
  <2>2. (N * 0 + 0) % N = 0
    BY Parameters, DivUnique
  <2>3. QED
    BY <1>2, <1>3, <1>4, <2>1, <2>2
<1>5. CASE Base # 0
  <2>1. ASSUME tab[built] = tab[1] PROVE FALSE
    <3> DEFINE b == Base
               x == built
               y == 1
    <3>1. b \in {1, N - 1} /\ x \in Int /\ y \in Int /\ (x * b) % N = (y * b) % N
      BY <1>1, <1>2, <1>3, <1>5, <2>1
    <3> HIDE DEF b, x, y
    <3>2. PICK q \in Int : x - y = N * q
      BY <3>1, BaseCancels
    <3>3. 0 < x - y /\ x - y < N
      BY <1>1, Parameters DEF x, y
    <3>4. q = 0
      BY <3>2, <3>3, Parameters, NoMultipleBetween
    <3>5. N * q = 0
      BY <3>4, Parameters
    <3>6. QED
      BY <3>2, <3>3, <3>5
  <2>2. QED
    BY <2>1
<1>6. QED
  BY <1>4, <1>5

\* What the main loop adds: R * Prefix(j + 1) times the base and a digit times it.
LEMMA AddOperands ==
  ASSUME IInv, pc = "add"
  PROVE  /\ j \in 0 .. (Windows - 1) /\ k \in Nat
         /\ Prefix(j) \in 0 .. Largest
         /\ Prefix(j + 1) \in Int /\ Prefix(j + 1) >= 0
         /\ Prefix(j) = R * Prefix(j + 1) + SignedDigit(j)
         /\ SignedDigit(j) \in (-H) .. (H - 1)
         /\ acc = ((R * Prefix(j + 1)) * Base) % N
         /\ ent = (SignedDigit(j) * Base) % N
<1>1. j \in 0 .. Windows /\ j < Windows
  BY DEF IInv, TypeOK, Progress
<1>2. j \in 0 .. (Windows - 1) /\ j + 1 \in 0 .. Windows /\ j \in Nat
  BY <1>1, Parameters
<1>3. k \in Nat /\ k - Offset[Windows] \in 0 .. Largest
  BY RecodedScalar
<1>4. Prefix(j) \in 0 .. Largest /\ Prefix(j + 1) \in 0 .. Largest
  BY <1>1, <1>2, <1>3, PrefixBounds
<1>5. Prefix(j) = R * Prefix(j + 1) + SignedDigit(j) /\ Prefix(j + 1) \in Int
  BY <1>2, <1>3, PrefixStep
<1>6. SignedDigit(j) \in (-H) .. (H - 1)
  BY <1>2, <1>3, DigitRange
<1>7. acc = ((R * Prefix(j + 1)) * Base) % N /\ ent = (SignedDigit(j) * Base) % N
  BY DEF IInv, PrefixOK
<1>8. QED
  BY <1>2, <1>3, <1>4, <1>5, <1>6, <1>7

\* No scalar makes the accumulator and the entry the same multiple: at the top
\* only N itself could, which the reduced (and negated) scalar never reaches.
LEMMA NoCollision ==
  ASSUME NEW u \in Nat, NEW d \in (-H) .. (H - 1), NEW q \in Int,
         R * u + d \in 0 .. Largest, R * u - d = N * q
  PROVE  u = 0 /\ d = 0
<1> DEFINE v == R * u
<1>1. v \in Int /\ v + d >= 0 /\ v + d <= Largest /\ v - d = N * q
  BY Parameters
<1>2. Largest \in 0 .. (N - 1)
  BY LargestBound
<1>3. CASE q = 0
  <2>1. v = d
    BY <1>1, <1>3, Parameters
  <2>2. u # 0 => v >= R
    BY Parameters
  <2>3. QED
    BY <2>1, <2>2, Parameters
<1>4. CASE q = 1
  <2>1. N = v - d
    BY <1>1, <1>4, Parameters
  <2>2. CASE Largest + R < N
    BY <1>1, <1>2, <2>1, <2>2, Parameters
  <2>3. CASE N % R > H
    <3>1. -d \in 0 .. (R - 1) /\ -d <= H
      BY <1>1, <1>2, <2>1, Parameters
    <3>2. N = R * u + (-d)
      BY <2>1, Parameters
    <3>3. N % R = -d
      <4> DEFINE f == -d
      <4>1. f \in 0 .. (R - 1) /\ R \in Nat /\ R > 0 /\ u \in Int /\ N = R * u + f
        BY <3>1, <3>2, Parameters
      <4> HIDE DEF f
      <4>2. N % R = f
        BY <4>1, DivUnique
      <4>3. QED
        BY <4>2 DEF f
    <3>4. QED
      BY <2>3, <3>1, <3>3, Parameters
  <2>4. QED
    BY <2>2, <2>3, NonDegenerateAssumption
<1>5. CASE q >= 2
  <2>1. N * q >= N * 2
    BY <1>5, Parameters
  <2>2. N * q \in Int
    BY Parameters
  <2>3. QED
    BY <1>1, <1>2, <2>1, <2>2, Parameters
<1>6. CASE q <= -1
  <2>1. N * q <= -N
    BY <1>6, Parameters
  <2>2. N * q \in Int
    BY Parameters
  <2>3. QED
    BY <1>1, <1>2, <2>1, <2>2, Parameters
<1>7. QED
  BY <1>3, <1>4, <1>5, <1>6

\* In the main loop the entry added is never the accumulator.
LEMMA LoopAddition ==
  ASSUME IInv, pc = "add"
  PROVE  acc # ent \/ acc = 0
<1> DEFINE b == Base
           u == Prefix(j + 1)
           d == SignedDigit(j)
<1>1. /\ u \in Nat /\ d \in (-H) .. (H - 1) /\ R * u + d \in 0 .. Largest
      /\ acc = ((R * u) * b) % N /\ ent = (d * b) % N
  BY AddOperands
<1>2. b \in {0, 1, N - 1} /\ b \in Int
  BY BaseValues DEF IInv
<1> HIDE DEF b, u, d
<1>3. CASE b = 0
  <2>1. (R * u) * b = 0 /\ N * 0 + 0 = 0 /\ R * u \in Int
    BY <1>1, <1>3, Parameters
  <2>2. (N * 0 + 0) % N = 0
    BY Parameters, DivUnique
  <2>3. QED
    BY <1>1, <2>1, <2>2
<1>4. CASE b # 0
  <2>1. SUFFICES ASSUME acc = ent PROVE acc = 0
    OBVIOUS
  <2> DEFINE x == R * u
  <2>2. x \in Int /\ d \in Int /\ b \in {1, N - 1} /\ (x * b) % N = (d * b) % N
    BY <1>1, <1>2, <1>4, <2>1, Parameters
  <2>3. PICK q \in Int : x - d = N * q
    <3> HIDE DEF x
    <3>1. QED
      BY <2>2, BaseCancels
  <2>4. u = 0 /\ d = 0
    BY <1>1, <2>3, NoCollision
  <2>5. d * b = 0 /\ N * 0 + 0 = 0
    BY <1>2, <2>4, Parameters
  <2>6. (N * 0 + 0) % N = 0
    BY Parameters, DivUnique
  <2>7. QED
    BY <1>1, <2>1, <2>5, <2>6
<1>5. QED
  BY <1>3, <1>4

-----------------------------------------------------------------------------
(* Every action preserves the invariant.                                    *)

\* The invariant holds at the call.
LEMMA InitInv == Init => IInv
<1> SUFFICES ASSUME Init PROVE IInv
  OBVIOUS
<1>1. TypeOK
  <2>1. 0 \in Point /\ 0 \in 0 .. H /\ Windows \in 0 .. Windows
    BY Parameters DEF Point
  <2>2. scalar \in 0 .. MaxScalar /\ k \in Nat
    BY Parameters DEF Init
  <2>3. tab \in [1 .. H -> Point]
    BY <2>1 DEF Init
  <2>4. QED
    BY <2>1, <2>2, <2>3 DEF Init, TypeOK, Labels
<1>2. Progress
  BY Parameters DEF Init, Progress
<1>3. TableOK
  BY DEF Init, TableOK
<1>4. ScalarOK /\ PrefixOK
  BY DEF Init, ScalarOK, PrefixOK
<1>5. QED
  BY <1>1, <1>2, <1>3, <1>4 DEF IInv

\* One conditional subtraction reduces a scalar below 2 * N, and the general
\* reduction reduces any.
LEMMA ReduceInv == IInv /\ Reduce => IInv'
<1> SUFFICES ASSUME IInv, Reduce PROVE IInv'
  OBVIOUS
<1> USE DEF Reduce
<1>1. scalar \in Nat /\ k = scalar /\ scalar <= MaxScalar
  BY Parameters DEF IInv, TypeOK, Progress
<1>2. k' = scalar % N /\ k' \in Nat
  <2>1. scalar % N \in Nat
    BY <1>1, Parameters, DivMod
  <2>2. CASE FullReduce
    BY <1>1, <2>1, <2>2
  <2>3. CASE ~ FullReduce /\ k >= N
    <3> DEFINE s == scalar - N
    <3>1. s \in 0 .. (N - 1) /\ scalar = N * 1 + s /\ k' = s
      BY <1>1, <2>3, Parameters, ScalarAssumption
    <3> HIDE DEF s
    <3>2. (N * 1 + s) % N = s
      BY <3>1, Parameters, DivUnique
    <3>3. QED
      BY <3>1, <3>2, <2>1
  <2>4. CASE ~ FullReduce /\ ~ (k >= N)
    <3> DEFINE s == scalar
    <3>1. s \in 0 .. (N - 1) /\ s = N * 0 + s /\ k' = s
      BY <1>1, <2>4, Parameters
    <3> HIDE DEF s
    <3>2. (N * 0 + s) % N = s
      BY <3>1, Parameters, DivUnique
    <3>3. QED
      BY <3>1, <3>2, <2>1 DEF s
  <2>5. QED
    BY <2>2, <2>3, <2>4
<1>3. TypeOK'
  BY <1>2 DEF IInv, TypeOK, Labels
<1>4. Progress'
  BY DEF IInv, Progress
<1>5. TableOK'
  BY DEF IInv, TableOK, Progress, Base
<1>6. ScalarOK'
  BY <1>2 DEF IInv, ScalarOK
<1>7. PrefixOK'
  BY DEF IInv, PrefixOK
<1>8. QED
  BY <1>3, <1>4, <1>5, <1>6, <1>7 DEF IInv

\* Negating both the scalar and the point leaves the product alone.
LEMMA DoubleNegation ==
  ASSUME NEW x \in 0 .. (N - 1)
  PROVE  ((N - x) * (N - 1)) % N = x
<1>1. (N - x) * (N - 1) = N * (N - x - 1) + x
  BY Parameters
<1> DEFINE q == N - x - 1
<1>2. q \in Int /\ N \in Nat /\ N > 0
  BY Parameters
<1> HIDE DEF q
<1>3. (N * q + x) % N = x
  BY <1>2, DivUnique
<1>4. QED
  BY <1>1, <1>3 DEF q

\* A residue is its own residue.
LEMMA SmallMod ==
  ASSUME NEW x \in 0 .. (N - 1)
  PROVE  x % N = x
<1>1. N * 0 + x = x
  BY Parameters
<1>2. (N * 0 + x) % N = x
  BY Parameters, DivUnique
<1>3. QED
  BY <1>1, <1>2

\* The negation step.
LEMMA NegateInv == IInv /\ Negate => IInv'
<1> SUFFICES ASSUME IInv, Negate PROVE IInv'
  OBVIOUS
<1> USE DEF Negate
<1>1. k = scalar % N /\ scalar \in Nat /\ unit \in {0, 1} /\ k \in 0 .. (N - 1)
  <2>1. k = scalar % N /\ scalar \in Nat /\ unit \in {0, 1}
    BY Parameters DEF IInv, TypeOK, ScalarOK
  <2>2. QED
    BY <2>1, Parameters, DivMod
<1>2. k' \in 0 .. Largest
  <2>1. CASE k >= Threshold
    <3>1. k' = N - k
      BY <2>1
    <3>2. QED
      BY <1>1, <2>1, <3>1, LargestBound, Parameters
  <2>2. CASE ~ (k >= Threshold)
    <3>1. k' = k
      BY <2>2
    <3>2. QED
      BY <1>1, <2>2, <3>1, LargestBound, Parameters
  <2>3. QED
    BY <2>1, <2>2
<1>3. k' \in Nat
  BY <1>2, LargestBound
<1>4. sgn' \in BOOLEAN
  OBVIOUS
<1>5. tab \in [1 .. H -> Point] /\ 1 \in 1 .. H
  BY Parameters DEF IInv, TypeOK
<1>6. Base' \in Point /\ tab' = [tab EXCEPT ![1] = Base']
  BY <1>1, Parameters DEF Base, Negation, Point
<1>7. TypeOK'
  <2>1. tab' \in [1 .. H -> Point]
    BY <1>5, <1>6
  <2>2. QED
    BY <1>3, <1>4, <2>1, Parameters DEF IInv, TypeOK, Labels
<1>8. Progress'
  BY Parameters DEF IInv, Progress
<1>9. TableOK'
  <2>1. tab'[1] = Base' /\ built' = 1
    BY <1>5, <1>6
  <2>2. Base' % N = Base' /\ 1 * Base' = Base'
    <3> DEFINE b == Base'
    <3>1. b \in 0 .. (N - 1)
      BY <1>6 DEF Point
    <3> HIDE DEF b
    <3>2. b % N = b /\ 1 * b = b
      BY <3>1, SmallMod, Parameters
    <3>3. QED
      BY <3>2 DEF b
  <2>3. QED
    BY <2>1, <2>2 DEF TableOK
<1>10. ScalarOK'
  <2>1. Reduced' = k'
    BY <1>3 DEF Reduced
  <2>2. (k' * Base') % N = (scalar * unit) % N
    <3>1. CASE unit = 0
      <4>1. Base' = 0
        BY <3>1 DEF Base, Negation
      <4>2. k' * Base' = 0 /\ scalar * unit = 0
        BY <1>1, <1>3, <3>1, <4>1
      <4>3. QED
        BY <4>2
    <3>2. CASE unit = 1 /\ sgn'
      <4>1. Base' = N - 1 /\ k' = N - k
        BY <3>2 DEF Base, Negation
      <4>2. ((N - k) * (N - 1)) % N = k
        BY <1>1, DoubleNegation
      <4>3. scalar * unit = scalar
        BY <1>1, <3>2
      <4>4. QED
        BY <1>1, <4>1, <4>2, <4>3
    <3>3. CASE unit = 1 /\ ~ sgn'
      <4>1. Base' = 1 /\ k' = k
        BY <3>3 DEF Base
      <4>2. k' * Base' = k /\ scalar * unit = scalar
        BY <1>1, <3>3, <4>1
      <4>3. k % N = k
        BY <1>1, SmallMod
      <4>4. QED
        BY <1>1, <4>2, <4>3
    <3>4. QED
      BY <1>1, <1>4, <3>1, <3>2, <3>3
  <2>3. QED
    BY <1>2, <2>1, <2>2 DEF ScalarOK
<1>11. PrefixOK'
  BY DEF PrefixOK
<1>12. QED
  BY <1>7, <1>8, <1>9, <1>10, <1>11 DEF IInv

\* Doubling an entry doubles its multiplier.
LEMMA JdoubleCorrect ==
  ASSUME NEW x \in Int
  PROVE  Jdouble(x % N) = (2 * x) % N
<1>1. N \in Nat /\ N > 0 /\ 2 \in Int
  BY Parameters
<1>2. QED
  BY <1>1, ModTimes DEF Jdouble

\* The entry the next pass of the table computes.
LEMMA NextEntry ==
  ASSUME IInv, pc = "table"
  PROVE  LET e == built + 1
         IN  (IF e % 2 = 0 THEN Jdouble(tab[e \div 2]) ELSE Jadd(tab[e - 1], tab[1]))
               = (e * Base) % N
<1> DEFINE e == built + 1
           b == Base
<1>1. built \in 1 .. (H - 1)
  BY DEF IInv, Progress
<1>2. b \in Int
  BY BaseValues DEF IInv
<1>3. \A i \in 1 .. built : tab[i] = (i * b) % N
  BY DEF IInv, TableOK
<1> HIDE DEF b
<1>4. CASE e % 2 = 0
  <2> DEFINE h == e \div 2
  <2>1. h \in 1 .. built /\ e = 2 * h
    BY <1>1, <1>4, Parameters
  <2> HIDE DEF h, e
  <2>2. h * b \in Int /\ 2 * (h * b) = e * b
    BY <1>1, <1>2, <2>1
  <2>3. Jdouble((h * b) % N) = (e * b) % N
    <3> DEFINE x == h * b
    <3>1. x \in Int /\ 2 * x = e * b
      BY <2>2
    <3> HIDE DEF x
    <3>2. Jdouble(x % N) = (2 * x) % N
      BY <3>1, JdoubleCorrect
    <3>3. QED
      BY <3>1, <3>2 DEF x
  <2>4. QED
    BY <1>3, <1>4, <2>1, <2>3 DEF h, e, b
<1>5. CASE e % 2 # 0
  <2>1. built % 2 = 0
    BY <1>1, <1>5, Parameters
  <2>2. tab[built] # tab[1] \/ tab[built] = 0
    BY <2>1, TableAddition
  <2> DEFINE x == built * b
             y == 1 * b
  <2>3. x \in Int /\ y \in Int /\ x + y = e * b
    BY <1>1, <1>2, Parameters
  <2>4. tab[built] = x % N /\ tab[1] = y % N
    BY <1>1, <1>3, Parameters
  <2> HIDE DEF x, y
  <2>5. Jadd(x % N, y % N) = (x + y) % N
    BY <2>2, <2>3, <2>4, JaddCorrect
  <2>6. e - 1 = built
    BY <1>1, Parameters
  <2>7. QED
    BY <1>5, <2>3, <2>4, <2>5, <2>6 DEF b
<1>6. QED
  BY <1>4, <1>5

\* The table step.
LEMMA TabulateInv == IInv /\ Tabulate => IInv'
<1> SUFFICES ASSUME IInv, Tabulate PROVE IInv'
  OBVIOUS
<1> DEFINE e == built + 1
<1>1. /\ pc = "table" /\ built' = e
      /\ pc' = (IF e = H THEN "recode" ELSE "table")
      /\ UNCHANGED <<scalar, unit, k, sgn, acc, ent, j>>
  BY DEF Tabulate
<1>2. built \in 1 .. (H - 1) /\ e \in 2 .. H
  BY <1>1, Parameters DEF IInv, Progress
<1>3. Base' = Base /\ Base \in Int
  BY <1>1, BaseValues DEF Base, IInv
<1>4. tab' = [tab EXCEPT ![e] = (e * Base) % N]
  <2>1. (IF e % 2 = 0 THEN Jdouble(tab[e \div 2]) ELSE Jadd(tab[e - 1], tab[1]))
          = (e * Base) % N
    BY <1>1, NextEntry
  <2>2. QED
    BY <2>1 DEF Tabulate
<1>5. (e * Base) % N \in Point
  <2>1. e * Base \in Int
    BY <1>2, <1>3
  <2>2. QED
    BY <2>1, Residue
<1>6. tab \in [1 .. H -> Point]
  BY DEF IInv, TypeOK
<1>7. TypeOK'
  <2>1. tab' \in [1 .. H -> Point]
    BY <1>4, <1>5, <1>6
  <2>2. built' \in 0 .. H /\ pc' \in Labels
    BY <1>1, <1>2, Parameters DEF Labels
  <2>3. QED
    BY <1>1, <2>1, <2>2 DEF IInv, TypeOK
<1>8. Progress'
  BY <1>1, <1>2, Parameters DEF IInv, Progress
<1>9. TableOK'
  <2>1. ASSUME NEW i \in 1 .. built' PROVE tab'[i] = (i * Base') % N
    <3>1. CASE i = e
      BY <1>2, <1>3, <1>4, <1>6, <3>1, Parameters
    <3>2. CASE i # e
      <4>1. i \in 1 .. built /\ i \in 1 .. H
        BY <1>1, <1>2, <2>1, <3>2, Parameters
      <4>2. tab'[i] = tab[i]
        BY <1>4, <1>6, <3>2, <4>1
      <4>3. QED
        BY <1>3, <4>1, <4>2 DEF IInv, TableOK
    <3>3. QED
      BY <3>1, <3>2
  <2>2. QED
    BY <2>1 DEF TableOK
<1>10. ScalarOK'
  <2>1. Reduced' = k /\ Reduced = k
    BY <1>1 DEF IInv, TypeOK, Reduced
  <2>2. QED
    BY <1>1, <1>3, <2>1 DEF IInv, ScalarOK
<1>11. PrefixOK'
  BY <1>1 DEF PrefixOK
<1>12. QED
  BY <1>7, <1>8, <1>9, <1>10, <1>11 DEF IInv

\* Adding the recoding constant.
LEMMA RecodeInv == IInv /\ Recode => IInv'
<1> SUFFICES ASSUME IInv, Recode PROVE IInv'
  OBVIOUS
<1> USE DEF Recode
<1>1. k \in Nat /\ Offset[Windows] \in Nat
  BY OffsetFacts, Parameters DEF IInv, TypeOK
<1>2. TypeOK'
  BY <1>1 DEF IInv, TypeOK, Labels
<1>3. Progress'
  BY DEF IInv, Progress
<1>4. Base' = Base
  BY DEF Base
<1>5. TableOK'
  BY <1>4 DEF IInv, TableOK
<1>6. ScalarOK'
  <2>1. Reduced' = k /\ Reduced = k
    BY <1>1 DEF Reduced
  <2>2. QED
    BY <1>4, <2>1 DEF IInv, ScalarOK
<1>7. PrefixOK'
  BY DEF PrefixOK
<1>8. QED
  BY <1>2, <1>3, <1>5, <1>6, <1>7 DEF IInv

\* From the recoding on, an action that leaves the scalar, the point and the
\* table alone keeps the part of the invariant that speaks of them.
LEMMA MainLoopFrame ==
  ASSUME IInv, pc \in {"top", "double", "select", "add"},
         pc' \in {"double", "select", "add", "done"},
         UNCHANGED <<scalar, unit, k, sgn, tab, built>>,
         acc' \in Point, ent' \in Point, j' \in 0 .. Windows,
         PrefixOK', pc' = "double" => j' >= 1,
         pc' \in {"select", "add"} => j' < Windows, pc' = "done" => j' = 0
  PROVE  IInv'
<1>1. TypeOK'
  BY DEF IInv, TypeOK, Labels
<1>2. Progress'
  BY DEF IInv, Progress
<1>3. Base' = Base
  BY DEF Base
<1>4. TableOK'
  BY <1>3 DEF IInv, TableOK
<1>5. ScalarOK'
  <2>1. Reduced' = Reduced
    BY DEF Reduced
  <2>2. QED
    BY <1>3, <2>1 DEF IInv, ScalarOK
<1>6. QED
  BY <1>1, <1>2, <1>4, <1>5 DEF IInv

\* The accumulator starts as the multiple the top bitfield stands for.
LEMMA TopWindowInv == IInv /\ TopWindow => IInv'
<1> SUFFICES ASSUME IInv, TopWindow PROVE IInv'
  OBVIOUS
<1>1. /\ pc = "top" /\ pc' = "double"
      /\ acc' = (IF SingleTop THEN IF TopField # 0 THEN tab[1] ELSE 0 ELSE Select(TopField))
      /\ UNCHANGED <<scalar, unit, k, sgn, tab, built, ent, j>>
  BY DEF TopWindow
<1>2. j = Windows /\ built = H /\ k \in Nat /\ ent \in Point /\ Base \in Int
  BY <1>1, BaseValues DEF IInv, Progress, TypeOK
<1>3. TopField \in 0 .. (IF SingleTop THEN 1 ELSE H)
  BY <1>1, TopFieldBound
<1>4. acc' = (TopField * Base) % N
  <2>1. CASE SingleTop
    <3>1. TopField \in {0, 1}
      BY <1>3, <2>1
    <3>2. 0 \in 0 .. H /\ 1 \in 0 .. H /\ 1 \in 1 .. H
      BY Parameters
    <3>3. Select(0) = (0 * Base) % N /\ Select(1) = (1 * Base) % N
      BY <1>2, <3>2, SelectCorrect
    <3>4. Select(0) = 0 /\ Select(1) = tab[1]
      BY <3>2, Parameters DEF Select
    <3>5. CASE TopField = 0
      BY <1>1, <2>1, <3>3, <3>4, <3>5
    <3>6. CASE TopField = 1
      BY <1>1, <2>1, <3>3, <3>4, <3>6
    <3>7. QED
      BY <3>1, <3>5, <3>6
  <2>2. CASE ~ SingleTop
    <3>1. TopField \in 0 .. H
      BY <1>3, <2>2
    <3>2. QED
      BY <1>1, <1>2, <2>2, <3>1, SelectCorrect
  <2>3. QED
    BY <2>1, <2>2
<1>5. acc' \in Point
  <2>1. TopField * Base \in Int
    BY <1>2, PrefixTop
  <2>2. QED
    BY <1>4, <2>1, Residue
<1>6. PrefixOK'
  <2>1. Prefix(j)' = Prefix(Windows)
    BY <1>1, <1>2 DEF Prefix
  <2>2. Prefix(Windows) = TopField
    BY <1>2, PrefixTop
  <2>3. Base' = Base
    BY <1>1 DEF Base
  <2>4. acc' = (Prefix(j)' * Base') % N
    BY <1>4, <2>1, <2>2, <2>3
  <2>5. QED
    BY <1>1, <2>4 DEF PrefixOK
<1>7. j' \in 0 .. Windows /\ j' >= 1
  BY <1>1, <1>2, Parameters
<1>8. QED
  BY <1>1, <1>2, <1>5, <1>6, <1>7, MainLoopFrame

\* The doublings multiply the prefix by R.
LEMMA DoublingsInv == IInv /\ Doublings => IInv'
<1> SUFFICES ASSUME IInv, Doublings PROVE IInv'
  OBVIOUS
<1>1. /\ pc = "double" /\ pc' = "select" /\ j' = j - 1 /\ acc' = (R * acc) % N
      /\ UNCHANGED <<scalar, unit, k, sgn, tab, built, ent>>
  BY DEF Doublings
<1>2. j \in 1 .. Windows /\ k \in Nat /\ ent \in Point /\ Base \in Int /\ acc \in Int
  BY <1>1, BaseValues, Parameters DEF IInv, Progress, TypeOK, Point
<1>3. j' \in 0 .. Windows /\ j' < Windows /\ j' + 1 = j
  BY <1>1, <1>2, Parameters
<1>4. acc' \in Point
  <2>1. R * acc \in Int
    BY <1>2, Parameters
  <2>2. QED
    BY <1>1, <2>1, Residue
<1>5. PrefixOK'
  <2> DEFINE v == Prefix(j)
             b == Base
             x == v * b
  <2>1. acc = (v * b) % N
    BY <1>1 DEF IInv, PrefixOK
  <2>2. v \in Int
    <3>1. k - Offset[Windows] \in 0 .. Largest
      BY <1>1, RecodedScalar
    <3>2. j \in 0 .. Windows
      BY <1>2, Parameters
    <3>3. v \in 0 .. Largest
      BY <1>2, <3>1, <3>2, PrefixBounds
    <3>4. QED
      BY <3>3, LargestBound
  <2>3. Prefix(j + 1)' = v
    BY <1>1, <1>3 DEF Prefix
  <2>4. Base' = b
    BY <1>1 DEF Base
  <2>5. b \in Int
    BY <1>2
  <2> HIDE DEF v, b
  <2>6. x \in Int /\ acc = x % N /\ R * x = (R * v) * b
    BY <2>1, <2>2, <2>5, Parameters
  <2> HIDE DEF x
  <2>7. (R * (x % N)) % N = (R * x) % N
    <3>1. N \in Nat /\ N > 0 /\ R \in Int /\ x \in Int
      BY <2>6, Parameters
    <3>2. QED
      BY <3>1, ModTimes
  <2>8. acc' = ((R * v) * b) % N
    BY <1>1, <2>6, <2>7
  <2>9. QED
    BY <1>1, <2>3, <2>4, <2>8 DEF PrefixOK
<1>6. QED
  BY <1>1, <1>2, <1>3, <1>4, <1>5, MainLoopFrame

\* The entry selected is the digit's multiple of the point, of either sign.
LEMMA SelectEntryInv == IInv /\ SelectEntry => IInv'
<1> SUFFICES ASSUME IInv, SelectEntry PROVE IInv'
  OBVIOUS
<1> DEFINE d == SignedDigit(j)
           e == Select(Magnitude(d))
           b == Base
<1>1. /\ pc = "select" /\ pc' = "add" /\ ent' = (IF d < 0 THEN Negation(e) ELSE e)
      /\ UNCHANGED <<scalar, unit, k, sgn, tab, built, acc, j>>
  BY DEF SelectEntry
<1>2. /\ j \in 0 .. Windows /\ j < Windows /\ k \in Nat /\ acc \in Point /\ b \in Int
      /\ built = H
  BY <1>1, BaseValues DEF IInv, Progress, TypeOK
<1>3. d \in (-H) .. (H - 1)
  <2>1. j \in Nat
    BY <1>2, Parameters
  <2>2. QED
    BY <1>2, <2>1, DigitRange
<1>4. SignedDigit(j)' = d /\ Base' = b /\ Prefix(j + 1)' = Prefix(j + 1)
  BY <1>1 DEF SignedDigit, Bitfield, Base, Prefix
<1>5. acc = ((R * Prefix(j + 1)) * b) % N
  BY <1>1 DEF IInv, PrefixOK
<1> HIDE DEF d
<1>6. ent' = (d * b) % N /\ d * b \in Int
  <2>1. CASE d < 0
    <3>1. -d \in 0 .. H /\ Magnitude(d) = -d
      BY <1>3, <2>1, Parameters DEF Magnitude
    <3>2. e = ((-d) * b) % N
      BY <1>2, <3>1, SelectCorrect
    <3> HIDE DEF b, e
    <3> DEFINE x == (-d) * b
    <3>3. x \in Int /\ -x = d * b
      BY <1>2, <1>3, Parameters
    <3>4. e = x % N
      BY <3>2
    <3> HIDE DEF x
    <3>5. Negation(x % N) = (-x) % N
      BY <3>3, NegationCorrect
    <3>6. QED
      BY <1>1, <1>2, <1>3, <2>1, <3>3, <3>4, <3>5, Parameters
  <2>2. CASE ~ (d < 0)
    <3>1. d \in 0 .. H /\ Magnitude(d) = d
      BY <1>3, <2>2, Parameters DEF Magnitude
    <3>2. e = (d * b) % N
      BY <1>2, <3>1, SelectCorrect
    <3>3. d * b \in Int
      BY <1>2, <3>1, Parameters
    <3>4. QED
      BY <1>1, <2>2, <3>2, <3>3
  <2>3. QED
    BY <2>1, <2>2
<1>7. ent' \in Point
  BY <1>6, Residue
<1>8. PrefixOK'
  BY <1>1, <1>4, <1>5, <1>6 DEF PrefixOK
<1>9. QED
  BY <1>1, <1>2, <1>7, <1>8, MainLoopFrame

\* The addition makes the prefix longer by a digit.
LEMMA AddEntryInv == IInv /\ AddEntry => IInv'
<1> SUFFICES ASSUME IInv, AddEntry PROVE IInv'
  OBVIOUS
<1> DEFINE u == Prefix(j + 1)
           d == SignedDigit(j)
           b == Base
           x == (R * u) * b
           y == d * b
<1>1. /\ pc = "add" /\ pc' = (IF j # 0 THEN "double" ELSE "done") /\ acc' = Jadd(acc, ent)
      /\ UNCHANGED <<scalar, unit, k, sgn, tab, built, ent, j>>
  BY DEF AddEntry
<1>2. /\ j \in 0 .. (Windows - 1) /\ u \in Int /\ Prefix(j) = R * u + d
      /\ d \in Int /\ acc = x % N /\ ent = y % N
  BY <1>1, AddOperands, Parameters
<1>3. b \in Int /\ ent \in Point
  BY BaseValues DEF IInv, TypeOK
<1>4. acc # ent \/ acc = 0
  BY <1>1, LoopAddition
<1> DEFINE v == Prefix(j)
<1>5. Prefix(j)' = v /\ Base' = b
  BY <1>1 DEF Prefix, Base
<1>6. v = R * u + d
  BY <1>2
<1> HIDE DEF u, d, b, v
<1>7. x \in Int /\ y \in Int /\ x + y = v * b
  <2>1. (R * u + d) * b = (R * u) * b + d * b
    BY <1>2, <1>3, Parameters
  <2>2. QED
    BY <1>2, <1>3, <1>6, <2>1, Parameters
<1> HIDE DEF x, y
<1>8. acc' = (v * b) % N
  <2>1. Jadd(x % N, y % N) = (x + y) % N
    BY <1>2, <1>4, <1>7, JaddCorrect
  <2>2. QED
    BY <1>1, <1>2, <1>7, <2>1
<1>9. acc' \in Point
  <2>1. acc' = (x + y) % N /\ x + y \in Int
    BY <1>7, <1>8
  <2>2. QED
    BY <2>1, Residue
<1>10. PrefixOK'
  BY <1>1, <1>5, <1>8 DEF PrefixOK
<1>11. j' \in 0 .. Windows
  BY <1>1, <1>2, Parameters
<1>12. pc' \in {"double", "done"} /\ (pc' = "double" => j' >= 1) /\ (pc' = "done" => j' = 0)
  BY <1>1, <1>2, Parameters
<1>13. QED
  BY <1>1, <1>3, <1>9, <1>10, <1>11, <1>12, MainLoopFrame

\* Every action preserves the invariant.
LEMMA NextInv == IInv /\ [Next]_vars => IInv'
<1> SUFFICES ASSUME IInv, [Next]_vars PROVE IInv'
  OBVIOUS
<1>1. CASE Reduce
  BY <1>1, ReduceInv
<1>2. CASE Negate
  BY <1>2, NegateInv
<1>3. CASE Tabulate
  BY <1>3, TabulateInv
<1>4. CASE Recode
  BY <1>4, RecodeInv
<1>5. CASE TopWindow
  BY <1>5, TopWindowInv
<1>6. CASE Doublings
  BY <1>6, DoublingsInv
<1>7. CASE SelectEntry
  BY <1>7, SelectEntryInv
<1>8. CASE AddEntry
  BY <1>8, AddEntryInv
<1>9. CASE UNCHANGED vars
  <2> USE <1>9 DEF vars
  <2>1. TypeOK' /\ Progress'
    BY DEF IInv, TypeOK, Progress
  <2>2. Base' = Base
    BY DEF Base
  <2>3. TableOK'
    BY <2>2 DEF IInv, TableOK
  <2>4. ScalarOK'
    BY <2>2 DEF IInv, ScalarOK, Reduced
  <2>5. PrefixOK'
    BY <2>2 DEF IInv, PrefixOK, Prefix, SignedDigit, Bitfield
  <2>6. QED
    BY <2>1, <2>3, <2>4, <2>5 DEF IInv
<1>10. CASE Returned
  BY <1>9, <1>10 DEF Returned
<1>11. QED
  BY <1>1, <1>2, <1>3, <1>4, <1>5, <1>6, <1>7, <1>8, <1>9, <1>10 DEF Next

-----------------------------------------------------------------------------

\* Every reachable state satisfies the inductive invariant.
THEOREM Invariance == Spec => []IInv
<1>1. Init => IInv
  BY InitInv
<1>2. IInv /\ [Next]_vars => IInv'
  BY NextInv
<1>3. QED
  BY <1>1, <1>2, PTL DEF Spec

\* Every accumulator and table entry is a point, every scalar a number.
THEOREM TypeCorrectness == Spec => []TypeOK
<1>1. IInv => TypeOK
  BY DEF IInv
<1>2. QED
  BY <1>1, Invariance, PTL

\* The table holds the multiples of the point.
THEOREM TableCorrect == Spec => []TableOK
<1>1. IInv => TableOK
  BY DEF IInv
<1>2. QED
  BY <1>1, Invariance, PTL

\* The accumulator is the prefix of the scalar times the point.
THEOREM PrefixCorrect == Spec => []PrefixOK
<1>1. IInv => PrefixOK
  BY DEF IInv
<1>2. QED
  BY <1>1, Invariance, PTL

\* The recoding constant never pushes the top bitfield past the table.
THEOREM TopFieldCorrect == Spec => []TopFieldOK
<1>1. IInv => TopFieldOK
  <2>1. SUFFICES ASSUME IInv, pc = "top" PROVE TopField <= (IF SingleTop THEN 1 ELSE H)
    BY DEF TopFieldOK
  <2>2. TopField \in 0 .. (IF SingleTop THEN 1 ELSE H)
    BY <2>1, TopFieldBound
  <2>3. CASE SingleTop
    BY <2>2, <2>3
  <2>4. CASE ~ SingleTop
    BY <2>2, <2>4, Parameters
  <2>5. QED
    BY <2>3, <2>4
<1>2. QED
  BY <1>1, Invariance, PTL

\* The addition formulas are never given a point and itself.
THEOREM NoDegenerateAddition == Spec => []NoDegenerateAdd
<1>1. IInv => NoDegenerateAdd
  BY LoopAddition, TableAddition DEF NoDegenerateAdd
<1>2. QED
  BY <1>1, Invariance, PTL

\* The value returned is scalar * P.
THEOREM ResultCorrect == Spec => []Result
<1>1. IInv => Result
  <2> SUFFICES ASSUME IInv, pc = "done" PROVE acc = (scalar * unit) % N
    BY DEF Result
  <2>1. j = 0 /\ k \in Nat
    BY DEF IInv, Progress, TypeOK
  <2>2. acc = (Prefix(j) * Base) % N
    BY DEF IInv, PrefixOK
  <2>3. Prefix(0) = k - Offset[Windows]
    BY <2>1, PrefixAll
  <2>4. ((k - Offset[Windows]) * Base) % N = (scalar * unit) % N
    BY RecodedScalar
  <2>5. QED
    BY <2>1, <2>2, <2>3, <2>4
<1>2. QED
  BY <1>1, Invariance, PTL
=============================================================================

------------------------------ MODULE ArithmeticFacts ---------------------------
(***************************************************************************)
(* Induction and primitive recursion over the natural numbers, stated for  *)
(* sets and functions instead of operators so that the theorems can be     *)
(* cited with any instance.  The proofs about the numbers and the loops of *)
(* s2n-bignum rest on them: values of digit strings, powers of the base    *)
(* and table scans are all recursive functions on Nat.                     *)
(***************************************************************************)
EXTENDS Integers, TLAPS, WellFoundedInduction

Below == {ss \in Nat \X Nat : ss[1] < ss[2]}

\* A non-empty set of natural numbers has a least element: the well-ordering
\* of the loop counters of the code.
LEMMA LeastElement ==
  ASSUME NEW T \in SUBSET Nat, T # {}
  PROVE  \E a \in T : \A b \in T : a <= b
<1>1. IsWellFoundedOn(Below, Nat)
  BY NatLessThanWellFounded DEF OpToRel, Below
<1>2. PICK a \in T : \A b \in T : ~ (<<b, a>> \in Below)
  BY <1>1, WFMin
<1>3. ASSUME NEW b \in T PROVE a <= b
  <2>1. a \in Nat /\ b \in Nat
    OBVIOUS
  <2>2. ~(b < a)
    BY <1>2, <2>1 DEF Below
  <2>3. QED
    BY <2>1, <2>2
<1>4. QED
  BY <1>3

\* A set with 0 and closed under successor is Nat: the induction on the number
\* of words processed that every loop of the code calls for.
LEMMA InductionOnNat ==
  ASSUME NEW T \in SUBSET Nat, 0 \in T, \A n \in T : n + 1 \in T
  PROVE  T = Nat
<1>1. SUFFICES ASSUME Nat \ T # {} PROVE FALSE
  OBVIOUS
<1>2. PICK a \in Nat \ T : \A b \in Nat \ T : a <= b
  <2>1. Nat \ T \in SUBSET Nat
    OBVIOUS
  <2>2. QED
    BY <1>1, <2>1, LeastElement
<1>3. a # 0 /\ a - 1 \in Nat
  BY <1>2
<1>4. a - 1 \in T
  BY <1>2, <1>3
<1>5. QED
  BY <1>4, <1>2

\* f is the first n + 1 values of the function that starts with c and steps
\* from i to i + 1 with h[i], in S.
IsRec(f, c, h, n, S) ==
  /\ f \in [0..n -> S]
  /\ f[0] = c
  /\ \A i \in 0..(n-1) : f[i+1] = h[i][f[i]]

\* A finite approximation of a recursive function can be extended by one value.
LEMMA RecExtends ==
  ASSUME NEW S, NEW c \in S, NEW h \in [Nat -> [S -> S]],
         NEW n \in Nat, NEW f, IsRec(f, c, h, n, S)
  PROVE  \E g : IsRec(g, c, h, n + 1, S)
<1> DEFINE g == [i \in 0..(n+1) |-> IF i = n + 1 THEN h[n][f[n]] ELSE f[i]]
<1>1. f \in [0..n -> S] /\ f[0] = c /\ \A i \in 0..(n-1) : f[i+1] = h[i][f[i]]
  BY DEF IsRec
<1>2. f[n] \in S /\ n \in Nat
  BY <1>1
<1>3. h[n][f[n]] \in S
  BY <1>2
<1>4. g \in [0..(n+1) -> S]
  <2>1. ASSUME NEW i \in 0..(n+1), i # n + 1 PROVE f[i] \in S
    BY <1>1, <2>1
  <2>2. QED
    BY <1>3, <2>1
<1>5. g[0] = c
  <2>1. 0 \in 0..(n+1) /\ 0 # n + 1
    OBVIOUS
  <2>2. QED
    BY <1>1, <2>1
<1>6. ASSUME NEW i \in 0..n PROVE g[i+1] = h[i][g[i]]
  <2>1. i \in 0..(n+1) /\ i # n + 1 /\ i + 1 \in 0..(n+1)
    OBVIOUS
  <2>2. g[i] = f[i]
    BY <2>1
  <2>3. CASE i = n
    BY <2>1, <2>2, <2>3
  <2>4. CASE i # n
    <3>1. i \in 0..(n-1) /\ i + 1 # n + 1
      BY <2>4
    <3>2. g[i+1] = f[i+1]
      BY <2>1, <3>1
    <3>3. QED
      BY <1>1, <2>2, <3>1, <3>2
  <2>5. QED
    BY <2>3, <2>4
<1>7. (n + 1) - 1 = n
  OBVIOUS
<1> HIDE DEF g
<1>8. IsRec(g, c, h, n + 1, S)
  BY <1>4, <1>5, <1>6, <1>7 DEF IsRec
<1>9. QED
  BY <1>8

\* There is an approximation of every length.
LEMMA RecExistsFinite ==
  ASSUME NEW S, NEW c \in S, NEW h \in [Nat -> [S -> S]]
  PROVE  \A n \in Nat : \E f : IsRec(f, c, h, n, S)
<1> DEFINE T == {n \in Nat : \E f : IsRec(f, c, h, n, S)}
<1>1. 0 \in T
  <2>1. IsRec([i \in 0..0 |-> c], c, h, 0, S)
    BY DEF IsRec
  <2>2. QED
    BY <2>1
<1>2. ASSUME NEW n \in T PROVE n + 1 \in T
  <2>1. n \in Nat /\ n + 1 \in Nat
    OBVIOUS
  <2>2. PICK f : IsRec(f, c, h, n, S)
    OBVIOUS
  <2>3. \E g : IsRec(g, c, h, n + 1, S)
    BY <2>1, <2>2, RecExtends
  <2>4. QED
    BY <2>1, <2>3
<1>3. T = Nat
  <2>1. T \in SUBSET Nat
    OBVIOUS
  <2> HIDE DEF T
  <2>2. QED
    BY <1>1, <1>2, <2>1, InductionOnNat
<1>4. QED
  BY <1>3

\* Two approximations agree where both are defined.
LEMMA RecUnique ==
  ASSUME NEW S, NEW c \in S, NEW h \in [Nat -> [S -> S]],
         NEW n \in Nat, NEW m \in Nat, NEW f, NEW g,
         IsRec(f, c, h, n, S), IsRec(g, c, h, m, S)
  PROVE  \A i \in Nat : i <= n /\ i <= m => f[i] = g[i]
<1> DEFINE T == {i \in Nat : i <= n /\ i <= m => f[i] = g[i]}
<1>1. 0 \in T
  BY DEF IsRec
<1>2. ASSUME NEW i \in T PROVE i + 1 \in T
  BY DEF IsRec
<1>3. T = Nat
  <2> HIDE DEF T
  <2>1. T \in SUBSET Nat
    BY DEF T
  <2>2. QED
    BY <1>1, <1>2, <2>1, InductionOnNat
<1>4. QED
  BY <1>3

\* f starts with c and steps with h, in S.
Follows(f, c, h, S) ==
  f \in [Nat -> S] /\ f[0] = c /\ \A n \in Nat : f[n+1] = h[n][f[n]]

\* The recursive function exists: this justifies the recursive definitions of
\* module Words (powers of the base and the value of a buffer).
LEMMA RecExistsIn ==
  ASSUME NEW S, NEW c \in S, NEW h \in [Nat -> [S -> S]]
  PROVE  \E f : Follows(f, c, h, S)
<1> DEFINE A(n) == CHOOSE f : IsRec(f, c, h, n, S)
           F == [n \in Nat |-> A(n)[n]]
<1>1. ASSUME NEW n \in Nat PROVE IsRec(A(n), c, h, n, S)
  BY RecExistsFinite
<1> HIDE DEF A
<1>2. F \in [Nat -> S]
  <2>1. ASSUME NEW n \in Nat PROVE A(n)[n] \in S
    BY <1>1 DEF IsRec
  <2>2. QED
    BY <2>1
<1>3. F[0] = c
  BY <1>1 DEF IsRec
<1>4. ASSUME NEW n \in Nat PROVE F[n+1] = h[n][F[n]]
  <2>1. n + 1 \in Nat /\ n <= n + 1 /\ n <= n
    OBVIOUS
  <2>2. IsRec(A(n), c, h, n, S) /\ IsRec(A(n+1), c, h, n+1, S)
    BY <1>1, <2>1
  <2>3. A(n)[n] = A(n+1)[n]
    BY <2>1, <2>2, RecUnique
  <2>4. A(n+1)[n+1] = h[n][A(n+1)[n]]
    BY <2>1, <2>2 DEF IsRec
  <2>5. QED
    BY <2>1, <2>3, <2>4
<1>5. QED
  <2> HIDE DEF F
  <2>1. QED
    BY <1>2, <1>3, <1>4 DEF Follows

\* The same for a function to the integers.
LEMMA RecExists ==
  ASSUME NEW c \in Int, NEW h \in [Nat -> [Int -> Int]]
  PROVE  \E f \in [Nat -> Int] : f[0] = c /\ \A n \in Nat : f[n+1] = h[n][f[n]]
<1> DEFINE S == Int
<1>1. c \in S /\ h \in [Nat -> [S -> S]]
  OBVIOUS
<1> HIDE DEF S
<1>2. \E f : Follows(f, c, h, S)
  BY ONLY <1>1, RecExistsIn, Zenon
<1>3. QED
  BY <1>2 DEF S, Follows

\* The same for a finite approximation.
LEMMA RecExistsInt ==
  ASSUME NEW c \in Int, NEW h \in [Nat -> [Int -> Int]], NEW n \in Nat
  PROVE  \E f : IsRec(f, c, h, n, Int)
<1> DEFINE S == Int
<1>1. c \in S /\ h \in [Nat -> [S -> S]]
  OBVIOUS
<1> HIDE DEF S
<1>2. \A t \in Nat : \E f : IsRec(f, c, h, t, S)
  BY ONLY <1>1, RecExistsFinite, Zenon
<1>3. QED
  BY <1>2 DEF S

IsGeometric(F, c, r) == F = [i \in Nat |-> IF i = 0 THEN c ELSE r * F[i - 1]]

\* A recursive function that multiplies by r at every step exists: the powers of
\* the base and the weights of the windows of a scalar.
LEMMA GeometricExists ==
  ASSUME NEW c \in Nat, NEW r \in Nat
  PROVE  \E f : f = [i \in Nat |-> IF i = 0 THEN c ELSE r * f[i - 1]]
<1> DEFINE h == [i \in Nat |-> [x \in Int |-> r * x]]
<1>1. PICK f \in [Nat -> Int] : f[0] = c /\ \A i \in Nat : f[i + 1] = h[i][f[i]]
  <2>1. h \in [Nat -> [Int -> Int]] /\ c \in Int
    OBVIOUS
  <2> HIDE DEF h
  <2>2. QED
    BY <2>1, RecExists
<1>2. ASSUME NEW i \in Nat PROVE f[i] = IF i = 0 THEN c ELSE r * f[i - 1]
  <2>1. CASE i = 0
    BY <1>1, <2>1
  <2>2. CASE i # 0
    <3>1. i - 1 \in Nat /\ (i - 1) + 1 = i
      BY <2>2
    <3>2. f[(i - 1) + 1] = h[i - 1][f[i - 1]]
      BY <1>1, <3>1
    <3>3. QED
      BY <1>1, <3>1, <3>2, <2>2
  <2>3. QED
    BY <2>1, <2>2
<1>3. f = [i \in Nat |-> IF i = 0 THEN c ELSE r * f[i - 1]]
  BY <1>2
<1>4. QED
  BY <1>3

\* A function that satisfies it takes natural values, so its recursion can be used.
LEMMA GeometricFacts ==
  ASSUME NEW c \in Nat, NEW r \in Nat, NEW F,
         IsGeometric(F, c, r)
  PROVE  F \in [Nat -> Nat] /\ F[0] = c /\ \A i \in Nat : F[i + 1] = r * F[i]
<1>0. F = [i \in Nat |-> IF i = 0 THEN c ELSE r * F[i - 1]]
  BY DEF IsGeometric
<1>1. F[0] = c
  BY <1>0
<1>2. ASSUME NEW i \in Nat PROVE F[i + 1] = r * F[i]
  <2>1. i + 1 \in Nat /\ i + 1 # 0 /\ (i + 1) - 1 = i
    OBVIOUS
  <2>2. F[i + 1] = r * F[(i + 1) - 1]
    BY <1>0, <2>1
  <2>3. QED
    BY <2>1, <2>2
<1> DEFINE T == {i \in Nat : F[i] \in Nat}
<1>3. 0 \in T
  BY <1>1
<1>4. \A i \in T : i + 1 \in T
  BY <1>2
<1>5. T = Nat
  <2>1. T \in SUBSET Nat
    OBVIOUS
  <2> HIDE DEF T
  <2>2. QED
    BY <1>3, <1>4, <2>1, InductionOnNat
<1>6. \A i \in Nat : F[i] \in Nat
  BY <1>5
<1>7. F \in [Nat -> Nat]
  <2>1. F = [i \in Nat |-> F[i]]
    BY <1>0
  <2>2. QED
    BY <1>6, <2>1
<1>8. QED
  BY <1>1, <1>2, <1>7

IsAffine(F, c, r, s) == F = [i \in Nat |-> IF i = 0 THEN c ELSE r * F[i - 1] + s]
AffineSteps(F, r, s) == \A i \in Nat : F[i + 1] = r * F[i] + s

\* A recursive function that multiplies by r and adds s at every step exists:
\* the recoding constants of the windowed scalar multiplications.
LEMMA AffineExists ==
  ASSUME NEW c \in Nat, NEW r \in Nat, NEW s \in Nat
  PROVE  \E f : f = [i \in Nat |-> IF i = 0 THEN c ELSE r * f[i - 1] + s]
<1> DEFINE h == [i \in Nat |-> [x \in Int |-> r * x + s]]
<1>1. PICK f \in [Nat -> Int] : f[0] = c /\ \A i \in Nat : f[i + 1] = h[i][f[i]]
  <2>1. h \in [Nat -> [Int -> Int]] /\ c \in Int
    OBVIOUS
  <2> HIDE DEF h
  <2>2. QED
    BY <2>1, RecExists
<1>2. ASSUME NEW i \in Nat PROVE f[i] = IF i = 0 THEN c ELSE r * f[i - 1] + s
  <2>1. CASE i = 0
    BY <1>1, <2>1
  <2>2. CASE i # 0
    <3>1. i - 1 \in Nat /\ (i - 1) + 1 = i
      BY <2>2
    <3>2. f[(i - 1) + 1] = h[i - 1][f[i - 1]]
      BY <1>1, <3>1
    <3>3. QED
      BY <1>1, <3>1, <3>2, <2>2
  <2>3. QED
    BY <2>1, <2>2
<1>3. f = [i \in Nat |-> IF i = 0 THEN c ELSE r * f[i - 1] + s]
  BY <1>2
<1>4. QED
  BY <1>3

\* A function that satisfies it takes natural values, so its recursion can be used.
LEMMA AffineFacts ==
  ASSUME NEW c \in Nat, NEW r \in Nat, NEW s \in Nat, NEW F,
         IsAffine(F, c, r, s)
  PROVE  F \in [Nat -> Nat] /\ F[0] = c /\ AffineSteps(F, r, s)
<1>0. F = [i \in Nat |-> IF i = 0 THEN c ELSE r * F[i - 1] + s]
  BY DEF IsAffine
<1>1. F[0] = c
  BY <1>0
<1>2. ASSUME NEW i \in Nat PROVE F[i + 1] = r * F[i] + s
  <2>1. i + 1 \in Nat /\ i + 1 # 0 /\ (i + 1) - 1 = i
    OBVIOUS
  <2>2. F[i + 1] = r * F[(i + 1) - 1] + s
    BY <1>0, <2>1
  <2>3. QED
    BY <2>1, <2>2
<1> DEFINE T == {i \in Nat : F[i] \in Nat}
<1>3. 0 \in T
  BY <1>1
<1>4. \A i \in T : i + 1 \in T
  BY <1>2
<1>5. T = Nat
  <2>1. T \in SUBSET Nat
    OBVIOUS
  <2> HIDE DEF T
  <2>2. QED
    BY <1>3, <1>4, <2>1, InductionOnNat
<1>6. \A i \in Nat : F[i] \in Nat
  BY <1>5
<1>7. F \in [Nat -> Nat]
  <2>1. F = [i \in Nat |-> F[i]]
    BY <1>0
  <2>2. QED
    BY <1>6, <2>1
<1>8. QED
  BY <1>1, <1>2, <1>7 DEF AffineSteps

IsSum(V, t) == V = [k \in Nat |-> IF k = 0 THEN 0 ELSE V[k - 1] + t[k - 1]]

\* The function of the sums of the first k terms exists: the value of a number in
\* memory is such a sum.
LEMMA SumExists ==
  ASSUME NEW t \in [Nat -> Nat]
  PROVE  \E f : f = [k \in Nat |-> IF k = 0 THEN 0 ELSE f[k - 1] + t[k - 1]]
<1> DEFINE h == [k \in Nat |-> [s \in Int |-> s + t[k]]]
<1>1. PICK f \in [Nat -> Int] : f[0] = 0 /\ \A k \in Nat : f[k + 1] = h[k][f[k]]
  <2>1. h \in [Nat -> [Int -> Int]] /\ 0 \in Int
    OBVIOUS
  <2> HIDE DEF h
  <2>2. QED
    BY <2>1, RecExists
<1>2. ASSUME NEW k \in Nat PROVE f[k] = IF k = 0 THEN 0 ELSE f[k - 1] + t[k - 1]
  <2>1. CASE k = 0
    BY <1>1, <2>1
  <2>2. CASE k # 0
    <3>1. k - 1 \in Nat /\ (k - 1) + 1 = k
      BY <2>2
    <3>2. f[(k - 1) + 1] = h[k - 1][f[k - 1]]
      BY <1>1, <3>1
    <3>3. QED
      BY <1>1, <3>1, <3>2, <2>2
  <2>3. QED
    BY <2>1, <2>2
<1>3. f = [k \in Nat |-> IF k = 0 THEN 0 ELSE f[k - 1] + t[k - 1]]
  BY <1>2
<1>4. QED
  BY <1>3

\* A function that satisfies it takes natural values, so its recursion can be used.
LEMMA SumFacts ==
  ASSUME NEW t \in [Nat -> Nat], NEW V, IsSum(V, t)
  PROVE  V[0] = 0 /\ \A k \in Nat : V[k] \in Nat /\ V[k + 1] = V[k] + t[k]
<1>1. V = [k \in Nat |-> IF k = 0 THEN 0 ELSE V[k - 1] + t[k - 1]]
  BY DEF IsSum
<1>2. V[0] = 0
  BY <1>1
<1>3. ASSUME NEW k \in Nat PROVE V[k + 1] = V[k] + t[k]
  <2>1. k + 1 \in Nat /\ k + 1 # 0 /\ (k + 1) - 1 = k
    OBVIOUS
  <2>2. V[k + 1] = V[(k + 1) - 1] + t[(k + 1) - 1]
    BY <1>1, <2>1
  <2>3. QED
    BY <2>1, <2>2
<1> DEFINE T == {k \in Nat : V[k] \in Nat}
<1>4. 0 \in T
  BY <1>2
<1>5. \A k \in T : k + 1 \in T
  BY <1>3
<1>6. T = Nat
  <2>1. T \in SUBSET Nat
    OBVIOUS
  <2> HIDE DEF T
  <2>2. QED
    BY <1>4, <1>5, <2>1, InductionOnNat
<1>7. QED
  BY <1>2, <1>3, <1>6

\* The sum of the first len terms depends on no other term.
LEMMA SumCongruence ==
  ASSUME NEW s \in [Nat -> Nat], NEW t \in [Nat -> Nat],
         NEW V, IsSum(V, s), NEW U, IsSum(U, t),
         NEW len \in Nat, \A k \in 0 .. (len - 1) : s[k] = t[k]
  PROVE  V[len] = U[len]
<1> DEFINE T == {k \in Nat : k <= len => V[k] = U[k]}
<1>1. 0 \in T
  BY SumFacts
<1>2. ASSUME NEW k \in T PROVE k + 1 \in T
  <2>1. CASE k + 1 <= len
    <3>1. k \in Nat /\ k <= len /\ k \in 0 .. (len - 1)
      BY <2>1
    <3>2. V[k] = U[k] /\ s[k] = t[k]
      BY <3>1
    <3>3. V[k + 1] = V[k] + s[k] /\ U[k + 1] = U[k] + t[k]
      BY <3>1, SumFacts
    <3>4. QED
      BY <3>1, <3>2, <3>3
  <2>2. QED
    BY <2>1
<1>3. T \in SUBSET Nat
  OBVIOUS
<1>4. T = Nat
  <2> HIDE DEF T
  <2>1. QED
    BY <1>1, <1>2, <1>3, InductionOnNat
<1>5. QED
  BY <1>4

-----------------------------------------------------------------------------
(* Quotients and remainders.                                                *)

\* What \div and % compute, for any divisor: masks, shifts and reductions.
LEMMA DivMod ==
  ASSUME NEW a \in Int, NEW m \in Nat, m > 0
  PROVE  /\ a \div m \in Int /\ a % m \in Int
         /\ a = m * (a \div m) + (a % m)
         /\ 0 <= a % m /\ a % m < m
OBVIOUS

\* Zero is the only multiple of m strictly between -m and m.
LEMMA NoMultipleBetween ==
  ASSUME NEW m \in Nat, m > 0, NEW q \in Int, 0 - m < m * q, m * q < m
  PROVE q = 0
<1>1. CASE q >= 1
  <2>1. m * q >= m
    BY <1>1
  <2>2. QED
    BY <2>1
<1>2. CASE q <= 0 - 1
  <2>1. m * q <= 0 - m
    BY <1>2
  <2>2. QED
    BY <2>1
<1>3. QED
  BY <1>1, <1>2

\* Quotient and remainder are unique.
LEMMA DivUnique ==
  ASSUME NEW m \in Nat, m > 0, NEW q \in Int, NEW r \in 0..(m-1)
  PROVE  (m * q + r) \div m = q /\ (m * q + r) % m = r
<1> DEFINE a == m * q + r
           p == a \div m
           s == a % m
<1>1. a \in Int
  OBVIOUS
<1>2. p \in Int /\ s \in Int /\ a = m * p + s /\ 0 <= s /\ s < m
  BY <1>1, DivMod
<1> HIDE DEF p, s
<1>3. m * (q - p) = s - r
  <2>1. m * q + r = m * p + s
    BY <1>2
  <2>2. m * (q - p) = m * q - m * p
    BY <1>2
  <2>3. m * q \in Int /\ m * p \in Int
    BY <1>2
  <2>4. QED
    BY <1>2, <2>1, <2>2, <2>3
<1>4. q - p = 0
  <2>1. s - r < m /\ 0 - m < s - r /\ q - p \in Int
    BY <1>2
  <2>2. QED
    BY <1>3, <2>1, NoMultipleBetween
<1>5. q = p /\ r = s
  BY <1>2, <1>3, <1>4
<1>6. QED
  BY <1>5 DEF p, s

\* Adding a multiple of m does not change the residue.
LEMMA ModShift ==
  ASSUME NEW m \in Nat, m > 0, NEW x \in Int, NEW y \in Int, NEW q \in Int,
         x = y + m * q
  PROVE  x % m = y % m
<1> DEFINE d == y \div m
           s == y % m
<1>1. d \in Int /\ s \in 0 .. (m - 1) /\ y = m * d + s
  BY DivMod
<1> HIDE DEF d, s
<1>2. x = m * (d + q) + s
  <2>1. m * (d + q) = m * d + m * q
    BY <1>1
  <2>2. m * d \in Int /\ m * q \in Int
    BY <1>1
  <2>3. QED
    BY <1>1, <2>1, <2>2
<1>3. (m * (d + q) + s) % m = s
  <2>1. d + q \in Int
    BY <1>1
  <2>2. QED
    BY <1>1, <2>1, DivUnique
<1>4. QED
  BY <1>2, <1>3 DEF s

\* Numbers with the same residue differ by a multiple of m.
LEMMA SameResidue ==
  ASSUME NEW m \in Nat, m > 0, NEW x \in Int, NEW y \in Int, x % m = y % m
  PROVE  \E q \in Int : x - y = m * q
<1> DEFINE d == x \div m
           e == y \div m
           s == x % m
<1>1. d \in Int /\ e \in Int /\ s \in Int /\ x = m * d + s /\ y = m * e + s
  BY DivMod
<1> HIDE DEF d, e, s
<1>2. m * (d - e) = m * d - m * e
  BY <1>1
<1>3. m * d \in Int /\ m * e \in Int
  BY <1>1
<1>4. x - y = m * (d - e)
  BY <1>1, <1>2, <1>3
<1>5. d - e \in Int
  BY <1>1
<1>6. QED
  BY <1>4, <1>5

\* A factor may be applied before or after reduction.
LEMMA ModTimes ==
  ASSUME NEW m \in Nat, m > 0, NEW x \in Int, NEW c \in Int
  PROVE  (c * (x % m)) % m = (c * x) % m
<1> DEFINE d == x \div m
           s == x % m
<1>1. d \in Int /\ s \in Int /\ x = m * d + s
  BY DivMod
<1> HIDE DEF d, s
<1>2. c * x = c * s + m * (c * d)
  <2>1. c * (m * d + s) = c * (m * d) + c * s
    BY <1>1
  <2>2. c * (m * d) = m * (c * d)
    BY <1>1
  <2>3. c * (m * d) \in Int /\ c * s \in Int
    BY <1>1
  <2>4. QED
    BY <1>1, <2>1, <2>2, <2>3
<1>3. c * x \in Int /\ c * s \in Int /\ c * d \in Int
  BY <1>1
<1>4. QED
  BY <1>2, <1>3, ModShift DEF s

\* Sums may be reduced before or after.
LEMMA ModPlus ==
  ASSUME NEW m \in Nat, m > 0, NEW x \in Int, NEW y \in Int
  PROVE  ((x % m) + (y % m)) % m = (x + y) % m
<1> DEFINE d == x \div m
           s == x % m
           e == y \div m
           t == y % m
<1>1. d \in Int /\ s \in Int /\ x = m * d + s /\ e \in Int /\ t \in Int /\ y = m * e + t
  BY DivMod
<1> HIDE DEF d, s, e, t
<1>2. x + y = (s + t) + m * (d + e)
  <2>1. m * (d + e) = m * d + m * e
    BY <1>1
  <2>2. m * d \in Int /\ m * e \in Int
    BY <1>1
  <2>3. QED
    BY <1>1, <2>1, <2>2
<1>3. x + y \in Int /\ s + t \in Int /\ d + e \in Int
  BY <1>1
<1>4. (x + y) % m = (s + t) % m
  BY <1>2, <1>3, ModShift
<1>5. QED
  BY <1>4 DEF s, t

\* Extracting a bitfield: the quotient by P is r times the quotient by r * P
\* plus the field of width r above P.
LEMMA Bitfields ==
  ASSUME NEW x \in Int, NEW P \in Nat, P > 0, NEW r \in Nat, r > 0
  PROVE  x \div P = r * (x \div (r * P)) + ((x \div P) % r)
<1> DEFINE q == x \div P
           s == x % P
           d == q \div r
           e == q % r
<1>1. q \in Int /\ s \in 0 .. (P - 1) /\ x = P * q + s
  BY DivMod
<1>2. d \in Int /\ e \in 0 .. (r - 1) /\ q = r * d + e
  BY <1>1, DivMod
<1> HIDE DEF q, s, d, e
<1>3. x = (r * P) * d + (P * e + s)
  <2>1. P * (r * d + e) = P * (r * d) + P * e
    BY <1>2
  <2>2. P * (r * d) = (r * P) * d
    BY <1>2
  <2>3. (r * P) * d \in Int /\ P * e \in Int
    BY <1>2
  <2>4. QED
    BY <1>1, <1>2, <2>1, <2>2, <2>3
<1>4. P * e + s \in 0 .. ((r * P) - 1)
  <2>1. P * e <= P * (r - 1) /\ P * e >= 0
    BY <1>2
  <2>2. P * (r - 1) = r * P - P
    OBVIOUS
  <2>3. P * e \in Int /\ r * P \in Int
    BY <1>2
  <2>4. QED
    BY <1>1, <2>1, <2>2, <2>3
<1>5. r * P \in Nat /\ r * P > 0
  OBVIOUS
<1>6. ((r * P) * d + (P * e + s)) \div (r * P) = d
  BY <1>2, <1>4, <1>5, DivUnique
<1>7. QED
  BY <1>2, <1>3, <1>6 DEF q, d, e

-----------------------------------------------------------------------------
(* Congruences.                                                             *)

Congruent(x, y, n) == \E q \in Int : x = y + n * q

\* Numbers with the same residue, or a difference without one, are congruent.
LEMMA CongruentMod ==
  ASSUME NEW n \in Nat, n > 0, NEW x \in Int, NEW y \in Int
  PROVE  /\ x % n = y % n => Congruent(x, y, n)
         /\ (x - y) % n = 0 => Congruent(x, y, n)
         /\ Congruent(x, y, n) => x % n = y % n
         /\ Congruent(x % n, x, n)
<1>1. ASSUME x % n = y % n PROVE Congruent(x, y, n)
  <2>1. PICK q \in Int : x - y = n * q
    BY <1>1, SameResidue
  <2>2. n * q \in Int /\ x = y + n * q
    BY <2>1
  <2>3. QED
    BY <2>2 DEF Congruent
<1>2. ASSUME (x - y) % n = 0 PROVE Congruent(x, y, n)
  <2> DEFINE s == x - y
             q == s \div n
  <2>1. s \in Int /\ s % n = 0
    BY <1>2
  <2> HIDE DEF s
  <2>2. q \in Int /\ s = n * q + 0
    BY <2>1, DivMod
  <2> HIDE DEF q
  <2>3. x = y + n * q
    <3>1. n * q \in Int
      BY <2>2
    <3>2. QED
      BY <2>2, <3>1 DEF s
  <2>4. QED
    BY <2>2, <2>3 DEF Congruent
<1>3. ASSUME Congruent(x, y, n) PROVE x % n = y % n
  <2>1. PICK q \in Int : x = y + n * q
    BY <1>3 DEF Congruent
  <2>2. QED
    BY <2>1, ModShift
<1>4. Congruent(x % n, x, n)
  <2> DEFINE s == x % n
             q == x \div n
  <2>1. q \in Int /\ s \in Int /\ x = n * q + s
    BY DivMod
  <2> HIDE DEF s, q
  <2>2. 0 - q \in Int /\ n * q \in Int /\ n * (0 - q) = 0 - n * q
    BY <2>1
  <2>3. s = x + n * (0 - q)
    BY <2>1, <2>2
  <2>4. QED
    BY <2>2, <2>3 DEF Congruent, s
<1>5. QED
  BY <1>1, <1>2, <1>3, <1>4

\* Congruence is an equivalence.
LEMMA CongruentSymmetric ==
  ASSUME NEW n \in Nat, NEW x \in Int, NEW y \in Int, Congruent(x, y, n)
  PROVE  Congruent(y, x, n)
<1>1. PICK q \in Int : x = y + n * q
  BY DEF Congruent
<1>2. 0 - q \in Int /\ n * q \in Int /\ n * (0 - q) = 0 - n * q
  OBVIOUS
<1>3. y = x + n * (0 - q)
  BY <1>1, <1>2
<1>4. QED
  BY <1>2, <1>3 DEF Congruent

\* Congruences chain.
LEMMA CongruentTransitive ==
  ASSUME NEW n \in Nat, NEW x \in Int, NEW y \in Int, NEW u \in Int,
         Congruent(x, y, n), Congruent(y, u, n)
  PROVE  Congruent(x, u, n)
<1>1. PICK q \in Int : x = y + n * q
  BY DEF Congruent
<1>2. PICK r \in Int : y = u + n * r
  BY DEF Congruent
<1>3. q + r \in Int /\ n * q \in Int /\ n * r \in Int /\ n * (q + r) = n * q + n * r
  OBVIOUS
<1>4. x = u + n * (q + r)
  BY <1>1, <1>2, <1>3
<1>5. QED
  BY <1>3, <1>4 DEF Congruent

\* Products of congruent numbers are congruent.
LEMMA CongruentTimes ==
  ASSUME NEW n \in Nat, NEW x \in Int, NEW y \in Int, NEW u \in Int, NEW v \in Int,
         Congruent(x, y, n), Congruent(u, v, n)
  PROVE  Congruent(x * u, y * v, n)
<1>1. PICK q \in Int : x = y + n * q
  BY DEF Congruent
<1>2. PICK r \in Int : u = v + n * r
  BY DEF Congruent
<1> DEFINE s == q * u + y * r
<1>3. x * u = y * u + (n * q) * u
  BY <1>1
<1>4. y * u = y * v + y * (n * r)
  BY <1>2
<1>5. (n * q) * u = n * (q * u) /\ y * (n * r) = n * (y * r)
  OBVIOUS
<1>6. n * s = n * (q * u) + n * (y * r)
  OBVIOUS
<1>7. s \in Int /\ y * v \in Int /\ n * (q * u) \in Int /\ n * (y * r) \in Int
  OBVIOUS
<1> HIDE DEF s
<1>8. x * u = y * v + n * s
  BY <1>3, <1>4, <1>5, <1>6, <1>7
<1>9. QED
  BY <1>7, <1>8 DEF Congruent

\* A residue is the only number of its class below the modulus.
LEMMA CongruentUnique ==
  ASSUME NEW n \in Nat, n > 0, NEW x \in 0 .. (n - 1), NEW y \in 0 .. (n - 1),
         Congruent(x, y, n)
  PROVE  x = y
<1>1. PICK q \in Int : x = y + n * q
  BY DEF Congruent
<1>2. 0 - n < n * q /\ n * q < n
  <2>1. n * q \in Int
    OBVIOUS
  <2>2. QED
    BY <1>1, <2>1
<1>3. q = 0
  BY <1>2, NoMultipleBetween
<1>4. QED
  BY <1>1, <1>3

\* The powers of two, the weights of bits.
IsPow2(F) == F \in [Nat -> Nat] /\ F[0] = 1 /\ \A t \in Nat : F[t + 1] = 2 * F[t]

\* A factor of two can be cancelled modulo an odd number, and so can a power of two.
LEMMA CongruentHalf ==
  ASSUME NEW n \in Nat, n % 2 = 1, NEW x \in Int, NEW y \in Int,
         Congruent(2 * x, 2 * y, n)
  PROVE  Congruent(x, y, n)
<1>1. PICK q \in Int : 2 * x = 2 * y + n * q
  BY DEF Congruent
<1> DEFINE g == n \div 2
           r == q \div 2
           s == q % 2
<1>2. g \in Int /\ n = 2 * g + 1
  BY DivMod
<1>3. r \in Int /\ s \in {0, 1} /\ q = 2 * r + s
  BY DivMod
<1> HIDE DEF g, r, s
<1>4. n * q = 2 * (n * r) + (2 * g + 1) * s
  <2>1. n * (2 * r + s) = 2 * (n * r) + n * s
    BY <1>3
  <2>2. QED
    BY <1>2, <1>3, <2>1
<1>5. s = 0
  <2>1. SUFFICES ASSUME s = 1 PROVE FALSE
    BY <1>3
  <2>2. n * r \in Int
    BY <1>3
  <2>3. 2 * x = 2 * y + 2 * (n * r) + 2 * g + 1
    BY <1>1, <1>2, <1>4, <2>1, <2>2
  <2>4. QED
    BY <1>2, <2>2, <2>3
<1>6. x = y + n * r
  <2>1. n * r \in Int
    BY <1>3
  <2>2. QED
    BY <1>1, <1>2, <1>4, <1>5, <2>1
<1>7. QED
  BY <1>3, <1>6 DEF Congruent

\* A power of two can be cancelled from a congruence modulo an odd number.
LEMMA CongruentCancel ==
  ASSUME NEW n \in Nat, n % 2 = 1, NEW F, IsPow2(F), NEW e \in Nat,
         NEW x \in Int, NEW y \in Int, Congruent(F[e] * x, F[e] * y, n)
  PROVE  Congruent(x, y, n)
<1> DEFINE T == {t \in Nat : Congruent(F[t] * x, F[t] * y, n) => Congruent(x, y, n)}
<1>1. 0 \in T
  BY DEF IsPow2
<1>2. ASSUME NEW t \in T PROVE t + 1 \in T
  <2>1. SUFFICES ASSUME Congruent(F[t + 1] * x, F[t + 1] * y, n)
                 PROVE  Congruent(x, y, n)
    OBVIOUS
  <2> DEFINE f == F[t]
             fx == f * x
             fy == f * y
  <2>2. f \in Nat /\ F[t + 1] = 2 * f
    BY DEF IsPow2
  <2> HIDE DEF f
  <2>3. fx \in Int /\ fy \in Int /\ F[t + 1] * x = 2 * fx /\ F[t + 1] * y = 2 * fy
    BY <2>2
  <2> HIDE DEF fx, fy
  <2>4. Congruent(2 * fx, 2 * fy, n)
    BY <2>1, <2>3
  <2>5. Congruent(fx, fy, n)
    BY <2>3, <2>4, CongruentHalf
  <2>6. QED
    BY <2>5 DEF fx, fy, f
<1>3. T \in SUBSET Nat
  OBVIOUS
<1>4. T = Nat
  <2> HIDE DEF T
  <2>1. QED
    BY <1>1, <1>2, <1>3, InductionOnNat
<1>5. QED
  BY <1>4

\* Some multiple of an odd number below 2^e makes the low e bits of a sum vanish: the
\* multiplier of a Montgomery reduction.
HasMultiplier(v, n, g) == \E u \in 0 .. (g - 1) : \E s \in Int : v + u * n = g * s

\* An odd modulus has a multiplier for every number and every power of two.
LEMMA OddMultiplier ==
  ASSUME NEW n \in Nat, n % 2 = 1, NEW F, IsPow2(F), NEW v \in Int, NEW t \in Nat
  PROVE  HasMultiplier(v, n, F[t])
<1> DEFINE T == {e \in Nat : \E u \in 0 .. (F[e] - 1) : \E s \in Int : v + u * n = F[e] * s}
<1>1. 0 \in T
  <2>1. F[0] = 1 /\ 0 \in 0 .. (F[0] - 1) /\ v + 0 * n = F[0] * v
    BY DEF IsPow2
  <2>2. QED
    BY <2>1
<1>2. ASSUME NEW e \in T PROVE e + 1 \in T
  <2>1. PICK u \in 0 .. (F[e] - 1), s \in Int : v + u * n = F[e] * s
    OBVIOUS
  <2> DEFINE f == F[e]
             g == n \div 2
             r == s \div 2
             b == s % 2
  <2>2. f \in Nat /\ F[e + 1] = 2 * f /\ u \in 0 .. (f - 1) /\ v + u * n = f * s
    BY <2>1 DEF IsPow2
  <2>3. g \in Int /\ n = 2 * g + 1
    BY DivMod
  <2>4. r \in Int /\ b \in {0, 1} /\ s = 2 * r + b
    BY DivMod
  <2> HIDE DEF f, g, r, b
  <2>5. CASE b = 0
    <3>1. f * s = (2 * f) * r
      BY <2>2, <2>4, <2>5
    <3>2. u \in 0 .. (F[e + 1] - 1) /\ v + u * n = F[e + 1] * r
      BY <2>2, <3>1
    <3>3. \E m \in 0 .. (F[e + 1] - 1) : \E q \in Int : v + m * n = F[e + 1] * q
      BY <2>4, <3>2
    <3>4. QED
      BY <3>3
  <2>6. CASE b = 1
    <3>1. v + (u + f) * n = (2 * f) * (r + g + 1)
      <4>1. (u + f) * n = u * n + f * n
        BY <2>2
      <4>2. f * n = f * (2 * g) + f
        BY <2>2, <2>3
      <4>3. f * s = f * (2 * r) + f
        BY <2>2, <2>4, <2>6
      <4>4. (2 * f) * (r + g + 1) = f * (2 * r) + f * (2 * g) + 2 * f
        BY <2>2, <2>3, <2>4
      <4>5. u * n \in Int /\ f * (2 * g) \in Int /\ f * (2 * r) \in Int
        BY <2>2, <2>3, <2>4
      <4>6. QED
        BY <2>2, <4>1, <4>2, <4>3, <4>4, <4>5
    <3>2. u + f \in 0 .. ((2 * f) - 1) /\ r + g + 1 \in Int
      BY <2>2, <2>3, <2>4
    <3>3. u + f \in 0 .. (F[e + 1] - 1) /\ v + (u + f) * n = F[e + 1] * (r + g + 1)
      BY <2>2, <3>1, <3>2
    <3>4. \E m \in 0 .. (F[e + 1] - 1) : \E q \in Int : v + m * n = F[e + 1] * q
      BY <3>2, <3>3
    <3>5. QED
      BY <3>4
  <2>7. QED
    BY <2>4, <2>5, <2>6
<1>3. T \in SUBSET Nat
  OBVIOUS
<1>4. T = Nat
  <2> HIDE DEF T
  <2>1. QED
    BY <1>1, <1>2, <1>3, InductionOnNat
<1>5. t \in T
  BY <1>4
<1>6. QED
  BY <1>5 DEF HasMultiplier
=============================================================================

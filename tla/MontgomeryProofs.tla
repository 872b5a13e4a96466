-------------------------- MODULE MontgomeryProofs --------------------------
(***************************************************************************)
(* Proofs about BignumMontRedc, for every base, memory and length.         *)
(* The inductive invariant is IInv: at every label the window, with what   *)
(* is pending in registers and flags, is an exact number of rows of        *)
(* reduction of the digits taken from the input.  That the carry above the *)
(* window is a bit follows from its size after a row; that the last loop   *)
(* subtracts the modulus when and only when that leaves k digits, from its *)
(* size after all of them.                                                 *)
(*                                                                         *)
(* The refinement of ModPower by BignumModexp follows, and then the proofs *)
(* about Division, whose quotient loop is such a reduction by one digit:   *)
(* the remainder from its estimates (CmodRight), the inverse from its      *)
(* Newton steps (NegmodinvRight), the quotient from a balance of weights   *)
(* (QuotientLoopRight), the tenth from its products (TenthRight).          *)
(***************************************************************************)
EXTENDS MCMontgomery, Division, ArithmeticFacts

-----------------------------------------------------------------------------
(* Numbers in memory: facts about module Words.                             *)

\* The powers of the base, the weights of the words of a buffer.
LEMMA PowFacts ==
  Pow \in [Nat -> Nat] /\ Pow[0] = 1 /\ \A k \in Nat : Pow[k + 1] = B * Pow[k]
<1>1. B \in Nat /\ 1 \in Nat
  BY BaseAssumption
<1>2. \E f : f = [t \in Nat |-> IF t = 0 THEN 1 ELSE B * f[t - 1]]
  BY <1>1, GeometricExists
<1>3. IsGeometric(Pow, 1, B)
  BY <1>2 DEF Pow, IsGeometric
<1>4. QED
  BY <1>1, <1>3, GeometricFacts

\* A word read from memory is a digit (bigdigit is below 2 EXP 64).
LEMMA DigitAtType ==
  ASSUME NEW mm \in [Addr -> Digit], NEW a \in Int
  PROVE  DigitAt(mm, a) \in Digit
BY BaseAssumption DEF DigitAt, Digit

\* What the words of a buffer add to its value.
Terms(mm, ptr) == [k \in Nat |-> DigitAt(mm, ptr + k) * Pow[k]]

\* The value of a buffer is the sum of what its words add.
LEMMA ValueIsSum ==
  ASSUME NEW mm \in [Addr -> Digit], NEW ptr \in Nat
  PROVE  /\ Terms(mm, ptr) \in [Nat -> Nat]
         /\ \E V : /\ IsSum(V, Terms(mm, ptr))
                   /\ \A k \in Nat : Value(mm, ptr, k) = V[k]
<1> DEFINE t == Terms(mm, ptr)
           body(v) == [k \in Nat |-> IF k = 0 THEN 0
                                     ELSE v[k - 1] + DigitAt(mm, ptr + k - 1) * Pow[k - 1]]
           V == CHOOSE v : v = body(v)
<1>1. t \in [Nat -> Nat]
  <2>1. ASSUME NEW k \in Nat PROVE DigitAt(mm, ptr + k) * Pow[k] \in Nat
    <3>1. DigitAt(mm, ptr + k) \in Nat
      BY DigitAtType, BaseAssumption DEF Digit
    <3>2. QED
      BY <3>1, PowFacts
  <2>2. QED
    BY <2>1 DEF Terms
<1>2. ASSUME NEW v PROVE body(v) = [k \in Nat |-> IF k = 0 THEN 0 ELSE v[k - 1] + t[k - 1]]
  <2>1. ASSUME NEW k \in Nat, k # 0
        PROVE  DigitAt(mm, ptr + k - 1) * Pow[k - 1] = t[k - 1]
    <3>1. k - 1 \in Nat /\ ptr + k - 1 = ptr + (k - 1)
      BY <2>1
    <3>2. QED
      BY <3>1 DEF Terms
  <2> HIDE DEF t
  <2>2. QED
    BY <2>1
<1>3. \E f : f = [k \in Nat |-> IF k = 0 THEN 0 ELSE f[k - 1] + t[k - 1]]
  <2> HIDE DEF t
  <2>1. QED
    BY <1>1, SumExists
<1>4. V = body(V)
  <2> HIDE DEF t, body
  <2>1. \E f : f = body(f)
    BY <1>2, <1>3
  <2>2. QED
    BY <2>1
<1>5. ASSUME NEW k \in Nat PROVE Value(mm, ptr, k) = V[k]
  BY DEF Value
<1>6. IsSum(V, t)
  <2> HIDE DEF t, body, V
  <2>1. QED
    BY <1>2, <1>4 DEF IsSum
<1>7. QED
  <2> HIDE DEF t, V
  <2>1. QED
    BY <1>1, <1>5, <1>6 DEF t

\* The recursion that defines the value of a buffer: no words are worth 0, and
\* word k of the buffer adds its digit with weight Pow[k].
LEMMA ValueFacts ==
  ASSUME NEW mm \in [Addr -> Digit], NEW ptr \in Nat
  PROVE  /\ Value(mm, ptr, 0) = 0
         /\ \A k \in Nat : /\ Value(mm, ptr, k) \in Nat
                           /\ Value(mm, ptr, k + 1) =
                                Value(mm, ptr, k) + DigitAt(mm, ptr + k) * Pow[k]
<1>1. PICK V : IsSum(V, Terms(mm, ptr)) /\ \A k \in Nat : Value(mm, ptr, k) = V[k]
  BY ValueIsSum
<1>2. V[0] = 0 /\ \A k \in Nat : V[k] \in Nat /\ V[k + 1] = V[k] + Terms(mm, ptr)[k]
  <2> DEFINE t == Terms(mm, ptr)
  <2>1. t \in [Nat -> Nat] /\ IsSum(V, t)
    BY <1>1, ValueIsSum
  <2> HIDE DEF t
  <2>2. V[0] = 0 /\ \A k \in Nat : V[k] \in Nat /\ V[k + 1] = V[k] + t[k]
    BY <2>1, SumFacts
  <2>3. QED
    BY <2>2 DEF t
<1>3. ASSUME NEW k \in Nat PROVE Terms(mm, ptr)[k] = DigitAt(mm, ptr + k) * Pow[k]
  BY DEF Terms
<1>4. QED
  BY <1>1, <1>2, <1>3

\* The value of a buffer depends only on its words: a loop that writes
\* elsewhere leaves it alone.
LEMMA ValueCongruence ==
  ASSUME NEW mem1 \in [Addr -> Digit], NEW mem2 \in [Addr -> Digit],
         NEW ptr \in Nat, NEW len \in Nat,
         \A k \in 0 .. (len - 1) : DigitAt(mem1, ptr + k) = DigitAt(mem2, ptr + k)
  PROVE  Value(mem1, ptr, len) = Value(mem2, ptr, len)
<1>1. ASSUME NEW k \in 0 .. (len - 1) PROVE Terms(mem1, ptr)[k] = Terms(mem2, ptr)[k]
  BY DEF Terms
<1>2. PICK V : IsSum(V, Terms(mem1, ptr)) /\ \A k \in Nat : Value(mem1, ptr, k) = V[k]
  BY ValueIsSum
<1>3. PICK U : IsSum(U, Terms(mem2, ptr)) /\ \A k \in Nat : Value(mem2, ptr, k) = U[k]
  BY ValueIsSum
<1>4. V[len] = U[len]
  <2> DEFINE s == Terms(mem1, ptr)
             t == Terms(mem2, ptr)
  <2>1. s \in [Nat -> Nat] /\ IsSum(V, s) /\ t \in [Nat -> Nat] /\ IsSum(U, t)
    BY <1>2, <1>3, ValueIsSum
  <2>2. \A k \in 0 .. (len - 1) : s[k] = t[k]
    BY <1>1
  <2> HIDE DEF s, t
  <2>3. QED
    BY <2>1, <2>2, SumCongruence
<1>5. QED
  BY <1>2, <1>3, <1>4


\* The powers of the base are positive.
LEMMA PowPositive ==
  \A t \in Nat : Pow[t] \in Nat /\ Pow[t] >= 1
<1> DEFINE T == {t \in Nat : Pow[t] >= 1}
<1>1. 0 \in T
  BY PowFacts
<1>2. ASSUME NEW t \in T PROVE t + 1 \in T
  <2>1. t \in Nat /\ Pow[t] \in Nat /\ Pow[t] >= 1 /\ Pow[t + 1] = B * Pow[t]
    BY PowFacts
  <2>2. B * Pow[t] >= 1
    <3> DEFINE P == Pow[t]
    <3>1. P \in Nat /\ P >= 1 /\ B \in Nat /\ B >= 2
      BY <2>1, BaseAssumption
    <3> HIDE DEF P
    <3>2. B * P >= 1
      BY <3>1
    <3>3. QED
      BY <3>2 DEF P
  <2>3. QED
    BY <2>1, <2>2
<1>3. T \in SUBSET Nat
  OBVIOUS
<1>4. T = Nat
  <2> HIDE DEF T
  <2>1. QED
    BY <1>1, <1>2, <1>3, InductionOnNat
<1>5. QED
  BY <1>4, PowFacts

\* Weights multiply: digit b of a number that starts at digit a has weight Pow[a + b].
LEMMA PowAdd ==
  ASSUME NEW a \in Nat, NEW b \in Nat
  PROVE  Pow[a + b] = Pow[a] * Pow[b]
<1> DEFINE T == {t \in Nat : Pow[a + t] = Pow[a] * Pow[t]}
<1>1. 0 \in T
  BY PowFacts
<1>2. ASSUME NEW t \in T PROVE t + 1 \in T
  <2>1. /\ t \in Nat /\ Pow[a + t] = Pow[a] * Pow[t]
        /\ a + (t + 1) = (a + t) + 1
        /\ Pow[(a + t) + 1] = B * Pow[a + t] /\ Pow[t + 1] = B * Pow[t]
        /\ Pow[a] \in Nat /\ Pow[t] \in Nat /\ B \in Nat
    BY PowFacts, BaseAssumption
  <2>2. B * (Pow[a] * Pow[t]) = Pow[a] * (B * Pow[t])
    <3> DEFINE P == Pow[a]
               Q == Pow[t]
    <3>1. P \in Nat /\ Q \in Nat /\ B \in Nat
      BY <2>1
    <3> HIDE DEF P, Q
    <3>2. B * (P * Q) = P * (B * Q)
      BY <3>1
    <3>3. QED
      BY <3>2 DEF P, Q
  <2>3. QED
    BY <2>1, <2>2
<1>3. T \in SUBSET Nat
  OBVIOUS
<1>4. T = Nat
  <2> HIDE DEF T
  <2>1. QED
    BY <1>1, <1>2, <1>3, InductionOnNat
<1>5. QED
  BY <1>4

\* A number of t digits is below B^t.
LEMMA ValueBound ==
  ASSUME NEW mm \in [Addr -> Digit], NEW ptr \in Nat
  PROVE  \A t \in Nat : Value(mm, ptr, t) \in Nat /\ Value(mm, ptr, t) < Pow[t]
<1> DEFINE T == {t \in Nat : Value(mm, ptr, t) < Pow[t]}
<1>1. 0 \in T
  BY ValueFacts, PowFacts
<1>2. ASSUME NEW t \in T PROVE t + 1 \in T
  <2> DEFINE V == Value(mm, ptr, t)
             V1 == Value(mm, ptr, t + 1)
             u == DigitAt(mm, ptr + t)
             P == Pow[t]
             P1 == Pow[t + 1]
  <2>1. t \in Nat /\ V < P /\ V \in Nat /\ V1 = V + u * P /\ P \in Nat /\ P1 = B * P
    BY ValueFacts, PowFacts
  <2>2. u \in Nat /\ u <= B - 1 /\ B \in Nat
    BY DigitAtType, BaseAssumption DEF Digit
  <2> HIDE DEF V, V1, u, P, P1
  <2>3. u * P <= (B - 1) * P
    BY <2>1, <2>2
  <2>4. V1 < P1
    BY <2>1, <2>2, <2>3
  <2>5. QED
    BY <2>1, <2>4 DEF V1, P1
<1>3. T \in SUBSET Nat
  OBVIOUS
<1>4. T = Nat
  <2> HIDE DEF T
  <2>1. QED
    BY <1>1, <1>2, <1>3, InductionOnNat
<1>5. QED
  BY <1>4, ValueFacts

\* A store of one word of a buffer changes its value by the difference at that
\* word's weight, and leaves the value of the words below it.
LEMMA ValueStore ==
  ASSUME NEW mm \in [Addr -> Digit], NEW ptr \in Nat, NEW t \in Nat,
         ptr + t < MemSize, NEW u \in Digit
  PROVE  /\ Store(mm, ptr + t, u) \in [Addr -> Digit]
         /\ \A k \in Nat :
              /\ k <= t => Value(Store(mm, ptr + t, u), ptr, k) = Value(mm, ptr, k)
              /\ k > t => Value(Store(mm, ptr + t, u), ptr, k)
                            = Value(mm, ptr, k) + (u - mm[ptr + t]) * Pow[t]
<1> DEFINE new == Store(mm, ptr + t, u)
           change == (u - mm[ptr + t]) * Pow[t]
<1>1. new \in [Addr -> Digit]
  BY DEF Store
<1>2. ptr + t \in Addr
  BY MemSizeAssumption DEF Addr
<1>3. DigitAt(new, ptr + t) = u /\ DigitAt(mm, ptr + t) = mm[ptr + t]
  BY <1>2 DEF DigitAt, Store
<1>4. ASSUME NEW k \in Nat, k # t
      PROVE  DigitAt(new, ptr + k) = DigitAt(mm, ptr + k)
  BY <1>4 DEF DigitAt, Store
<1>5. u \in Int /\ mm[ptr + t] \in Int /\ Pow[t] \in Int /\ change \in Int
  BY <1>2, PowFacts, BaseAssumption DEF Digit
<1> HIDE DEF new
<1>6. ASSUME NEW k \in Nat, k <= t PROVE Value(new, ptr, k) = Value(mm, ptr, k)
  <2>1. \A s \in 0 .. (k - 1) : DigitAt(new, ptr + s) = DigitAt(mm, ptr + s)
    BY <1>4, <1>6
  <2>2. QED
    BY <1>1, <2>1, ValueCongruence
<1> DEFINE T == {k \in Nat : Value(new, ptr, (t + 1) + k) = Value(mm, ptr, (t + 1) + k) + change}
<1>7. 0 \in T
  <2>1. /\ Value(new, ptr, t + 1) = Value(new, ptr, t) + u * Pow[t]
        /\ Value(mm, ptr, t + 1) = Value(mm, ptr, t) + mm[ptr + t] * Pow[t]
        /\ Value(mm, ptr, t) \in Int
    <3>1. Value(new, ptr, t + 1) = Value(new, ptr, t) + DigitAt(new, ptr + t) * Pow[t]
      BY <1>1, ValueFacts
    <3>2. /\ Value(mm, ptr, t + 1) = Value(mm, ptr, t) + DigitAt(mm, ptr + t) * Pow[t]
          /\ Value(mm, ptr, t) \in Int
      BY ValueFacts
    <3>3. QED
      BY <1>3, <3>1, <3>2
  <2>2. Value(new, ptr, t) = Value(mm, ptr, t)
    BY <1>6
  <2>3. change = u * Pow[t] - mm[ptr + t] * Pow[t]
    BY <1>5
  <2>4. u * Pow[t] \in Int /\ mm[ptr + t] * Pow[t] \in Int
    BY <1>5
  <2> HIDE DEF change
  <2>5. Value(new, ptr, t + 1) = Value(mm, ptr, t + 1) + change
    BY <2>1, <2>2, <2>3, <2>4
  <2>6. (t + 1) + 0 = t + 1
    OBVIOUS
  <2>7. QED
    BY <2>5, <2>6
<1> HIDE DEF change
<1>8. ASSUME NEW k \in T PROVE k + 1 \in T
  <2> DEFINE n == (t + 1) + k
  <2>1. n \in Nat /\ n # t /\ (t + 1) + (k + 1) = n + 1
    OBVIOUS
  <2>2. Value(new, ptr, n) = Value(mm, ptr, n) + change
    OBVIOUS
  <2> HIDE DEF n
  <2>3. DigitAt(new, ptr + n) = DigitAt(mm, ptr + n)
    BY <1>4, <2>1
  <2>4. /\ Value(new, ptr, n + 1) = Value(new, ptr, n) + DigitAt(new, ptr + n) * Pow[n]
        /\ Value(mm, ptr, n + 1) = Value(mm, ptr, n) + DigitAt(mm, ptr + n) * Pow[n]
        /\ Value(mm, ptr, n) \in Int
    <3>1. Value(new, ptr, n + 1) = Value(new, ptr, n) + DigitAt(new, ptr + n) * Pow[n]
      BY <1>1, <2>1, ValueFacts
    <3>2. /\ Value(mm, ptr, n + 1) = Value(mm, ptr, n) + DigitAt(mm, ptr + n) * Pow[n]
          /\ Value(mm, ptr, n) \in Int
      <4>1. \A s \in Nat : /\ Value(mm, ptr, s) \in Nat
                           /\ Value(mm, ptr, s + 1)
                                = Value(mm, ptr, s) + DigitAt(mm, ptr + s) * Pow[s]
        BY ValueFacts
      <4>2. QED
        BY <2>1, <4>1
    <3>3. QED
      BY <3>1, <3>2
  <2>5. DigitAt(mm, ptr + n) * Pow[n] \in Int
    <3>1. DigitAt(mm, ptr + n) \in Int /\ Pow[n] \in Int
      BY <2>1, DigitAtType, PowFacts DEF Digit
    <3>2. QED
      BY <3>1
  <2>6. Value(new, ptr, n + 1) = Value(mm, ptr, n + 1) + change
    BY <1>5, <2>2, <2>3, <2>4, <2>5
  <2>7. QED
    BY <2>1, <2>6
<1>9. T \in SUBSET Nat
  OBVIOUS
<1>10. T = Nat
  <2> HIDE DEF T
  <2>1. QED
    BY <1>7, <1>8, <1>9, InductionOnNat
<1>11. ASSUME NEW k \in Nat, k > t PROVE Value(new, ptr, k) = Value(mm, ptr, k) + change
  <2> DEFINE s == k - (t + 1)
  <2>1. s \in Nat /\ (t + 1) + s = k
    BY <1>11
  <2> HIDE DEF s
  <2>2. s \in T
    BY <1>10, <2>1
  <2>3. QED
    BY <2>1, <2>2
<1>12. QED
  BY <1>1, <1>6, <1>11 DEF new, change

\* The lowest t digits of an input of len, zero-padded, grow by digit t at its weight.
LEMMA TakenStep ==
  ASSUME NEW mm \in [Addr -> Digit], NEW ptr \in Nat, NEW len \in Nat,
         ptr + len <= MemSize, NEW t \in Nat, NEW u \in Digit,
         u = IF t < len THEN mm[ptr + t] ELSE 0
  PROVE  Value(mm, ptr, Lesser(len, t + 1)) = Value(mm, ptr, Lesser(len, t)) + u * Pow[t]
<1>1. CASE t < len
  <2>1. Lesser(len, t + 1) = t + 1 /\ Lesser(len, t) = t
    BY <1>1 DEF Lesser
  <2>2. ptr + t \in Addr
    BY <1>1, MemSizeAssumption DEF Addr
  <2>3. DigitAt(mm, ptr + t) = u
    BY <1>1, <2>2 DEF DigitAt
  <2>4. QED
    BY <2>1, <2>3, ValueFacts
<1>2. CASE ~(t < len)
  <2>1. Lesser(len, t + 1) = len /\ Lesser(len, t) = len
    BY <1>2 DEF Lesser
  <2>2. u * Pow[t] = 0
    BY <1>2, PowFacts
  <2>3. Value(mm, ptr, len) \in Nat
    BY ValueFacts
  <2>4. QED
    BY <2>1, <2>2, <2>3
<1>3. QED
  BY <1>1, <1>2

-----------------------------------------------------------------------------
(* One column: what the instructions on a word leave.                       *)

\* Low and high part of a sum or product.
LEMMA Halves ==
  ASSUME NEW s \in Nat
  PROVE  /\ s \div B \in Nat /\ s % B \in Digit /\ s % B \in Nat
         /\ s = B * (s \div B) + (s % B)
<1>1. B \in Nat /\ B > 0
  BY BaseAssumption
<1>2. /\ s \div B \in Int /\ s % B \in Int /\ s = B * (s \div B) + (s % B)
      /\ 0 <= s % B /\ s % B < B
  BY <1>1, DivMod
<1>3. s \div B >= 0
  <2> DEFINE q == s \div B
             r == s % B
  <2>1. q \in Int /\ r \in Int /\ s = B * q + r /\ r < B
    BY <1>2
  <2> HIDE DEF q, r
  <2>2. SUFFICES ASSUME q <= 0 - 1 PROVE FALSE
    BY <2>1 DEF q
  <2>3. B * q <= 0 - B
    BY <1>1, <2>1, <2>2
  <2>4. QED
    BY <1>1, <2>1, <2>3
<1>4. QED
  BY <1>1, <1>2, <1>3 DEF Digit

\* The carry out of a sum of two words and a carry is a bit.
LEMMA SmallCarry ==
  ASSUME NEW s \in Nat, s < 2 * B
  PROVE  /\ s \div B \in {0, 1}
         /\ s \div B = 1 <=> s >= B
<1> DEFINE q == s \div B
           r == s % B
<1>1. B \in Nat /\ B > 0
  BY BaseAssumption
<1>2. q \in Nat /\ r \in Nat /\ s = B * q + r /\ r < B
  BY <1>1, Halves DEF Digit
<1> HIDE DEF q, r
<1>3. q < 2
  <2>1. SUFFICES ASSUME q >= 2 PROVE FALSE
    BY <1>2
  <2>2. B * q >= B * 2
    BY <1>1, <1>2, <2>1
  <2>3. QED
    BY <1>1, <1>2, <2>2
<1>4. q \in {0, 1}
  BY <1>2, <1>3
<1>5. q = 1 <=> s >= B
  BY <1>1, <1>2, <1>4
<1>6. QED
  BY <1>4, <1>5 DEF q

\* The high word of a product is not the largest word, so that a carry can be
\* added to it.
LEMMA ProductHigh ==
  ASSUME NEW a \in Digit, NEW b \in Digit
  PROVE  a * b \in Nat /\ (a * b) \div B \in Nat /\ (a * b) \div B <= B - 2
<1> DEFINE q == (a * b) \div B
           r == (a * b) % B
<1>1. B \in Nat /\ B >= 2 /\ a \in Nat /\ a <= B - 1 /\ b \in Nat /\ b <= B - 1
  BY BaseAssumption DEF Digit
<1>2. a * b \in Nat
  BY <1>1
<1>3. q \in Nat /\ r \in Nat /\ a * b = B * q + r
  BY <1>2, Halves
<1> HIDE DEF q, r
<1>4. a * b <= (B - 1) * (B - 1)
  <2>1. a * b <= (B - 1) * b
    BY <1>1
  <2>2. (B - 1) * b <= (B - 1) * (B - 1)
    BY <1>1
  <2>3. QED
    BY <1>1, <1>2, <2>1, <2>2
<1>5. q <= B - 2
  <2>1. SUFFICES ASSUME q >= B - 1 PROVE FALSE
    BY <1>1, <1>3
  <2>2. B * q >= B * (B - 1)
    BY <1>1, <1>3, <2>1
  <2>3. (B - 1) * (B - 1) = B * (B - 1) - (B - 1)
    BY <1>1
  <2>4. QED
    BY <1>1, <1>2, <1>3, <1>4, <2>2, <2>3
<1>6. QED
  BY <1>2, <1>3, <1>5 DEF q

\* The multiplier of a row makes the lowest digit vanish: what is left of the
\* first column is exactly the high part and the carry that the code keeps.
LEMMA FirstColumn ==
  ASSUME NEW u \in Digit, NEW b \in Digit, NEW inv \in Digit, (inv * b + 1) % B = 0
  PROVE  LET dd == (u * inv) % B
             product == dd * b
         IN  /\ dd \in Digit
             /\ product \div B \in Digit
             /\ (u + (product % B)) \div B \in {0, 1}
             /\ u + dd * b = B * (product \div B + (u + (product % B)) \div B)
<1> DEFINE dd == (u * inv) % B
           e  == (u * inv) \div B
           f  == (inv * b + 1) \div B
           g  == (dd * b) \div B
           r  == (dd * b) % B
           k  == (u + r) \div B
           l  == (u + r) % B
<1>1. B \in Nat /\ B >= 2 /\ u \in Nat /\ b \in Nat /\ inv \in Nat /\ u <= B - 1
  BY BaseAssumption DEF Digit
<1>2. u * inv \in Nat /\ inv * b + 1 \in Nat
  BY <1>1
<1>3. dd \in Digit /\ dd \in Nat /\ e \in Nat /\ u * inv = B * e + dd
  BY <1>2, Halves
<1>4. f \in Nat /\ inv * b + 1 = B * f
  <2> DEFINE s == inv * b + 1
  <2>1. s \in Nat /\ s % B = 0
    BY <1>2
  <2> HIDE DEF s
  <2>2. s \div B \in Nat /\ s = B * (s \div B)
    BY <1>1, <2>1, Halves
  <2>3. QED
    BY <2>2 DEF s
<1> HIDE DEF dd, e, f
<1>5. dd * b \in Nat /\ g \in Nat /\ g <= B - 2 /\ r \in Nat /\ dd * b = B * g + r /\ r < B
  BY <1>1, <1>3, ProductHigh, Halves DEF Digit
<1> HIDE DEF g, r
<1>6. u + r \in Nat /\ u + r < 2 * B
  BY <1>1, <1>5
<1>7. k \in {0, 1} /\ k \in Nat /\ l \in Nat /\ l < B /\ u + r = B * k + l
  <2> DEFINE s == u + r
  <2>1. s \in Nat /\ s < 2 * B
    BY <1>6
  <2> HIDE DEF s
  <2>2. /\ s \div B \in {0, 1} /\ s % B \in Nat /\ s % B < B
        /\ s = B * (s \div B) + (s % B)
    BY <1>1, <2>1, Halves, SmallCarry DEF Digit
  <2>3. QED
    BY <2>2 DEF s
<1> HIDE DEF k, l
<1>8. l = 0
  <2>1. u + dd * b = B * (u * f) - B * (e * b)
    <3>1. dd = u * inv - B * e
      BY <1>1, <1>2, <1>3
    <3>2. dd * b = (u * inv) * b - (B * e) * b
      BY <1>1, <1>2, <1>3, <3>1
    <3>3. (u * inv) * b = u * (inv * b)
      BY <1>1
    <3>4. u * (inv * b) = u * (B * f - 1)
      <4>1. inv * b = B * f - 1
        BY <1>1, <1>2, <1>4
      <4>2. QED
        BY <4>1
    <3>5. u * (B * f - 1) = B * (u * f) - u
      BY <1>1, <1>4
    <3>6. (B * e) * b = B * (e * b)
      BY <1>1, <1>3
    <3>7. u * f \in Int /\ e * b \in Int /\ dd * b \in Int /\ B * (u * f) \in Int /\ B * (e * b) \in Int
      BY <1>1, <1>3, <1>4, <1>5
    <3>8. QED
      BY <1>1, <3>2, <3>3, <3>4, <3>5, <3>6, <3>7
  <2> DEFINE p == u * f - e * b - g - k
  <2>2. u * f \in Int /\ e * b \in Int
    BY <1>1, <1>3, <1>4
  <2>3. B * p = B * (u * f) - B * (e * b) - B * g - B * k
    BY <1>1, <1>5, <1>7, <2>2
  <2>4. p \in Int /\ B * p = l
    <3>1. l = u + r - B * k /\ r = dd * b - B * g
      BY <1>1, <1>5, <1>7
    <3>2. B * g \in Int /\ B * k \in Int /\ B * (u * f) \in Int /\ B * (e * b) \in Int
      BY <1>1, <1>5, <1>7, <2>2
    <3>3. B * p = l
      BY <1>1, <1>5, <2>1, <2>3, <3>1, <3>2
    <3>4. QED
      BY <1>5, <1>7, <2>2, <3>3
  <2> HIDE DEF p
  <2>5. p = 0
    <3>1. B > 0 /\ 0 - B < B * p /\ B * p < B
      BY <1>1, <1>7, <2>4
    <3>2. QED
      BY <1>1, <2>4, <3>1, NoMultipleBetween
  <2>6. QED
    BY <1>1, <2>4, <2>5
<1>9. u + dd * b = B * (g + k)
  <2>1. u + dd * b = B * g + B * k
    BY <1>1, <1>5, <1>7, <1>8
  <2>2. QED
    BY <1>1, <1>5, <1>7, <2>1
<1>10. g \in Digit
  BY <1>1, <1>5 DEF Digit
<1>11. QED
  BY <1>3, <1>7, <1>9, <1>10 DEF dd, g, k, r

\* A column within the row: the digit, the high part and the carry that are
\* stored and kept are worth what went in.
LEMMA InnerColumn ==
  ASSUME NEW u \in Digit, NEW b \in Digit, NEW dd \in Digit, NEW hh \in Digit,
         NEW cc \in {0, 1}
  PROVE  LET product == dd * b
             low == u + hh + cc
             sum == (low % B) + (product % B)
             high == product \div B + low \div B
         IN  /\ high \in Digit /\ sum \div B \in {0, 1} /\ sum % B \in Digit
             /\ B * (high + sum \div B) + (sum % B) = dd * b + u + hh + cc
<1> DEFINE low == u + hh + cc
           g  == (dd * b) \div B
           r  == (dd * b) % B
           g1 == low \div B
           r1 == low % B
           sum == r1 + r
           k  == sum \div B
           l  == sum % B
<1>1. B \in Nat /\ B >= 2 /\ u \in Nat /\ hh \in Nat /\ cc \in Nat
      /\ u <= B - 1 /\ hh <= B - 1 /\ cc <= 1
  BY BaseAssumption DEF Digit
<1>2. dd * b \in Nat /\ g \in Nat /\ g <= B - 2 /\ r \in Nat /\ dd * b = B * g + r /\ r < B
  BY <1>1, ProductHigh, Halves DEF Digit
<1>3. low \in Nat /\ low < 2 * B /\ low = u + hh + cc
  BY <1>1
<1> HIDE DEF low, g, r
<1>4. g1 \in {0, 1} /\ g1 \in Nat /\ r1 \in Nat /\ r1 < B /\ low = B * g1 + r1
  BY <1>1, <1>3, Halves, SmallCarry DEF Digit
<1> HIDE DEF g1, r1
<1>5. sum \in Nat /\ sum < 2 * B /\ sum = r1 + r
  BY <1>1, <1>2, <1>4
<1> HIDE DEF sum
<1>6. k \in {0, 1} /\ k \in Nat /\ l \in Digit /\ l \in Nat /\ sum = B * k + l
  BY <1>1, <1>5, Halves, SmallCarry
<1> HIDE DEF k, l
<1>7. B * ((g + g1) + k) + l = dd * b + u + hh + cc
  <2>1. B * ((g + g1) + k) = B * g + B * g1 + B * k
    BY <1>1, <1>2, <1>4, <1>6
  <2>2. B * g \in Int /\ B * g1 \in Int /\ B * k \in Int
    BY <1>1, <1>2, <1>4, <1>6
  <2>3. QED
    BY <1>1, <1>2, <1>3, <1>4, <1>5, <1>6, <2>1, <2>2
<1>8. g + g1 \in Digit
  BY <1>1, <1>2, <1>4 DEF Digit
<1>9. QED
  BY <1>6, <1>7, <1>8 DEF low, g, r, g1, r1, sum, k, l

\* The top column: the new digit and the new carry word are worth what went in.
LEMMA TopColumn ==
  ASSUME NEW t \in Nat, NEW next \in Digit
  PROVE  LET sum == (t % B) + next
         IN  /\ sum % B \in Digit /\ t \div B + sum \div B \in Nat
             /\ B * (t \div B + sum \div B) + (sum % B) = t + next
<1> DEFINE g == t \div B
           r == t % B
           sum == r + next
           k == sum \div B
           l == sum % B
<1>1. B \in Nat /\ next \in Nat
  BY BaseAssumption DEF Digit
<1>2. g \in Nat /\ r \in Nat /\ t = B * g + r
  BY Halves
<1> HIDE DEF g, r
<1>3. sum \in Nat /\ sum = r + next
  BY <1>1, <1>2
<1> HIDE DEF sum
<1>4. k \in Nat /\ l \in Nat /\ l \in Digit /\ sum = B * k + l
  BY <1>3, Halves
<1> HIDE DEF k, l
<1>5. B * (g + k) + l = t + next
  <2>1. B * (g + k) = B * g + B * k
    BY <1>1, <1>2, <1>4
  <2>2. B * g \in Int /\ B * k \in Int
    BY <1>1, <1>2, <1>4
  <2>3. QED
    BY <1>1, <1>2, <1>3, <1>4, <2>1, <2>2
<1>6. QED
  BY <1>2, <1>4, <1>5 DEF g, r, sum, k, l

\* A column of a subtraction with a negated borrow.
LEMMA BorrowColumn ==
  ASSUME NEW u \in Digit, NEW b \in Digit, NEW cc \in {0, 1}
  PROVE  LET diff == u + (B - 1 - b) + cc
         IN  /\ diff % B \in Digit /\ diff \div B \in {0, 1}
             /\ diff \div B = 1 <=> u + cc >= b + 1
             /\ diff % B = u - b + cc - 1 + B - B * (diff \div B)
<1> DEFINE diff == u + (B - 1 - b) + cc
           k == diff \div B
           l == diff % B
<1>1. B \in Nat /\ B >= 2 /\ u \in Nat /\ b \in Nat /\ cc \in Nat
      /\ u <= B - 1 /\ b <= B - 1 /\ cc <= 1
  BY BaseAssumption DEF Digit
<1>2. diff \in Nat /\ diff < 2 * B /\ diff = u + (B - 1 - b) + cc
  BY <1>1
<1> HIDE DEF diff
<1>3. k \in {0, 1} /\ l \in Digit /\ l \in Nat /\ diff = B * k + l /\ (k = 1 <=> diff >= B)
  BY <1>1, <1>2, Halves, SmallCarry
<1> HIDE DEF k, l
<1>4. l = u - b + cc - 1 + B - B * k
  BY <1>1, <1>2, <1>3
<1>5. k = 1 <=> u + cc >= b + 1
  BY <1>1, <1>2, <1>3
<1>6. QED
  BY <1>3, <1>4, <1>5 DEF diff, k, l

-----------------------------------------------------------------------------
(* The calls.                                                               *)

\* The facts about a call that the proofs use: lengths and pointers, the modulus
\* apart from the window, and no input digit in the window but at its own place.
LEMMA CallFacts ==
  ASSUME NEW call \in Calls
  PROVE  /\ call.fn \in Functions
         /\ call.k \in Nat /\ call.n \in Nat /\ call.p \in Nat
         /\ call.z \in Nat /\ call.x \in Nat /\ call.m \in Nat
         /\ call.z + call.k <= MemSize /\ call.x + call.n <= MemSize
         /\ call.m + call.k <= MemSize
         /\ \A s \in 0 .. (call.k - 1) : call.m + s \notin Region(call.z, call.k)
         /\ \A s \in 0 .. (call.n - 1) :
              call.x + s \in Region(call.z, call.k) => call.x = call.z
<1>1. call \in [fn : Functions, k : 0 .. MaxLen, z : Addr, n : 0 .. MaxLen, x : Addr,
                m : Addr, p : 0 .. MaxLen]
  BY DEF Calls
<1>2. /\ call.fn \in Functions
      /\ call.k \in 0 .. MaxLen /\ call.n \in 0 .. MaxLen /\ call.p \in 0 .. MaxLen
      /\ call.z \in Addr /\ call.x \in Addr /\ call.m \in Addr
  BY <1>1
<1>3. /\ call.k \in Nat /\ call.n \in Nat /\ call.p \in Nat
      /\ call.z \in Nat /\ call.x \in Nat /\ call.m \in Nat
  BY <1>2, MaxLenAssumption, MemSizeAssumption DEF Addr
<1>4. /\ call.z + call.k <= MemSize /\ call.x + call.n <= MemSize
      /\ call.m + call.k <= MemSize
  BY DEF Calls, InMemory
<1>5. ASSUME NEW s \in 0 .. (call.k - 1) PROVE call.m + s \notin Region(call.z, call.k)
  <2>1. NonOverlapping(call.m, call.k, call.z, call.k)
    BY DEF Calls
  <2>2. call.m + s \in Region(call.m, call.k)
    BY <1>3 DEF Region
  <2>3. QED
    BY <2>1, <2>2 DEF NonOverlapping
<1>6. ASSUME NEW s \in 0 .. (call.n - 1), call.x + s \in Region(call.z, call.k)
      PROVE  call.x = call.z
  <2>1. SameOrDisjoint(call.x, call.n, call.z, call.k)
    BY DEF Calls
  <2>2. call.x + s \in Region(call.x, call.n)
    BY <1>3 DEF Region
  <2>3. QED
    BY <1>6, <2>1, <2>2 DEF SameOrDisjoint, NonOverlapping
<1>7. QED
  BY <1>2, <1>3, <1>4, <1>5, <1>6

\* Only the window differs between two memories.
Untouched(call, memory, after) ==
  \A a \in Addr : a \notin Region(call.z, call.k) => after[a] = memory[a]

\* A store into the window keeps the rest of memory.
LEMMA WindowStore ==
  ASSUME NEW call \in Calls, NEW memory, NEW after \in [Addr -> Digit],
         Untouched(call, memory, after), NEW t \in 0 .. (call.k - 1), NEW u \in Digit
  PROVE  /\ Store(after, call.z + t, u) \in [Addr -> Digit]
         /\ Untouched(call, memory, Store(after, call.z + t, u))
         /\ Store(after, call.z + t, u)[call.z + t] = u
<1>1. call.z \in Nat /\ call.k \in Nat /\ call.z + call.k <= MemSize
  BY CallFacts
<1>2. call.z + t \in Addr /\ call.z + t \in Region(call.z, call.k)
  BY <1>1, MemSizeAssumption DEF Addr, Region
<1>3. QED
  BY <1>2 DEF Store, Untouched

\* The modulus is the same at every step, and the input digits above the window too.
LEMMA ReadIntact ==
  ASSUME NEW call \in Calls, NEW memory \in [Addr -> Digit], NEW after \in [Addr -> Digit],
         Untouched(call, memory, after)
  PROVE  /\ \A s \in 0 .. (call.k - 1) : /\ after[call.m + s] = memory[call.m + s]
                                         /\ memory[call.m + s] \in Digit
         /\ \A s \in Nat : s >= call.k /\ s < call.n =>
              after[call.x + s] = memory[call.x + s] /\ memory[call.x + s] \in Digit
<1>1. /\ call.k \in Nat /\ call.n \in Nat /\ call.z \in Nat /\ call.x \in Nat /\ call.m \in Nat
      /\ call.x + call.n <= MemSize /\ call.m + call.k <= MemSize
  BY CallFacts
<1>2. ASSUME NEW s \in 0 .. (call.k - 1)
      PROVE  after[call.m + s] = memory[call.m + s] /\ memory[call.m + s] \in Digit
  <2>1. call.m + s \in Addr
    BY <1>1, MemSizeAssumption DEF Addr
  <2>2. call.m + s \notin Region(call.z, call.k)
    BY CallFacts
  <2>3. QED
    BY <2>1, <2>2 DEF Untouched
<1>3. ASSUME NEW s \in Nat, s >= call.k, s < call.n
      PROVE  after[call.x + s] = memory[call.x + s] /\ memory[call.x + s] \in Digit
  <2>1. call.x + s \in Addr
    BY <1>1, <1>3, MemSizeAssumption DEF Addr
  <2>2. call.x + s \notin Region(call.z, call.k)
    <3>1. s \in 0 .. (call.n - 1)
      BY <1>1, <1>3
    <3>2. call.x + s \in Region(call.z, call.k) => call.x = call.z
      BY <3>1, CallFacts
    <3>3. call.z + s \notin Region(call.z, call.k)
      BY <1>1, <1>3 DEF Region
    <3>4. QED
      BY <3>2, <3>3
  <2>3. QED
    BY <2>1, <2>2 DEF Untouched
<1>4. QED
  BY <1>2, <1>3

\* A meaningful modulus is a positive number of k digits.
LEMMA ModulusFacts ==
  ASSUME NEW call \in Calls, NEW memory \in [Addr -> Digit], Meaningful(call, memory),
         call.k # 0
  PROVE  /\ Modulus(call, memory) \in Nat
         /\ 1 <= Modulus(call, memory) /\ Modulus(call, memory) < Pow[call.k]
<1>1. call.k \in Nat /\ call.m \in Nat
  BY CallFacts
<1>2. Modulus(call, memory) \in Nat /\ Modulus(call, memory) < Pow[call.k]
  BY <1>1, ValueBound DEF Modulus
<1>3. Modulus(call, memory) % 2 = 1
  BY DEF Meaningful
<1>4. Modulus(call, memory) # 0
  BY <1>3
<1>5. QED
  BY <1>2, <1>4

-----------------------------------------------------------------------------
(* What the input gives: its lowest digits, zero-padded.                    *)

InputDigit(call, memory, t) == IF t < call.n THEN memory[call.x + t] ELSE 0
Taken(call, memory, t) == Value(memory, call.x, Lesser(call.n, t))

\* What was taken of the input grows by a digit at a time and has as many digits.
LEMMA TakenFacts ==
  ASSUME NEW call \in Calls, NEW memory \in [Addr -> Digit]
  PROVE  /\ Taken(call, memory, 0) = 0
         /\ \A t \in Nat :
              /\ InputDigit(call, memory, t) \in Digit
              /\ Taken(call, memory, t) \in Nat /\ Taken(call, memory, t) < Pow[t]
              /\ Taken(call, memory, t + 1)
                   = Taken(call, memory, t) + InputDigit(call, memory, t) * Pow[t]
<1>1. call.n \in Nat /\ call.x \in Nat /\ call.x + call.n <= MemSize
  BY CallFacts
<1>2. ASSUME NEW t \in Nat PROVE InputDigit(call, memory, t) \in Digit
  <2>1. CASE t < call.n
    <3>1. call.x + t \in Addr
      BY <1>1, <2>1, MemSizeAssumption DEF Addr
    <3>2. QED
      BY <2>1, <3>1 DEF InputDigit
  <2>2. CASE ~(t < call.n)
    BY <2>2, BaseAssumption DEF InputDigit, Digit
  <2>3. QED
    BY <2>1, <2>2
<1>3. ASSUME NEW t \in Nat
      PROVE  Taken(call, memory, t + 1)
               = Taken(call, memory, t) + InputDigit(call, memory, t) * Pow[t]
  <2> DEFINE ptr == call.x
             len == call.n
             u == InputDigit(call, memory, t)
  <2>1. ptr \in Nat /\ len \in Nat /\ ptr + len <= MemSize /\ u \in Digit
    BY <1>1, <1>2
  <2>2. u = IF t < len THEN memory[ptr + t] ELSE 0
    BY DEF InputDigit
  <2> HIDE DEF ptr, len, u
  <2>3. Value(memory, ptr, Lesser(len, t + 1)) = Value(memory, ptr, Lesser(len, t)) + u * Pow[t]
    BY <2>1, <2>2, TakenStep
  <2>4. QED
    BY <2>3 DEF Taken, ptr, len, u
<1>4. ASSUME NEW t \in Nat PROVE Taken(call, memory, t) \in Nat
  <2>1. Lesser(call.n, t) \in Nat
    BY <1>1 DEF Lesser
  <2>2. QED
    BY <1>1, <2>1, ValueFacts DEF Taken
<1>5. Taken(call, memory, 0) = 0
  <2>1. Lesser(call.n, 0) = 0
    BY <1>1 DEF Lesser
  <2>2. QED
    BY <1>1, <2>1, ValueFacts DEF Taken
<1> DEFINE T == {t \in Nat : Taken(call, memory, t) < Pow[t]}
<1>6. 0 \in T
  BY <1>5, PowFacts
<1>7. ASSUME NEW t \in T PROVE t + 1 \in T
  <2> DEFINE V == Taken(call, memory, t)
             V1 == Taken(call, memory, t + 1)
             u == InputDigit(call, memory, t)
             P == Pow[t]
             P1 == Pow[t + 1]
  <2>1. t \in Nat /\ V < P /\ V \in Nat /\ V1 = V + u * P /\ P \in Nat /\ P1 = B * P
    BY <1>3, <1>4, PowFacts
  <2>2. u \in Nat /\ u <= B - 1 /\ B \in Nat
    BY <1>2, BaseAssumption DEF Digit
  <2> HIDE DEF V, V1, u, P, P1
  <2>3. u * P <= (B - 1) * P
    BY <2>1, <2>2
  <2>4. V1 < P1
    BY <2>1, <2>2, <2>3
  <2>5. QED
    BY <2>1, <2>4 DEF V1, P1
<1>8. T \in SUBSET Nat
  OBVIOUS
<1>9. T = Nat
  <2> HIDE DEF T
  <2>1. QED
    BY <1>6, <1>7, <1>8, InductionOnNat
<1>10. QED
  BY <1>2, <1>3, <1>4, <1>5, <1>9

\* Once its digits are those of the input, zero-padded, the window is what was taken.
LEMMA CopiedWindow ==
  ASSUME NEW call \in Calls, NEW memory \in [Addr -> Digit], NEW after \in [Addr -> Digit],
         \A t \in 0 .. (call.k - 1) : after[call.z + t] = InputDigit(call, memory, t)
  PROVE  Value(after, call.z, call.k) = Taken(call, memory, call.k)
<1>1. call.k \in Nat /\ call.z \in Nat /\ call.z + call.k <= MemSize
  BY CallFacts
<1> DEFINE T == {t \in Nat : t <= call.k => Value(after, call.z, t) = Taken(call, memory, t)}
<1>2. 0 \in T
  BY <1>1, ValueFacts, TakenFacts
<1>3. ASSUME NEW t \in T PROVE t + 1 \in T
  <2>1. CASE t + 1 <= call.k
    <3>1. t \in Nat /\ t \in 0 .. (call.k - 1) /\ Value(after, call.z, t) = Taken(call, memory, t)
      BY <1>1, <2>1
    <3>2. call.z + t \in Addr
      BY <1>1, <3>1, MemSizeAssumption DEF Addr
    <3>3. DigitAt(after, call.z + t) = InputDigit(call, memory, t)
      BY <3>1, <3>2 DEF DigitAt
    <3>4. Value(after, call.z, t + 1)
            = Value(after, call.z, t) + DigitAt(after, call.z + t) * Pow[t]
      BY <1>1, <3>1, ValueFacts
    <3>5. Taken(call, memory, t + 1)
            = Taken(call, memory, t) + InputDigit(call, memory, t) * Pow[t]
      BY <3>1, TakenFacts
    <3>6. QED
      BY <3>1, <3>3, <3>4, <3>5
  <2>2. QED
    BY <2>1
<1>4. T \in SUBSET Nat
  OBVIOUS
<1>5. T = Nat
  <2> HIDE DEF T
  <2>1. QED
    BY <1>2, <1>3, <1>4, InductionOnNat
<1>6. QED
  BY <1>1, <1>5

-----------------------------------------------------------------------------
(* The rows.                                                                *)

\* v is t rows of reduction of the input: v * B^t is what was taken of the input
\* and a multiple of the modulus below B^t of them.
RowsDone(call, memory, v, t) ==
  \E q \in 0 .. (Pow[t] - 1) :
    v * Pow[t] = Taken(call, memory, call.k + t) + q * Modulus(call, memory)

\* The window and the carry above it.
Windowed(call, after, carry) == Value(after, call.z, call.k) + carry * Pow[call.k]

\* Within a row, before column jj: the window before the row, from the digits that
\* are shifted already, what is pending above them, and the digits still to come.
Pended(call, memory, after, jj, high, dd, carry) ==
  B * Value(after, call.z, jj - 1) + high * Pow[jj]
  + (Value(after, call.z, call.k) - Value(after, call.z, jj))
  + carry * Pow[call.k] - dd * Value(memory, call.m, jj)

\* The numbers of a call, digit by digit: the window and the modulus.
LEMMA BufferFacts ==
  ASSUME NEW call \in Calls, NEW memory \in [Addr -> Digit], NEW after \in [Addr -> Digit]
  PROVE  /\ call.k \in Nat /\ call.z \in Nat /\ call.m \in Nat
         /\ Pow[0] = 1
         /\ \A s \in Nat : /\ Pow[s] \in Nat /\ Pow[s] >= 1 /\ Pow[s + 1] = B * Pow[s]
                           /\ Value(after, call.z, s) \in Nat
                           /\ Value(after, call.z, s) < Pow[s]
                           /\ Value(memory, call.m, s) \in Nat
                           /\ Value(memory, call.m, s) < Pow[s]
         /\ Value(after, call.z, 0) = 0 /\ Value(memory, call.m, 0) = 0
         /\ \A s \in 0 .. (call.k - 1) :
              /\ after[call.z + s] \in Digit /\ memory[call.m + s] \in Digit
              /\ Value(after, call.z, s + 1)
                   = Value(after, call.z, s) + after[call.z + s] * Pow[s]
              /\ Value(memory, call.m, s + 1)
                   = Value(memory, call.m, s) + memory[call.m + s] * Pow[s]
<1>1. /\ call.k \in Nat /\ call.z \in Nat /\ call.m \in Nat
      /\ call.z + call.k <= MemSize /\ call.m + call.k <= MemSize
  BY CallFacts
<1>2. ASSUME NEW mm \in [Addr -> Digit], NEW ptr \in Nat, ptr + call.k <= MemSize
      PROVE  /\ Value(mm, ptr, 0) = 0
             /\ \A s \in Nat : Value(mm, ptr, s) \in Nat /\ Value(mm, ptr, s) < Pow[s]
             /\ \A s \in 0 .. (call.k - 1) :
                  /\ mm[ptr + s] \in Digit
                  /\ Value(mm, ptr, s + 1) = Value(mm, ptr, s) + mm[ptr + s] * Pow[s]
  <2>1. \A s \in 0 .. (call.k - 1) : ptr + s \in Addr
    BY <1>1, <1>2, MemSizeAssumption DEF Addr
  <2>2. \A s \in 0 .. (call.k - 1) : mm[ptr + s] \in Digit /\ DigitAt(mm, ptr + s) = mm[ptr + s]
    BY <2>1 DEF DigitAt
  <2>3. /\ Value(mm, ptr, 0) = 0
        /\ \A s \in Nat : Value(mm, ptr, s + 1)
                              = Value(mm, ptr, s) + DigitAt(mm, ptr + s) * Pow[s]
    BY ValueFacts
  <2>4. \A s \in Nat : Value(mm, ptr, s) \in Nat /\ Value(mm, ptr, s) < Pow[s]
    BY ValueBound
  <2>5. ASSUME NEW s \in 0 .. (call.k - 1)
        PROVE  Value(mm, ptr, s + 1) = Value(mm, ptr, s) + mm[ptr + s] * Pow[s]
    BY <1>1, <2>2, <2>3
  <2>6. QED
    BY <2>2, <2>3, <2>4, <2>5
<1> DEFINE zz == call.z
           mp == call.m
<1>3. zz \in Nat /\ mp \in Nat /\ zz + call.k <= MemSize /\ mp + call.k <= MemSize
  BY <1>1
<1> HIDE DEF zz, mp
<1>4. /\ Value(after, zz, 0) = 0
      /\ \A s \in Nat : Value(after, zz, s) \in Nat /\ Value(after, zz, s) < Pow[s]
      /\ \A s \in 0 .. (call.k - 1) :
           /\ after[zz + s] \in Digit
           /\ Value(after, zz, s + 1) = Value(after, zz, s) + after[zz + s] * Pow[s]
  BY <1>2, <1>3
<1>5. /\ Value(memory, mp, 0) = 0
      /\ \A s \in Nat : Value(memory, mp, s) \in Nat /\ Value(memory, mp, s) < Pow[s]
      /\ \A s \in 0 .. (call.k - 1) :
           /\ memory[mp + s] \in Digit
           /\ Value(memory, mp, s + 1) = Value(memory, mp, s) + memory[mp + s] * Pow[s]
  BY <1>2, <1>3
<1>6. QED
  BY <1>1, <1>4, <1>5, PowFacts, PowPositive DEF zz, mp

\* No row: the window holds the lowest digits of the input.
LEMMA NoRows ==
  ASSUME NEW call \in Calls, NEW memory \in [Addr -> Digit], NEW after \in [Addr -> Digit],
         Value(after, call.z, call.k) = Taken(call, memory, call.k),
         Modulus(call, memory) \in Nat
  PROVE  RowsDone(call, memory, Windowed(call, after, 0), 0)
<1>1. call.k \in Nat /\ Pow[0] = 1 /\ Pow[call.k] \in Nat
  BY CallFacts, PowFacts
<1>2. Taken(call, memory, call.k) \in Nat /\ call.k + 0 = call.k
  BY <1>1, TakenFacts
<1>3. Windowed(call, after, 0) = Taken(call, memory, call.k)
  BY <1>1, <1>2 DEF Windowed
<1>4. Windowed(call, after, 0) * Pow[0]
        = Taken(call, memory, call.k + 0) + 0 * Modulus(call, memory)
  BY <1>1, <1>2, <1>3
<1>5. 0 \in 0 .. (Pow[0] - 1)
  BY <1>1
<1>6. QED
  BY <1>4, <1>5 DEF RowsDone

\* The first column leaves the window to the row.
LEMMA RowBegins ==
  ASSUME NEW call \in Calls, call.k # 0,
         NEW memory \in [Addr -> Digit], NEW after \in [Addr -> Digit],
         NEW high \in Nat, NEW dd \in Digit, NEW carry \in Nat,
         after[call.z] + dd * memory[call.m] = B * high
  PROVE  Pended(call, memory, after, 1, high, dd, carry) = Windowed(call, after, carry)
<1>1. call.k \in Nat /\ 0 \in 0 .. (call.k - 1) /\ call.z + 0 = call.z /\ call.m + 0 = call.m
  BY BufferFacts
<1>2. /\ after[call.z] \in Digit /\ memory[call.m] \in Digit
      /\ Value(after, call.z, 0) = 0 /\ Value(memory, call.m, 0) = 0 /\ Pow[0] = 1
      /\ Value(after, call.z, 0 + 1) = Value(after, call.z, 0) + after[call.z] * Pow[0]
      /\ Value(memory, call.m, 0 + 1) = Value(memory, call.m, 0) + memory[call.m] * Pow[0]
      /\ Pow[0 + 1] = B * Pow[0]
  <2>1. \A s \in 0 .. (call.k - 1) :
          /\ after[call.z + s] \in Digit /\ memory[call.m + s] \in Digit
          /\ Value(after, call.z, s + 1)
               = Value(after, call.z, s) + after[call.z + s] * Pow[s]
          /\ Value(memory, call.m, s + 1)
               = Value(memory, call.m, s) + memory[call.m + s] * Pow[s]
    BY BufferFacts
  <2>2. /\ Value(after, call.z, 0) = 0 /\ Value(memory, call.m, 0) = 0 /\ Pow[0] = 1
        /\ Pow[0 + 1] = B * Pow[0]
    BY BufferFacts
  <2>3. QED
    BY <1>1, <2>1, <2>2
<1>3. after[call.z] \in Int /\ memory[call.m] \in Int /\ dd \in Int /\ B \in Int /\ 0 + 1 = 1
  BY <1>2, BaseAssumption DEF Digit
<1>4. Pow[1] = B
  BY <1>2, <1>3
<1>5. Value(after, call.z, 1) = after[call.z] /\ Value(after, call.z, 0) = 0
  BY <1>2, <1>3
<1>6. Value(memory, call.m, 1) = memory[call.m]
  BY <1>2, <1>3
<1>7. Value(after, call.z, call.k) \in Int /\ Pow[call.k] \in Int
  BY BufferFacts
<1>8. 1 - 1 = 0 /\ B * 0 = 0
  BY <1>3
<1>9. Pended(call, memory, after, 1, high, dd, carry)
        = B * 0 + high * B + (Value(after, call.z, call.k) - after[call.z])
          + carry * Pow[call.k] - dd * memory[call.m]
  BY <1>4, <1>5, <1>6, <1>8 DEF Pended
<1> DEFINE V == Value(after, call.z, call.k)
           cp == carry * Pow[call.k]
           u == after[call.z]
           p == dd * memory[call.m]
           bh == high * B
<1>10. V \in Int /\ cp \in Int /\ u \in Int /\ p \in Int /\ bh \in Int /\ u + p = bh
  BY <1>3, <1>7
<1>11. Pended(call, memory, after, 1, high, dd, carry) = 0 + bh + (V - u) + cp - p
  BY <1>8, <1>9
<1>12. Windowed(call, after, carry) = V + cp
  BY DEF Windowed
<1> HIDE DEF V, cp, u, p, bh
<1>13. QED
  BY <1>10, <1>11, <1>12

\* A column within the row keeps what the row is worth: the digit stored at jj - 1
\* and what is pending above it are worth what the column took in.
LEMMA RowContinues ==
  ASSUME NEW call \in Calls,
         NEW memory \in [Addr -> Digit], NEW after \in [Addr -> Digit],
         NEW jj \in Nat, 1 <= jj, jj < call.k,
         NEW high \in Nat, NEW high1 \in Nat, NEW dd \in Digit, NEW carry \in Nat,
         NEW l \in Digit,
         B * high1 + l = dd * memory[call.m + jj] + after[call.z + jj] + high
  PROVE  Pended(call, memory, Store(after, call.z + jj - 1, l), jj + 1, high1, dd, carry)
           = Pended(call, memory, after, jj, high, dd, carry)
<1> DEFINE new == Store(after, call.z + jj - 1, l)
           o == jj - 1
<1>1. /\ call.k \in Nat /\ call.z \in Nat /\ call.m \in Nat
      /\ call.z + call.k <= MemSize /\ call.m + call.k <= MemSize
  BY CallFacts
<1>2. /\ o \in Nat /\ o + 1 = jj /\ o < jj /\ o < jj + 1 /\ o < call.k
      /\ call.z + o < MemSize /\ call.z + jj - 1 = call.z + o /\ (jj + 1) - 1 = jj
      /\ o \in 0 .. (call.k - 1) /\ jj \in 0 .. (call.k - 1)
  BY <1>1, MemSizeAssumption
<1>4. new = Store(after, call.z + o, l)
  BY <1>2
<1> HIDE DEF o
<1> DEFINE change == (l - after[call.z + o]) * Pow[o]
<1>5. /\ new \in [Addr -> Digit]
      /\ \A s \in Nat : /\ s <= o => Value(new, call.z, s) = Value(after, call.z, s)
                        /\ s > o => Value(new, call.z, s) = Value(after, call.z, s) + change
  BY <1>1, <1>2, <1>4, ValueStore
<1>6. /\ Value(new, call.z, jj) = Value(after, call.z, jj) + change
      /\ Value(new, call.z, jj + 1) = Value(after, call.z, jj + 1) + change
      /\ Value(new, call.z, call.k) = Value(after, call.z, call.k) + change
  BY <1>1, <1>2, <1>5
<1> HIDE DEF new
<1>8. \A s \in Nat : /\ Pow[s] \in Nat /\ Pow[s + 1] = B * Pow[s]
                     /\ Value(after, call.z, s) \in Nat /\ Value(memory, call.m, s) \in Nat
  BY BufferFacts
<1>9. \A s \in 0 .. (call.k - 1) :
        /\ after[call.z + s] \in Digit /\ memory[call.m + s] \in Digit
        /\ Value(after, call.z, s + 1)
             = Value(after, call.z, s) + after[call.z + s] * Pow[s]
        /\ Value(memory, call.m, s + 1)
             = Value(memory, call.m, s) + memory[call.m + s] * Pow[s]
  BY BufferFacts
<1>10. /\ Value(after, call.z, jj) = Value(after, call.z, o) + after[call.z + o] * Pow[o]
       /\ Value(after, call.z, jj + 1) = Value(after, call.z, jj) + after[call.z + jj] * Pow[jj]
       /\ Value(memory, call.m, jj + 1)
            = Value(memory, call.m, jj) + memory[call.m + jj] * Pow[jj]
  <2>1. Value(after, call.z, o + 1) = Value(after, call.z, o) + after[call.z + o] * Pow[o]
    BY <1>2, <1>9
  <2>2. QED
    BY <1>2, <1>9, <2>1
<1>11. Pow[jj] = B * Pow[o] /\ Pow[jj + 1] = B * Pow[jj]
  <2>1. Pow[o + 1] = B * Pow[o]
    BY <1>2, <1>8
  <2>2. QED
    BY <1>2, <1>8, <2>1
<1> DEFINE Vo == Value(after, call.z, o)
           Vj == Value(after, call.z, jj)
           Vj1 == Value(after, call.z, jj + 1)
           V == Value(after, call.z, call.k)
           P == Pow[o]
           Q == Pow[jj]
           Q1 == Pow[jj + 1]
           K == carry * Pow[call.k]
           M == Value(memory, call.m, jj)
           M1 == Value(memory, call.m, jj + 1)
           b == memory[call.m + jj]
           u == after[call.z + jj]
           v == after[call.z + o]
<1>12. /\ B \in Int /\ Vo \in Int /\ Vj \in Int /\ Vj1 \in Int /\ V \in Int
       /\ P \in Int /\ Q \in Int /\ Q1 \in Int /\ K \in Int /\ M \in Int /\ M1 \in Int
       /\ b \in Int /\ u \in Int /\ v \in Int /\ l \in Int /\ dd \in Int
  <2>1. /\ P \in Int /\ Q \in Int /\ Q1 \in Int /\ Pow[call.k] \in Int
        /\ Vo \in Int /\ Vj \in Int /\ Vj1 \in Int /\ V \in Int /\ M \in Int /\ M1 \in Int
    BY <1>1, <1>2, <1>8
  <2>2. b \in Digit /\ u \in Digit /\ v \in Digit
    BY <1>2, <1>9
  <2>3. b \in Int /\ u \in Int /\ v \in Int /\ l \in Int /\ dd \in Int /\ B \in Int
    BY <2>2, BaseAssumption DEF Digit
  <2>4. K \in Int
    BY <2>1
  <2>5. QED
    BY <2>1, <2>3, <2>4
<1>13. /\ Q = B * P /\ Q1 = B * Q /\ Vj = Vo + v * P /\ Vj1 = Vj + u * Q /\ M1 = M + b * Q
       /\ B * high1 + l = dd * b + u + high
  BY <1>10, <1>11
<1>14. Pended(call, memory, new, jj + 1, high1, dd, carry)
         = B * (Vj + (l - v) * P) + high1 * Q1 + ((V + (l - v) * P) - (Vj1 + (l - v) * P))
           + K - dd * M1
  BY <1>2, <1>6 DEF Pended
<1>15. Pended(call, memory, after, jj, high, dd, carry)
         = B * Vo + high * Q + (V - Vj) + K - dd * M
  BY <1>2 DEF Pended, o
<1> HIDE DEF Vo, Vj, Vj1, V, P, Q, Q1, K, M, M1, b, u, v
<1>16. B * (Vj + (l - v) * P) = B * Vo + l * Q
  <2>1. (l - v) * P = l * P - v * P
    BY <1>12
  <2>2. l * P \in Int /\ v * P \in Int
    BY <1>12
  <2>3. Vj + (l - v) * P = Vo + l * P
    BY <1>12, <1>13, <2>1, <2>2
  <2>4. B * (Vo + l * P) = B * Vo + B * (l * P)
    BY <1>12, <2>2
  <2>5. B * (l * P) = l * (B * P)
    BY <1>12
  <2>6. QED
    BY <1>13, <2>3, <2>4, <2>5
<1>17. high1 * Q1 + l * Q = (dd * b + u + high) * Q
  <2>1. high1 * Q1 = (B * high1) * Q
    BY <1>12, <1>13
  <2>2. (B * high1 + l) * Q = (B * high1) * Q + l * Q
    BY <1>12
  <2>3. QED
    BY <1>13, <2>1, <2>2
<1>18. (dd * b + u + high) * Q = (dd * b) * Q + u * Q + high * Q
  BY <1>12
<1>19. dd * M1 = dd * M + (dd * b) * Q
  <2>1. dd * (M + b * Q) = dd * M + dd * (b * Q)
    BY <1>12
  <2>2. dd * (b * Q) = (dd * b) * Q
    BY <1>12
  <2>3. QED
    BY <1>13, <2>1, <2>2
<1> DEFINE a1 == B * (Vj + (l - v) * P)
           a2 == B * Vo
           a3 == l * Q
           a4 == high1 * Q1
           a5 == (dd * b) * Q
           a6 == u * Q
           a7 == high * Q
           a8 == dd * M1
           a9 == dd * M
           aa == (l - v) * P
<1>20. /\ a2 \in Int /\ a3 \in Int /\ a4 \in Int /\ a5 \in Int /\ a6 \in Int /\ a7 \in Int
       /\ a9 \in Int /\ aa \in Int
  BY <1>12
<1>21. a1 = a2 + a3 /\ a4 + a3 = a5 + a6 + a7 /\ a8 = a9 + a5 /\ Vj1 = Vj + a6
  BY <1>13, <1>16, <1>17, <1>18, <1>19
<1> HIDE DEF a1, a2, a3, a4, a5, a6, a7, a8, a9, aa
<1>22. a1 + a4 + ((V + aa) - (Vj1 + aa)) + K - a8 = a2 + a7 + (V - Vj) + K - a9
  BY <1>12, <1>20, <1>21
<1>23. QED
  BY <1>14, <1>15, <1>22 DEF a1, a2, a4, a7, a8, a9, aa, new

\* Two words, of which the first is the higher.
IsPair(top, l, total) == B * top + l = total

\* The top column ends the row: what the window is worth is shifted by one digit
\* after a multiple of the modulus and the next digit of the input came in.
LEMMA RowEnds ==
  ASSUME NEW call \in Calls, call.k # 0,
         NEW memory \in [Addr -> Digit], NEW after \in [Addr -> Digit],
         NEW high \in Nat, NEW dd \in Digit, NEW carry \in Nat, NEW carry1 \in Nat,
         NEW u \in Digit, NEW l \in Digit, IsPair(carry1, l, high + carry + u)
  PROVE  B * Windowed(call, Store(after, call.z + call.k - 1, l), carry1)
           = Pended(call, memory, after, call.k, high, dd, carry)
             + dd * Modulus(call, memory) + u * Pow[call.k]
<1> DEFINE new == Store(after, call.z + call.k - 1, l)
           o == call.k - 1
<1>1. /\ call.k \in Nat /\ call.z \in Nat /\ call.z + call.k <= MemSize
  BY CallFacts
<1>2. /\ o \in Nat /\ o + 1 = call.k /\ o < call.k
      /\ call.z + o < MemSize /\ call.z + call.k - 1 = call.z + o
      /\ o \in 0 .. (call.k - 1)
  BY <1>1, MemSizeAssumption
<1>3. new = Store(after, call.z + o, l)
  BY <1>2
<1> HIDE DEF o
<1>4. Value(new, call.z, call.k)
        = Value(after, call.z, call.k) + (l - after[call.z + o]) * Pow[o]
  <2>1. \A s \in Nat : s > o => Value(new, call.z, s) = Value(after, call.z, s)
                                                          + (l - after[call.z + o]) * Pow[o]
    BY <1>1, <1>2, <1>3, ValueStore
  <2>2. QED
    BY <1>1, <1>2, <2>1
<1> HIDE DEF new
<1>5. \A s \in Nat : /\ Pow[s] \in Nat /\ Pow[s + 1] = B * Pow[s]
                     /\ Value(after, call.z, s) \in Nat /\ Value(memory, call.m, s) \in Nat
  BY BufferFacts
<1>6. after[call.z + o] \in Digit
      /\ Value(after, call.z, o + 1) = Value(after, call.z, o) + after[call.z + o] * Pow[o]
  BY <1>2, BufferFacts
<1> DEFINE Vo == Value(after, call.z, o)
           V == Value(after, call.z, call.k)
           P == Pow[o]
           Q == Pow[call.k]
           N == Modulus(call, memory)
           v == after[call.z + o]
<1>7. /\ V = Vo + v * P /\ Q = B * P
  <2>1. Pow[o + 1] = B * Pow[o]
    BY <1>2, <1>5
  <2>2. QED
    BY <1>2, <1>6, <2>1
<1>8. /\ B \in Int /\ Vo \in Int /\ V \in Int /\ P \in Int /\ Q \in Int /\ N \in Int
      /\ v \in Int /\ l \in Int /\ u \in Int /\ dd \in Int
  <2>1. Vo \in Int /\ V \in Int /\ P \in Int /\ Q \in Int /\ N \in Int
    BY <1>1, <1>2, <1>5 DEF Modulus
  <2>2. QED
    BY <1>6, <2>1, BaseAssumption DEF Digit
<1>9. Windowed(call, new, carry1) = V + (l - v) * P + carry1 * Q
  BY <1>4 DEF Windowed
<1>10. Pended(call, memory, after, call.k, high, dd, carry)
         = B * Vo + high * Q + (V - V) + carry * Q - dd * N
  BY <1>2 DEF Pended, Modulus, o
<1> HIDE DEF Vo, V, P, Q, N, v
<1>11. V + (l - v) * P = Vo + l * P
  <2>1. (l - v) * P = l * P - v * P
    BY <1>8
  <2>2. l * P \in Int /\ v * P \in Int
    BY <1>8
  <2>3. QED
    BY <1>7, <1>8, <2>1, <2>2
<1>12. B * (Vo + l * P + carry1 * Q) = B * Vo + (l + B * carry1) * Q
  <2>1. B * (Vo + l * P + carry1 * Q) = B * Vo + B * (l * P) + B * (carry1 * Q)
    BY <1>8
  <2>2. B * (l * P) = l * Q
    BY <1>7, <1>8
  <2>3. (l + B * carry1) * Q = l * Q + B * (carry1 * Q)
    BY <1>8
  <2>4. B * Vo \in Int /\ l * Q \in Int /\ B * (carry1 * Q) \in Int
    BY <1>8
  <2>5. QED
    BY <2>1, <2>2, <2>3, <2>4
<1>13. (l + B * carry1) * Q = high * Q + carry * Q + u * Q
  <2>1. l + B * carry1 = high + carry + u
    <3>1. B * carry1 + l = high + carry + u
      BY DEF IsPair
    <3>2. QED
      BY <1>8, <3>1
  <2>2. (high + carry + u) * Q = high * Q + carry * Q + u * Q
    BY <1>8
  <2>3. QED
    BY <2>1, <2>2
<1>14. B * Windowed(call, new, carry1) = B * Vo + high * Q + carry * Q + u * Q
  <2>1. Windowed(call, new, carry1) = Vo + l * P + carry1 * Q
    BY <1>9, <1>11
  <2>2. B * Vo \in Int /\ high * Q \in Int /\ carry * Q \in Int /\ u * Q \in Int
    BY <1>8
  <2>3. QED
    BY <1>12, <1>13, <2>1, <2>2
<1> DEFINE bv == B * Vo
           hq == high * Q
           cq == carry * Q
           uq == u * Q
           dn == dd * N
<1>15. bv \in Int /\ hq \in Int /\ cq \in Int /\ uq \in Int /\ dn \in Int
  BY <1>8
<1>16. B * Windowed(call, new, carry1) = bv + hq + cq + uq
  BY <1>14
<1>17. Pended(call, memory, after, call.k, high, dd, carry) = bv + hq + (V - V) + cq - dn
  BY <1>10
<1> HIDE DEF bv, hq, cq, uq, dn
<1>18. bv + hq + cq + uq = (bv + hq + (V - V) + cq - dn) + dn + uq
  BY <1>8, <1>15
<1>19. QED
  BY <1>16, <1>17, <1>18 DEF dn, uq, N, Q, new

\* A row divides by the base: one more digit of the input is taken and the quotient
\* grows by the row's multiplier at the row's weight.
LEMMA RowsStep ==
  ASSUME NEW call \in Calls, NEW memory \in [Addr -> Digit], NEW t \in Nat,
         NEW v \in Int, NEW v1 \in Int, NEW dd \in Digit,
         Modulus(call, memory) \in Nat,
         RowsDone(call, memory, v, t),
         B * v1 = v + dd * Modulus(call, memory)
                  + InputDigit(call, memory, call.k + t) * Pow[call.k]
  PROVE  RowsDone(call, memory, v1, t + 1)
<1> DEFINE N == Modulus(call, memory)
           P == Pow[t]
           K == Pow[call.k]
           T == Taken(call, memory, call.k + t)
           T1 == Taken(call, memory, call.k + (t + 1))
           u == InputDigit(call, memory, call.k + t)
<1>1. PICK q \in 0 .. (P - 1) : v * P = T + q * N
  BY DEF RowsDone
<1>2. call.k \in Nat /\ call.k + t \in Nat /\ (call.k + t) + 1 = call.k + (t + 1)
  BY CallFacts
<1>3. /\ P \in Nat /\ P >= 1 /\ K \in Nat /\ Pow[t + 1] = B * P /\ Pow[call.k + t] = K * P
  BY <1>2, PowPositive, PowFacts, PowAdd
<1>4. T \in Nat /\ u \in Digit /\ T1 = T + u * (K * P)
  BY <1>2, <1>3, TakenFacts
<1>5. B \in Nat /\ dd \in Nat /\ dd <= B - 1 /\ u \in Nat /\ q \in Nat /\ q <= P - 1 /\ N \in Nat
  BY <1>1, <1>3, <1>4, BaseAssumption DEF Digit
<1>6. B * v1 = v + dd * N + u * K
  OBVIOUS
<1> HIDE DEF N, P, K, T, T1, u
<1> DEFINE q1 == q + dd * P
<1>7. v1 * (B * P) = T1 + q1 * N
  <2>1. v1 * (B * P) = (B * v1) * P
    BY <1>3, <1>5
  <2>2. (v + dd * N + u * K) * P = v * P + (dd * N) * P + (u * K) * P
    BY <1>3, <1>5
  <2>3. (dd * N) * P = (dd * P) * N /\ (u * K) * P = u * (K * P)
    BY <1>3, <1>5
  <2>4. q1 * N = q * N + (dd * P) * N
    BY <1>3, <1>5
  <2>5. q * N \in Int /\ (dd * P) * N \in Int /\ u * (K * P) \in Int
    BY <1>3, <1>5
  <2> HIDE DEF q1
  <2>6. QED
    BY <1>1, <1>4, <1>6, <2>1, <2>2, <2>3, <2>4, <2>5
<1>8. q1 \in 0 .. ((B * P) - 1)
  <2>1. dd * P <= (B - 1) * P
    BY <1>3, <1>5
  <2>2. (B - 1) * P = B * P - P
    BY <1>3, <1>5
  <2>3. dd * P \in Nat /\ B * P \in Nat
    BY <1>3, <1>5
  <2>4. QED
    BY <1>3, <1>5, <2>1, <2>2, <2>3
<1> HIDE DEF q1
<1>9. \E s \in 0 .. (Pow[t + 1] - 1) : v1 * Pow[t + 1] = T1 + s * N
  BY <1>3, <1>7, <1>8
<1>10. QED
  BY <1>9 DEF RowsDone, T1, N

\* After any number of rows the window is less than the modulus above k digits, so
\* that the carry above it is a bit.
LEMMA RowsBound ==
  ASSUME NEW call \in Calls, NEW memory \in [Addr -> Digit], NEW t \in Nat, NEW v \in Int,
         Modulus(call, memory) \in Nat, RowsDone(call, memory, v, t)
  PROVE  v < Pow[call.k] + Modulus(call, memory)
<1> DEFINE N == Modulus(call, memory)
           P == Pow[t]
           K == Pow[call.k]
           T == Taken(call, memory, call.k + t)
<1>1. PICK q \in 0 .. (P - 1) : v * P = T + q * N
  BY DEF RowsDone
<1>2. call.k \in Nat /\ call.k + t \in Nat
  BY CallFacts
<1>3. P \in Nat /\ P >= 1 /\ K \in Nat /\ Pow[call.k + t] = K * P
  BY <1>2, PowPositive, PowAdd
<1>4. T \in Nat /\ T < K * P
  BY <1>2, <1>3, TakenFacts
<1>5. q \in Nat /\ q <= P - 1 /\ N \in Nat
  BY <1>1, <1>3
<1> HIDE DEF N, P, K, T
<1>6. q * N <= P * N
  BY <1>3, <1>5
<1>7. v * P < (K + N) * P
  <2>1. (K + N) * P = K * P + P * N
    BY <1>3, <1>5
  <2>2. K * P \in Int /\ q * N \in Int /\ P * N \in Int
    BY <1>3, <1>5
  <2>3. QED
    BY <1>1, <1>4, <1>6, <2>1, <2>2
<1>8. v < K + N
  <2>1. SUFFICES ASSUME v >= K + N PROVE FALSE
    BY <1>3, <1>5
  <2>2. v * P >= (K + N) * P
    BY <1>3, <1>5, <2>1
  <2>3. v * P \in Int /\ (K + N) * P \in Int
    BY <1>3, <1>5
  <2>4. QED
    BY <1>7, <2>2, <2>3
<1>9. QED
  BY <1>8 DEF K, N

\* The carry above the window is a bit.
LEMMA CarryFits ==
  ASSUME NEW call \in Calls, NEW memory \in [Addr -> Digit], NEW after \in [Addr -> Digit],
         Meaningful(call, memory), call.k # 0, NEW t \in Nat, NEW carry \in Nat,
         RowsDone(call, memory, Windowed(call, after, carry), t)
  PROVE  carry \in {0, 1}
<1> DEFINE v == Windowed(call, after, carry)
           V == Value(after, call.z, call.k)
           K == Pow[call.k]
           N == Modulus(call, memory)
<1>1. N \in Nat /\ N < K /\ V \in Nat /\ K \in Nat /\ v = V + carry * K
  BY ModulusFacts, BufferFacts DEF Windowed
<1>2. v \in Int
  <2> HIDE DEF v, V, K, N
  <2>1. QED
    BY <1>1
<1>3. v < K + N
  <2> HIDE DEF v
  <2>1. RowsDone(call, memory, v, t) /\ Modulus(call, memory) \in Nat
    BY <1>1 DEF v
  <2>2. QED
    BY <1>2, <2>1, RowsBound
<1> HIDE DEF v, V, K, N
<1>4. carry < 2
  <2>1. SUFFICES ASSUME carry >= 2 PROVE FALSE
    OBVIOUS
  <2>2. carry * K >= 2 * K
    BY <1>1, <2>1
  <2>3. carry * K \in Int
    BY <1>1
  <2>4. QED
    BY <1>1, <1>3, <2>2, <2>3
<1>5. QED
  BY <1>4

\* The contract of bignum_montredc bounds its input so that the window ends up below
\* twice the modulus, also when p = 0 and there are no rows.
LEMMA InputBound ==
  ASSUME NEW call \in Calls, NEW memory \in [Addr -> Digit],
         Meaningful(call, memory), call.k # 0, call.fn = "montredc", NEW v \in Int,
         RowsDone(call, memory, v, call.p)
  PROVE  v < 2 * Modulus(call, memory)
<1> DEFINE N == Modulus(call, memory)
           P == Pow[call.p]
           T == Taken(call, memory, call.k + call.p)
<1>1. PICK q \in 0 .. (P - 1) : v * P = T + q * N
  BY DEF RowsDone
<1>2. call.k \in Nat /\ call.p \in Nat /\ call.k + call.p \in Nat
  BY CallFacts
<1>3. P \in Nat /\ P >= 1 /\ N \in Nat /\ N >= 1 /\ T \in Nat
  BY <1>2, PowPositive, ModulusFacts, TakenFacts
<1>4. T <= P * N
  BY DEF Meaningful, Input, Taken
<1>5. q \in Nat /\ q <= P - 1
  BY <1>1, <1>3
<1> HIDE DEF N, P, T
<1>6. q * N <= (P - 1) * N
  BY <1>3, <1>5
<1>7. v * P < (2 * N) * P
  <2>1. (P - 1) * N = P * N - N
    BY <1>3
  <2>2. (2 * N) * P = P * N + P * N
    BY <1>3
  <2>3. P * N \in Int /\ q * N \in Int
    BY <1>3, <1>5
  <2>4. QED
    BY <1>1, <1>3, <1>4, <1>6, <2>1, <2>2, <2>3
<1>8. v < 2 * N
  <2>1. SUFFICES ASSUME v >= 2 * N PROVE FALSE
    BY <1>3
  <2>2. v * P >= (2 * N) * P
    BY <1>3, <2>1
  <2>3. v * P \in Int /\ (2 * N) * P \in Int
    BY <1>3
  <2>4. QED
    BY <1>7, <2>2, <2>3
<1>9. QED
  BY <1>8 DEF N

-----------------------------------------------------------------------------
(* The final correction.                                                    *)

\* nb says that the lowest jj digits of the window are no less than the modulus'.
Compared(call, memory, after, jj, nb) ==
  nb = 1 <=> Value(after, call.z, jj) >= Value(memory, call.m, jj)

\* The digit above decides, and the lower digits if it is equal.
LEMMA CompareContinues ==
  ASSUME NEW call \in Calls, NEW memory \in [Addr -> Digit], NEW after \in [Addr -> Digit],
         NEW jj \in Nat, jj < call.k, NEW nb \in {0, 1}, NEW nb1 \in {0, 1},
         Compared(call, memory, after, jj, nb),
         nb1 = 1 <=> after[call.z + jj] + nb >= memory[call.m + jj] + 1
  PROVE  Compared(call, memory, after, jj + 1, nb1)
<1> DEFINE V == Value(after, call.z, jj)
           M == Value(memory, call.m, jj)
           V1 == Value(after, call.z, jj + 1)
           M1 == Value(memory, call.m, jj + 1)
           P == Pow[jj]
           u == after[call.z + jj]
           b == memory[call.m + jj]
<1>1. /\ P \in Nat /\ V \in Nat /\ V < P /\ M \in Nat /\ M < P
      /\ u \in Digit /\ b \in Digit /\ V1 = V + u * P /\ M1 = M + b * P
  <2>1. jj \in 0 .. (call.k - 1)
    BY BufferFacts
  <2>2. QED
    BY <2>1, BufferFacts
<1>2. u \in Nat /\ b \in Nat
  BY <1>1, BaseAssumption DEF Digit
<1>3. nb = 1 <=> V >= M
  BY DEF Compared
<1>4. nb1 = 1 <=> u + nb >= b + 1
  OBVIOUS
<1> HIDE DEF V, M, V1, M1, P, u, b
<1>5. CASE u > b
  <2>1. u * P >= (b + 1) * P
    BY <1>1, <1>2, <1>5
  <2>2. (b + 1) * P = b * P + P /\ b * P \in Int /\ u * P \in Int
    BY <1>1, <1>2
  <2>3. V1 >= M1
    BY <1>1, <2>1, <2>2
  <2>4. nb1 = 1
    BY <1>2, <1>4, <1>5
  <2>5. QED
    BY <2>3, <2>4 DEF Compared, V1, M1
<1>6. CASE u = b
  <2>1. u * P = b * P /\ b * P \in Int
    BY <1>1, <1>2, <1>6
  <2>2. V1 >= M1 <=> V >= M
    BY <1>1, <2>1
  <2>3. nb1 = 1 <=> nb = 1
    BY <1>2, <1>4, <1>6
  <2>4. QED
    BY <1>3, <2>2, <2>3 DEF Compared, V1, M1
<1>7. CASE u < b
  <2>1. b * P >= (u + 1) * P
    BY <1>1, <1>2, <1>7
  <2>2. (u + 1) * P = u * P + P /\ b * P \in Int /\ u * P \in Int
    BY <1>1, <1>2
  <2>3. ~(V1 >= M1)
    BY <1>1, <2>1, <2>2
  <2>4. ~(nb1 = 1)
    BY <1>2, <1>4, <1>7
  <2>5. QED
    BY <2>3, <2>4 DEF Compared, V1, M1
<1>8. QED
  BY <1>2, <1>5, <1>6, <1>7

\* With the carry above them, the digits of the window decide whether it is no less
\* than the modulus.
LEMMA CompareEnds ==
  ASSUME NEW call \in Calls, NEW memory \in [Addr -> Digit], NEW after \in [Addr -> Digit],
         Meaningful(call, memory), call.k # 0, NEW nb \in {0, 1}, NEW carry \in {0, 1},
         Compared(call, memory, after, call.k, nb)
  PROVE  carry + nb > 0 <=> Windowed(call, after, carry) >= Modulus(call, memory)
<1> DEFINE V == Value(after, call.z, call.k)
           K == Pow[call.k]
           N == Modulus(call, memory)
<1>1. N \in Nat /\ N < K /\ V \in Nat /\ K \in Nat
  BY ModulusFacts, BufferFacts
<1>2. Windowed(call, after, carry) = V + carry * K /\ (nb = 1 <=> V >= N)
  BY DEF Windowed, Compared, Modulus
<1> HIDE DEF V, K, N
<1>3. V + carry * K >= N <=> carry + nb > 0
  BY <1>1, <1>2
<1>4. QED
  BY <1>2, <1>3 DEF N

\* In the last loop: the window before the loop, but for the carry above it.
Uncorrected(call, memory, after, jj, nb, mask) ==
  Value(after, call.z, call.k) + mask * Value(memory, call.m, jj) - (1 - nb) * Pow[jj]

\* Before the loop nothing is subtracted.
LEMMA CorrectionBegins ==
  ASSUME NEW call \in Calls, NEW memory \in [Addr -> Digit], NEW after \in [Addr -> Digit],
         NEW mask \in {0, 1}, NEW carry \in {0, 1}
  PROVE  Uncorrected(call, memory, after, 0, 1, mask) + carry * Pow[call.k]
           = Windowed(call, after, carry)
<1> DEFINE V == Value(after, call.z, call.k)
           K == Pow[call.k]
<1>1. V \in Nat /\ K \in Nat /\ Value(memory, call.m, 0) = 0 /\ Pow[0] = 1
  BY BufferFacts
<1>2. Uncorrected(call, memory, after, 0, 1, mask) = V + mask * 0 - (1 - 1) * 1
  BY <1>1 DEF Uncorrected
<1>3. Windowed(call, after, carry) = V + carry * K
  BY DEF Windowed
<1> HIDE DEF V, K
<1>4. V + mask * 0 - (1 - 1) * 1 + carry * K = V + carry * K
  BY <1>1
<1>5. QED
  BY <1>2, <1>3, <1>4 DEF K

\* A digit of the subtraction keeps what the window was.
LEMMA CorrectionContinues ==
  ASSUME NEW call \in Calls, NEW memory \in [Addr -> Digit], NEW after \in [Addr -> Digit],
         NEW jj \in Nat, jj < call.k, NEW mask \in {0, 1},
         NEW nb \in {0, 1}, NEW nb1 \in {0, 1}, NEW l \in Digit,
         l = after[call.z + jj] - mask * memory[call.m + jj] + nb - 1 + B - B * nb1
  PROVE  Uncorrected(call, memory, Store(after, call.z + jj, l), jj + 1, nb1, mask)
           = Uncorrected(call, memory, after, jj, nb, mask)
<1> DEFINE new == Store(after, call.z + jj, l)
           V == Value(after, call.z, call.k)
           M == Value(memory, call.m, jj)
           M1 == Value(memory, call.m, jj + 1)
           P == Pow[jj]
           P1 == Pow[jj + 1]
           u == after[call.z + jj]
           b == memory[call.m + jj]
<1>1. call.k \in Nat /\ call.z \in Nat /\ call.z + call.k <= MemSize
  BY CallFacts
<1>2. jj \in 0 .. (call.k - 1) /\ call.z + jj < MemSize
  BY <1>1, MemSizeAssumption
<1>3. Value(new, call.z, call.k) = V + (l - u) * P
  <2>1. \A s \in Nat : s > jj => Value(new, call.z, s) = Value(after, call.z, s)
                                        + (l - after[call.z + jj]) * Pow[jj]
    BY <1>1, <1>2, ValueStore
  <2>2. QED
    BY <1>1, <2>1
<1>4. /\ P \in Nat /\ P1 = B * P /\ V \in Nat /\ M \in Nat
      /\ u \in Digit /\ b \in Digit /\ M1 = M + b * P
  BY <1>2, BufferFacts
<1>5. u \in Int /\ b \in Int /\ l \in Int /\ B \in Int
  BY <1>4, BaseAssumption DEF Digit
<1>6. Uncorrected(call, memory, new, jj + 1, nb1, mask)
        = V + (l - u) * P + mask * M1 - (1 - nb1) * P1
  BY <1>3 DEF Uncorrected
<1>7. Uncorrected(call, memory, after, jj, nb, mask) = V + mask * M - (1 - nb) * P
  BY DEF Uncorrected
<1>8. l = u - mask * b + nb - 1 + B - B * nb1
  OBVIOUS
<1> HIDE DEF new, V, M, M1, P, P1, u, b
<1>9. mask * M1 = mask * M + (mask * b) * P
  BY <1>4, <1>5
<1>10. (1 - nb1) * P1 = (B - B * nb1) * P
  BY <1>4, <1>5
<1>11. (l - u) * P + (mask * b) * P - (B - B * nb1) * P = 0 - (1 - nb) * P
  <2>1. (l - u) + mask * b - (B - B * nb1) = 0 - (1 - nb)
    <3>1. mask * b \in Int /\ B * nb1 \in Int
      BY <1>5
    <3>2. QED
      BY <1>5, <1>8, <3>1
  <2>2. ((l - u) + mask * b - (B - B * nb1)) * P
          = (l - u) * P + (mask * b) * P - (B - B * nb1) * P
    BY <1>4, <1>5
  <2>3. (0 - (1 - nb)) * P = 0 - (1 - nb) * P
    BY <1>4
  <2>4. QED
    BY <2>1, <2>2, <2>3
<1> DEFINE a1 == (l - u) * P
           a2 == (mask * b) * P
           a3 == (B - B * nb1) * P
           a4 == (1 - nb) * P
           a5 == mask * M
<1>12. a1 \in Int /\ a2 \in Int /\ a3 \in Int /\ a4 \in Int /\ a5 \in Int
  BY <1>4, <1>5
<1>13. a1 + a2 - a3 = 0 - a4
  BY <1>11
<1>14. /\ Uncorrected(call, memory, new, jj + 1, nb1, mask) = V + a1 + (a5 + a2) - a3
       /\ Uncorrected(call, memory, after, jj, nb, mask) = V + a5 - a4
  BY <1>6, <1>7, <1>9, <1>10
<1> HIDE DEF a1, a2, a3, a4, a5
<1>15. V + a1 + (a5 + a2) - a3 = V + a5 - a4
  BY <1>4, <1>12, <1>13
<1>16. QED
  BY <1>14, <1>15 DEF new

\* After the loop the window is the difference, because that has k digits: the
\* borrow out of the loop cancels the carry above the window.
LEMMA CorrectionEnds ==
  ASSUME NEW call \in Calls, NEW memory \in [Addr -> Digit], NEW after \in [Addr -> Digit],
         NEW mask \in {0, 1}, NEW nb \in {0, 1}, NEW carry \in {0, 1}, NEW v \in Int,
         v = Uncorrected(call, memory, after, call.k, nb, mask) + carry * Pow[call.k],
         0 <= v - mask * Modulus(call, memory),
         v - mask * Modulus(call, memory) < Pow[call.k]
  PROVE  Value(after, call.z, call.k) = v - mask * Modulus(call, memory)
<1> DEFINE V == Value(after, call.z, call.k)
           K == Pow[call.k]
           N == Modulus(call, memory)
           q == nb + carry - 1
           mN == mask * N
<1>1. V \in Nat /\ V < K /\ K \in Nat /\ K >= 1 /\ N \in Nat
  BY BufferFacts DEF Modulus
<1>2. v = V + mN - (1 - nb) * K + carry * K
  BY DEF Uncorrected, Modulus
<1>3. 0 <= v - mN /\ v - mN < K /\ mN \in Int
  BY <1>1
<1> HIDE DEF V, K, N, mN
<1>4. v - mN - V = K * q
  BY <1>1, <1>2, <1>3
<1>5. q = 0
  <2>1. q \in Int /\ 0 - K < K * q /\ K * q < K
    BY <1>1, <1>3, <1>4
  <2> HIDE DEF q
  <2>2. QED
    BY <1>1, <2>1, NoMultipleBetween
<1> HIDE DEF q
<1>6. V = v - mN
  BY <1>1, <1>3, <1>4, <1>5
<1>7. QED
  BY <1>6 DEF V, mN, N

\* What is left after the rows has the residue of the input divided by B^p, with
\* and without the modulus subtracted.
LEMMA RightResidue ==
  ASSUME NEW call \in Calls, NEW memory \in [Addr -> Digit],
         Meaningful(call, memory), call.k # 0, NEW v \in Int, NEW mask \in Int,
         RowsDone(call, memory, v, call.p)
  PROVE  ((v - mask * Modulus(call, memory)) * Pow[call.p] - Input(call, memory))
           % Modulus(call, memory) = 0
<1> DEFINE N == Modulus(call, memory)
           P == Pow[call.p]
           T == Input(call, memory)
           s == (v - mask * N) * P - T
<1>1. PICK q \in 0 .. (P - 1) : v * P = T + q * N
  BY DEF RowsDone, Input, Taken
<1>2. P \in Nat /\ N \in Nat /\ N >= 1 /\ T \in Nat
  <2>1. call.k \in Nat /\ call.p \in Nat /\ call.k + call.p \in Nat
    BY CallFacts
  <2>2. Taken(call, memory, call.k + call.p) \in Nat
    BY <2>1, TakenFacts
  <2>3. QED
    BY <2>1, <2>2, PowPositive, ModulusFacts DEF Input, Taken
<1> HIDE DEF N, P, T
<1> DEFINE r == q - mask * P
<1>3. s = 0 + N * r
  <2>1. (v - mask * N) * P = v * P - (mask * N) * P
    BY <1>2
  <2>2. (mask * N) * P = N * (mask * P) /\ q * N = N * q
    BY <1>2
  <2>3. N * (q - mask * P) = N * q - N * (mask * P)
    BY <1>2
  <2>4. N * q \in Int /\ N * (mask * P) \in Int
    BY <1>2
  <2>5. QED
    BY <1>1, <1>2, <2>1, <2>2, <2>3, <2>4
<1>4. s \in Int /\ r \in Int
  BY <1>2
<1> HIDE DEF s, r
<1>5. s % N = 0 % N /\ 0 % N = 0
  <2>1. s % N = 0 % N
    BY <1>2, <1>3, <1>4, ModShift
  <2>2. 0 % N = 0
    BY <1>2
  <2>3. QED
    BY <2>1, <2>2
<1>6. QED
  BY <1>5 DEF s, N, P, T

-----------------------------------------------------------------------------
(* The inductive invariant.                                                 *)

\* The lowest ii digits of the window are those of the input, zero-padded.
Loaded(call, memory, after, ii) ==
  \A t \in 0 .. (ii - 1) : after[call.z + t] = InputDigit(call, memory, t)

Types ==
  /\ args \in Calls
  /\ mem0 \in [Addr -> Digit] /\ Meaningful(args, mem0)
  /\ mem \in [Addr -> Digit]
  /\ pc \in Labels
  /\ w \in Digit /\ d \in Digit /\ h \in Digit
  /\ i \in Nat /\ j \in Nat
  /\ cf \in {0, 1}
  /\ c \in {0, 1}

\* What the loops know of their counters at each label.
Counters ==
  /\ pc \notin {"entry", "done"} => args.k # 0
  /\ pc \in {"copy", "pad"} => j = Lesser(args.n, args.k)
  /\ pc = "copy" => i < j
  /\ pc = "pad" => j <= i /\ i < args.k
  /\ pc \in {"outer", "mont", "montend"} => i < args.p
  /\ pc = "mont" => 1 <= j /\ j < args.k
  /\ pc = "montend" => j = args.k
  /\ pc \in {"cmp", "corr"} => i = args.p /\ j < args.k /\ (j = 0 => cf = 1)
  /\ pc = "cmp" => args.fn = "montredc"

\* The input digits that were copied are in the window, and those still to be
\* copied are where they were, whether or not the two buffers are one.
Loading ==
  /\ pc = "entry" => mem = mem0
  /\ pc \in {"copy", "pad"} => Loaded(args, mem0, mem, i)
  /\ pc = "copy" => \A t \in i .. (j - 1) : mem[args.x + t] = mem0[args.x + t]

\* w is the negated inverse of the lowest digit of the modulus.
InverseOK == pc \notin {"entry", "done"} => (w * mem0[args.m] + 1) % B = 0

\* Between rows the window, and within a row what it was before the row, is the
\* reduction of the input digits taken so far.
Rows ==
  /\ pc \in {"outer", "cmp"} => RowsDone(args, mem0, Windowed(args, mem, c), i)
  /\ pc \in {"mont", "montend"} =>
       RowsDone(args, mem0, Pended(args, mem0, mem, j, h + cf, d, c), i)

\* The comparison with the modulus, of the digits seen so far.
Comparing == pc = "cmp" => Compared(args, mem0, mem, j, cf)

\* v is the window after the rows and e the carry above it: with the mask c the
\* subtraction leaves a number of k digits, and for bignum_montredc the residue;
\* bignum_amontredc takes the carry for the mask.
Corrected(call, memory, v, e, mask) ==
  /\ RowsDone(call, memory, v, call.p)
  /\ 0 <= v - mask * Modulus(call, memory)
  /\ v - mask * Modulus(call, memory) < Pow[call.k]
  /\ call.fn = "montredc" => v - mask * Modulus(call, memory) < Modulus(call, memory)
  /\ call.fn = "amontredc" => e = mask

Correcting ==
  pc = "corr" =>
    \E e \in {0, 1} :
      Corrected(args, mem0, Uncorrected(args, mem0, mem, j, cf, c) + e * Pow[args.k], e, c)

IInv == /\ Types /\ Counters /\ Loading /\ InverseOK /\ OnlyOutput
        /\ Rows /\ Comparing /\ Correcting /\ Result

\* The words of the modulus and of the inverse are digits at the call.
LEMMA InitInv == Init => IInv
<1> SUFFICES ASSUME Init PROVE IInv
  OBVIOUS
<1>1. /\ args \in Calls /\ mem0 \in [Addr -> Digit] /\ Meaningful(args, mem0)
      /\ mem = mem0 /\ pc = "entry"
      /\ w = 0 /\ i = 0 /\ j = 0 /\ d = 0 /\ h = 0 /\ cf = 0 /\ c = 0
  BY DEF Init
<1>2. Types
  BY <1>1, BaseAssumption DEF Types, Labels, Digit
<1>3. Counters /\ Loading /\ InverseOK /\ OnlyOutput
  BY <1>1 DEF Counters, Loading, InverseOK, OnlyOutput
<1>4. Rows /\ Comparing /\ Correcting /\ Result
  BY <1>1 DEF Rows, Comparing, Correcting, Result
<1>5. QED
  BY <1>2, <1>3, <1>4 DEF IInv

\* The call with k = 0 returns at once.
LEMMA TrivialInv ==
  ASSUME IInv, Trivial PROVE IInv'
<1>1. /\ pc' = "done" /\ args.k = 0
      /\ UNCHANGED <<args, mem0, mem, w, i, j, d, h, cf, c>>
  BY DEF Trivial
<1>2. Types'
  BY <1>1 DEF IInv, Types, Labels
<1>3. Counters' /\ Loading' /\ InverseOK'
  BY <1>1 DEF Counters, Loading, InverseOK
<1>4. OnlyOutput'
  BY <1>1 DEF IInv, OnlyOutput
<1>5. Rows' /\ Comparing' /\ Correcting' /\ Result'
  BY <1>1 DEF Rows, Comparing, Correcting, Result
<1>6. QED
  BY <1>2, <1>3, <1>4, <1>5 DEF IInv

\* The inverse of the modulus is ready and the copy starts.
LEMMA NegmodinvInv ==
  ASSUME IInv, Negmodinv PROVE IInv'
<1>1. /\ pc = "entry" /\ args.k # 0
      /\ w' \in {u \in Digit : (u * m(0) + 1) % B = 0}
      /\ i' = 0 /\ j' = Lesser(args.n, args.k)
      /\ pc' = IF j' # 0 THEN "copy" ELSE "pad"
      /\ UNCHANGED <<args, mem0, mem, d, h, cf, c>>
  BY DEF Negmodinv
<1>2. /\ args \in Calls /\ mem0 \in [Addr -> Digit] /\ mem = mem0
      /\ args.k \in Nat /\ args.n \in Nat /\ args.m \in Nat
  BY <1>1, CallFacts DEF IInv, Types, Loading
<1>3. w' \in Digit /\ (w' * mem0[args.m] + 1) % B = 0
  <2>1. m(0) = mem0[args.m]
    BY <1>2 DEF m
  <2>2. QED
    BY <1>1, <2>1
<1>4. j' \in Nat /\ j' <= args.k
  BY <1>1, <1>2 DEF Lesser
<1>5. Types'
  BY <1>1, <1>3, <1>4 DEF IInv, Types, Labels
<1>6. Counters'
  BY <1>1, <1>2, <1>4 DEF Counters
<1>7. Loading'
  BY <1>1, <1>2 DEF Loading, Loaded
<1>8. InverseOK'
  BY <1>1, <1>3 DEF InverseOK
<1>9. OnlyOutput'
  BY <1>1 DEF IInv, OnlyOutput
<1>10. Rows' /\ Comparing' /\ Correcting' /\ Result'
  BY <1>1 DEF Rows, Comparing, Correcting, Result
<1>11. QED
  BY <1>5, <1>6, <1>7, <1>8, <1>9, <1>10 DEF IInv

\* Once the window is loaded the rows, the comparison or the return may start.
LEMMA InitializedInv ==
  ASSUME Types, args.k # 0, (w * mem0[args.m] + 1) % B = 0,
         mem' \in [Addr -> Digit], Untouched(args, mem0, mem'),
         Loaded(args, mem0, mem', args.k),
         Initialized, UNCHANGED <<args, mem0, w, d, h>>
  PROVE  IInv'
<1>1. /\ args' = args /\ mem0' = mem0 /\ w' = w /\ d' = d /\ h' = h /\ c' = 0 /\ i' = 0
      /\ args \in Calls /\ mem0 \in [Addr -> Digit] /\ Meaningful(args, mem0)
      /\ args.k \in Nat /\ args.p \in Nat /\ args.fn \in Functions
  BY CallFacts DEF Types, Initialized
<1>2. \/ args.p # 0 /\ pc' = "outer" /\ j' = j /\ cf' = cf
      \/ args.p = 0 /\ args.fn = "montredc" /\ pc' = "cmp" /\ j' = 0 /\ cf' = 1
      \/ args.p = 0 /\ args.fn = "amontredc" /\ pc' = "done" /\ j' = j /\ cf' = cf
  BY <1>1 DEF Initialized, StartDigits, Functions
<1>3. Value(mem', args.z, args.k) = Taken(args, mem0, args.k)
  <2> DEFINE call == args
             memory == mem0
             after == mem'
  <2>1. /\ call \in Calls /\ memory \in [Addr -> Digit] /\ after \in [Addr -> Digit]
        /\ \A t \in 0 .. (call.k - 1) : after[call.z + t] = InputDigit(call, memory, t)
    BY <1>1 DEF Loaded
  <2> HIDE DEF call, memory, after
  <2>2. Value(after, call.z, call.k) = Taken(call, memory, call.k)
    BY <2>1, CopiedWindow
  <2>3. QED
    BY <2>2 DEF call, memory, after
<1>4. Modulus(args, mem0) \in Nat /\ 1 <= Modulus(args, mem0) /\ Modulus(args, mem0) < Pow[args.k]
  BY <1>1, ModulusFacts
<1>5. RowsDone(args, mem0, Windowed(args, mem', 0), 0)
  <2> DEFINE after == mem'
  <2>1. after \in [Addr -> Digit] /\ Value(after, args.z, args.k) = Taken(args, mem0, args.k)
    BY <1>3
  <2> HIDE DEF after
  <2>2. RowsDone(args, mem0, Windowed(args, after, 0), 0)
    BY <1>1, <1>4, <2>1, NoRows
  <2>3. QED
    BY <2>2 DEF after
<1>6. Types'
  BY <1>1, <1>2 DEF Types, Labels
<1>7. Counters'
  BY <1>1, <1>2 DEF Counters
<1>8. Loading' /\ Correcting'
  BY <1>1, <1>2 DEF Loading, Correcting
<1>9. InverseOK'
  BY <1>1, <1>2 DEF InverseOK
<1>10. OnlyOutput'
  BY <1>1 DEF OnlyOutput, Untouched
<1>11. Rows'
  BY <1>1, <1>2, <1>5 DEF Rows
<1>12. Comparing'
  <2>1. Value(mem', args.z, 0) = 0 /\ Value(mem0, args.m, 0) = 0
    BY <1>1, BufferFacts
  <2>2. Compared(args, mem0, mem', 0, 1)
    BY <2>1 DEF Compared
  <2>3. QED
    BY <1>1, <1>2, <2>2 DEF Comparing
<1>13. Result'
  <2>1. ASSUME args.p = 0, args.fn = "amontredc"
        PROVE  (Value(mem', args.z, args.k) * Pow[args.p] - Input(args, mem0))
                 % Modulus(args, mem0) = 0
    <3> DEFINE v == Windowed(args, mem', 0)
               V == Value(mem', args.z, args.k)
               N == Modulus(args, mem0)
    <3>1. V \in Nat /\ v = V
      <4>1. V \in Nat /\ Pow[args.k] \in Nat
        BY <1>1, BufferFacts
      <4>2. v = V + 0 * Pow[args.k]
        BY DEF Windowed
      <4> HIDE DEF v, V
      <4>3. QED
        BY <4>1, <4>2
    <3>2. RowsDone(args, mem0, v, args.p) /\ v \in Int
      BY <1>5, <2>1, <3>1
    <3> DEFINE mask == 0
    <3>3. mask \in Int /\ v - mask * N = V
      BY <1>4, <3>1
    <3> HIDE DEF v, V, mask
    <3>4. ((v - mask * N) * Pow[args.p] - Input(args, mem0)) % N = 0
      BY <1>1, <3>2, <3>3, RightResidue
    <3>5. QED
      BY <3>3, <3>4 DEF V
  <2>2. QED
    BY <1>1, <1>2, <2>1 DEF Result
<1>14. QED
  BY <1>6, <1>7, <1>8, <1>9, <1>10, <1>11, <1>12, <1>13 DEF IInv

\* A digit of the input, or zero above them, is stored: the window holds one more.
LEMMA LoadStep ==
  ASSUME NEW call \in Calls, NEW memory \in [Addr -> Digit], NEW after \in [Addr -> Digit],
         Untouched(call, memory, after), NEW ii \in 0 .. (call.k - 1),
         Loaded(call, memory, after, ii), NEW u \in Digit, u = InputDigit(call, memory, ii)
  PROVE  /\ Store(after, call.z + ii, u) \in [Addr -> Digit]
         /\ Untouched(call, memory, Store(after, call.z + ii, u))
         /\ Loaded(call, memory, Store(after, call.z + ii, u), ii + 1)
<1> DEFINE new == Store(after, call.z + ii, u)
<1>1. /\ call.k \in Nat /\ call.z \in Nat
      /\ \A t \in 0 .. (call.k - 1) : call.z + t \in Addr
  BY CallFacts, MemSizeAssumption DEF Addr
<1>2. new \in [Addr -> Digit] /\ Untouched(call, memory, new) /\ new[call.z + ii] = u
  BY WindowStore
<1>3. \A a \in Addr : a # call.z + ii => new[a] = after[a]
  BY DEF Store
<1> HIDE DEF new
<1>4. ASSUME NEW t \in 0 .. ((ii + 1) - 1)
      PROVE  new[call.z + t] = InputDigit(call, memory, t)
  <2>1. CASE t = ii
    BY <1>2, <2>1
  <2>2. CASE t # ii
    <3>1. t \in 0 .. (ii - 1) /\ call.z + t \in Addr /\ call.z + t # call.z + ii
      BY <1>1, <2>2
    <3>2. QED
      BY <1>3, <3>1 DEF Loaded
  <2>3. QED
    BY <2>1, <2>2
<1>5. QED
  BY <1>2, <1>4 DEF Loaded, new

\* A copied digit leaves those still to be copied where they were, also when the
\* input is in the window itself.
LEMMA CopyLoopInv ==
  ASSUME IInv, CopyLoop PROVE IInv'
<1>1. /\ pc = "copy"
      /\ mem' = Store(mem, args.z + i, mem[args.x + i])
      /\ args' = args /\ mem0' = mem0 /\ w' = w /\ d' = d /\ h' = h
  BY DEF CopyLoop
<1>2. \/ i + 1 < j /\ pc' = "copy" /\ i' = i + 1 /\ UNCHANGED <<j, cf, c>>
      \/ ~(i + 1 < j) /\ i + 1 < args.k /\ pc' = "pad" /\ i' = i + 1 /\ UNCHANGED <<j, cf, c>>
      \/ ~(i + 1 < j) /\ ~(i + 1 < args.k) /\ Initialized
  BY DEF CopyLoop
<1>3. /\ Types /\ args \in Calls /\ mem0 \in [Addr -> Digit] /\ mem \in [Addr -> Digit]
      /\ i \in Nat /\ j \in Nat /\ i < j /\ j = Lesser(args.n, args.k) /\ args.k # 0
      /\ Loaded(args, mem0, mem, i)
      /\ \A t \in i .. (j - 1) : mem[args.x + t] = mem0[args.x + t]
      /\ (w * mem0[args.m] + 1) % B = 0
      /\ Untouched(args, mem0, mem)
  BY <1>1 DEF IInv, Types, Counters, Loading, InverseOK, OnlyOutput, Untouched
<1>4. /\ args.k \in Nat /\ args.n \in Nat /\ args.z \in Nat /\ args.x \in Nat
      /\ args.z + args.k <= MemSize /\ args.x + args.n <= MemSize
      /\ \A s \in 0 .. (args.n - 1) :
           args.x + s \in Region(args.z, args.k) => args.x = args.z
  BY <1>3, CallFacts
<1>5. j <= args.k /\ j <= args.n /\ i \in 0 .. (args.k - 1)
  BY <1>3, <1>4 DEF Lesser
<1>6. mem[args.x + i] = InputDigit(args, mem0, i) /\ mem[args.x + i] \in Digit
  <2>1. mem[args.x + i] = mem0[args.x + i] /\ i < args.n
    BY <1>3, <1>4, <1>5
  <2>2. mem[args.x + i] = InputDigit(args, mem0, i)
    BY <2>1 DEF InputDigit
  <2>3. InputDigit(args, mem0, i) \in Digit
    BY <1>3, TakenFacts
  <2>4. QED
    BY <2>2, <2>3
<1>7. /\ mem' \in [Addr -> Digit] /\ Untouched(args, mem0, mem')
      /\ Loaded(args, mem0, mem', i + 1)
  <2> DEFINE u == mem[args.x + i]
  <2>1. u \in Digit /\ u = InputDigit(args, mem0, i)
    BY <1>6
  <2> HIDE DEF u
  <2>2. LET new == Store(mem, args.z + i, u)
        IN  /\ new \in [Addr -> Digit] /\ Untouched(args, mem0, new)
            /\ Loaded(args, mem0, new, i + 1)
    BY <1>3, <1>5, <2>1, LoadStep
  <2>3. QED
    BY <1>1, <2>2 DEF u
<1>8. \A t \in (i + 1) .. (j - 1) : mem'[args.x + t] = mem0[args.x + t]
  <2>1. SUFFICES ASSUME NEW t \in (i + 1) .. (j - 1)
                 PROVE  mem'[args.x + t] = mem0[args.x + t]
    OBVIOUS
  <2>2. mem[args.x + t] = mem0[args.x + t] /\ t \in 0 .. (args.n - 1)
    <3>1. t \in i .. (j - 1) /\ t \in 0 .. (args.n - 1)
      BY <1>3, <1>4, <1>5
    <3>2. QED
      BY <1>3, <3>1
  <2>3. args.x + t \in Addr
    BY <1>4, <2>2, MemSizeAssumption DEF Addr
  <2>4. args.x + t # args.z + i
    <3>1. SUFFICES ASSUME args.x + t = args.z + i PROVE FALSE
      OBVIOUS
    <3>2. args.x + t \in Region(args.z, args.k)
      BY <1>4, <1>5, <3>1 DEF Region
    <3>3. args.x = args.z
      BY <1>4, <2>2, <3>2
    <3>4. QED
      BY <1>3, <1>4, <3>1, <3>3
  <2>5. QED
    BY <1>1, <1>3, <2>2, <2>3, <2>4 DEF Store
<1>9. CASE i + 1 < j
  <2>1. pc' = "copy" /\ i' = i + 1 /\ UNCHANGED <<j, cf, c>>
    BY <1>2, <1>3, <1>5, <1>9
  <2>2. Types'
    BY <1>1, <1>3, <1>7, <2>1 DEF Types, Labels
  <2>3. Counters' /\ InverseOK'
    BY <1>1, <1>3, <1>9, <2>1 DEF Counters, InverseOK
  <2>4. Loading'
    BY <1>1, <1>7, <1>8, <2>1 DEF Loading
  <2>5. OnlyOutput'
    BY <1>1, <1>7 DEF OnlyOutput, Untouched
  <2>6. Rows' /\ Comparing' /\ Correcting' /\ Result'
    BY <2>1 DEF Rows, Comparing, Correcting, Result
  <2>7. QED
    BY <2>2, <2>3, <2>4, <2>5, <2>6 DEF IInv
<1>10. CASE ~(i + 1 < j) /\ i + 1 < args.k
  <2>1. pc' = "pad" /\ i' = i + 1 /\ UNCHANGED <<j, cf, c>>
    BY <1>2, <1>3, <1>10
  <2>2. Types'
    BY <1>1, <1>3, <1>7, <2>1 DEF Types, Labels
  <2>3. Counters' /\ InverseOK'
    BY <1>1, <1>3, <1>10, <2>1 DEF Counters, InverseOK
  <2>4. Loading'
    BY <1>1, <1>7, <2>1 DEF Loading
  <2>5. OnlyOutput'
    BY <1>1, <1>7 DEF OnlyOutput, Untouched
  <2>6. Rows' /\ Comparing' /\ Correcting' /\ Result'
    BY <2>1 DEF Rows, Comparing, Correcting, Result
  <2>7. QED
    BY <2>2, <2>3, <2>4, <2>5, <2>6 DEF IInv
<1>11. CASE ~(i + 1 < j) /\ ~(i + 1 < args.k)
  <2>1. Initialized
    BY <1>2, <1>11
  <2>2. i + 1 = args.k
    BY <1>3, <1>4, <1>5, <1>11
  <2>3. Loaded(args, mem0, mem', args.k)
    BY <1>7, <2>2
  <2>4. QED
    BY <1>1, <1>3, <1>7, <2>1, <2>3, InitializedInv
<1>12. QED
  BY <1>9, <1>10, <1>11

\* The digits above the input are zero.
LEMMA PadLoopInv ==
  ASSUME IInv, PadLoop PROVE IInv'
<1>1. /\ pc = "pad"
      /\ mem' = Store(mem, args.z + i, 0)
      /\ args' = args /\ mem0' = mem0 /\ w' = w /\ d' = d /\ h' = h
  BY DEF PadLoop
<1>2. \/ i + 1 < args.k /\ pc' = "pad" /\ i' = i + 1 /\ UNCHANGED <<j, cf, c>>
      \/ ~(i + 1 < args.k) /\ Initialized
  BY DEF PadLoop
<1>3. /\ Types /\ args \in Calls /\ mem0 \in [Addr -> Digit] /\ mem \in [Addr -> Digit]
      /\ i \in Nat /\ j \in Nat /\ j <= i /\ i < args.k /\ j = Lesser(args.n, args.k)
      /\ args.k # 0
      /\ Loaded(args, mem0, mem, i)
      /\ (w * mem0[args.m] + 1) % B = 0
      /\ Untouched(args, mem0, mem)
  BY <1>1 DEF IInv, Types, Counters, Loading, InverseOK, OnlyOutput, Untouched
<1>4. args.k \in Nat /\ args.n \in Nat
  BY <1>3, CallFacts
<1>5. i \in 0 .. (args.k - 1)
  BY <1>3, <1>4
<1>6. 0 \in Digit /\ 0 = InputDigit(args, mem0, i)
  BY <1>3, <1>4, BaseAssumption DEF Lesser, InputDigit, Digit
<1>7. /\ mem' \in [Addr -> Digit] /\ Untouched(args, mem0, mem')
      /\ Loaded(args, mem0, mem', i + 1)
  BY <1>1, <1>3, <1>5, <1>6, LoadStep
<1>8. CASE i + 1 < args.k
  <2>1. pc' = "pad" /\ i' = i + 1 /\ UNCHANGED <<j, cf, c>>
    BY <1>2, <1>8
  <2>2. Types'
    BY <1>1, <1>3, <1>7, <2>1 DEF Types, Labels
  <2>3. Counters' /\ InverseOK'
    BY <1>1, <1>3, <1>8, <2>1 DEF Counters, InverseOK
  <2>4. Loading'
    BY <1>1, <1>7, <2>1 DEF Loading
  <2>5. OnlyOutput'
    BY <1>1, <1>7 DEF OnlyOutput, Untouched
  <2>6. Rows' /\ Comparing' /\ Correcting' /\ Result'
    BY <2>1 DEF Rows, Comparing, Correcting, Result
  <2>7. QED
    BY <2>2, <2>3, <2>4, <2>5, <2>6 DEF IInv
<1>9. CASE ~(i + 1 < args.k)
  <2>1. Initialized
    BY <1>2, <1>9
  <2>2. i + 1 = args.k
    BY <1>4, <1>5, <1>9
  <2>3. Loaded(args, mem0, mem', args.k)
    BY <1>7, <2>2
  <2>4. QED
    BY <1>1, <1>3, <1>7, <2>1, <2>3, InitializedInv
<1>10. QED
  BY <1>8, <1>9

\* What every row reads: the digits of the modulus and of the window.
LEMMA RowFacts ==
  ASSUME IInv, pc \notin {"entry", "done"}
  PROVE  /\ args \in Calls /\ mem0 \in [Addr -> Digit] /\ mem \in [Addr -> Digit]
         /\ Meaningful(args, mem0) /\ args.k # 0
         /\ args.k \in Nat /\ args.n \in Nat /\ args.p \in Nat
         /\ i \in Nat /\ j \in Nat /\ cf \in {0, 1} /\ c \in {0, 1}
         /\ h \in Digit /\ d \in Digit /\ w \in Digit
         /\ h \in Nat /\ h + cf \in Nat /\ cf \in Nat /\ c \in Nat
         /\ Untouched(args, mem0, mem)
         /\ (w * mem0[args.m] + 1) % B = 0
         /\ \A t \in 0 .. (args.k - 1) : /\ m(t) = mem0[args.m + t] /\ m(t) \in Digit
                                         /\ z(t) \in Digit
         /\ z(0) = mem[args.z] /\ m(0) = mem0[args.m]
<1>1. /\ args \in Calls /\ mem0 \in [Addr -> Digit] /\ mem \in [Addr -> Digit]
      /\ Meaningful(args, mem0) /\ args.k # 0
      /\ i \in Nat /\ j \in Nat /\ cf \in {0, 1} /\ c \in {0, 1}
      /\ h \in Digit /\ d \in Digit /\ w \in Digit
      /\ Untouched(args, mem0, mem)
      /\ (w * mem0[args.m] + 1) % B = 0
  BY DEF IInv, Types, Counters, InverseOK, OnlyOutput, Untouched
<1>2. h \in Nat /\ cf \in Nat /\ c \in Nat /\ h + cf \in Nat
  BY <1>1, BaseAssumption DEF Digit
<1>3. /\ args.k \in Nat /\ args.n \in Nat /\ args.p \in Nat /\ args.z \in Nat /\ args.m \in Nat
  BY <1>1, CallFacts
<1>4. \A t \in 0 .. (args.k - 1) : m(t) = mem0[args.m + t] /\ m(t) \in Digit
  BY <1>1, ReadIntact DEF m
<1>5. \A t \in 0 .. (args.k - 1) : z(t) \in Digit
  BY <1>1, BufferFacts DEF z
<1>6. z(0) = mem[args.z] /\ m(0) = mem0[args.m]
  <2>1. 0 \in 0 .. (args.k - 1) /\ args.z + 0 = args.z /\ args.m + 0 = args.m
    BY <1>1, <1>3
  <2>2. QED
    BY <1>4, <2>1 DEF z
<1>7. QED
  BY <1>1, <1>2, <1>3, <1>4, <1>5, <1>6

\* A row starts: its multiplier makes the lowest digit vanish.
LEMMA OuterLoopInv ==
  ASSUME IInv, OuterLoop PROVE IInv'
<1> DEFINE dd == (z(0) * w) % B
           product == dd * m(0)
<1>1. /\ pc = "outer" /\ d' = dd /\ h' = product \div B
      /\ cf' = (z(0) + (product % B)) \div B /\ j' = 1
      /\ pc' = IF args.k = 1 THEN "montend" ELSE "mont"
      /\ args' = args /\ mem0' = mem0 /\ mem' = mem /\ w' = w /\ i' = i /\ c' = c
  BY DEF OuterLoop
<1>2. /\ args \in Calls /\ mem0 \in [Addr -> Digit] /\ mem \in [Addr -> Digit]
      /\ args.k # 0 /\ args.k \in Nat /\ w \in Digit /\ c \in Nat
      /\ (w * mem0[args.m] + 1) % B = 0
      /\ z(0) = mem[args.z] /\ m(0) = mem0[args.m] /\ z(0) \in Digit /\ m(0) \in Digit
  <2>1. pc \notin {"entry", "done"}
    BY <1>1
  <2>2. 0 \in 0 .. (args.k - 1)
    BY <2>1, RowFacts
  <2>3. QED
    BY <2>1, <2>2, RowFacts
<1>3. RowsDone(args, mem0, Windowed(args, mem, c), i) /\ i < args.p /\ Types
  BY <1>1 DEF IInv, Rows, Counters
<1>4. /\ dd \in Digit /\ product \div B \in Digit
      /\ (z(0) + (product % B)) \div B \in {0, 1}
      /\ z(0) + dd * m(0) = B * (product \div B + (z(0) + (product % B)) \div B)
  <2> DEFINE u == z(0)
             b == m(0)
  <2>1. u \in Digit /\ b \in Digit /\ (w * b + 1) % B = 0
    BY <1>2
  <2> HIDE DEF u, b
  <2>2. LET e == (u * w) % B
            p == e * b
        IN  /\ e \in Digit
            /\ p \div B \in Digit
            /\ (u + (p % B)) \div B \in {0, 1}
            /\ u + e * b = B * (p \div B + (u + (p % B)) \div B)
    BY <1>2, <2>1, FirstColumn
  <2>3. QED
    BY <2>2 DEF u, b
<1> HIDE DEF dd, product
<1>5. d' \in Digit /\ h' \in Digit /\ cf' \in {0, 1} /\ h' + cf' \in Nat
      /\ mem[args.z] + d' * mem0[args.m] = B * (h' + cf')
  BY <1>1, <1>2, <1>4, BaseAssumption DEF Digit
<1>6. Pended(args, mem0, mem, 1, h' + cf', d', c) = Windowed(args, mem, c)
  <2> DEFINE high == h' + cf'
             e == d'
  <2>1. high \in Nat /\ e \in Digit /\ mem[args.z] + e * mem0[args.m] = B * high
    BY <1>5
  <2> HIDE DEF high, e
  <2>2. Pended(args, mem0, mem, 1, high, e, c) = Windowed(args, mem, c)
    BY <1>2, <2>1, RowBegins
  <2>3. QED
    BY <2>2 DEF high, e
<1>7. Types'
  BY <1>1, <1>3, <1>5 DEF Types, Labels
<1>8. Counters' /\ Loading'
  BY <1>1, <1>2, <1>3 DEF Counters, Loading
<1>9. InverseOK'
  BY <1>1, <1>2 DEF InverseOK
<1>10. OnlyOutput'
  BY <1>1 DEF IInv, OnlyOutput
<1>11. Rows'
  <2>1. pc' \notin {"outer", "cmp"} /\ pc' \in {"mont", "montend"}
    BY <1>1
  <2>2. RowsDone(args', mem0', Pended(args', mem0', mem', j', h' + cf', d', c'), i')
    BY <1>1, <1>3, <1>6
  <2>3. QED
    BY <2>1, <2>2 DEF Rows
<1>12. Comparing' /\ Correcting' /\ Result'
  BY <1>1 DEF Comparing, Correcting, Result
<1>13. QED
  BY <1>7, <1>8, <1>9, <1>10, <1>11, <1>12 DEF IInv

\* A column within the row.
LEMMA MontLoopInv ==
  ASSUME IInv, MontLoop PROVE IInv'
<1> DEFINE product == d * m(j)
           low == z(j) + h + cf
           sum == (low % B) + (product % B)
<1>1. /\ pc = "mont" /\ h' = product \div B + low \div B /\ cf' = sum \div B
      /\ mem' = Store(mem, args.z + j - 1, sum % B) /\ j' = j + 1
      /\ pc' = IF j + 1 = args.k THEN "montend" ELSE "mont"
      /\ args' = args /\ mem0' = mem0 /\ w' = w /\ i' = i /\ d' = d /\ c' = c
  BY DEF MontLoop
<1>2. /\ args \in Calls /\ mem0 \in [Addr -> Digit] /\ mem \in [Addr -> Digit]
      /\ args.k # 0 /\ args.k \in Nat /\ c \in Nat /\ j \in Nat /\ d \in Digit /\ h \in Digit
      /\ cf \in {0, 1} /\ h + cf \in Nat /\ h \in Nat /\ cf \in Nat
      /\ Untouched(args, mem0, mem) /\ (w * mem0[args.m] + 1) % B = 0
      /\ \A t \in 0 .. (args.k - 1) : m(t) = mem0[args.m + t] /\ m(t) \in Digit /\ z(t) \in Digit
  <2>1. pc \notin {"entry", "done"}
    BY <1>1
  <2>2. QED
    BY <2>1, RowFacts
<1>3. /\ RowsDone(args, mem0, Pended(args, mem0, mem, j, h + cf, d, c), i)
      /\ i < args.p /\ 1 <= j /\ j < args.k /\ Types
  BY <1>1 DEF IInv, Rows, Counters
<1>4. j \in 0 .. (args.k - 1) /\ j - 1 \in 0 .. (args.k - 1)
  BY <1>2, <1>3
<1>5. m(j) = mem0[args.m + j] /\ m(j) \in Digit /\ z(j) \in Digit /\ z(j) = mem[args.z + j]
  BY <1>2, <1>4 DEF z
<1>6. /\ product \div B + low \div B \in Digit /\ sum \div B \in {0, 1} /\ sum % B \in Digit
      /\ B * ((product \div B + low \div B) + sum \div B) + (sum % B) = d * m(j) + z(j) + h + cf
  <2> DEFINE u == z(j)
             b == m(j)
             e == d
             hh == h
             cc == cf
  <2>1. u \in Digit /\ b \in Digit /\ e \in Digit /\ hh \in Digit /\ cc \in {0, 1}
    BY <1>2, <1>5
  <2> HIDE DEF u, b, e, hh, cc
  <2>2. LET p == e * b
            lo == u + hh + cc
            s == (lo % B) + (p % B)
            high == p \div B + lo \div B
        IN  /\ high \in Digit /\ s \div B \in {0, 1} /\ s % B \in Digit
            /\ B * (high + s \div B) + (s % B) = e * b + u + hh + cc
    BY <2>1, InnerColumn
  <2>3. QED
    BY <2>2 DEF u, b, e, hh, cc
<1> DEFINE l == sum % B
<1>7. l \in Digit /\ mem' = Store(mem, args.z + j - 1, l)
      /\ h' \in Digit /\ cf' \in {0, 1}
      /\ B * (h' + cf') + l = d * m(j) + z(j) + h + cf
  BY <1>1, <1>6
<1> HIDE DEF l, product, low, sum
<1>8. h' + cf' \in Nat /\ d \in Int /\ m(j) \in Int /\ z(j) \in Int /\ l \in Int
  <2>1. Digit \in SUBSET Nat
    BY BaseAssumption DEF Digit
  <2>2. h' \in Nat /\ cf' \in Nat
    BY <1>7, <2>1
  <2>3. d \in Nat /\ m(j) \in Nat /\ z(j) \in Nat /\ l \in Nat
    BY <1>2, <1>5, <1>7, <2>1
  <2>4. h' + cf' \in Nat
    <3> DEFINE hh == h'
               cc == cf'
    <3>1. hh \in Nat /\ cc \in Nat
      BY <2>2
    <3> HIDE DEF hh, cc
    <3>2. hh + cc \in Nat
      BY <3>1
    <3>3. QED
      BY <3>2 DEF hh, cc
  <2>5. d \in Int /\ m(j) \in Int /\ z(j) \in Int /\ l \in Int
    <3> DEFINE u == z(j)
               v == m(j)
    <3>1. u \in Nat /\ v \in Nat
      BY <2>3
    <3> HIDE DEF u, v
    <3>2. u \in Int /\ v \in Int
      BY <3>1
    <3>3. QED
      BY <2>3, <3>2 DEF u, v
  <2>6. QED
    BY <2>4, <2>5
<1>9. Pended(args, mem0, mem', j + 1, h' + cf', d, c)
        = Pended(args, mem0, mem, j, h + cf, d, c)
  <2> DEFINE high == h + cf
             high1 == h' + cf'
  <2>1. high \in Nat /\ high1 \in Nat
        /\ B * high1 + l = d * mem0[args.m + j] + mem[args.z + j] + high
    <3>1. d * m(j) \in Int
      BY <1>8
    <3>2. d * m(j) + z(j) + h + cf = d * m(j) + z(j) + (h + cf)
      BY <1>2, <1>8, <3>1
    <3>3. QED
      BY <1>2, <1>5, <1>7, <1>8, <3>2
  <2> DEFINE call == args
             memory == mem0
             after == mem
             jj == j
             e == d
             carry == c
  <2>2. /\ call \in Calls /\ memory \in [Addr -> Digit] /\ after \in [Addr -> Digit]
        /\ jj \in Nat /\ 1 <= jj /\ jj < call.k /\ e \in Digit /\ carry \in Nat
        /\ l \in Digit /\ high \in Nat /\ high1 \in Nat
        /\ B * high1 + l = e * memory[call.m + jj] + after[call.z + jj] + high
    BY <1>2, <1>3, <1>7, <2>1
  <2> HIDE DEF high, high1, call, memory, after, jj, e, carry
  <2>3. Pended(call, memory, Store(after, call.z + jj - 1, l), jj + 1, high1, e, carry)
          = Pended(call, memory, after, jj, high, e, carry)
    BY <2>2, RowContinues
  <2>4. QED
    BY <1>7, <2>3 DEF high, high1, call, memory, after, jj, e, carry
<1>10. mem' \in [Addr -> Digit] /\ Untouched(args, mem0, mem')
  <2> DEFINE t == j - 1
  <2>1. t \in 0 .. (args.k - 1) /\ args.z + j - 1 = args.z + t
    BY <1>2, <1>4, CallFacts
  <2> HIDE DEF t
  <2>2. LET new == Store(mem, args.z + t, l)
        IN  new \in [Addr -> Digit] /\ Untouched(args, mem0, new)
    BY <1>2, <1>7, <2>1, WindowStore
  <2>3. QED
    BY <1>7, <2>1, <2>2
<1>11. Types'
  BY <1>1, <1>2, <1>3, <1>7, <1>10 DEF Types, Labels
<1>12. Counters' /\ Loading'
  BY <1>1, <1>2, <1>3 DEF Counters, Loading
<1>13. InverseOK'
  BY <1>1, <1>2 DEF InverseOK
<1>14. OnlyOutput'
  BY <1>1, <1>10 DEF OnlyOutput, Untouched
<1>15. Rows'
  <2>1. pc' \notin {"outer", "cmp"} /\ pc' \in {"mont", "montend"}
    BY <1>1
  <2>2. RowsDone(args', mem0', Pended(args', mem0', mem', j', h' + cf', d', c'), i')
    BY <1>1, <1>3, <1>9
  <2>3. QED
    BY <2>1, <2>2 DEF Rows
<1>16. Comparing' /\ Correcting' /\ Result'
  BY <1>1 DEF Comparing, Correcting, Result
<1>17. QED
  BY <1>11, <1>12, <1>13, <1>14, <1>15, <1>16 DEF IInv

\* bignum_amontredc takes the carry for the mask: without it the window is below
\* B^k, and with it the modulus is less than the window.
LEMMA CarryForMask ==
  ASSUME NEW call \in Calls, NEW memory \in [Addr -> Digit], NEW after \in [Addr -> Digit],
         Meaningful(call, memory), call.k # 0, call.fn = "amontredc", NEW carry \in {0, 1},
         RowsDone(call, memory, Windowed(call, after, carry), call.p)
  PROVE  Corrected(call, memory, Windowed(call, after, carry), carry, carry)
<1> DEFINE v == Windowed(call, after, carry)
           V == Value(after, call.z, call.k)
           K == Pow[call.k]
           N == Modulus(call, memory)
<1>1. N \in Nat /\ N >= 1 /\ N < K /\ V \in Nat /\ V < K /\ K \in Nat /\ v = V + carry * K
  BY ModulusFacts, BufferFacts DEF Windowed
<1>2. call.p \in Nat /\ RowsDone(call, memory, v, call.p)
  BY CallFacts
<1>3. v \in Int
  <2> HIDE DEF v, V, K, N
  <2>1. QED
    BY <1>1
<1>4. v < K + N
  <2> HIDE DEF v
  <2>1. QED
    BY <1>1, <1>2, <1>3, RowsBound
<1> HIDE DEF v, V, K, N
<1>5. 0 <= v - carry * N /\ v - carry * N < K
  BY <1>1, <1>4
<1>6. QED
  BY <1>2, <1>5 DEF Corrected, v, K, N

\* bignum_montredc takes the comparison for the mask, and its window is below twice
\* the modulus.
LEMMA ComparisonForMask ==
  ASSUME NEW call \in Calls, NEW memory \in [Addr -> Digit], NEW after \in [Addr -> Digit],
         Meaningful(call, memory), call.k # 0, call.fn = "montredc", NEW carry \in {0, 1},
         RowsDone(call, memory, Windowed(call, after, carry), call.p),
         NEW mask \in {0, 1},
         mask = 1 <=> Windowed(call, after, carry) >= Modulus(call, memory)
  PROVE  Corrected(call, memory, Windowed(call, after, carry), carry, mask)
<1> DEFINE v == Windowed(call, after, carry)
           V == Value(after, call.z, call.k)
           K == Pow[call.k]
           N == Modulus(call, memory)
<1>1. N \in Nat /\ N >= 1 /\ N < K /\ V \in Nat /\ V < K /\ K \in Nat /\ v = V + carry * K
  BY ModulusFacts, BufferFacts DEF Windowed
<1>2. RowsDone(call, memory, v, call.p) /\ (mask = 1 <=> v >= N)
  OBVIOUS
<1>3. v \in Nat
  <2> HIDE DEF v, V, K, N
  <2>1. QED
    BY <1>1
<1>4. v < 2 * N
  <2> HIDE DEF v
  <2>1. QED
    BY <1>2, <1>3, InputBound
<1> HIDE DEF v, V, K, N
<1>5. 0 <= v - mask * N /\ v - mask * N < N
  <2>1. CASE mask = 1
    BY <1>1, <1>2, <1>3, <1>4, <2>1
  <2>2. CASE mask = 0
    BY <1>1, <1>2, <1>3, <1>4, <2>2
  <2>3. QED
    BY <2>1, <2>2
<1>6. v - mask * N < K
  BY <1>1, <1>3, <1>5
<1>7. QED
  BY <1>2, <1>5, <1>6 DEF Corrected, v, K, N

\* The row ends with the next digit of the input in the window, and the carry above
\* it is again a bit.
LEMMA MontEndInv ==
  ASSUME IInv, MontEnd PROVE IInv'
<1> DEFINE t == h + c + cf
           next == IF j + i < args.n THEN mem[args.x + j + i] ELSE 0
           sum == (t % B) + next
<1>1. /\ pc = "montend" /\ mem' = Store(mem, args.z + args.k - 1, sum % B)
      /\ h' = sum % B /\ c' = t \div B + sum \div B /\ i' = i + 1
      /\ args' = args /\ mem0' = mem0 /\ w' = w /\ d' = d
  BY DEF MontEnd
<1>2. \/ i + 1 < args.p /\ pc' = "outer" /\ j' = j /\ cf' = cf
      \/ ~(i + 1 < args.p) /\ pc' = (IF args.fn = "montredc" THEN "cmp" ELSE "corr")
         /\ j' = 0 /\ cf' = 1
  BY DEF MontEnd, StartDigits
<1>3. /\ args \in Calls /\ mem0 \in [Addr -> Digit] /\ mem \in [Addr -> Digit]
      /\ Meaningful(args, mem0) /\ args.k # 0 /\ args.k \in Nat /\ args.n \in Nat /\ args.p \in Nat
      /\ i \in Nat /\ c \in Nat /\ j \in Nat /\ d \in Digit /\ cf \in {0, 1}
      /\ h + cf \in Nat /\ h \in Nat /\ cf \in Nat
      /\ Untouched(args, mem0, mem) /\ (w * mem0[args.m] + 1) % B = 0
  <2>1. pc \notin {"entry", "done"}
    BY <1>1
  <2>2. QED
    BY <2>1, RowFacts
<1>4. /\ RowsDone(args, mem0, Pended(args, mem0, mem, j, h + cf, d, c), i)
      /\ i < args.p /\ j = args.k /\ Types
  BY <1>1 DEF IInv, Rows, Counters
<1>5. next = InputDigit(args, mem0, args.k + i) /\ next \in Digit
  <2>1. args.k + i \in Nat /\ args.k + i >= args.k /\ args.x \in Nat
        /\ args.x + j + i = args.x + (args.k + i)
    BY <1>3, <1>4, CallFacts
  <2>2. args.k + i < args.n => mem[args.x + (args.k + i)] = mem0[args.x + (args.k + i)]
    BY <1>3, <2>1, ReadIntact
  <2>3. next = InputDigit(args, mem0, args.k + i)
    BY <1>4, <2>1, <2>2 DEF InputDigit
  <2>4. InputDigit(args, mem0, args.k + i) \in Digit
    BY <1>3, <2>1, TakenFacts
  <2>5. QED
    BY <2>3, <2>4
<1>6. t \in Nat
  BY <1>3
<1> HIDE DEF next
<1>7. /\ sum % B \in Digit /\ t \div B + sum \div B \in Nat
      /\ B * (t \div B + sum \div B) + (sum % B) = t + next
  <2> HIDE DEF t
  <2>1. QED
    BY <1>5, <1>6, TopColumn
<1> DEFINE l == sum % B
<1>8. /\ l \in Digit /\ c' \in Nat /\ B * c' + l = h + c + cf + next
      /\ mem' = Store(mem, args.z + args.k - 1, l) /\ h' = l
  BY <1>1, <1>7
<1> HIDE DEF l, sum, t
<1>9. /\ mem' \in [Addr -> Digit] /\ Untouched(args, mem0, mem')
  <2> DEFINE o == args.k - 1
  <2>1. o \in 0 .. (args.k - 1) /\ args.z + args.k - 1 = args.z + o
    BY <1>3, CallFacts
  <2> HIDE DEF o
  <2>2. LET new == Store(mem, args.z + o, l)
        IN  new \in [Addr -> Digit] /\ Untouched(args, mem0, new)
    BY <1>3, <1>8, <2>1, WindowStore
  <2>3. QED
    BY <1>8, <2>1, <2>2
<1>10. RowsDone(args, mem0, Windowed(args, mem', c'), i + 1) /\ c' \in {0, 1}
  <2> DEFINE call == args
             memory == mem0
             after == mem
             new == mem'
             high == h + cf
             e == d
             carry == c
             carry1 == c'
             ii == i
             v == Pended(call, memory, after, call.k, high, e, carry)
             v1 == Windowed(call, new, carry1)
             N == Modulus(call, memory)
  <2>1. /\ call \in Calls /\ call.k # 0 /\ memory \in [Addr -> Digit]
        /\ after \in [Addr -> Digit] /\ new \in [Addr -> Digit] /\ Meaningful(call, memory)
        /\ high \in Nat /\ e \in Digit /\ carry \in Nat /\ carry1 \in Nat /\ ii \in Nat
        /\ next \in Digit /\ l \in Digit
        /\ new = Store(after, call.z + call.k - 1, l)
        /\ next = InputDigit(call, memory, call.k + ii)
        /\ RowsDone(call, memory, v, ii)
    BY <1>3, <1>4, <1>5, <1>8, <1>9
  <2>2. IsPair(carry1, l, high + carry + next)
    <3> DEFINE bc == B * c'
    <3>1. bc + l = h + c + cf + next
      BY <1>8
    <3>2. next \in Nat
      BY <1>5, BaseAssumption DEF Digit
    <3> HIDE DEF bc
    <3>3. bc + l = (h + cf) + c + next
      BY <1>3, <3>1, <3>2
    <3>4. B * c' + l = (h + cf) + c + next
      BY <3>3 DEF bc
    <3>5. QED
      BY <3>4 DEF IsPair
  <2>3. N \in Nat
    BY <2>1, ModulusFacts
  <2>4. v \in Int /\ v1 \in Int
    <3> HIDE DEF call, memory, after, new, high, e, carry, carry1, ii
    <3>1. call.k \in Nat /\ call.k - 1 \in Nat /\ B \in Nat /\ e \in Int
      BY <2>1, CallFacts, BaseAssumption DEF Digit
    <3>2. \A s \in Nat : /\ Pow[s] \in Nat /\ Value(after, call.z, s) \in Nat
                         /\ Value(memory, call.m, s) \in Nat
      BY <2>1, BufferFacts
    <3>3. \A s \in Nat : Value(new, call.z, s) \in Nat
      BY <2>1, BufferFacts
    <3> DEFINE V == Value(after, call.z, call.k)
               V1 == Value(new, call.z, call.k)
               V0 == Value(after, call.z, call.k - 1)
               P == Pow[call.k]
               M == Value(memory, call.m, call.k)
    <3>4. v = B * V0 + high * P + (V - V) + carry * P - e * M /\ v1 = V1 + carry1 * P
      BY DEF Pended, Windowed
    <3>5. V \in Nat /\ V0 \in Nat /\ V1 \in Nat /\ P \in Nat /\ M \in Nat
      BY <3>1, <3>2, <3>3
    <3> HIDE DEF v, v1, V, V0, V1, P, M
    <3>6. QED
      BY <2>1, <3>1, <3>4, <3>5
  <2> HIDE DEF call, memory, after, new, high, e, carry, carry1, ii
  <2>5. B * v1 = v + e * N + next * Pow[call.k]
    <3>1. /\ call \in Calls /\ call.k # 0 /\ memory \in [Addr -> Digit]
          /\ after \in [Addr -> Digit] /\ next \in Digit /\ l \in Digit
          /\ high \in Nat /\ e \in Digit /\ carry \in Nat /\ carry1 \in Nat
      BY <2>1
    <3>2. B * Windowed(call, Store(after, call.z + call.k - 1, l), carry1)
            = Pended(call, memory, after, call.k, high, e, carry)
              + e * Modulus(call, memory) + next * Pow[call.k]
      BY <2>2, <3>1, RowEnds, SMTT(60)
    <3>3. new = Store(after, call.z + call.k - 1, l)
      BY <2>1
    <3> HIDE DEF v, N
    <3>4. B * Windowed(call, new, carry1) = v + e * N + next * Pow[call.k]
      BY <3>2, <3>3 DEF v, N
    <3>5. QED
      BY <3>4
  <2>6. RowsDone(call, memory, v1, ii + 1)
    <3> HIDE DEF v, v1
    <3>1. RowsDone(call, memory, v, ii) /\ Modulus(call, memory) \in Nat
          /\ B * v1 = v + e * Modulus(call, memory)
                      + InputDigit(call, memory, call.k + ii) * Pow[call.k]
      BY <2>1, <2>3, <2>5
    <3>2. QED
      BY <2>1, <2>4, <3>1, RowsStep
  <2>7. carry1 \in {0, 1}
    <3>1. ii + 1 \in Nat
      BY <2>1
    <3>2. QED
      BY <2>1, <2>6, <3>1, CarryFits
  <2>8. QED
    BY <2>6, <2>7 DEF call, memory, new, carry1, ii
<1>11. Types'
  BY <1>1, <1>2, <1>3, <1>4, <1>8, <1>9, <1>10 DEF Types, Labels
<1>12. args.fn \in Functions
  BY <1>3, CallFacts
<1>13. Counters'
  BY <1>1, <1>2, <1>3, <1>4 DEF Counters
<1>14. Loading' /\ Result'
  BY <1>1, <1>2 DEF Loading, Result
<1>15. InverseOK'
  BY <1>1, <1>3 DEF InverseOK
<1>16. OnlyOutput'
  BY <1>1, <1>9 DEF OnlyOutput, Untouched
<1>17. Rows'
  <2>1. pc' \notin {"mont", "montend"}
    BY <1>2
  <2>2. QED
    BY <1>1, <1>10, <2>1 DEF Rows
<1>18. Comparing'
  <2>1. Value(mem', args.z, 0) = 0 /\ Value(mem0, args.m, 0) = 0
    BY <1>3, <1>9, BufferFacts
  <2>2. Compared(args, mem0, mem', 0, 1)
    BY <2>1 DEF Compared
  <2>3. QED
    BY <1>1, <1>2, <2>2 DEF Comparing
<1>19. Correcting'
  <2>1. SUFFICES ASSUME pc' = "corr" PROVE Correcting'
    BY DEF Correcting
  <2>2. args.fn = "amontredc" /\ j' = 0 /\ cf' = 1 /\ i + 1 = args.p
    BY <1>2, <1>3, <1>4, <1>12, <2>1 DEF Functions
  <2> DEFINE new == mem'
             e == c'
  <2>3. new \in [Addr -> Digit] /\ e \in {0, 1}
        /\ RowsDone(args, mem0, Windowed(args, new, e), args.p)
    BY <1>9, <1>10, <2>2
  <2> HIDE DEF new, e
  <2>4. Corrected(args, mem0, Windowed(args, new, e), e, e)
    BY <1>3, <2>2, <2>3, CarryForMask
  <2>5. Uncorrected(args, mem0, new, 0, 1, e) + e * Pow[args.k] = Windowed(args, new, e)
    BY <1>3, <2>3, CorrectionBegins
  <2>6. Corrected(args, mem0, Uncorrected(args, mem0, new, 0, 1, e) + e * Pow[args.k], e, e)
    BY <2>4, <2>5
  <2>7. \E u \in {0, 1} : Corrected(args, mem0, Uncorrected(args, mem0, new, 0, 1, e)
                                                  + u * Pow[args.k], u, e)
    BY <2>3, <2>6
  <2>8. QED
    BY <1>1, <2>2, <2>7 DEF Correcting, new, e
<1>20. QED
  BY <1>11, <1>13, <1>14, <1>15, <1>16, <1>17, <1>18, <1>19 DEF IInv

\* A digit of the comparison; after the last one its answer is the mask.
LEMMA CmpLoopInv ==
  ASSUME IInv, CmpLoop PROVE IInv'
<1> DEFINE diff == z(j) + (B - 1 - m(j)) + cf
           nb1 == diff \div B
<1>1. /\ pc = "cmp"
      /\ args' = args /\ mem0' = mem0 /\ mem' = mem /\ w' = w /\ i' = i /\ d' = d /\ h' = h
  BY DEF CmpLoop
<1>2. \/ j + 1 < args.k /\ j' = j + 1 /\ cf' = nb1 /\ pc' = pc /\ c' = c
      \/ ~(j + 1 < args.k) /\ c' = (IF c + nb1 > 0 THEN 1 ELSE 0)
         /\ pc' = "corr" /\ j' = 0 /\ cf' = 1
  BY DEF CmpLoop, Difference, StartDigits
<1>3. /\ args \in Calls /\ mem0 \in [Addr -> Digit] /\ mem \in [Addr -> Digit]
      /\ Meaningful(args, mem0) /\ args.k # 0 /\ args.k \in Nat
      /\ j \in Nat /\ cf \in {0, 1} /\ c \in {0, 1}
      /\ (w * mem0[args.m] + 1) % B = 0
      /\ \A t \in 0 .. (args.k - 1) : m(t) = mem0[args.m + t] /\ m(t) \in Digit /\ z(t) \in Digit
  <2>1. pc \notin {"entry", "done"}
    BY <1>1
  <2>2. QED
    BY <2>1, RowFacts
<1>4. /\ RowsDone(args, mem0, Windowed(args, mem, c), i) /\ Compared(args, mem0, mem, j, cf)
      /\ i = args.p /\ j < args.k /\ args.fn = "montredc" /\ Types
  BY <1>1 DEF IInv, Rows, Comparing, Counters
<1>5. j \in 0 .. (args.k - 1)
  BY <1>3, <1>4
<1>6. m(j) = mem0[args.m + j] /\ m(j) \in Digit /\ z(j) \in Digit /\ z(j) = mem[args.z + j]
  BY <1>3, <1>5 DEF z
<1>7. nb1 \in {0, 1} /\ (nb1 = 1 <=> mem[args.z + j] + cf >= mem0[args.m + j] + 1)
  <2> DEFINE u == z(j)
             b == m(j)
             cc == cf
  <2>1. u \in Digit /\ b \in Digit /\ cc \in {0, 1}
    BY <1>3, <1>6
  <2> HIDE DEF u, b, cc
  <2>2. LET s == u + (B - 1 - b) + cc
        IN  s \div B \in {0, 1} /\ (s \div B = 1 <=> u + cc >= b + 1)
    BY <2>1, BorrowColumn
  <2>3. nb1 \in {0, 1} /\ (nb1 = 1 <=> z(j) + cf >= m(j) + 1)
    BY <2>2 DEF u, b, cc
  <2> HIDE DEF nb1
  <2>4. QED
    BY <1>6, <2>3
<1> HIDE DEF nb1, diff
<1>8. Compared(args, mem0, mem, j + 1, nb1)
  BY <1>3, <1>4, <1>7, CompareContinues
<1>9. OnlyOutput'
  BY <1>1 DEF IInv, OnlyOutput
<1>10. CASE j + 1 < args.k
  <2>1. j' = j + 1 /\ cf' = nb1 /\ pc' = "cmp" /\ c' = c
    BY <1>1, <1>2, <1>10
  <2>2. Types'
    BY <1>1, <1>3, <1>4, <1>7, <2>1 DEF Types
  <2>3. Counters'
    BY <1>1, <1>3, <1>4, <1>10, <2>1 DEF Counters
  <2>4. Loading' /\ Correcting' /\ Result'
    BY <2>1 DEF Loading, Correcting, Result
  <2>5. InverseOK'
    BY <1>1, <1>3 DEF InverseOK
  <2>6. Rows'
    BY <1>1, <1>4, <2>1 DEF Rows
  <2>7. Comparing'
    BY <1>1, <1>8, <2>1 DEF Comparing
  <2>8. QED
    BY <1>9, <2>2, <2>3, <2>4, <2>5, <2>6, <2>7 DEF IInv
<1>11. CASE ~(j + 1 < args.k)
  <2>1. c' = (IF c + nb1 > 0 THEN 1 ELSE 0) /\ pc' = "corr" /\ j' = 0 /\ cf' = 1
    BY <1>2, <1>11
  <2>2. Compared(args, mem0, mem, args.k, nb1)
    <3>1. j + 1 = args.k
      BY <1>3, <1>4, <1>11
    <3>2. QED
      BY <1>8, <3>1
  <2>3. c' \in {0, 1}
        /\ (c' = 1 <=> Windowed(args, mem, c) >= Modulus(args, mem0))
    <3>1. c + nb1 > 0 <=> Windowed(args, mem, c) >= Modulus(args, mem0)
      BY <1>3, <1>7, <2>2, CompareEnds
    <3>2. QED
      BY <2>1, <3>1
  <2>4. Types'
    BY <1>1, <1>3, <1>4, <2>1, <2>3 DEF Types, Labels
  <2>5. Counters'
    BY <1>1, <1>3, <1>4, <2>1 DEF Counters
  <2>6. Loading' /\ Rows' /\ Comparing' /\ Result'
    BY <2>1 DEF Loading, Rows, Comparing, Result
  <2>7. InverseOK'
    BY <1>1, <1>3 DEF InverseOK
  <2>8. Correcting'
    <3> DEFINE mask == c'
    <3>1. mask \in {0, 1} /\ (mask = 1 <=> Windowed(args, mem, c) >= Modulus(args, mem0))
      BY <2>3
    <3>2. RowsDone(args, mem0, Windowed(args, mem, c), args.p)
      BY <1>4
    <3> HIDE DEF mask
    <3>3. Corrected(args, mem0, Windowed(args, mem, c), c, mask)
      BY <1>3, <1>4, <3>1, <3>2, ComparisonForMask
    <3>4. Uncorrected(args, mem0, mem, 0, 1, mask) + c * Pow[args.k] = Windowed(args, mem, c)
      BY <1>3, <3>1, CorrectionBegins
    <3>5. Corrected(args, mem0, Uncorrected(args, mem0, mem, 0, 1, mask) + c * Pow[args.k],
                    c, mask)
      BY <3>3, <3>4
    <3>6. \E u \in {0, 1} : Corrected(args, mem0, Uncorrected(args, mem0, mem, 0, 1, mask)
                                                    + u * Pow[args.k], u, mask)
      BY <1>3, <3>5
    <3>7. QED
      BY <1>1, <2>1, <3>6 DEF Correcting, mask
  <2>9. QED
    BY <1>9, <2>4, <2>5, <2>6, <2>7, <2>8 DEF IInv
<1>12. QED
  BY <1>10, <1>11

\* A digit of the subtraction; after the last one the window is the result.
LEMMA CorrLoopInv ==
  ASSUME IInv, CorrLoop PROVE IInv'
<1> DEFINE v == IF c = 0 THEN 0 ELSE m(j)
           diff == z(j) + (B - 1 - v) + cf
           l == diff % B
           nb1 == diff \div B
<1>1. /\ pc = "corr" /\ mem' = Store(mem, args.z + j, l) /\ cf' = nb1 /\ j' = j + 1
      /\ pc' = IF j + 1 < args.k THEN "corr" ELSE "done"
      /\ args' = args /\ mem0' = mem0 /\ w' = w /\ i' = i /\ d' = d /\ h' = h /\ c' = c
  BY DEF CorrLoop, Difference
<1>2. /\ args \in Calls /\ mem0 \in [Addr -> Digit] /\ mem \in [Addr -> Digit]
      /\ Meaningful(args, mem0) /\ args.k # 0 /\ args.k \in Nat
      /\ j \in Nat /\ cf \in {0, 1} /\ c \in {0, 1}
      /\ Untouched(args, mem0, mem) /\ (w * mem0[args.m] + 1) % B = 0
      /\ \A t \in 0 .. (args.k - 1) : m(t) = mem0[args.m + t] /\ m(t) \in Digit /\ z(t) \in Digit
  <2>1. pc \notin {"entry", "done"}
    BY <1>1
  <2>2. QED
    BY <2>1, RowFacts
<1>3. i = args.p /\ j < args.k /\ Types
  BY <1>1 DEF IInv, Counters
<1>4. PICK e \in {0, 1} :
        Corrected(args, mem0, Uncorrected(args, mem0, mem, j, cf, c) + e * Pow[args.k], e, c)
  BY <1>1 DEF IInv, Correcting
<1>5. j \in 0 .. (args.k - 1)
  BY <1>2, <1>3
<1>6. /\ m(j) = mem0[args.m + j] /\ m(j) \in Digit /\ z(j) \in Digit /\ z(j) = mem[args.z + j]
  BY <1>2, <1>5 DEF z
<1>7. v \in Digit /\ v = c * mem0[args.m + j]
  <2>1. 0 \in Digit /\ mem0[args.m + j] \in Int
    BY <1>6, BaseAssumption DEF Digit
  <2>2. CASE c = 0
    BY <2>1, <2>2
  <2>3. CASE c = 1
    BY <1>6, <2>1, <2>3
  <2>4. QED
    BY <1>2, <2>2, <2>3
<1> HIDE DEF v
<1>8. l \in Digit /\ nb1 \in {0, 1}
      /\ l = mem[args.z + j] - c * mem0[args.m + j] + cf - 1 + B - B * nb1
  <2> DEFINE u == z(j)
             cc == cf
  <2>1. u \in Digit /\ v \in Digit /\ cc \in {0, 1}
    BY <1>2, <1>6, <1>7
  <2> HIDE DEF u, cc
  <2>2. LET s == u + (B - 1 - v) + cc
        IN  s % B \in Digit /\ s \div B \in {0, 1}
            /\ s % B = u - v + cc - 1 + B - B * (s \div B)
    BY <2>1, BorrowColumn
  <2>3. l \in Digit /\ nb1 \in {0, 1} /\ l = z(j) - v + cf - 1 + B - B * nb1
    BY <2>2 DEF u, cc
  <2> HIDE DEF l, nb1
  <2>4. QED
    BY <1>6, <1>7, <2>3
<1> HIDE DEF l, nb1, diff
<1>9. Uncorrected(args, mem0, mem', j + 1, nb1, c) = Uncorrected(args, mem0, mem, j, cf, c)
  <2> DEFINE call == args
             memory == mem0
             after == mem
             jj == j
             mask == c
             nb == cf
  <2>1. /\ call \in Calls /\ memory \in [Addr -> Digit] /\ after \in [Addr -> Digit]
        /\ jj \in Nat /\ jj < call.k /\ mask \in {0, 1} /\ nb \in {0, 1} /\ nb1 \in {0, 1}
        /\ l \in Digit
        /\ l = after[call.z + jj] - mask * memory[call.m + jj] + nb - 1 + B - B * nb1
    BY <1>2, <1>3, <1>8
  <2> HIDE DEF call, memory, after, jj, mask, nb
  <2>2. Uncorrected(call, memory, Store(after, call.z + jj, l), jj + 1, nb1, mask)
          = Uncorrected(call, memory, after, jj, nb, mask)
    BY <2>1, CorrectionContinues
  <2>3. QED
    BY <1>1, <2>2 DEF call, memory, after, jj, mask, nb
<1>10. mem' \in [Addr -> Digit] /\ Untouched(args, mem0, mem')
  <2>1. LET new == Store(mem, args.z + j, l)
        IN  new \in [Addr -> Digit] /\ Untouched(args, mem0, new)
    BY <1>2, <1>5, <1>8, WindowStore
  <2>2. QED
    BY <1>1, <2>1
<1> DEFINE x == Uncorrected(args, mem0, mem', j + 1, nb1, c) + e * Pow[args.k]
<1>11. Corrected(args, mem0, x, e, c)
  BY <1>4, <1>9
<1>12. Types'
  BY <1>1, <1>2, <1>3, <1>8, <1>10 DEF Types, Labels
<1>13. Counters'
  BY <1>1, <1>2, <1>3 DEF Counters
<1>14. Loading' /\ Rows' /\ Comparing'
  BY <1>1 DEF Loading, Rows, Comparing
<1>15. InverseOK'
  BY <1>1, <1>2 DEF InverseOK
<1>16. OnlyOutput'
  BY <1>1, <1>10 DEF OnlyOutput, Untouched
<1>17. Correcting'
  <2>1. pc' = "corr" =>
          \E u \in {0, 1} : Corrected(args', mem0', Uncorrected(args', mem0', mem', j', cf', c')
                                                      + u * Pow[args'.k], u, c')
    BY <1>1, <1>11
  <2>2. QED
    BY <2>1 DEF Correcting
<1>18. Result'
  <2>1. SUFFICES ASSUME pc' = "done" PROVE Result'
    BY DEF Result
  <2>2. j + 1 = args.k
    BY <1>1, <1>2, <1>3, <2>1
  <2> DEFINE new == mem'
             N == Modulus(args, mem0)
             r == Value(new, args.z, args.k)
  <2>3. new \in [Addr -> Digit] /\ args.fn \in Functions
    BY <1>2, <1>10, CallFacts
  <2>4. x = Uncorrected(args, mem0, new, args.k, nb1, c) + e * Pow[args.k]
    BY <2>2
  <2>5. x \in Int /\ N \in Nat
    <3>1. /\ Value(new, args.z, args.k) \in Nat /\ Value(mem0, args.m, args.k) \in Nat
          /\ Pow[args.k] \in Nat
      BY <1>2, <2>3, BufferFacts
    <3> DEFINE V == Value(new, args.z, args.k)
               M == Value(mem0, args.m, args.k)
               P == Pow[args.k]
    <3>2. x = V + c * M - (1 - nb1) * P + e * P
      BY <2>4 DEF Uncorrected
    <3> HIDE DEF x, V, M, P
    <3>3. x \in Int
      BY <1>2, <1>4, <1>8, <3>1, <3>2 DEF V, M, P
    <3>4. QED
      BY <3>1, <3>3 DEF Modulus
  <2> HIDE DEF new, x, N
  <2>6. /\ RowsDone(args, mem0, x, args.p) /\ 0 <= x - c * N /\ x - c * N < Pow[args.k]
        /\ args.fn = "montredc" => x - c * N < N
    BY <1>11 DEF Corrected, N
  <2>7. r = x - c * N
    <3>1. 0 <= x - c * Modulus(args, mem0) /\ x - c * Modulus(args, mem0) < Pow[args.k]
      BY <2>6 DEF N
    <3>2. Value(new, args.z, args.k) = x - c * Modulus(args, mem0)
      BY <1>2, <1>4, <1>8, <2>3, <2>4, <2>5, <3>1, CorrectionEnds
    <3>3. QED
      BY <3>2 DEF N
  <2>8. ((x - c * N) * Pow[args.p] - Input(args, mem0)) % N = 0
    <3>1. c \in Int /\ RowsDone(args, mem0, x, args.p)
      BY <1>2, <2>6
    <3>2. ((x - c * Modulus(args, mem0)) * Pow[args.p] - Input(args, mem0))
            % Modulus(args, mem0) = 0
      BY <1>2, <2>5, <3>1, RightResidue
    <3>3. QED
      BY <3>2 DEF N
  <2> HIDE DEF r
  <2>9. (r * Pow[args.p] - Input(args, mem0)) % N = 0 /\ (args.fn = "montredc" => r < N)
    BY <2>6, <2>7, <2>8
  <2>10. QED
    BY <1>1, <2>9 DEF Result, r, N, new
<1>19. QED
  BY <1>12, <1>13, <1>14, <1>15, <1>16, <1>17, <1>18 DEF IInv

\* Every step of a call preserves the invariant.
LEMMA StepInv == IInv /\ [Next]_vars => IInv'
<1> SUFFICES ASSUME IInv, [Next]_vars PROVE IInv'
  OBVIOUS
<1>1. CASE Trivial
  BY <1>1, TrivialInv
<1>2. CASE Negmodinv
  BY <1>2, NegmodinvInv
<1>3. CASE CopyLoop
  BY <1>3, CopyLoopInv
<1>4. CASE PadLoop
  BY <1>4, PadLoopInv
<1>5. CASE OuterLoop
  BY <1>5, OuterLoopInv
<1>6. CASE MontLoop
  BY <1>6, MontLoopInv
<1>7. CASE MontEnd
  BY <1>7, MontEndInv
<1>8. CASE CmpLoop
  BY <1>8, CmpLoopInv
<1>9. CASE CorrLoop
  BY <1>9, CorrLoopInv
<1>10. CASE UNCHANGED vars
  <2>1. /\ args' = args /\ mem0' = mem0 /\ mem' = mem /\ pc' = pc /\ w' = w /\ i' = i /\ j' = j
        /\ d' = d /\ h' = h /\ cf' = cf /\ c' = c
    BY <1>10 DEF vars
  <2>2. Types' /\ Counters' /\ Loading' /\ InverseOK' /\ OnlyOutput'
    BY <2>1 DEF IInv, Types, Counters, Loading, InverseOK, OnlyOutput
  <2>3. Rows' /\ Comparing' /\ Correcting' /\ Result'
    BY <2>1 DEF IInv, Rows, Comparing, Correcting, Result
  <2>4. QED
    BY <2>2, <2>3 DEF IInv
<1>11. CASE Returned
  BY <1>10, <1>11 DEF Returned
<1>12. QED
  BY <1>1, <1>2, <1>3, <1>4, <1>5, <1>6, <1>7, <1>8, <1>9, <1>10, <1>11 DEF Next

\* Every state of a call satisfies the invariant.
THEOREM Invariance == Spec => []IInv
<1>1. Init => IInv
  BY InitInv
<1>2. IInv /\ [Next]_vars => IInv'
  BY StepInv
<1>3. QED
  BY <1>1, <1>2, PTL DEF Spec

-----------------------------------------------------------------------------
(* What the invariant gives.                                                *)

\* The carry above the window is a bit, so that -c is the mask the last loop takes
\* it for.
THEOREM CarryBitHolds == Spec => []CarryBit
<1>1. IInv => CarryBit
  BY DEF IInv, Types, CarryBit
<1>2. QED
  BY <1>1, Invariance, PTL

\* Only the k digits of the result are written.
THEOREM OnlyOutputHolds == Spec => []OnlyOutput
<1>1. IInv => OnlyOutput
  BY DEF IInv
<1>2. QED
  BY <1>1, Invariance, PTL

\* The result is congruent to the input divided by B^p, and for bignum_montredc it
\* is the residue.
THEOREM ResultHolds == Spec => []Result
<1>1. IInv => Result
  BY DEF IInv
<1>2. QED
  BY <1>1, Invariance, PTL

\* The quotient of the rows, read off the window.
LEMMA RowsQuotient ==
  ASSUME NEW call \in Calls, NEW memory \in [Addr -> Digit], NEW t \in Nat, NEW v \in Int,
         Meaningful(call, memory), call.k # 0, RowsDone(call, memory, v, t)
  PROVE  LET excess == v * Pow[t] - Taken(call, memory, call.k + t)
         IN  /\ excess % Modulus(call, memory) = 0
             /\ excess \div Modulus(call, memory) \in 0 .. (Pow[t] - 1)
<1> DEFINE N == Modulus(call, memory)
           P == Pow[t]
           T == Taken(call, memory, call.k + t)
           s == v * P - T
<1>1. PICK q \in 0 .. (P - 1) : v * P = T + q * N
  BY DEF RowsDone
<1>2. N \in Nat /\ N > 0 /\ P \in Nat /\ T \in Nat
  <2>1. call.k + t \in Nat
    BY CallFacts
  <2>2. QED
    BY <2>1, ModulusFacts, PowPositive, TakenFacts
<1> HIDE DEF N, P, T
<1>3. s = N * q + 0 /\ q \in Int
  BY <1>1, <1>2
<1>4. 0 \in 0 .. (N - 1)
  BY <1>2
<1>5. (N * q + 0) \div N = q /\ (N * q + 0) % N = 0
  BY <1>2, <1>3, <1>4, DivUnique
<1> HIDE DEF s
<1>6. s \div N = q /\ s % N = 0
  BY <1>3, <1>5
<1>7. QED
  BY <1>6 DEF s, N, P, T

\* Between the rows the window is the lowest digits of the input plus a multiple of
\* the modulus below B^i of them, shifted down by i digits.
THEOREM RowsOKHolds == Spec => []RowsOK
<1>1. IInv => RowsOK
  <2> SUFFICES ASSUME IInv, BetweenRows PROVE RowsOK
    BY DEF RowsOK
  <2>1. /\ args \in Calls /\ mem0 \in [Addr -> Digit] /\ mem \in [Addr -> Digit]
        /\ Meaningful(args, mem0) /\ args.k # 0 /\ i \in Nat /\ c \in {0, 1}
    BY DEF IInv, Types, Counters, BetweenRows
  <2>2. RowsDone(args, mem0, Windowed(args, mem, c), i)
    <3>1. CASE pc \in {"outer", "cmp"}
      BY <3>1 DEF IInv, Rows
    <3>2. CASE pc = "corr" /\ j = 0 /\ args.fn = "amontredc"
      <4>1. PICK e \in {0, 1} :
              Corrected(args, mem0, Uncorrected(args, mem0, mem, j, cf, c) + e * Pow[args.k],
                        e, c)
        BY <3>2 DEF IInv, Correcting
      <4>2. cf = 1 /\ i = args.p /\ e = c
        BY <3>2, <4>1 DEF IInv, Counters, Corrected
      <4>3. RowsDone(args, mem0, Uncorrected(args, mem0, mem, 0, 1, c) + c * Pow[args.k],
                     args.p)
        BY <3>2, <4>1, <4>2 DEF Corrected
      <4>4. Uncorrected(args, mem0, mem, 0, 1, c) + c * Pow[args.k] = Windowed(args, mem, c)
        BY <2>1, CorrectionBegins
      <4>5. QED
        BY <4>2, <4>3, <4>4
    <3>3. QED
      BY <3>1, <3>2 DEF BetweenRows
  <2>3. Windowed(args, mem, c) \in Int
    <3>1. Value(mem, args.z, args.k) \in Nat /\ Pow[args.k] \in Nat
      BY <2>1, BufferFacts
    <3>2. QED
      BY <2>1, <3>1 DEF Windowed
  <2>4. LET excess == Windowed(args, mem, c) * Pow[i] - Taken(args, mem0, args.k + i)
        IN  /\ excess % Modulus(args, mem0) = 0
            /\ excess \div Modulus(args, mem0) \in 0 .. (Pow[i] - 1)
    BY <2>1, <2>2, <2>3, RowsQuotient
  <2>5. QED
    BY <2>4 DEF RowsOK, Window, Windowed, Taken
<1>2. QED
  BY <1>1, Invariance, PTL

-----------------------------------------------------------------------------
(* BignumModexp: the arithmetic of the functions it calls, with the radix   *)
(* as an argument.                                                          *)

\* The powers of two, the same function in both modules.
LEMMA BitPowers == IsPow2(Power!Pow2) /\ Power!Contract!Pow2 = Power!Pow2
<1>1. \E f : f = [t \in Nat |-> IF t = 0 THEN 1 ELSE 2 * f[t - 1]]
  <2>1. 1 \in Nat /\ 2 \in Nat
    OBVIOUS
  <2>2. QED
    BY <2>1, GeometricExists
<1>2. IsGeometric(Power!Pow2, 1, 2)
  BY <1>1 DEF Power!Pow2, IsGeometric
<1>3. IsPow2(Power!Pow2)
  BY <1>2, GeometricFacts DEF IsPow2
<1>4. Power!Contract!Pow2 = Power!Pow2
  BY DEF Power!Contract!Pow2, Power!Pow2
<1>5. QED
  BY <1>3, <1>4

\* Powers of two are positive.
LEMMA BitPowersGrow ==
  ASSUME NEW F, IsPow2(F)
  PROVE  \A e \in Nat : F[e] \in Nat /\ F[e] > 0
<1> DEFINE T == {e \in Nat : F[e] \in Nat /\ F[e] > 0}
<1>1. 0 \in T
  BY DEF IsPow2
<1>2. ASSUME NEW e \in T PROVE e + 1 \in T
  <2>1. F[e + 1] = 2 * F[e]
    BY DEF IsPow2
  <2>2. QED
    BY <2>1
<1>3. T \in SUBSET Nat
  OBVIOUS
<1>4. T = Nat
  <2> HIDE DEF T
  <2>1. QED
    BY <1>1, <1>2, <1>3, InductionOnNat
<1>5. QED
  BY <1>4

ReductionOf(r, v, n) ==
  LET q == CHOOSE u \in 0 .. (r - 1) : (v + u * n) % r = 0
  IN  (v + q * n) \div r

AmontmulOf(r, v, u, n) ==
  LET s == ReductionOf(r, v * u, n) IN IF s < r THEN s ELSE s - n

DemontOf(r, v, n) ==
  LET s == ReductionOf(r, v, n) IN IF s < n THEN s ELSE s - n

\* A radix is a power of two, and a modulus odd and below it.
Radices(r) == \E e \in Nat : r = Power!Pow2[e]
Odds(r) == {n \in 0 .. (r - 1) : n % 2 = 1}

\* The reduction of a number adds a multiple of the modulus and divides.
LEMMA ReductionFacts ==
  ASSUME NEW r, Radices(r), NEW n \in Odds(r), NEW v \in Nat
  PROVE  /\ r \in Nat /\ r > 0 /\ n \in Nat /\ n > 0
         /\ ReductionOf(r, v, n) \in Nat
         /\ \E q \in 0 .. (r - 1) : r * ReductionOf(r, v, n) = v + q * n
<1>1. PICK e \in Nat : r = Power!Pow2[e]
  BY DEF Radices
<1>2. r \in Nat /\ r > 0
  BY <1>1, BitPowers, BitPowersGrow
<1>3. n \in Nat /\ n % 2 = 1 /\ n > 0
  <2>1. n \in Nat /\ n % 2 = 1
    BY <1>2 DEF Odds
  <2>2. n # 0
    BY <2>1
  <2>3. QED
    BY <2>1, <2>2
<1>4. \E u \in 0 .. (r - 1) : \E s \in Int : v + u * n = r * s
  <2>1. HasMultiplier(v, n, r)
    BY <1>1, <1>3, BitPowers, OddMultiplier
  <2>2. QED
    BY <2>1 DEF HasMultiplier
<1>5. \E u \in 0 .. (r - 1) : (v + u * n) % r = 0
  <2>1. PICK u \in 0 .. (r - 1), s \in Int : v + u * n = r * s
    BY <1>4
  <2> DEFINE t == v + u * n
  <2>2. t \in Int /\ t = 0 + r * s
    <3>1. u * n \in Int /\ r * s \in Int
      BY <1>2, <1>3
    <3>2. QED
      BY <2>1, <3>1
  <2> HIDE DEF t
  <2>3. t % r = 0 % r
    BY <1>2, <2>2, ModShift
  <2>4. 0 % r = 0
    BY <1>2
  <2>5. QED
    BY <2>3, <2>4 DEF t
<1> DEFINE q == CHOOSE u \in 0 .. (r - 1) : (v + u * n) % r = 0
           t == v + q * n
           s == t \div r
<1>6. q \in 0 .. (r - 1) /\ t % r = 0
  BY <1>5
<1>7. ReductionOf(r, v, n) = s
  BY DEF ReductionOf
<1> HIDE DEF q
<1>8. t \in Nat
  <2>1. q * n \in Nat
    BY <1>2, <1>3, <1>6
  <2>2. QED
    BY <2>1
<1> HIDE DEF t
<1>9. s \in Nat /\ r * s = t
  <2>1. s \in Int /\ t = r * s + (t % r)
    BY <1>2, <1>8, DivMod
  <2> HIDE DEF s
  <2>2. t = r * s
    <3>1. r * s \in Int
      BY <1>2, <2>1
    <3>2. QED
      BY <1>6, <2>1, <3>1
  <2>3. s >= 0
    <3>1. SUFFICES ASSUME s < 0 PROVE FALSE
      BY <2>1
    <3>2. r * s < 0
      BY <1>2, <2>1, <3>1
    <3>3. QED
      BY <1>8, <2>2, <3>2
  <2>4. QED
    BY <2>1, <2>2, <2>3
<1>10. r * s = v + q * n
  BY <1>9 DEF t
<1>11. QED
  BY <1>2, <1>3, <1>6, <1>7, <1>9, <1>10

\* bignum_amontmul returns a number below the radix that represents the product
\* divided by it.
LEMMA AmontmulFacts ==
  ASSUME NEW r, Radices(r), NEW n \in Odds(r), NEW v \in 0 .. (r - 1), NEW u \in 0 .. (r - 1)
  PROVE  /\ AmontmulOf(r, v, u, n) \in 0 .. (r - 1)
         /\ Congruent(r * AmontmulOf(r, v, u, n), v * u, n)
<1> DEFINE p == v * u
           s == ReductionOf(r, p, n)
<1>0. n \in 0 .. (r - 1) /\ r \in Nat /\ r > 0
  <2>1. \E e \in Nat : r = Power!Pow2[e]
    BY DEF Radices
  <2>2. QED
    BY <2>1, BitPowers, BitPowersGrow DEF Odds
<1>1. p \in Nat /\ p <= (r - 1) * (r - 1)
  <2>1. v \in Nat /\ u \in Nat /\ v <= r - 1 /\ u <= r - 1
    BY <1>0
  <2>2. v * u <= (r - 1) * u
    BY <1>0, <2>1
  <2>3. (r - 1) * u <= (r - 1) * (r - 1)
    BY <1>0, <2>1
  <2>4. v * u \in Nat /\ (r - 1) * u \in Nat /\ (r - 1) * (r - 1) \in Nat
    BY <1>0, <2>1
  <2> HIDE DEF s
  <2>5. QED
    BY <2>2, <2>3, <2>4
<1>2. PICK q \in 0 .. (r - 1) : r * s = p + q * n
  <2> HIDE DEF p
  <2>1. QED
    BY <1>1, ReductionFacts
<1>3. s \in Nat /\ n \in Nat /\ n > 0
  <2> HIDE DEF p
  <2>1. QED
    BY <1>1, ReductionFacts
<1>4. AmontmulOf(r, v, u, n) = IF s < r THEN s ELSE s - n
  BY DEF AmontmulOf
<1> HIDE DEF s, p
<1>5. q * n <= (r - 1) * n /\ q * n \in Nat /\ (r - 1) * n \in Nat
  BY <1>0, <1>3
<1>6. s < r + n
  <2>1. r * s <= (r - 1) * (r - 1) + (r - 1) * n
    <3>1. (r - 1) * (r - 1) \in Nat /\ r * s \in Nat
      BY <1>0, <1>3
    <3>2. QED
      BY <1>1, <1>2, <1>5, <3>1
  <2>2. SUFFICES ASSUME s >= r + n PROVE FALSE
    BY <1>0, <1>3
  <2>3. r * s >= r * (r + n)
    BY <1>0, <1>3, <2>2
  <2>4. r * (r + n) = r * r + r * n
    BY <1>0, <1>3
  <2>5. (r - 1) * (r - 1) = r * r - 2 * r + 1 /\ (r - 1) * n = r * n - n
    BY <1>0, <1>3
  <2>6. r * r \in Nat /\ r * n \in Nat /\ r * s \in Nat
    BY <1>0, <1>3
  <2>7. QED
    BY <1>0, <1>3, <2>1, <2>3, <2>4, <2>5, <2>6
<1>7. CASE s < r
  <2>1. r * s = p + n * q
    BY <1>2, <1>3
  <2>2. Congruent(r * s, p, n)
    BY <2>1 DEF Congruent
  <2>3. QED
    BY <1>0, <1>3, <1>4, <1>7, <2>2 DEF p
<1>8. CASE ~ (s < r)
  <2>1. s - n \in 0 .. (r - 1)
    BY <1>0, <1>3, <1>6, <1>8
  <2>2. r * (s - n) = p + n * (q - r)
    <3>1. r * (s - n) = r * s - r * n /\ n * (q - r) = n * q - n * r /\ r * n = n * r /\ n * q = q * n
      BY <1>0, <1>3
    <3>2. r * s \in Int /\ r * n \in Int /\ n * q \in Int
      BY <1>0, <1>3
    <3>3. QED
      BY <1>1, <1>2, <3>1, <3>2
  <2>3. q - r \in Int
    BY <1>0
  <2>4. Congruent(r * (s - n), p, n)
    BY <2>2, <2>3 DEF Congruent
  <2>5. QED
    BY <1>4, <1>8, <2>1, <2>4 DEF p
<1>9. QED
  BY <1>7, <1>8

\* bignum_demont returns the residue that represents the number divided by the radix.
LEMMA DemontFacts ==
  ASSUME NEW r, Radices(r), NEW n \in Odds(r), NEW v \in 0 .. (r - 1)
  PROVE  /\ DemontOf(r, v, n) \in 0 .. (n - 1)
         /\ Congruent(r * DemontOf(r, v, n), v, n)
<1> DEFINE s == ReductionOf(r, v, n)
<1>0. n \in 0 .. (r - 1) /\ r \in Nat /\ r > 0
  <2>1. \E e \in Nat : r = Power!Pow2[e]
    BY DEF Radices
  <2>2. QED
    BY <2>1, BitPowers, BitPowersGrow DEF Odds
<1>1. v \in Nat /\ v < r
  BY <1>0
<1>2. PICK q \in 0 .. (r - 1) : r * s = v + q * n
  BY <1>1, ReductionFacts
<1>3. s \in Nat /\ n \in Nat /\ n > 0
  BY <1>1, ReductionFacts
<1>4. DemontOf(r, v, n) = IF s < n THEN s ELSE s - n
  BY DEF DemontOf
<1> HIDE DEF s
<1>5. q * n <= (r - 1) * n /\ q * n \in Nat /\ (r - 1) * n = r * n - n /\ r * n \in Nat
  BY <1>0, <1>3
<1>6. s < n + n
  <2>1. SUFFICES ASSUME s >= n + 1 PROVE FALSE
    BY <1>3
  <2>2. r * s >= r * (n + 1)
    BY <1>0, <1>3, <2>1
  <2>3. r * (n + 1) = r * n + r
    BY <1>0, <1>3
  <2>4. r * s \in Nat
    BY <1>0, <1>3
  <2>5. QED
    BY <1>0, <1>1, <1>2, <1>3, <1>5, <2>2, <2>3, <2>4
<1>7. CASE s < n
  <2>1. r * s = v + n * q
    BY <1>2, <1>3
  <2>2. Congruent(r * s, v, n)
    BY <2>1 DEF Congruent
  <2>3. QED
    BY <1>0, <1>3, <1>4, <1>7, <2>2
<1>8. CASE ~ (s < n)
  <2>1. s - n \in 0 .. (n - 1)
    BY <1>3, <1>6, <1>8
  <2>2. r * (s - n) = v + n * (q - r)
    <3>1. r * (s - n) = r * s - r * n /\ n * (q - r) = n * q - n * r /\ r * n = n * r /\ n * q = q * n
      BY <1>0, <1>3
    <3>2. r * s \in Int /\ r * n \in Int /\ n * q \in Int
      BY <1>0, <1>3
    <3>3. QED
      BY <1>1, <1>2, <3>1, <3>2
  <2>3. q - r \in Int
    BY <1>0
  <2>4. Congruent(r * (s - n), v, n)
    BY <2>2, <2>3 DEF Congruent
  <2>5. QED
    BY <1>4, <1>8, <2>1, <2>4
<1>9. QED
  BY <1>7, <1>8

\* The radix can be cancelled, and a residue is known from its product with it.
LEMMA RadixCancels ==
  ASSUME NEW r, Radices(r), NEW n \in Odds(r), NEW x \in Int, NEW y \in Int,
         Congruent(r * x, r * y, n)
  PROVE  Congruent(x, y, n)
<1>1. PICK e \in Nat : r = Power!Pow2[e]
  BY DEF Radices
<1>2. n \in Nat /\ n % 2 = 1
  BY <1>1, BitPowers, BitPowersGrow DEF Odds
<1>3. QED
  BY <1>1, <1>2, BitPowers, CongruentCancel

\* The types of a radix and of a modulus.
LEMMA RadixFacts ==
  ASSUME NEW r, Radices(r), NEW n \in Odds(r)
  PROVE  r \in Nat /\ r > 0 /\ n \in Nat /\ n > 0 /\ n < r
<1>1. \E e \in Nat : r = Power!Pow2[e]
  BY DEF Radices
<1>2. r \in Nat /\ r > 0
  BY <1>1, BitPowers, BitPowersGrow
<1>3. n \in Nat /\ n < r /\ n % 2 = 1
  BY <1>2 DEF Odds
<1>4. n # 0
  BY <1>3
<1>5. QED
  BY <1>2, <1>3, <1>4

\* Congruent numbers stay so times any number.
LEMMA CongruentScaled ==
  ASSUME NEW n \in Nat, NEW x \in Int, NEW y \in Int, NEW u \in Int, Congruent(x, y, n)
  PROVE  Congruent(u * x, u * y, n)
<1>1. PICK q \in Int : x = y + n * q
  BY DEF Congruent
<1>2. u * x = u * y + u * (n * q)
  BY <1>1
<1>3. u * (n * q) = n * (u * q) /\ u * q \in Int
  OBVIOUS
<1>4. u * x = u * y + n * (u * q)
  BY <1>2, <1>3
<1>5. QED
  BY <1>3, <1>4 DEF Congruent

\* The base in Montgomery form: x * Radix = Radix^2 * a.
LEMMA BaseInForm ==
  ASSUME NEW r, Radices(r), NEW n \in Odds(r), NEW v \in 0 .. (r - 1), NEW a \in 0 .. (r - 1),
         Congruent(v, r * r, n)
  PROVE  Congruent(AmontmulOf(r, v, a, n), a * r, n)
<1> DEFINE x == AmontmulOf(r, v, a, n)
<1>1. r \in Nat /\ n \in Nat /\ r \in Int
  BY RadixFacts
<1>2. x \in 0 .. (r - 1) /\ Congruent(r * x, v * a, n)
  BY AmontmulFacts
<1> HIDE DEF x
<1>3. v \in Int /\ a \in Int /\ r * r \in Int /\ a * r \in Int /\ v * a \in Int /\ r * x \in Int
      /\ r * (a * r) \in Int
  BY <1>1, <1>2
<1>4. Congruent(a * v, a * (r * r), n)
  BY <1>1, <1>3, CongruentScaled
<1>5. a * v = v * a /\ a * (r * r) = r * (a * r)
  BY <1>1, <1>3
<1>6. Congruent(r * x, r * (a * r), n)
  BY <1>1, <1>2, <1>3, <1>4, <1>5, CongruentTransitive
<1>7. Congruent(x, a * r, n)
  BY <1>2, <1>3, <1>6, RadixCancels
<1>8. QED
  BY <1>7 DEF x

\* One in Montgomery form: from Radix^2, Radix, and from Radix, one.
LEMMA OneInForm ==
  ASSUME NEW r, Radices(r), NEW n \in Odds(r), NEW v \in 0 .. (r - 1), Congruent(v, r * r, n)
  PROVE  /\ DemontOf(r, v, n) \in 0 .. (r - 1)
         /\ DemontOf(r, DemontOf(r, v, n), n) = 1 % n
<1> DEFINE u == DemontOf(r, v, n)
<1>1. r \in Nat /\ n \in Nat /\ n > 0 /\ n < r
  BY RadixFacts
<1>2. u \in 0 .. (n - 1) /\ Congruent(r * u, v, n)
  BY DemontFacts
<1> HIDE DEF u
<1>3. u \in 0 .. (r - 1) /\ v \in Int /\ u \in Int /\ r * u \in Int /\ r * r \in Int
      /\ r \in Int
  BY <1>1, <1>2
<1>4. Congruent(r * u, r * r, n)
  BY <1>1, <1>2, <1>3, CongruentTransitive
<1>5. Congruent(u, r, n)
  BY <1>1, <1>3, <1>4, RadixCancels
<1> DEFINE p == DemontOf(r, u, n)
<1>6. p \in 0 .. (n - 1) /\ Congruent(r * p, u, n)
  BY <1>3, DemontFacts
<1> HIDE DEF p
<1>7. p \in Int /\ r * p \in Int
  BY <1>1, <1>6
<1>8. Congruent(r * p, r * 1, n)
  <2>1. Congruent(r * p, r, n)
    BY <1>1, <1>3, <1>5, <1>6, <1>7, CongruentTransitive
  <2>2. r * 1 = r
    BY <1>1
  <2>3. QED
    BY <2>1, <2>2
<1>9. Congruent(p, 1, n)
  BY <1>7, <1>8, RadixCancels
<1>10. p = 1 % n
  <2>1. p % n = 1 % n
    <3>1. p \in Int /\ 1 \in Int /\ n \in Nat /\ n > 0
      BY <1>1, <1>7
    <3>2. QED
      BY <1>9, <3>1, CongruentMod, Zenon
  <2>2. p % n = p
    BY <1>1, <1>6
  <2>3. QED
    BY <2>1, <2>2
<1>11. QED
  BY <1>3, <1>10 DEF p, u

\* The number a square stands for is the square of the number.
LEMMA SquareInForm ==
  ASSUME NEW r, Radices(r), NEW n \in Odds(r), NEW v \in 0 .. (r - 1), NEW y \in 0 .. (r - 1),
         Congruent(r * y, v * v, n)
  PROVE  Congruent(DemontOf(r, y, n), DemontOf(r, v, n) * DemontOf(r, v, n), n)
<1> DEFINE p == DemontOf(r, v, n)
           q == DemontOf(r, y, n)
<1>1. r \in Nat /\ n \in Nat /\ r \in Int
  BY RadixFacts
<1>2. p \in Int /\ q \in Int /\ Congruent(r * p, v, n) /\ Congruent(r * q, y, n)
  BY <1>1, DemontFacts
<1> HIDE DEF p, q
<1>3. v \in Int /\ y \in Int /\ r * p \in Int /\ r * q \in Int /\ r * y \in Int /\ v * v \in Int
      /\ p * p \in Int /\ r * (r * q) \in Int /\ r * (p * p) \in Int /\ (r * p) * (r * p) \in Int
  BY <1>1, <1>2
<1>4. Congruent((r * p) * (r * p), v * v, n)
  BY <1>1, <1>2, <1>3, CongruentTimes
<1>5. Congruent(r * (r * q), r * y, n)
  BY <1>1, <1>2, <1>3, CongruentScaled, Zenon
<1>6. Congruent(r * (r * q), (r * p) * (r * p), n)
  <2>1. Congruent(r * (r * q), v * v, n)
    BY <1>1, <1>3, <1>5, CongruentTransitive
  <2>2. Congruent(v * v, (r * p) * (r * p), n)
    BY <1>1, <1>3, <1>4, CongruentSymmetric
  <2>3. QED
    BY <1>1, <1>3, <2>1, <2>2, CongruentTransitive
<1>7. (r * p) * (r * p) = r * (r * (p * p))
  BY <1>1, <1>2
<1>8. Congruent(r * q, r * (p * p), n)
  BY <1>3, <1>6, <1>7, RadixCancels
<1>9. Congruent(q, p * p, n)
  BY <1>2, <1>3, <1>8, RadixCancels
<1>10. QED
  BY <1>9 DEF p, q

\* The product of the base in Montgomery form and a number stands for their product.
LEMMA ProductInForm ==
  ASSUME NEW r, Radices(r), NEW n \in Odds(r), NEW x \in 0 .. (r - 1), NEW y \in 0 .. (r - 1),
         NEW a \in Nat, Congruent(x, a * r, n)
  PROVE  LET v == AmontmulOf(r, x, y, n)
         IN  /\ Congruent(v, a * y, n)
             /\ Congruent(DemontOf(r, v, n), a * DemontOf(r, y, n), n)
<1> DEFINE v == AmontmulOf(r, x, y, n)
           p == DemontOf(r, v, n)
           q == DemontOf(r, y, n)
<1>1. r \in Nat /\ n \in Nat /\ r \in Int
  BY RadixFacts
<1>2. v \in 0 .. (r - 1) /\ Congruent(r * v, x * y, n)
  BY AmontmulFacts
<1> HIDE DEF v
<1>3. p \in Int /\ q \in Int /\ Congruent(r * p, v, n) /\ Congruent(r * q, y, n)
  BY <1>1, <1>2, DemontFacts
<1> HIDE DEF p, q
<1>4. x \in Int /\ y \in Int /\ v \in Int /\ a * r \in Int /\ x * y \in Int /\ a * y \in Int
      /\ r * v \in Int /\ r * p \in Int /\ r * q \in Int /\ a * q \in Int
      /\ a \in Int /\ (a * r) * y \in Int /\ r * (a * y) \in Int /\ a * (r * q) \in Int
  BY <1>1, <1>2, <1>3
<1>5. Congruent(v, a * y, n)
  <2>1. Congruent(y * x, y * (a * r), n)
    BY <1>1, <1>4, CongruentScaled
  <2>2. y * x = x * y /\ y * (a * r) = r * (a * y)
    BY <1>1, <1>4
  <2>3. Congruent(r * v, r * (a * y), n)
    BY <1>1, <1>2, <1>4, <2>1, <2>2, CongruentTransitive
  <2>4. QED
    BY <1>4, <2>3, RadixCancels
<1>6. Congruent(r * p, a * y, n)
  BY <1>1, <1>3, <1>4, <1>5, CongruentTransitive
<1>7. Congruent(a * y, r * (a * q), n)
  <2>1. Congruent(a * (r * q), a * y, n)
    BY <1>1, <1>3, <1>4, CongruentScaled, Zenon
  <2>2. a * (r * q) = r * (a * q)
    BY <1>1, <1>3
  <2>3. QED
    BY <1>1, <1>4, <2>1, <2>2, CongruentSymmetric
<1>8. r * (a * q) \in Int
  BY <1>1, <1>4
<1>9. Congruent(r * p, r * (a * q), n)
  BY <1>1, <1>4, <1>6, <1>7, <1>8, CongruentTransitive
<1>10. Congruent(p, a * q, n)
  BY <1>3, <1>4, <1>9, RadixCancels
<1>11. QED
  BY <1>5, <1>10 DEF p, q, v

\* One more bit: the power the product or the square stands for.
LEMMA NextPower ==
  ASSUME NEW r, Radices(r), NEW n \in Odds(r), NEW v \in 0 .. (r - 1), NEW x \in 0 .. (r - 1),
         NEW y \in 0 .. (r - 1), NEW a \in Nat,
         Congruent(x, a * r, n), Congruent(r * y, v * v, n)
  PROVE  LET p == DemontOf(r, v, n)
         IN  /\ DemontOf(r, y, n) = (p * p * 1) % n
             /\ DemontOf(r, AmontmulOf(r, x, y, n), n) = (p * p * a) % n
<1> DEFINE p == DemontOf(r, v, n)
           q == DemontOf(r, y, n)
           s == AmontmulOf(r, x, y, n)
           u == DemontOf(r, s, n)
<1>1. r \in Nat /\ n \in Nat /\ n > 0
  BY RadixFacts
<1>2. s \in 0 .. (r - 1)
  BY AmontmulFacts
<1>3. p \in Int /\ q \in 0 .. (n - 1)
  BY <1>1, DemontFacts
<1>4. u \in 0 .. (n - 1)
  <2> HIDE DEF s
  <2>1. QED
    BY <1>2, DemontFacts
<1>5. Congruent(q, p * p, n)
  BY SquareInForm
<1>6. Congruent(u, a * q, n)
  BY ProductInForm
<1> HIDE DEF p, q, s, u
<1>7. a \in Int /\ q \in Int /\ u \in Int /\ p * p \in Int /\ a * q \in Int /\ a * (p * p) \in Int
  BY <1>1, <1>3, <1>4
<1>8. Congruent(a * q, a * (p * p), n)
  BY <1>1, <1>5, <1>7, CongruentScaled, Zenon
<1>9. Congruent(u, a * (p * p), n)
  BY <1>1, <1>6, <1>7, <1>8, CongruentTransitive
<1>10. a * (p * p) = p * p * a /\ p * p = p * p * 1
  BY <1>3
<1>11. q % n = q /\ u % n = u
  BY <1>1, <1>3, <1>4
<1>12. q % n = (p * p) % n /\ u % n = (a * (p * p)) % n
  BY <1>1, <1>5, <1>7, <1>9, CongruentMod
<1>13. QED
  BY <1>10, <1>11, <1>12 DEF p, q, s, u

-----------------------------------------------------------------------------
(* BignumModexp implements ModPower.                                        *)

\* Every buffer holds k digits; the arguments' are as given until the result is
\* stored.
PowerTypes ==
  /\ size \in 1 .. MaxSize /\ res \in Power!Inputs \cup {"res"}
  /\ a0 \in Power!Number /\ p0 \in Power!Number /\ m0 \in Odds(Power!Radix)
  /\ buf \in [Power!Inputs \cup Power!Scratch \cup {"res"} -> Power!Number]
  /\ left \in 0 .. (WordBits * size)
  /\ at \in {"amontify", "base", "one", "square", "multiply", "mux", "demont", "copy", "done"}
  /\ at # "done" => buf["a"] = a0 /\ buf["p"] = p0 /\ buf["m"] = m0

\* The bits of the exponent still to process.
BitsLeft ==
  /\ at \in {"amontify", "base", "one"} => left = WordBits * size
  /\ at = "square" => left > 0
  /\ at \in {"multiply", "mux"} => left < WordBits * size
  /\ at \in {"demont", "copy", "done"} => left = 0

\* What the scratch buffers represent: the square of the radix, the base in
\* Montgomery form, the square of the accumulator, the product.
Represented ==
  /\ at \in {"base", "one"} => Congruent(buf["z"], Power!Radix * Power!Radix, m0)
  /\ at \in {"one", "square", "multiply", "mux"} => Congruent(buf["x"], a0 * Power!Radix, m0)
  /\ at = "multiply" => Congruent(Power!Radix * buf["y"], buf["z"] * buf["z"], m0)

PowerInv == PowerTypes /\ BitsLeft /\ Represented

\* The functions called are those of the arithmetic above.
LEMMA CallsOf ==
  /\ \A v, u, n : Power!Amontmul(v, u, n) = AmontmulOf(Power!Radix, v, u, n)
  /\ \A v, n : Power!Demont(v, n) = DemontOf(Power!Radix, v, n)
BY DEF Power!Amontmul, Power!Demont, Power!Reduction, Power!Number, AmontmulOf, DemontOf,
       ReductionOf

\* What the abstract power is about: radix, modulus and arguments of the call.
LEMMA RadixOfCall ==
  ASSUME PowerTypes
  PROVE  /\ Radices(Power!Radix) /\ Power!Radix \in Nat /\ Power!Radix > 0
         /\ Power!Number = 0 .. (Power!Radix - 1)
         /\ m0 \in Odds(Power!Radix) /\ m0 \in Nat /\ m0 > 0
         /\ a0 \in Nat /\ p0 \in Nat
<1>1. WordBits * size \in Nat
  <2>1. WordBits \in Nat /\ size \in Nat
    BY SizeAssumption DEF PowerTypes
  <2>2. QED
    BY <2>1
<1>2. Radices(Power!Radix)
  BY <1>1 DEF Radices, Power!Radix
<1>3. m0 \in Odds(Power!Radix)
  BY DEF PowerTypes
<1>4. Power!Radix \in Nat /\ Power!Radix > 0 /\ m0 \in Nat /\ m0 > 0
  BY <1>2, <1>3, RadixFacts
<1>5. a0 \in Nat /\ p0 \in Nat
  BY <1>4 DEF PowerTypes, Power!Number
<1>6. QED
  BY <1>2, <1>3, <1>4, <1>5 DEF Power!Number

\* The buffers of a call, one by one.
LEMMA BufferTypes ==
  ASSUME PowerTypes
  PROVE  /\ buf["x"] \in Power!Number /\ buf["y"] \in Power!Number /\ buf["z"] \in Power!Number
         /\ buf["a"] \in Power!Number /\ buf["p"] \in Power!Number /\ buf["m"] \in Power!Number
         /\ DOMAIN buf = Power!Inputs \cup Power!Scratch \cup {"res"}
BY DEF PowerTypes, Power!Inputs, Power!Scratch

\* The abstract power at every label.
LEMMA PowerBefore ==
  at \in {"amontify", "base", "one"} => Power!PowerSoFar = 1 % m0
BY DEF Power!PowerSoFar

\* Inside an iteration and at the end of the loop the power is what z stands for.
LEMMA PowerInside ==
  at \in {"square", "multiply", "demont"} =>
    Power!PowerSoFar = DemontOf(Power!Radix, buf["z"], m0)
<1>1. at \in {"square", "multiply", "demont"} => Power!PowerSoFar = Power!Demont(buf["z"], m0)
  BY DEF Power!PowerSoFar
<1>2. QED
  BY <1>1, CallsOf

\* At the mux the bit says which buffer holds the power.
LEMMA PowerAtMux ==
  at = "mux" =>
    Power!PowerSoFar =
      DemontOf(Power!Radix, IF Power!Bit(p0, left) # 0 THEN buf["z"] ELSE buf["y"], m0)
<1>1. at = "mux" =>
        Power!PowerSoFar = Power!Demont(IF Power!Bit(p0, left) # 0 THEN buf["z"] ELSE buf["y"], m0)
  BY DEF Power!PowerSoFar
<1>2. QED
  BY <1>1, CallsOf

\* After the loop the power is out of Montgomery form.
LEMMA PowerAfter ==
  /\ at = "copy" => Power!PowerSoFar = buf["z"]
  /\ at = "done" => Power!PowerSoFar = buf[res]
<1>1. at = "copy" => Power!PowerSoFar = buf["z"]
  BY DEF Power!PowerSoFar
<1>2. at = "done" => Power!PowerSoFar = buf[res]
  BY DEF Power!PowerSoFar
<1>3. QED
  BY <1>1, <1>2

\* The same in the state a step leads to.
LEMMA PowerNext ==
  /\ at' \in {"amontify", "base", "one"} => Power!PowerSoFar' = 1 % m0'
  /\ at' \in {"square", "multiply", "demont"} =>
       Power!PowerSoFar' = DemontOf(Power!Radix', buf'["z"], m0')
  /\ at' = "mux" =>
       Power!PowerSoFar' =
         DemontOf(Power!Radix',
                  IF Power!Bit(p0', left') # 0 THEN buf'["z"] ELSE buf'["y"], m0')
  /\ at' = "copy" => Power!PowerSoFar' = buf'["z"]
  /\ at' = "done" => Power!PowerSoFar' = buf'[res']
<1>1. (at \in {"amontify", "base", "one"} => Power!PowerSoFar = 1 % m0)'
  BY PowerBefore, PTL
<1>2. (at \in {"square", "multiply", "demont"} =>
         Power!PowerSoFar = DemontOf(Power!Radix, buf["z"], m0))'
  BY PowerInside, PTL
<1>3. (at = "mux" =>
         Power!PowerSoFar =
           DemontOf(Power!Radix, IF Power!Bit(p0, left) # 0 THEN buf["z"] ELSE buf["y"], m0))'
  BY PowerAtMux, PTL
<1>4. (/\ at = "copy" => Power!PowerSoFar = buf["z"]
       /\ at = "done" => Power!PowerSoFar = buf[res])'
  BY PowerAfter, PTL
<1>5. QED
  BY <1>1, <1>2, <1>3, <1>4

\* A step keeps the size and the arguments.
Kept == size' = size /\ res' = res /\ a0' = a0 /\ p0' = p0 /\ m0' = m0

\* No step changes what the power is about.
LEMMA RadixKept ==
  ASSUME Kept
  PROVE  Power!Radix' = Power!Radix /\ Power!Number' = Power!Number
<1>1. Power!Radix' = Power!Radix
  BY DEF Kept, Power!Radix
<1>2. Power!Number' = Power!Number
  BY <1>1 DEF Power!Number
<1>3. QED
  BY <1>1, <1>2

\* A step that stores a number in a scratch buffer.
LEMMA ScratchStored ==
  ASSUME PowerTypes, Kept, NEW b \in Power!Scratch, NEW v \in Power!Number,
         buf' = [buf EXCEPT ![b] = v], at # "done", left' \in 0 .. (WordBits * size),
         at' \in {"amontify", "base", "one", "square", "multiply", "mux", "demont", "copy"}
  PROVE  /\ PowerTypes' /\ buf'[b] = v
         /\ \A o \in {"x", "y", "z"} : o # b => buf'[o] = buf[o]
<1>1. Power!Radix' = Power!Radix /\ Power!Number' = Power!Number
  BY RadixKept
<1>2. buf \in [Power!Inputs \cup Power!Scratch \cup {"res"} -> Power!Number]
  BY DEF PowerTypes
<1>3. buf' \in [Power!Inputs \cup Power!Scratch \cup {"res"} -> Power!Number]
  BY <1>2
<1>4. b # "a" /\ b # "p" /\ b # "m"
  BY DEF Power!Scratch
<1>5. buf'["a"] = buf["a"] /\ buf'["p"] = buf["p"] /\ buf'["m"] = buf["m"]
  BY <1>2, <1>4 DEF Power!Inputs
<1>6. buf'["a"] = a0' /\ buf'["p"] = p0' /\ buf'["m"] = m0'
  BY <1>5 DEF PowerTypes, Kept
<1>7. /\ size' \in 1 .. MaxSize /\ res' \in Power!Inputs \cup {"res"}
      /\ a0' \in Power!Number /\ p0' \in Power!Number /\ m0' \in Odds(Power!Radix)
      /\ left' \in 0 .. (WordBits * size')
  BY DEF PowerTypes, Kept
<1>8. PowerTypes'
  BY <1>1, <1>3, <1>6, <1>7 DEF PowerTypes, Power!Inputs, Power!Scratch
<1>9. QED
  BY <1>2, <1>8 DEF Power!Scratch

\* What the caller of ModPower sees of the loop counter.
LeftOf == IF at = "multiply" THEN left + 1 ELSE left

\* A step the abstract specification does not see.
Unseen == /\ Power!PowerSoFar' = Power!PowerSoFar /\ LeftOf' = LeftOf
          /\ at # "done" /\ at' # "done"

\* bignum_amontifier: z represents the square of the radix.
LEMMA AmontifierStep ==
  ASSUME PowerInv, Power!Amontifier
  PROVE  PowerInv' /\ Kept /\ Unseen
<1>1. /\ at = "amontify" /\ at' = "base" /\ left' = left /\ Kept
  BY DEF Power!Amontifier, Kept
<1>2. PICK v \in {u \in Power!Number : (u - Power!Radix * Power!Radix) % buf["m"] = 0} :
        buf' = [buf EXCEPT !["z"] = v, !["y"] = 0]
  BY DEF Power!Amontifier
<1>3. /\ Power!Radix \in Nat /\ Power!Radix > 0 /\ m0 \in Nat /\ m0 > 0
      /\ Power!Number = 0 .. (Power!Radix - 1) /\ buf["m"] = m0
  BY <1>1, RadixOfCall DEF PowerInv, PowerTypes
<1>4. v \in Power!Number /\ 0 \in Power!Number
  BY <1>3
<1>5. buf \in [Power!Inputs \cup Power!Scratch \cup {"res"} -> Power!Number]
  BY DEF PowerInv, PowerTypes
<1>6. /\ buf' \in [Power!Inputs \cup Power!Scratch \cup {"res"} -> Power!Number]
      /\ buf'["z"] = v
      /\ buf'["a"] = buf["a"] /\ buf'["p"] = buf["p"] /\ buf'["m"] = buf["m"]
  BY <1>2, <1>4, <1>5 DEF Power!Inputs, Power!Scratch
<1>7. Power!Radix' = Power!Radix /\ Power!Number' = Power!Number
  BY <1>1, RadixKept
<1>8. PowerTypes'
  BY <1>1, <1>6, <1>7 DEF PowerInv, PowerTypes, Kept
<1>9. BitsLeft'
  BY <1>1 DEF PowerInv, BitsLeft, Kept
<1>10. Congruent(v, Power!Radix * Power!Radix, m0)
  <2> DEFINE R == Power!Radix
  <2>1. R * R \in Int /\ v \in Int /\ (v - R * R) % m0 = 0
    BY <1>2, <1>3
  <2> HIDE DEF R
  <2>2. Congruent(v, R * R, m0)
    BY <1>3, <2>1, CongruentMod
  <2>3. QED
    BY <2>2 DEF R
<1>11. Represented'
  BY <1>1, <1>6, <1>7, <1>10 DEF Represented, Kept
<1>12. Unseen
  BY <1>1, PowerBefore, PowerNext DEF Unseen, LeftOf, Kept
<1>13. QED
  BY <1>1, <1>8, <1>9, <1>11, <1>12 DEF PowerInv

\* x := a in Montgomery form.
LEMMA BaseStep ==
  ASSUME PowerInv, Power!Base
  PROVE  PowerInv' /\ Kept /\ Unseen
<1> DEFINE v == AmontmulOf(Power!Radix, buf["z"], a0, m0)
<1>1. at = "base" /\ at' = "one" /\ left' = left /\ Kept
  BY DEF Power!Base, Kept
<1>2. buf["a"] = a0 /\ buf["m"] = m0
  BY <1>1 DEF PowerInv, PowerTypes
<1>3. buf' = [buf EXCEPT !["x"] = v]
  BY <1>2, CallsOf DEF Power!Base
<1>4. /\ Radices(Power!Radix) /\ m0 \in Odds(Power!Radix)
      /\ Power!Number = 0 .. (Power!Radix - 1)
  BY RadixOfCall DEF PowerInv
<1>5. buf["z"] \in Power!Number /\ a0 \in Power!Number
  BY BufferTypes DEF PowerInv, PowerTypes
<1>6. Congruent(buf["z"], Power!Radix * Power!Radix, m0)
  BY <1>1 DEF PowerInv, Represented
<1>7. v \in Power!Number
  BY <1>4, <1>5, AmontmulFacts
<1>8. Congruent(v, a0 * Power!Radix, m0)
  BY <1>4, <1>5, <1>6, BaseInForm
<1> HIDE DEF v
<1>9. PowerTypes' /\ buf'["x"] = v /\ buf'["z"] = buf["z"]
  BY <1>1, <1>3, <1>7, ScratchStored DEF PowerInv, PowerTypes, Power!Scratch
<1>10. Power!Radix' = Power!Radix
  BY <1>1, RadixKept
<1>11. BitsLeft'
  BY <1>1 DEF PowerInv, BitsLeft, Kept
<1>12. Represented'
  BY <1>1, <1>6, <1>8, <1>9, <1>10 DEF Represented, Kept
<1>13. Unseen
  BY <1>1, PowerBefore, PowerNext DEF Unseen, LeftOf, Kept
<1>14. QED
  BY <1>1, <1>9, <1>11, <1>12, <1>13 DEF PowerInv

\* z := 1 in Montgomery form.
LEMMA OneStep ==
  ASSUME PowerInv, Power!One
  PROVE  PowerInv' /\ Kept /\ Unseen
<1> DEFINE v == DemontOf(Power!Radix, buf["z"], m0)
<1>1. at = "one" /\ at' = "square" /\ left' = left /\ Kept
  BY DEF Power!One, Kept
<1>2. buf["m"] = m0
  BY <1>1 DEF PowerInv, PowerTypes
<1>3. buf' = [buf EXCEPT !["z"] = v]
  BY <1>2, CallsOf DEF Power!One
<1>4. /\ Radices(Power!Radix) /\ m0 \in Odds(Power!Radix)
      /\ Power!Number = 0 .. (Power!Radix - 1)
  BY RadixOfCall DEF PowerInv
<1>5. buf["z"] \in Power!Number
  BY BufferTypes DEF PowerInv
<1>6. Congruent(buf["z"], Power!Radix * Power!Radix, m0)
  BY <1>1 DEF PowerInv, Represented
<1>7. v \in Power!Number /\ DemontOf(Power!Radix, v, m0) = 1 % m0
  BY <1>4, <1>5, <1>6, OneInForm
<1> HIDE DEF v
<1>8. PowerTypes' /\ buf'["z"] = v /\ buf'["x"] = buf["x"]
  BY <1>1, <1>3, <1>7, ScratchStored DEF PowerInv, PowerTypes, Power!Scratch
<1>9. Power!Radix' = Power!Radix
  BY <1>1, RadixKept
<1>10. left > 0
  <2>1. left = WordBits * size /\ WordBits \in Nat /\ WordBits > 0 /\ size \in Nat /\ size > 0
    BY <1>1, SizeAssumption DEF PowerInv, PowerTypes, BitsLeft
  <2>2. QED
    BY <2>1
<1>11. BitsLeft'
  BY <1>1, <1>10 DEF PowerInv, BitsLeft, Kept
<1>12. Represented'
  BY <1>1, <1>8, <1>9 DEF PowerInv, Represented, Kept
<1>13. Power!PowerSoFar = 1 % m0
  BY <1>1, PowerBefore
<1>14. Power!PowerSoFar' = 1 % m0
  BY <1>1, <1>7, <1>8, <1>9, PowerNext DEF Kept
<1>15. Unseen
  BY <1>1, <1>13, <1>14 DEF Unseen, LeftOf
<1>16. QED
  BY <1>1, <1>8, <1>11, <1>12, <1>15 DEF PowerInv

\* y := z squared in Montgomery form.
LEMMA SquareStep ==
  ASSUME PowerInv, Power!Square
  PROVE  PowerInv' /\ Kept /\ Unseen
<1> DEFINE v == AmontmulOf(Power!Radix, buf["z"], buf["z"], m0)
<1>1. at = "square" /\ at' = "multiply" /\ left' = left - 1 /\ Kept
  BY DEF Power!Square, Kept
<1>2. buf["m"] = m0
  BY <1>1 DEF PowerInv, PowerTypes
<1>3. buf' = [buf EXCEPT !["y"] = v]
  BY <1>2, CallsOf DEF Power!Square
<1>4. /\ Radices(Power!Radix) /\ m0 \in Odds(Power!Radix)
      /\ Power!Number = 0 .. (Power!Radix - 1)
  BY RadixOfCall DEF PowerInv
<1>5. buf["z"] \in Power!Number
  BY BufferTypes DEF PowerInv
<1>6. v \in Power!Number /\ Congruent(Power!Radix * v, buf["z"] * buf["z"], m0)
  BY <1>4, <1>5, AmontmulFacts
<1> HIDE DEF v
<1>7. left > 0 /\ left \in 0 .. (WordBits * size) /\ WordBits * size \in Nat
  <2>1. WordBits \in Nat /\ size \in Nat
    BY SizeAssumption DEF PowerInv, PowerTypes
  <2>2. WordBits * size \in Nat
    BY <2>1
  <2>3. QED
    BY <1>1, <2>2 DEF PowerInv, PowerTypes, BitsLeft
<1>8. left' \in 0 .. (WordBits * size) /\ left' < WordBits * size
  BY <1>1, <1>7
<1>9. PowerTypes' /\ buf'["y"] = v /\ buf'["x"] = buf["x"] /\ buf'["z"] = buf["z"]
  BY <1>1, <1>3, <1>6, <1>8, ScratchStored DEF PowerInv, PowerTypes, Power!Scratch
<1>10. Power!Radix' = Power!Radix
  BY <1>1, RadixKept
<1>11. BitsLeft'
  BY <1>1, <1>8 DEF BitsLeft, Kept
<1>12. Represented'
  BY <1>1, <1>6, <1>9, <1>10 DEF PowerInv, Represented, Kept
<1>13. Power!PowerSoFar' = Power!PowerSoFar
  BY <1>1, <1>9, <1>10, PowerInside, PowerNext DEF Kept
<1>14. LeftOf' = LeftOf
  BY <1>1, <1>7 DEF LeftOf
<1>15. QED
  BY <1>1, <1>9, <1>11, <1>12, <1>13, <1>14 DEF PowerInv, Unseen

\* z := x * y in Montgomery form: the power gains a bit of the exponent.
LEMMA MultiplyStep ==
  ASSUME PowerInv, Power!Multiply
  PROVE  /\ PowerInv' /\ Kept /\ at # "done" /\ at' # "done"
         /\ LeftOf > 0 /\ LeftOf' = LeftOf - 1
         /\ Power!PowerSoFar' =
              (Power!PowerSoFar * Power!PowerSoFar
                 * (IF Power!Bit(p0, LeftOf - 1) # 0 THEN a0 ELSE 1)) % m0
<1> DEFINE v == AmontmulOf(Power!Radix, buf["x"], buf["y"], m0)
           p == DemontOf(Power!Radix, buf["z"], m0)
<1>1. at = "multiply" /\ at' = "mux" /\ left' = left /\ Kept
  BY DEF Power!Multiply, Kept
<1>2. buf["m"] = m0
  BY <1>1 DEF PowerInv, PowerTypes
<1>3. buf' = [buf EXCEPT !["z"] = v]
  BY <1>2, CallsOf DEF Power!Multiply
<1>4. /\ Radices(Power!Radix) /\ m0 \in Odds(Power!Radix) /\ a0 \in Nat
      /\ Power!Number = 0 .. (Power!Radix - 1)
  BY RadixOfCall DEF PowerInv
<1>5. buf["x"] \in Power!Number /\ buf["y"] \in Power!Number /\ buf["z"] \in Power!Number
  BY BufferTypes DEF PowerInv
<1>6. /\ Congruent(buf["x"], a0 * Power!Radix, m0)
      /\ Congruent(Power!Radix * buf["y"], buf["z"] * buf["z"], m0)
  BY <1>1 DEF PowerInv, Represented
<1>7. v \in Power!Number
  BY <1>4, <1>5, AmontmulFacts
<1>8. /\ DemontOf(Power!Radix, buf["y"], m0) = (p * p * 1) % m0
      /\ DemontOf(Power!Radix, v, m0) = (p * p * a0) % m0
  BY <1>4, <1>5, <1>6, NextPower
<1> HIDE DEF v, p
<1>9. PowerTypes' /\ buf'["z"] = v /\ buf'["x"] = buf["x"] /\ buf'["y"] = buf["y"]
  BY <1>1, <1>3, <1>7, ScratchStored DEF PowerInv, PowerTypes, Power!Scratch
<1>10. Power!Radix' = Power!Radix
  BY <1>1, RadixKept
<1>11. BitsLeft'
  BY <1>1 DEF PowerInv, BitsLeft, Kept
<1>12. Represented'
  BY <1>1, <1>6, <1>9, <1>10 DEF Represented, Kept
<1>13. LeftOf > 0 /\ LeftOf' = LeftOf - 1 /\ left = LeftOf - 1
  <2>1. left \in Nat
    BY DEF PowerInv, PowerTypes
  <2>2. QED
    BY <1>1, <2>1 DEF LeftOf
<1>14. Power!PowerSoFar = p
  BY <1>1, PowerInside DEF p
<1>15. Power!PowerSoFar' =
         (p * p * (IF Power!Bit(p0, left) # 0 THEN a0 ELSE 1)) % m0
  <2>1. Power!PowerSoFar' =
          DemontOf(Power!Radix, IF Power!Bit(p0, left) # 0 THEN v ELSE buf["y"], m0)
    BY <1>1, <1>9, <1>10, PowerNext DEF Kept
  <2>2. CASE Power!Bit(p0, left) # 0
    BY <1>8, <2>1, <2>2
  <2>3. CASE ~ (Power!Bit(p0, left) # 0)
    BY <1>8, <2>1, <2>3
  <2>4. QED
    BY <2>2, <2>3
<1>16. QED
  BY <1>1, <1>9, <1>11, <1>12, <1>13, <1>14, <1>15 DEF PowerInv

\* z := the product or the square.
LEMMA MuxStep ==
  ASSUME PowerInv, Power!Mux
  PROVE  PowerInv' /\ Kept /\ Unseen
<1> DEFINE v == IF Power!Bit(p0, left) # 0 THEN buf["z"] ELSE buf["y"]
<1>1. /\ at = "mux" /\ at' = (IF left # 0 THEN "square" ELSE "demont") /\ left' = left /\ Kept
  BY DEF Power!Mux, Kept
<1>2. buf["p"] = p0
  BY <1>1 DEF PowerInv, PowerTypes
<1>3. buf' = [buf EXCEPT !["z"] = v]
  BY <1>2 DEF Power!Mux
<1>4. v \in Power!Number
  BY BufferTypes DEF PowerInv
<1>5. Power!PowerSoFar = DemontOf(Power!Radix, v, m0)
  BY <1>1, PowerAtMux
<1> HIDE DEF v
<1>6. left \in 0 .. (WordBits * size) /\ at' \in {"square", "demont"}
  BY <1>1 DEF PowerInv, PowerTypes
<1>7. PowerTypes' /\ buf'["z"] = v /\ buf'["x"] = buf["x"]
  BY <1>1, <1>3, <1>4, <1>6, ScratchStored DEF PowerInv, PowerTypes, Power!Scratch
<1>8. Power!Radix' = Power!Radix
  BY <1>1, RadixKept
<1>9. BitsLeft'
  <2>1. left # 0 => left > 0
    BY <1>6
  <2>2. QED
    BY <1>1, <2>1 DEF BitsLeft
<1>10. Represented'
  BY <1>1, <1>7, <1>8 DEF PowerInv, Represented, Kept
<1>11. Power!PowerSoFar' = DemontOf(Power!Radix, v, m0)
  BY <1>1, <1>6, <1>7, <1>8, PowerNext DEF Kept
<1>12. Unseen
  BY <1>1, <1>5, <1>6, <1>11 DEF Unseen, LeftOf
<1>13. QED
  BY <1>1, <1>7, <1>9, <1>10, <1>12 DEF PowerInv

\* Out of Montgomery form.
LEMMA FromMontgomeryStep ==
  ASSUME PowerInv, Power!FromMontgomery
  PROVE  PowerInv' /\ Kept /\ Unseen
<1> DEFINE v == DemontOf(Power!Radix, buf["z"], m0)
<1>1. at = "demont" /\ at' = "copy" /\ left' = left /\ Kept
  BY DEF Power!FromMontgomery, Kept
<1>2. buf["m"] = m0
  BY <1>1 DEF PowerInv, PowerTypes
<1>3. buf' = [buf EXCEPT !["z"] = v]
  BY <1>2, CallsOf DEF Power!FromMontgomery
<1>4. /\ Radices(Power!Radix) /\ m0 \in Odds(Power!Radix)
      /\ Power!Radix \in Nat /\ m0 \in Nat /\ Power!Number = 0 .. (Power!Radix - 1)
  BY RadixOfCall DEF PowerInv
<1>5. buf["z"] \in Power!Number
  BY BufferTypes DEF PowerInv
<1>6. v \in 0 .. (m0 - 1)
  BY <1>4, <1>5, DemontFacts
<1> HIDE DEF v
<1>7. v \in Power!Number
  <2>1. m0 < Power!Radix
    BY <1>4, RadixFacts
  <2>2. QED
    BY <1>4, <1>6, <2>1
<1>8. PowerTypes' /\ buf'["z"] = v
  BY <1>1, <1>3, <1>7, ScratchStored DEF PowerInv, PowerTypes, Power!Scratch
<1>9. BitsLeft' /\ Represented'
  BY <1>1 DEF PowerInv, BitsLeft, Represented
<1>10. Power!PowerSoFar = v
  BY <1>1, PowerInside DEF v
<1>11. Power!PowerSoFar' = v
  BY <1>1, <1>8, PowerNext
<1>12. Unseen
  BY <1>1, <1>10, <1>11 DEF Unseen, LeftOf
<1>13. QED
  BY <1>1, <1>8, <1>9, <1>12 DEF PowerInv

\* The result is stored, over an input if the caller says so.
LEMMA CopyOutStep ==
  ASSUME PowerInv, Power!CopyOut
  PROVE  /\ PowerInv' /\ Kept /\ at # "done" /\ at' = "done"
         /\ LeftOf = 0 /\ LeftOf' = 0 /\ Power!PowerSoFar' = Power!PowerSoFar
<1>1. at = "copy" /\ at' = "done" /\ left' = left /\ Kept
  BY DEF Power!CopyOut, Kept
<1>2. buf' = [buf EXCEPT ![res] = buf["z"]]
  BY DEF Power!CopyOut
<1>3. /\ buf \in [Power!Inputs \cup Power!Scratch \cup {"res"} -> Power!Number]
      /\ res \in Power!Inputs \cup {"res"} /\ buf["z"] \in Power!Number
  BY BufferTypes DEF PowerInv, PowerTypes
<1>4. /\ buf' \in [Power!Inputs \cup Power!Scratch \cup {"res"} -> Power!Number]
      /\ buf'[res] = buf["z"]
  BY <1>2, <1>3
<1>5. Power!Radix' = Power!Radix /\ Power!Number' = Power!Number
  BY <1>1, RadixKept
<1>6. PowerTypes'
  BY <1>1, <1>4, <1>5 DEF PowerInv, PowerTypes, Kept
<1>7. left = 0
  BY <1>1 DEF PowerInv, BitsLeft
<1>8. BitsLeft' /\ Represented'
  BY <1>1, <1>7 DEF BitsLeft, Represented
<1>9. Power!PowerSoFar' = Power!PowerSoFar
  BY <1>1, <1>4, PowerAfter, PowerNext DEF Kept
<1>10. QED
  BY <1>1, <1>6, <1>7, <1>8, <1>9 DEF PowerInv, LeftOf

\* A call begins where the abstract specification does.
LEMMA PowerInit == Power!Init => PowerInv /\ Power!Contract!Init
<1> SUFFICES ASSUME Power!Init PROVE PowerInv /\ Power!Contract!Init
  OBVIOUS
<1> DEFINE L == WordBits * size
           R == Power!Radix
<1>1. /\ size \in 1 .. MaxSize /\ res \in Power!Inputs \cup {"res"}
      /\ left = L /\ at = "amontify"
      /\ a0 \in Power!Number /\ p0 \in Power!Number /\ m0 \in {v \in Power!Number : v % 2 = 1}
  BY DEF Power!Init
<1>2. L \in Nat /\ L \in 0 .. (WordBits * MaxSize)
  <2>1. /\ WordBits \in Nat /\ WordBits > 0 /\ MaxSize \in Nat
        /\ size \in Nat /\ size > 0 /\ size <= MaxSize
    BY <1>1, SizeAssumption
  <2>2. WordBits * size <= WordBits * MaxSize
    BY <2>1
  <2>3. WordBits * size \in Nat /\ WordBits * MaxSize \in Nat
    BY <2>1
  <2>4. QED
    BY <2>2, <2>3
<1>3. R = Power!Pow2[L]
  BY DEF Power!Radix
<1>4. R \in Nat /\ R > 0
  BY <1>2, <1>3, BitPowers, BitPowersGrow
<1>5. Power!Number = 0 .. (R - 1)
  BY DEF Power!Number
<1>6. m0 \in Odds(R) /\ m0 \in Nat \ {0}
  <2>1. m0 \in 0 .. (R - 1) /\ m0 % 2 = 1
    BY <1>1, <1>5
  <2>2. m0 \in Nat /\ m0 # 0
    BY <1>4, <2>1
  <2>3. QED
    BY <2>1, <2>2 DEF Odds
<1>7. /\ buf \in [Power!Inputs \cup Power!Scratch \cup {"res"} -> Power!Number]
      /\ buf["a"] = a0 /\ buf["p"] = p0 /\ buf["m"] = m0
  <2> DEFINE f(b) == CASE b = "a" -> a0 [] b = "p" -> p0 [] b = "m" -> m0
                       [] OTHER -> R - 1
  <2>1. buf = [b \in Power!Inputs \cup Power!Scratch \cup {"res"} |-> f(b)]
    BY DEF Power!Init
  <2>2. f("a") = a0 /\ f("p") = p0 /\ f("m") = m0
    OBVIOUS
  <2>3. R - 1 \in Power!Number
    BY <1>4, <1>5
  <2>4. ASSUME NEW b PROVE f(b) \in Power!Number
    <3> HIDE DEF R
    <3>1. CASE b = "a"
      BY <1>1, <3>1
    <3>2. CASE b = "p"
      BY <1>1, <3>2
    <3>3. CASE b = "m"
      BY <1>1, <3>3
    <3>4. CASE b # "a" /\ b # "p" /\ b # "m"
      BY <2>3, <3>4
    <3>5. QED
      BY <3>1, <3>2, <3>3, <3>4
  <2> HIDE DEF f
  <2>5. QED
    BY <2>1, <2>2, <2>4 DEF Power!Inputs
<1>8. PowerTypes
  <2>1. left \in 0 .. (WordBits * size)
    BY <1>1, <1>2
  <2>2. QED
    BY <1>1, <1>6, <1>7, <2>1 DEF PowerTypes
<1>9. BitsLeft /\ Represented
  BY <1>1 DEF BitsLeft, Represented
<1>10. Power!PowerSoFar = 1 % m0
  BY <1>1, PowerBefore
<1>11. Power!Contract!Init
  <2>1. a0 \in 0 .. (Power!Contract!Pow2[left] - 1) /\ p0 \in 0 .. (Power!Contract!Pow2[left] - 1)
    BY <1>1, <1>3, <1>5, BitPowers
  <2>2. at # "multiply" /\ at # "done" /\ left \in 0 .. (WordBits * MaxSize)
    BY <1>1, <1>2
  <2>3. QED
    BY <1>6, <1>10, <2>1, <2>2 DEF Power!Contract!Init
<1>12. QED
  BY <1>8, <1>9, <1>11 DEF PowerInv

\* A step the abstract specification does not see leaves its variables alone.
LEMMA StepUnseen ==
  ASSUME Kept, Unseen
  PROVE  UNCHANGED Power!Contract!vars
BY DEF Kept, Unseen, LeftOf, Power!Contract!vars

\* Every step of a call keeps the invariant and is a step of ModPower or none.
LEMMA PowerStep ==
  ASSUME PowerInv, [Power!Next]_(Power!vars)
  PROVE  PowerInv' /\ [Power!Contract!Next]_(Power!Contract!vars)
<1>1. CASE Power!Amontifier
  BY <1>1, AmontifierStep, StepUnseen
<1>2. CASE Power!Base
  BY <1>2, BaseStep, StepUnseen
<1>3. CASE Power!One
  BY <1>3, OneStep, StepUnseen
<1>4. CASE Power!Square
  BY <1>4, SquareStep, StepUnseen
<1>5. CASE Power!Multiply
  <2> DEFINE bit == (p0 \div Power!Pow2[LeftOf - 1]) % 2
  <2>1. /\ PowerInv' /\ Kept /\ at # "done" /\ at' # "done"
        /\ LeftOf > 0 /\ LeftOf' = LeftOf - 1
        /\ Power!PowerSoFar' =
             (Power!PowerSoFar * Power!PowerSoFar
                * (IF Power!Bit(p0, LeftOf - 1) # 0 THEN a0 ELSE 1)) % m0
    BY <1>5, MultiplyStep
  <2>2. Power!Bit(p0, LeftOf - 1) # 0 <=> bit = 1
    <3>1. LeftOf - 1 \in Nat /\ p0 \in Nat
      BY <2>1, RadixOfCall DEF PowerInv, PowerTypes, LeftOf
    <3>2. Power!Pow2[LeftOf - 1] \in Nat /\ Power!Pow2[LeftOf - 1] > 0
      BY <3>1, BitPowers, BitPowersGrow
    <3>3. p0 \div Power!Pow2[LeftOf - 1] \in Int
      BY <3>1, <3>2, DivMod
    <3>4. bit \in {0, 1}
      BY <3>3
    <3>5. QED
      BY <3>4 DEF Power!Bit
  <2> HIDE DEF bit
  <2>3. Power!PowerSoFar' =
          (Power!PowerSoFar * Power!PowerSoFar * (IF bit = 1 THEN a0 ELSE 1)) % m0
    BY <2>1, <2>2
  <2>4. Power!Contract!NextBit
    BY <2>1, <2>3, BitPowers DEF Power!Contract!NextBit, Kept, LeftOf, bit
  <2>5. QED
    BY <2>1, <2>4 DEF Power!Contract!Next
<1>6. CASE Power!Mux
  BY <1>6, MuxStep, StepUnseen
<1>7. CASE Power!FromMontgomery
  BY <1>7, FromMontgomeryStep, StepUnseen
<1>8. CASE Power!CopyOut
  <2>1. /\ PowerInv' /\ Kept /\ at # "done" /\ at' = "done"
        /\ LeftOf = 0 /\ LeftOf' = 0 /\ Power!PowerSoFar' = Power!PowerSoFar
    BY <1>8, CopyOutStep
  <2>2. Power!Contract!Return
    BY <2>1 DEF Power!Contract!Return, Kept, LeftOf
  <2>3. QED
    BY <2>1, <2>2 DEF Power!Contract!Next
<1>9. CASE UNCHANGED Power!vars
  <2>1. Kept /\ buf' = buf /\ left' = left /\ at' = at
    BY <1>9 DEF Power!vars, Kept
  <2>2. Power!Radix' = Power!Radix /\ Power!Number' = Power!Number
    BY <2>1, RadixKept
  <2>3. PowerInv'
    BY <2>1, <2>2 DEF PowerInv, PowerTypes, BitsLeft, Represented, Kept
  <2>4. Power!PowerSoFar' = Power!PowerSoFar
    <3>1. at \in {"amontify", "base", "one"} \/ at \in {"square", "multiply", "demont"}
          \/ at = "mux" \/ at = "copy" \/ at = "done"
      BY DEF PowerInv, PowerTypes
    <3>2. CASE at \in {"amontify", "base", "one"}
      BY <2>1, <3>2, PowerBefore, PowerNext DEF Kept
    <3>3. CASE at \in {"square", "multiply", "demont"}
      BY <2>1, <2>2, <3>3, PowerInside, PowerNext DEF Kept
    <3>4. CASE at = "mux"
      BY <2>1, <2>2, <3>4, PowerAtMux, PowerNext DEF Kept
    <3>5. CASE at = "copy" \/ at = "done"
      BY <2>1, <3>5, PowerAfter, PowerNext DEF Kept
    <3>6. QED
      BY <3>1, <3>2, <3>3, <3>4, <3>5
  <2>5. UNCHANGED Power!Contract!vars
    BY <2>1, <2>4 DEF Kept, Power!Contract!vars
  <2>6. QED
    BY <2>3, <2>5
<1>10. CASE Power!Returned
  BY <1>9, <1>10 DEF Power!Returned
<1>11. QED
  BY <1>1, <1>2, <1>3, <1>4, <1>5, <1>6, <1>7, <1>8, <1>9, <1>10 DEF Power!Next

\* Every behaviour of a call of bignum_modexp is one of ModPower: the result is the
\* power, made one bit of the exponent at a time.
THEOREM ModexpImplements == Power!Spec => Implements
<1>1. Power!Init => PowerInv /\ Power!Contract!Init
  BY PowerInit
<1>2. PowerInv /\ [Power!Next]_(Power!vars) =>
        PowerInv' /\ [Power!Contract!Next]_(Power!Contract!vars)
  BY PowerStep
<1>3. QED
  BY <1>1, <1>2, PTL DEF Power!Spec, Implements, Power!Implements, Power!Contract!Spec

-----------------------------------------------------------------------------
(* Division: powers of two.                                                 *)

\* The powers of two: positive, and exponents add.
LEMMA TwoToFacts ==
  /\ TwoTo \in [Nat -> Nat] /\ TwoTo[0] = 1
  /\ \A k \in Nat : TwoTo[k] >= 1 /\ TwoTo[k + 1] = 2 * TwoTo[k]
<1>1. \E f : f = [t \in Nat |-> IF t = 0 THEN 1 ELSE 2 * f[t - 1]]
  <2>1. 1 \in Nat /\ 2 \in Nat
    OBVIOUS
  <2>2. QED
    BY <2>1, GeometricExists
<1>2. IsGeometric(TwoTo, 1, 2)
  BY <1>1 DEF TwoTo, IsGeometric
<1>3. TwoTo \in [Nat -> Nat] /\ TwoTo[0] = 1 /\ \A k \in Nat : TwoTo[k + 1] = 2 * TwoTo[k]
  BY <1>2, GeometricFacts
<1> DEFINE T == {k \in Nat : TwoTo[k] >= 1}
<1>4. 0 \in T /\ \A k \in T : k + 1 \in T
  BY <1>3
<1>5. T = Nat
  <2>1. T \in SUBSET Nat
    OBVIOUS
  <2> HIDE DEF T
  <2>2. QED
    BY <1>4, <2>1, InductionOnNat
<1>6. QED
  BY <1>3, <1>5

\* Exponents add: 2^(c + d) is 2^c 2^d.
LEMMA TwoToAdds ==
  ASSUME NEW cw \in Nat, NEW dw \in Nat
  PROVE  TwoTo[cw + dw] = TwoTo[cw] * TwoTo[dw]
<1> DEFINE T == {k \in Nat : TwoTo[cw + k] = TwoTo[cw] * TwoTo[k]}
<1>0. TwoTo[cw] \in Nat
  BY TwoToFacts
<1>1. 0 \in T
  <2>1. cw + 0 = cw /\ TwoTo[0] = 1
    BY TwoToFacts
  <2>2. QED
    BY <2>1, <1>0
<1>2. ASSUME NEW k \in T PROVE k + 1 \in T
  <2>1. k \in Nat /\ TwoTo[k] \in Nat /\ TwoTo[k + 1] = 2 * TwoTo[k]
        /\ TwoTo[cw + k + 1] = 2 * TwoTo[cw + k] /\ cw + k + 1 = cw + (k + 1)
    BY TwoToFacts
  <2>2. 2 * (TwoTo[cw] * TwoTo[k]) = TwoTo[cw] * (2 * TwoTo[k])
    BY <1>0, <2>1
  <2>3. QED
    BY <2>1, <2>2
<1>3. T = Nat
  <2>1. T \in SUBSET Nat
    OBVIOUS
  <2> HIDE DEF T
  <2>2. QED
    BY <1>1, <1>2, <2>1, InductionOnNat
<1>4. QED
  BY <1>3

\* A word has W bits: B^k is 2^(W k).
LEMMA PowIsTwoTo ==
  ASSUME NEW k \in Nat
  PROVE  W * k \in Nat /\ TwoTo[W * k] = Pow[k]
<1>1. W \in Nat /\ B = TwoTo[W]
  BY WordBitsAssumption
<1> DEFINE T == {jj \in Nat : TwoTo[W * jj] = Pow[jj]}
<1>2. 0 \in T
  <2>1. W * 0 = 0
    BY <1>1
  <2>2. QED
    BY <2>1, TwoToFacts, PowFacts
<1>3. ASSUME NEW jj \in T PROVE jj + 1 \in T
  <2>1. jj \in Nat /\ TwoTo[W * jj] = Pow[jj] /\ Pow[jj + 1] = B * Pow[jj]
    BY PowFacts
  <2>2. W * (jj + 1) = W + W * jj /\ W * jj \in Nat
    BY <1>1, <2>1
  <2>3. TwoTo[W + W * jj] = TwoTo[W] * TwoTo[W * jj]
    BY <1>1, <2>2, TwoToAdds
  <2>4. QED
    BY <1>1, <2>1, <2>2, <2>3
<1>4. T = Nat
  <2>1. T \in SUBSET Nat
    OBVIOUS
  <2> HIDE DEF T
  <2>2. QED
    BY <1>2, <1>3, <2>1, InductionOnNat
<1>5. W * k \in Nat
  BY <1>1
<1>6. QED
  BY <1>4, <1>5

-----------------------------------------------------------------------------
(* Division: the estimates of a quotient by a word.                         *)

\* The halves of a number, as integers.
LEMMA WordHalves ==
  ASSUME NEW v \in Int
  PROVE  Lo(v) \in Int /\ 0 <= Lo(v) /\ Lo(v) < B /\ Hi(v) \in Int /\ v = Lo(v) + B * Hi(v)
<1>1. B \in Nat /\ B > 0
  BY BaseAssumption
<1>2. v \div B \in Int /\ v % B \in Int /\ v = B * (v \div B) + (v % B) /\ 0 <= v % B /\ v % B < B
  BY <1>1, DivMod
<1>3. B * (v \div B) \in Int
  BY <1>1, <1>2
<1>4. QED
  BY <1>1, <1>2, <1>3 DEF Hi, Lo

\* The upper half of a product or sum: below how many words it is.
LEMMA HiBound ==
  ASSUME NEW v \in Int, NEW q \in Int, B * q <= v, v < B * q + B
  PROVE  Hi(v) = q /\ Lo(v) = v - B * q
<1>1. Lo(v) \in Int /\ Hi(v) \in Int /\ v = Lo(v) + B * Hi(v) /\ 0 <= Lo(v) /\ Lo(v) < B
      /\ B \in Nat /\ B > 0
  BY WordHalves, BaseAssumption
<1> DEFINE u == Hi(v)
           l == Lo(v)
           dw == u - q
<1>2. B * dw = B * u - B * q /\ dw \in Int
  BY <1>1
<1>3. l \in Int /\ u \in Int /\ v = l + B * u /\ 0 <= l /\ l < B /\ B * u \in Int /\ B * q \in Int
  BY <1>1
<1> HIDE DEF u, l
<1>4. 0 - B < B * dw /\ B * dw < B
  BY <1>1, <1>2, <1>3
<1>5. dw = 0
  <2> HIDE DEF dw
  <2>1. QED
    BY <1>1, <1>2, <1>4, NoMultipleBetween
<1>6. u = q
  BY <1>3, <1>5
<1>7. QED
  BY <1>3, <1>6 DEF u, l

\* A number below B is its own lower half.
LEMMA LoSmall ==
  ASSUME NEW v \in Int, 0 <= v, v < B
  PROVE  Hi(v) = 0 /\ Lo(v) = v
<1>1. B * 0 = 0 /\ B \in Nat
  BY BaseAssumption
<1>2. B * 0 <= v /\ v < B * 0 + B /\ 0 \in Int
  BY <1>1
<1>3. Hi(v) = 0 /\ Lo(v) = v - B * 0
  BY <1>2, HiBound
<1>4. QED
  BY <1>1, <1>3

\* A number below B^2 is two words.
LEMMA TwoWords ==
  ASSUME NEW v \in Int, 0 <= v, v < B * B
  PROVE  Two(v) = v /\ Hi(v) \in Digit
<1>1. B \in Nat /\ B > 0 /\ B * B \in Nat /\ B * B > 0
  BY BaseAssumption
<1> DEFINE S == B * B
<1>2. S \in Nat /\ S > 0 /\ v \in 0 .. (S - 1)
  BY <1>1
<1>3. v % S = v
  <2> HIDE DEF S
  <2>1. 0 \in Int /\ S * 0 + v = v
    BY <1>2
  <2>2. (S * 0 + v) % S = v
    BY <1>2, <2>1, DivUnique
  <2>3. QED
    BY <2>1, <2>2
<1>4. Lo(v) \in Int /\ Hi(v) \in Int /\ v = Lo(v) + B * Hi(v) /\ 0 <= Lo(v) /\ Lo(v) < B
  BY WordHalves
<1> DEFINE u == Hi(v)
           l == Lo(v)
<1>9. l \in Int /\ u \in Int /\ v = l + B * u /\ 0 <= l /\ l < B
  BY <1>4
<1> HIDE DEF u, l
<1>5. u \in Int /\ B * u <= v /\ v < B * u + B /\ B * u \in Int
  <2>1. B * u \in Int
    BY <1>1, <1>9
  <2>2. QED
    BY <1>1, <1>9, <2>1
<1>6. u >= 0
  <2>1. SUFFICES ASSUME u < 0 PROVE FALSE
    BY <1>5
  <2>2. u <= 0 - 1 /\ B * u <= B * (0 - 1) /\ B * (0 - 1) = 0 - B
    BY <1>1, <1>5, <2>1
  <2>3. QED
    BY <1>1, <1>5, <2>2
<1>7. u < B
  <2>1. SUFFICES ASSUME u >= B PROVE FALSE
    BY <1>1, <1>5
  <2>2. B * u >= B * B
    BY <1>1, <1>5, <2>1
  <2>3. QED
    BY <1>1, <1>5, <2>2
<1>8. QED
  BY <1>1, <1>3, <1>5, <1>6, <1>7 DEF u, Two, Digit

\* The reciprocal of a normalized word exists, and is the one of the interface.
LEMMA ReciprocalIs ==
  ASSUME NEW f \in Int, B <= 2 * f, f < B
  PROVE  /\ Recip(f) \in Digit /\ f * (B + Recip(f)) < B * B
         /\ B * B <= f * (B + Recip(f)) + f
         /\ Recip(f) = word_recip(f)
<1> DEFINE S == B * B
           q == (S - 1) \div f
           r == (S - 1) % f
<1>1. B \in Nat /\ B >= 2 /\ S \in Int /\ f \in Nat /\ f > 0
  BY BaseAssumption
<1>2. q \in Int /\ r \in Int /\ S - 1 = f * q + r /\ 0 <= r /\ r < f
  <2> HIDE DEF S
  <2>1. S - 1 \in Int
    BY <1>1
  <2>2. QED
    BY <1>1, <2>1, DivMod
<1>3. f * q \in Int /\ f * q < S /\ S <= f * q + f
  <2>1. f * q \in Int
    BY <1>1, <1>2
  <2> HIDE DEF S, q, r
  <2>2. QED
    BY <1>1, <1>2, <2>1
<1> HIDE DEF q, r
<1>4. q >= B
  <2>1. SUFFICES ASSUME q <= B - 1 PROVE FALSE
    BY <1>1, <1>2
  <2>2. f * q <= f * (B - 1) /\ f * (B - 1) = f * B - f /\ f * B <= (B - 1) * B /\ (B - 1) * B = S - B
    BY <1>1, <1>2, <2>1
  <2>3. f * q \in Int /\ f * B \in Int /\ S \in Int
    BY <1>1, <1>2
  <2> HIDE DEF S
  <2>4. QED
    BY <1>1, <1>3, <2>2, <2>3
<1>5. q < 2 * B
  <2>1. SUFFICES ASSUME q >= 2 * B PROVE FALSE
    BY <1>1, <1>2
  <2>2. f * q >= f * (2 * B) /\ f * (2 * B) = (2 * f) * B /\ (2 * f) * B >= B * B
    BY <1>1, <1>2, <2>1
  <2>3. QED
    BY <1>1, <1>2, <1>3, <2>2
<1> DEFINE w0 == q - B
<1>6. w0 \in Digit /\ B + w0 = q /\ f * (B + w0 + 1) = f * q + f
  <2>1. w0 \in Int /\ 0 <= w0 /\ w0 <= B - 1 /\ B + w0 = q
    BY <1>1, <1>2, <1>4, <1>5
  <2>2. B + w0 + 1 = q + 1 /\ f * (q + 1) = f * q + f
    BY <1>1, <1>2, <2>1
  <2>3. QED
    BY <1>1, <2>1, <2>2 DEF Digit
<1>7. \E rw \in Digit : f * (B + rw) < B * B /\ f * (B + rw + 1) >= B * B
  BY <1>3, <1>6
<1> DEFINE rw == Recip(f)
<1>8. rw \in Digit /\ f * (B + rw) < B * B /\ f * (B + rw + 1) >= B * B
  BY <1>7 DEF Recip
<1> HIDE DEF rw
<1>9. rw \in Int /\ f * (B + rw + 1) = f * (B + rw) + f /\ f * (B + rw) \in Int
  <2>1. rw \in Int /\ B + rw \in Int
    BY <1>1, <1>8 DEF Digit
  <2> DEFINE u == B + rw
  <2>2. u \in Int /\ f * (u + 1) = f * u + f /\ f * u \in Int
    BY <1>1, <2>1
  <2>3. QED
    BY <2>1, <2>2
<1>10. B + rw = q
  <2> DEFINE u == B + rw
             s == (S - 1) - f * u
  <2>1. u \in Int /\ s \in 0 .. (f - 1) /\ f * u + s = S - 1
    <3>1. u \in Int /\ f * u \in Int /\ f * u < S /\ S <= f * u + f
      BY <1>1, <1>8, <1>9
    <3> HIDE DEF u, S
    <3>2. QED
      BY <1>1, <3>1
  <2> HIDE DEF u, s
  <2>2. (f * u + s) \div f = u
    BY <1>1, <2>1, DivUnique
  <2>3. u = q
    BY <2>1, <2>2 DEF q
  <2>4. QED
    BY <2>3 DEF u
<1>11. rw = word_recip(f)
  <2>1. rw = q - B
    BY <1>1, <1>2, <1>9, <1>10
  <2>2. QED
    BY <2>1 DEF q, word_recip
<1>12. QED
  BY <1>8, <1>9, <1>11 DEF rw

\* Numbers a multiple of n apart are congruent.
LEMMA ApartBy ==
  ASSUME NEW n1 \in Nat, NEW x \in Int, NEW y \in Int, NEW q \in Int, x = y + n1 * q
  PROVE  Congruent(x, y, n1)
BY DEF Congruent

\* One word more: the two words stay two words and congruent to the number so far.
LEMMA ModstepRight ==
  ASSUME NEW f \in Nat, f > 0, NEW v \in Int, 0 <= v, v < B * B, NEW dw \in Digit,
         NEW r \in Digit, Congruent(r, B * B, f)
  PROVE  /\ Modstep(v, dw, r) \in Int /\ 0 <= Modstep(v, dw, r) /\ Modstep(v, dw, r) < B * B
         /\ Congruent(Modstep(v, dw, r), B * v + dw, f)
<1> DEFINE vh == Hi(v)
           vl == Lo(v)
           P == r * vh
           ph == Hi(P)
           pl == Lo(P)
           b == pl + dw
           bh == Hi(b)
           bl == Lo(b)
           t == ph + vl + bh
           th == Hi(t)
           tl == Lo(t)
           R == B * tl + bl + Under(th # 0, r)
<1>0. B \in Nat /\ B >= 2 /\ dw \in Int /\ 0 <= dw /\ dw < B /\ r \in Int /\ 0 <= r /\ r < B
  BY BaseAssumption DEF Digit
<1>1. /\ vh \in Int /\ 0 <= vh /\ vh < B /\ vl \in Int /\ 0 <= vl /\ vl < B /\ v = vl + B * vh
  <2>1. Hi(v) \in Digit
    BY TwoWords
  <2>2. QED
    BY <1>0, <2>1, WordHalves DEF Digit
<1>2. Modstep(v, dw, r) = Two(R)
  BY DEF Modstep
<1> HIDE DEF vh, vl
<1>3. P \in Int /\ 0 <= P /\ P <= (B - 1) * (B - 1)
  <2>1. r * vh <= r * (B - 1) /\ r * (B - 1) <= (B - 1) * (B - 1)
    BY <1>0, <1>1
  <2>2. r * vh \in Int /\ 0 <= r * vh
    BY <1>0, <1>1
  <2>3. r * (B - 1) \in Int /\ (B - 1) * (B - 1) \in Int
    BY <1>0
  <2>4. QED
    BY <2>1, <2>2, <2>3
<1> DEFINE S == B * B
<1>4. S \in Int /\ (B - 1) * (B - 1) = S - 2 * B + 1
  BY <1>0
<1>5. /\ ph \in Int /\ pl \in Int /\ 0 <= pl /\ pl < B /\ P = pl + B * ph
  <2> HIDE DEF P
  <2>1. QED
    BY <1>3, WordHalves
<1> HIDE DEF P, ph, pl
<1>6. 0 <= ph /\ ph <= B - 2
  <2>1. B * ph \in Int /\ B * ph <= S - 2 * B + 1 /\ B * ph > 0 - B
    <3>1. B * ph \in Int
      BY <1>0, <1>5
    <3> HIDE DEF S
    <3>2. QED
      BY <1>0, <1>3, <1>4, <1>5, <3>1
  <2>2. ph >= 0
    <3>1. SUFFICES ASSUME ph <= 0 - 1 PROVE FALSE
      BY <1>5
    <3>2. B * ph <= B * (0 - 1) /\ B * (0 - 1) = 0 - B
      BY <1>0, <1>5, <3>1
    <3>3. QED
      BY <1>0, <2>1, <3>2
  <2>3. ph <= B - 2
    <3>1. SUFFICES ASSUME ph >= B - 1 PROVE FALSE
      BY <1>0, <1>5
    <3>2. B * ph >= B * (B - 1) /\ B * (B - 1) = S - B
      BY <1>0, <1>5, <3>1
    <3> HIDE DEF S
    <3>3. QED
      BY <1>0, <1>4, <2>1, <3>2
  <2>4. QED
    BY <2>2, <2>3
<1>7. b \in Int /\ 0 <= b /\ b < 2 * B
  BY <1>0, <1>5
<1>8. bl \in Int /\ bh \in Int /\ 0 <= bl /\ bl < B /\ b = bl + B * bh
  <2> HIDE DEF b
  <2>1. QED
    BY <1>7, WordHalves
<1>9. bh \in {0, 1} /\ b = bl + B * bh
  <2> HIDE DEF bl
  <2>1. CASE b < B
    <3>1. B * 0 = 0 /\ B * 0 <= b /\ b < B * 0 + B
      BY <1>0, <1>7, <2>1
    <3>2. bh = 0
      <4> HIDE DEF b
      <4>1. QED
        BY <1>7, <3>1, HiBound
    <3>3. QED
      BY <1>8, <3>2
  <2>2. CASE b >= B
    <3>1. B * 1 = B /\ B * 1 <= b /\ b < B * 1 + B
      BY <1>0, <1>7, <2>2
    <3>2. bh = 1
      <4> HIDE DEF b
      <4>1. QED
        BY <1>7, <3>1, HiBound
    <3>3. QED
      BY <1>8, <3>2
  <2>3. QED
    BY <1>0, <1>7, <2>1, <2>2
<1>10. b = pl + dw
  OBVIOUS
<1> HIDE DEF b, bl, bh
<1>11. t \in Int /\ 0 <= t /\ t <= 2 * B - 2 /\ t = ph + vl + bh
  BY <1>0, <1>1, <1>5, <1>6, <1>9
<1>12. B * t = B * ph + B * vl + B * bh /\ B * ph \in Int /\ B * vl \in Int /\ B * bh \in Int
  BY <1>0, <1>1, <1>5, <1>8
<1>13. B * t + bl = P + B * vl + dw
  BY <1>0, <1>1, <1>5, <1>8, <1>10, <1>12
<1>14. B * v + dw = S * vh + B * vl + dw /\ S * vh \in Int
  BY <1>0, <1>1
<1>15. P = r * vh
  BY DEF P
<1>16. PICK g \in Int : r - S = f * g
  <2>1. PICK g \in Int : r = B * B + f * g
    BY DEF Congruent
  <2>2. f * g \in Int
    BY <2>1
  <2>3. r - S = f * g
    BY <1>0, <2>1, <2>2
  <2>4. QED
    BY <2>1, <2>3
<1> HIDE DEF t
<1>20. CASE t < B
  <2>1. th = 0 /\ tl = t
    BY <1>11, <1>20, LoSmall
  <2>2. R = B * t + bl
    BY <1>0, <1>8, <1>11, <2>1 DEF Under
  <2>3. R \in Int /\ 0 <= R /\ R < S
    <3>1. B * t \in Int /\ 0 <= B * t /\ B * t <= B * (B - 1) /\ B * (B - 1) = S - B
      BY <1>0, <1>11, <1>20
    <3> HIDE DEF S, R
    <3>2. QED
      BY <1>0, <1>4, <1>8, <2>2, <3>1
  <2>4. Modstep(v, dw, r) = R
    <3> HIDE DEF R
    <3>1. QED
      BY <1>2, <2>3, TwoWords
  <2>5. R = (B * v + dw) + f * (g * vh)
    <3>1. (r - S) * vh = P - S * vh
      BY <1>0, <1>1, <1>4, <1>15
    <3>2. (f * g) * vh = f * (g * vh) /\ f * (g * vh) \in Int
      BY <1>1, <1>16
    <3>3. f * (g * vh) = P - S * vh
      BY <1>16, <3>1, <3>2
    <3> DEFINE p1 == S * vh
               p2 == B * vl
               p3 == f * (g * vh)
    <3>4. p1 \in Int /\ p2 \in Int /\ p3 = P - p1 /\ B * v + dw = p1 + p2 + dw /\ R = P + p2 + dw
      <4> HIDE DEF R, S
      <4>1. QED
        BY <1>12, <1>13, <1>14, <2>2, <3>3
    <3> HIDE DEF R, p1, p2, p3
    <3>5. R = (B * v + dw) + p3
      BY <1>0, <1>3, <3>4
    <3>6. QED
      BY <3>5 DEF p3
  <2>6. Congruent(R, B * v + dw, f)
    <3>1. g * vh \in Int /\ B * v + dw \in Int
      BY <1>0, <1>1, <1>16
    <3> HIDE DEF R
    <3>2. QED
      BY <2>3, <2>5, <3>1, ApartBy
  <2>7. QED
    BY <2>3, <2>4, <2>6
<1>21. CASE t >= B
  <2>1. th = 1 /\ tl = t - B
    <3>1. B * 1 = B /\ B * 1 <= t /\ t < B * 1 + B /\ 1 \in Int
      BY <1>0, <1>11, <1>21
    <3>2. QED
      BY <1>11, <3>1, HiBound
  <2>2. R = B * (t - B) + bl + r
    BY <1>0, <1>8, <1>11, <2>1 DEF Under
  <2>3. B * (t - B) = B * t - S /\ B * t \in Int /\ B * (t - B) >= 0
        /\ B * (t - B) <= B * (B - 2) /\ B * (B - 2) = S - 2 * B
    <3>1. t - B \in Int /\ 0 <= t - B /\ t - B <= B - 2
      BY <1>0, <1>11, <1>21
    <3>2. B * (t - B) = B * t - S /\ B * (B - 2) = S - 2 * B
      BY <1>0, <1>11
    <3>3. B * (t - B) >= 0 /\ B * (t - B) <= B * (B - 2)
      BY <1>0, <3>1
    <3>4. QED
      BY <1>0, <1>11, <3>2, <3>3
  <2>4. R \in Int /\ 0 <= R /\ R < S
    <3> HIDE DEF S, R
    <3>1. B * (t - B) \in Int
      BY <1>0, <1>4, <2>3
    <3>2. QED
      BY <1>0, <1>4, <1>8, <2>2, <2>3, <3>1
  <2>5. Modstep(v, dw, r) = R
    <3> HIDE DEF R
    <3>1. QED
      BY <1>2, <2>4, TwoWords
  <2>6. R = (B * v + dw) + f * (g * (vh + 1))
    <3>1. (r - S) * (vh + 1) = P - S * vh + r - S
      BY <1>0, <1>1, <1>4, <1>15
    <3>2. (f * g) * (vh + 1) = f * (g * (vh + 1)) /\ f * (g * (vh + 1)) \in Int
      BY <1>1, <1>16
    <3>3. f * (g * (vh + 1)) = (P - S * vh) + (r - S)
      <4>1. S * vh \in Int
        BY <1>14
      <4> HIDE DEF S
      <4>2. QED
        BY <1>0, <1>3, <1>4, <1>16, <3>1, <3>2, <4>1
    <3> HIDE DEF R, S
    <3>4. QED
      BY <1>0, <1>1, <1>3, <1>4, <1>8, <1>12, <1>13, <1>14, <2>2, <2>3, <3>2, <3>3
  <2>7. Congruent(R, B * v + dw, f)
    <3>1. g * (vh + 1) \in Int /\ B * v + dw \in Int
      BY <1>0, <1>1, <1>16
    <3> HIDE DEF R
    <3>2. QED
      BY <2>4, <2>6, <3>1, ApartBy
  <2>8. QED
    BY <2>4, <2>5, <2>7
<1>22. QED
  BY <1>0, <1>11, <1>20, <1>21

\* A quotient between two bounds in words is below a number of words.
LEMMA HiBelow ==
  ASSUME NEW v \in Int, NEW q \in Int, 0 <= v, v < B * q
  PROVE  Hi(v) \in Int /\ 0 <= Hi(v) /\ Hi(v) < q
<1>1. B \in Nat /\ B > 0
  BY BaseAssumption
<1> DEFINE u == Hi(v)
           l == Lo(v)
<1>2. l \in Int /\ u \in Int /\ v = l + B * u /\ 0 <= l /\ l < B
  BY WordHalves
<1> HIDE DEF u, l
<1>3. B * u \in Int /\ B * u <= v /\ v < B * u + B
  BY <1>1, <1>2
<1>4. u >= 0
  <2>1. SUFFICES ASSUME u <= 0 - 1 PROVE FALSE
    BY <1>2
  <2>2. B * u <= B * (0 - 1) /\ B * (0 - 1) = 0 - B
    BY <1>1, <1>2, <2>1
  <2>3. QED
    BY <1>1, <1>3, <2>2
<1>5. u < q
  <2>1. SUFFICES ASSUME u >= q PROVE FALSE
    BY <1>2
  <2>2. B * u >= B * q /\ B * q \in Int
    BY <1>1, <1>2, <2>1
  <2>3. QED
    BY <1>3, <2>2
<1>6. QED
  BY <1>2, <1>4, <1>5 DEF u

\* The estimate of a two-word quotient takes all but three divisors off.
LEMMA EstimateRight ==
  ASSUME NEW f \in Int, B <= 2 * f, f < B, NEW v \in Int, 0 <= v, v < B * B
  PROVE  LET cw == Hi(Recip(f) * Hi(v)) + Hi(v)
         IN  /\ cw \in Int /\ 0 <= cw /\ cw < 2 * B
             /\ 0 <= v - cw * f /\ v - cw * f < B + 2 * f
<1> DEFINE rw == Recip(f)
           S == B * B
           q == B + rw
<1>1. rw \in Digit /\ f * (B + rw) < B * B /\ B * B <= f * (B + rw) + f
  BY ReciprocalIs
<1>2. B \in Nat /\ B >= 2 /\ S \in Int /\ f > 0
  BY BaseAssumption
<1>3. rw \in Int /\ 0 <= rw /\ rw < B
  BY <1>1, <1>2 DEF Digit
<1> HIDE DEF rw
<1>4. q \in Int /\ f * q \in Int /\ f * q < S /\ S <= f * q + f
  BY <1>1, <1>2, <1>3
<1> DEFINE vh == Hi(v)
           vl == Lo(v)
           P == rw * vh
           cw == Hi(P) + vh
<1>5. vh \in Int /\ 0 <= vh /\ vh < B /\ vl \in Int /\ 0 <= vl /\ vl < B /\ v = vl + B * vh
  <2>1. Hi(v) \in Digit
    BY TwoWords
  <2>2. QED
    BY <1>2, <2>1, WordHalves DEF Digit
<1> HIDE DEF vh, vl
<1>6. P \in Int /\ 0 <= P /\ P <= B * vh /\ B * vh \in Int
  <2>1. P <= B * vh
    BY <1>2, <1>3, <1>5
  <2>2. P >= 0 /\ P \in Int
    BY <1>2, <1>3, <1>5
  <2>3. QED
    BY <1>2, <1>5, <2>1, <2>2
<1> DEFINE ph == Hi(P)
           pl == Lo(P)
<1>7. pl \in Int /\ 0 <= pl /\ pl < B /\ ph \in Int /\ P = pl + B * ph
  <2> HIDE DEF P
  <2>1. QED
    BY <1>6, WordHalves
<1>8. ph >= 0 /\ ph < B
  <2>1. P < B * B
    <3>1. B * vh <= B * (B - 1) /\ B * (B - 1) = B * B - B
      BY <1>2, <1>5
    <3>2. B * B \in Int
      BY <1>2
    <3> HIDE DEF P
    <3>3. QED
      BY <1>2, <1>6, <3>1, <3>2
  <2>2. B \in Int
    BY <1>2
  <2> HIDE DEF P
  <2>3. QED
    BY <1>6, <2>1, <2>2, HiBelow
<1>9. cw = ph + vh /\ q * vh = P + B * vh /\ q * vh \in Int
  BY <1>2, <1>3, <1>5
<1> HIDE DEF ph, pl, P, cw
<1>10. cw \in Int /\ 0 <= cw /\ cw < 2 * B
  BY <1>2, <1>5, <1>7, <1>8, <1>9
<1>11. B * cw = B * ph + B * vh /\ B * ph \in Int /\ B * vh \in Int /\ B * cw \in Int
  BY <1>2, <1>5, <1>7, <1>9, <1>10
<1>12. B * cw <= q * vh /\ q * vh < B * cw + B
  BY <1>2, <1>6, <1>7, <1>9, <1>11
<1> DEFINE cm == cw * f
           dw == B * vh - cm
<1>13. cm \in Int /\ dw \in Int
  BY <1>2, <1>10, <1>11
<1> DEFINE p1 == (B * cw) * f
           p2 == (q * vh) * f
           p3 == f * vh
           p4 == S * vh
           p5 == B * f
<1>14. p1 \in Int /\ p2 \in Int /\ p3 \in Int /\ p4 \in Int /\ p5 \in Int
  BY <1>2, <1>4, <1>5, <1>9, <1>10
<1>15. p1 <= p2 /\ p2 <= p1 + p5 - f
  <2> DEFINE u == q * vh
             t == B * cw
  <2>1. t \in Int /\ u \in Int /\ t <= u /\ u <= t + B - 1
    BY <1>2, <1>9, <1>11, <1>12
  <2> HIDE DEF t, u
  <2>2. t * f <= u * f /\ u * f <= (t + B - 1) * f
    BY <1>2, <2>1
  <2>3. (t + B - 1) * f = t * f + B * f - f
    BY <1>2, <2>1
  <2>4. QED
    BY <1>2, <2>2, <2>3 DEF t, u
<1>16. p2 <= p4 /\ p4 <= p2 + p3
  <2>1. p2 = (f * q) * vh
    BY <1>2, <1>4, <1>5
  <2> HIDE DEF S, q
  <2> DEFINE u == f * q
  <2>2. u \in Int /\ u <= S /\ S <= u + f
    BY <1>2, <1>4
  <2> HIDE DEF u
  <2>3. u * vh <= S * vh /\ S * vh <= (u + f) * vh /\ (u + f) * vh = u * vh + f * vh
    BY <1>2, <1>5, <2>2
  <2>4. QED
    BY <2>1, <2>3 DEF u
<1>17. p4 - p1 = B * dw
  <2>1. B * dw = B * (B * vh) - B * cm
    BY <1>2, <1>11, <1>13
  <2>2. B * (B * vh) = p4 /\ B * cm = p1
    BY <1>2, <1>5, <1>10
  <2>3. QED
    BY <2>1, <2>2
<1>18. p3 <= p5 - f
  <2>1. f * vh <= f * (B - 1) /\ f * (B - 1) = B * f - f
    BY <1>2, <1>5
  <2>2. QED
    BY <2>1
<1> HIDE DEF S, q, p1, p2, p3, p4, p5
<1> HIDE DEF dw
<1>19. B * dw >= 0 /\ B * dw <= 2 * p5 - 2 * f /\ B * dw \in Int
  BY <1>2, <1>13, <1>14, <1>15, <1>16, <1>17, <1>18
<1>20. dw >= 0
  <2>1. SUFFICES ASSUME dw <= 0 - 1 PROVE FALSE
    BY <1>13
  <2>2. B * dw <= B * (0 - 1) /\ B * (0 - 1) = 0 - B
    BY <1>2, <1>13, <2>1
  <2>3. QED
    BY <1>2, <1>19, <2>2
<1>21. dw < 2 * f
  <2>1. SUFFICES ASSUME dw >= 2 * f PROVE FALSE
    BY <1>2, <1>13
  <2>2. B * dw >= B * (2 * f) /\ B * (2 * f) = 2 * p5
    BY <1>2, <1>13, <2>1 DEF p5
  <2>3. QED
    BY <1>2, <1>14, <1>19, <2>2
<1>22. v - cm = vl + dw
  BY <1>5, <1>11, <1>13 DEF dw
<1>23. 0 <= v - cm /\ v - cm < B + 2 * f
  <2> HIDE DEF cm
  <2>1. QED
    BY <1>2, <1>5, <1>13, <1>20, <1>21, <1>22
<1>24. QED
  BY <1>10, <1>23 DEF cw, cm, ph, P, vh, rw

\* Two words to one, modulo the divisor.
LEMMA OnewordRight ==
  ASSUME NEW f \in Int, B <= 2 * f, f < B, NEW v \in Int, 0 <= v, v < B * B
  PROVE  Oneword(v, f, Recip(f)) \in Digit /\ Congruent(Oneword(v, f, Recip(f)), v, f)
<1> DEFINE rw == Recip(f)
           cw == Hi(rw * Hi(v)) + Hi(v)
           cm == cw * f
           U == v - Lo(cw) * f - Under(Hi(cw) # 0, B * f)
           u == v - cm
           V == u - Under(Hi(u) # 0, f)
           X == V - Under(Hi(V) # 0, f)
<1>1. B \in Nat /\ B >= 2 /\ f \in Nat /\ f > 0
  BY BaseAssumption
<1>2. cw \in Int /\ 0 <= cw /\ cw < 2 * B /\ 0 <= u /\ u < B + 2 * f
  <2> HIDE DEF rw
  <2>1. LET k == Hi(Recip(f) * Hi(v)) + Hi(v)
        IN  /\ k \in Int /\ 0 <= k /\ k < 2 * B
            /\ 0 <= v - k * f /\ v - k * f < B + 2 * f
    BY EstimateRight
  <2>2. QED
    BY <2>1 DEF rw
<1>3. Oneword(v, f, rw) = LET u0 == Two(U)
                             u1 == Two(u0 - Under(Hi(u0) # 0, f))
                         IN  Lo(u1 - Under(Hi(u1) # 0, f))
  BY DEF Oneword
<1> HIDE DEF rw, cw
<1>4. U = u
  <2>1. CASE cw < B
    <3>1. Hi(cw) = 0 /\ Lo(cw) = cw
      BY <1>2, <2>1, LoSmall
    <3>2. cw * f \in Int
      BY <1>1, <1>2
    <3>3. QED
      BY <3>1, <3>2 DEF Under
  <2>2. CASE cw >= B
    <3>1. B * 1 = B /\ B * 1 <= cw /\ cw < B * 1 + B /\ 1 \in Int
      BY <1>1, <1>2, <2>2
    <3>2. Hi(cw) = 1 /\ Lo(cw) = cw - B * 1
      BY <1>2, <3>1, HiBound
    <3>3. Hi(cw) = 1 /\ Lo(cw) = cw - B
      BY <3>1, <3>2
    <3>4. (cw - B) * f = cw * f - B * f /\ cw * f \in Int /\ B * f \in Int
      BY <1>1, <1>2
    <3>5. U = v - (cw - B) * f - B * f
      BY <3>3 DEF Under
    <3>6. QED
      BY <3>4, <3>5
  <2>3. QED
    BY <1>1, <1>2, <2>1, <2>2
<1>5. u \in Int /\ u < B * B
  <2>1. cm \in Int
    BY <1>1, <1>2
  <2>2. B + 2 * f <= 3 * B - 2 /\ (B - 1) * (B - 2) = B * B - 3 * B + 2 /\ (B - 1) * (B - 2) >= 0
    BY <1>1
  <2>3. B * B \in Int
    BY <1>1
  <2> HIDE DEF cm
  <2>4. QED
    BY <1>1, <1>2, <2>1, <2>2, <2>3
<1>6. Two(u) = u
  <2> HIDE DEF u
  <2>1. QED
    BY <1>2, <1>5, TwoWords
<1>7. u = v + f * (0 - cw)
  <2>1. f * (0 - cw) = 0 - cw * f /\ cw * f \in Int
    BY <1>1, <1>2
  <2>2. QED
    BY <2>1
<1> HIDE DEF u, U
<1>8. V \in Int /\ 0 <= V /\ V < B + f /\ \E b \in {0, 1} : V = u - b * f
  <2>1. CASE u < B
    <3>1. Hi(u) = 0
      BY <1>2, <1>5, <2>1, LoSmall
    <3>2. V = u - 0 * f /\ V = u
      BY <1>1, <1>5, <3>1 DEF Under
    <3>3. QED
      BY <1>1, <1>2, <1>5, <2>1, <3>2
  <2>2. CASE u >= B
    <3>1. Hi(u) # 0
      BY <1>1, <1>2, <1>5, <2>2, WordHalves
    <3>2. V = u - 1 * f /\ V = u - f
      BY <1>1, <1>5, <3>1 DEF Under
    <3>3. QED
      BY <1>1, <1>2, <1>5, <2>2, <3>2
  <2>3. QED
    BY <1>1, <1>5, <2>1, <2>2
<1>9. V < B * B
  <2>1. B + f <= 2 * B - 1 /\ 2 * B <= B * B /\ B * B \in Int
    BY <1>1
  <2> HIDE DEF V
  <2>2. QED
    BY <1>1, <1>8, <2>1
<1>10. Two(V) = V
  <2> HIDE DEF V
  <2>1. QED
    BY <1>8, <1>9, TwoWords
<1>11. PICK b1 \in {0, 1} : V = u - b1 * f
  BY <1>8
<1>12. V \in Int /\ 0 <= V /\ V < B + f
  BY <1>8
<1>13. Oneword(v, f, rw) = Lo(X)
  BY <1>3, <1>4, <1>6, <1>10
<1> HIDE DEF V
<1>14. X \in Int /\ 0 <= X /\ X < B /\ \E b \in {0, 1} : X = V - b * f
  <2>1. CASE V < B
    <3>1. Hi(V) = 0
      BY <1>12, <2>1, LoSmall
    <3>2. X = V - 0 * f /\ X = V
      BY <1>1, <1>12, <3>1 DEF Under
    <3>3. QED
      BY <1>1, <1>12, <2>1, <3>2
  <2>2. CASE V >= B
    <3>1. Hi(V) # 0
      BY <1>1, <1>12, <2>2, WordHalves
    <3>2. X = V - 1 * f /\ X = V - f
      BY <1>1, <1>12, <3>1 DEF Under
    <3>3. QED
      BY <1>1, <1>12, <2>2, <3>2
  <2>3. QED
    BY <1>1, <1>12, <2>1, <2>2
<1>15. PICK b2 \in {0, 1} : X = V - b2 * f
  BY <1>14
<1>16. X \in Int /\ 0 <= X /\ X < B
  BY <1>14
<1> HIDE DEF X
<1>17. Lo(X) = X
  BY <1>16, LoSmall
<1> DEFINE g == 0 - cw - b1 - b2
<1>18. g \in Int /\ X = v + f * g
  <2>1. b1 \in Int /\ b2 \in Int
    OBVIOUS
  <2>2. f * g = f * (0 - cw) - b1 * f - b2 * f
    BY <1>1, <1>2, <2>1
  <2>3. f * (0 - cw) \in Int /\ b1 * f \in Int /\ b2 * f \in Int
    BY <1>1, <1>2, <2>1
  <2>4. X = v + f * (0 - cw) - b1 * f - b2 * f
    <3> DEFINE p1 == f * (0 - cw)
               p2 == b1 * f
               p3 == b2 * f
    <3>1. /\ p1 \in Int /\ p2 \in Int /\ p3 \in Int /\ u = v + p1 /\ V = u - p2 /\ X = V - p3
          /\ u \in Int /\ V \in Int
      BY <1>5, <1>7, <1>11, <1>12, <1>15, <2>3
    <3> HIDE DEF p1, p2, p3
    <3>2. X = v + p1 - p2 - p3
      BY <3>1
    <3>3. QED
      BY <3>2 DEF p1, p2, p3
  <2>5. QED
    BY <1>2, <2>1, <2>2, <2>3, <2>4
<1>19. Congruent(X, v, f)
  <2> HIDE DEF g
  <2>1. QED
    BY <1>1, <1>16, <1>18, ApartBy
<1>20. X \in Digit
  BY <1>1, <1>16 DEF Digit
<1>21. QED
  BY <1>13, <1>17, <1>19, <1>20 DEF rw

\* The complement of the product of a divisor and its reciprocal is 2^128 modulo
\* the divisor.
LEMMA ResidueRight ==
  ASSUME NEW f \in Int, B <= 2 * f, f < B
  PROVE  Lo(-(Recip(f) * f)) \in Digit /\ Congruent(Lo(-(Recip(f) * f)), B * B, f)
<1> DEFINE rw == Recip(f)
           S == B * B
           q == B + rw
           r == S - f * q
           v == -(rw * f)
<1>1. rw \in Digit /\ f * q < S /\ S <= f * q + f
  BY ReciprocalIs
<1>2. B \in Nat /\ B >= 2 /\ S \in Int /\ f \in Nat /\ f > 0
  BY BaseAssumption
<1>3. rw \in Int
  BY <1>1, <1>2 DEF Digit
<1> HIDE DEF rw
<1>4. q \in Int /\ f * q \in Int
  BY <1>2, <1>3
<1>5. r \in Int /\ 0 < r /\ r <= f
  <2> HIDE DEF S, q
  <2>1. QED
    BY <1>1, <1>2, <1>4
<1> DEFINE e == f - B
<1>6. v \in Int /\ v = r + B * e /\ e \in Int /\ B * e \in Int
  <2>1. f * q = f * B + rw * f /\ B * e = B * f - S /\ f * B = B * f
    BY <1>2, <1>3
  <2>2. f * B \in Int /\ rw * f \in Int
    BY <1>2, <1>3
  <2>3. B * e \in Int /\ e \in Int
    BY <1>2
  <2> DEFINE p1 == rw * f
             p2 == f * B
             p3 == B * e
             p4 == f * q
  <2>4. p4 = p2 + p1 /\ p3 = p2 - S /\ p1 \in Int /\ p2 \in Int /\ r = S - p4
        /\ v = -p1 /\ S \in Int
    BY <1>2, <2>1, <2>2
  <2> HIDE DEF p1, p2, p3, p4, S, r, v
  <2>5. v = r + p3 /\ v \in Int
    BY <2>4
  <2>6. QED
    BY <2>3, <2>5 DEF p3
<1>7. r = S + f * (0 - q) /\ 0 - q \in Int
  <2>1. f * (0 - q) = 0 - f * q
    BY <1>2, <1>4
  <2> HIDE DEF S, q
  <2>2. QED
    BY <1>2, <1>4, <2>1
<1> HIDE DEF r, v, e
<1>8. Lo(v) = r
  <2>1. B * e <= v /\ v < B * e + B
    BY <1>2, <1>5, <1>6
  <2>2. Lo(v) = v - B * e
    BY <1>6, <2>1, HiBound
  <2>3. QED
    BY <1>5, <1>6, <2>2
<1>9. Congruent(r, S, f)
  <2> HIDE DEF S, q
  <2>1. QED
    BY <1>2, <1>5, <1>7, ApartBy
<1>10. r \in Digit
  BY <1>2, <1>5 DEF Digit
<1>11. QED
  BY <1>8, <1>9, <1>10 DEF rw, v

\* One word modulo the divisor.
LEMMA FinalRight ==
  ASSUME NEW k \in Nat, k > 0, NEW e \in 0 .. (W - 1), k * TwoTo[e] < B, B <= 2 * (k * TwoTo[e]),
         NEW l \in Digit
  PROVE  Final(l, k, e, Recip(k * TwoTo[e])) = l % k
<1> DEFINE t == TwoTo[e]
           f == k * t
           rw == Recip(f)
           S == B * B
           E == TwoTo[W - 1 - e]
           D == 2 * E
           q == B + rw
           P == rw * l
           cw == Hi(P) + l
           c1 == cw \div 2
           zq == c1 \div E
           R == l - zq * k
<1>1. B \in Nat /\ B >= 2 /\ S \in Int /\ W \in Nat /\ e \in Nat /\ W - 1 - e \in Nat /\ l \in Int /\ 0 <= l /\ l < B
  BY BaseAssumption, WordBitsAssumption DEF Digit
<1>2. t \in Nat /\ t >= 1 /\ E \in Nat /\ E >= 1 /\ D * t = B
  <2>1. TwoTo[e] \in Nat /\ TwoTo[e] >= 1 /\ TwoTo[W - 1 - e] \in Nat /\ TwoTo[W - 1 - e] >= 1
    BY <1>1, TwoToFacts
  <2>2. TwoTo[(W - 1 - e) + 1] = 2 * TwoTo[W - 1 - e]
    BY <1>1, TwoToFacts
  <2> DEFINE jj == (W - 1 - e) + 1
  <2>3. jj \in Nat /\ jj + e = W
    BY <1>1
  <2>4. TwoTo[jj + e] = TwoTo[jj] * TwoTo[e]
    BY <1>1, <2>3, TwoToAdds
  <2>5. QED
    BY <2>1, <2>2, <2>3, <2>4, WordBitsAssumption
<1> HIDE DEF t, E
<1>3. f \in Int /\ f >= 1 /\ f < B /\ B <= 2 * f
  <2>1. f \in Int /\ k * t >= k
    BY <1>2
  <2>2. f < B /\ B <= 2 * f
    BY DEF t
  <2>3. QED
    BY <2>1, <2>2
<1>4. rw \in Int /\ 0 <= rw /\ rw < B /\ f * q < S /\ S <= f * q + f
  <2> HIDE DEF f
  <2>1. rw \in Digit /\ f * q < S /\ S <= f * q + f
    BY <1>3, ReciprocalIs
  <2>2. QED
    BY <1>1, <2>1 DEF Digit
<1>5. Final(l, k, e, rw) = IF Lo(R) >= k THEN Lo(R) - k ELSE Lo(R)
  BY DEF Final, t, E
<1> HIDE DEF rw
<1>6. q \in Int /\ q >= 0 /\ f * q \in Int
  BY <1>1, <1>3, <1>4
<1> DEFINE ph == Hi(P)
           pl == Lo(P)
<1>7. P \in Int /\ P >= 0
  BY <1>1, <1>4
<1>8. pl \in Int /\ 0 <= pl /\ pl < B /\ ph \in Int /\ P = pl + B * ph
  <2> HIDE DEF P
  <2>1. QED
    BY <1>7, WordHalves
<1>9. ph >= 0
  <2>1. P < B * B
    <3>1. rw * l <= rw * B /\ rw * B <= (B - 1) * B /\ (B - 1) * B = B * B - B
      BY <1>1, <1>4
    <3>2. rw * B \in Int /\ B * B \in Int
      BY <1>1, <1>4
    <3> HIDE DEF P
    <3>3. QED
      BY <1>1, <1>7, <3>1, <3>2 DEF P
  <2> HIDE DEF P
  <2>2. QED
    BY <1>1, <1>7, <2>1, HiBelow
<1>10. cw = ph + l /\ q * l = P + B * l /\ q * l \in Int
  BY <1>1, <1>4
<1> HIDE DEF ph, pl, P, cw
<1>11. cw \in Int /\ 0 <= cw /\ B * cw = B * ph + B * l /\ B * ph \in Int /\ B * l \in Int /\ B * cw \in Int
  BY <1>1, <1>8, <1>9, <1>10
<1>12. B * cw <= q * l /\ q * l < B * cw + B
  BY <1>1, <1>7, <1>8, <1>10, <1>11
<1>13. c1 \in Int /\ zq \in Int /\ D \in Int /\ D * zq \in Int /\ D * zq <= cw /\ cw <= D * zq + D - 1
  <2>1. c1 \in Int /\ cw = 2 * c1 + (cw % 2) /\ cw % 2 \in {0, 1}
    BY <1>11
  <2> HIDE DEF c1
  <2>2. zq \in Int /\ c1 = E * zq + (c1 % E) /\ 0 <= c1 % E /\ c1 % E < E /\ c1 % E \in Int
    BY <1>2, <2>1, DivMod
  <2> HIDE DEF zq
  <2>3. D * zq = 2 * (E * zq) /\ E * zq \in Int /\ D \in Int
    BY <1>2, <2>2
  <2> HIDE DEF D
  <2> DEFINE s == c1 % E
  <2>4. s \in Int /\ 0 <= s /\ s < E /\ c1 = E * zq + s
    BY <2>2
  <2> HIDE DEF s
  <2>5. D = 2 * E
    BY DEF D
  <2> DEFINE p1 == E * zq
  <2> HIDE DEF p1
  <2>6. p1 \in Int /\ D * zq = 2 * p1 /\ c1 = p1 + s
    BY <2>3, <2>4 DEF p1
  <2>7. QED
    BY <1>2, <2>1, <2>2, <2>3, <2>4, <2>5, <2>6
<1> HIDE DEF c1, zq
<1> DEFINE zk == zq * k
           x1 == (B * cw) * f
           x2 == (q * l) * f
           x3 == f * l
           x4 == S * l
           x5 == B * f
           x6 == S * zk
           x7 == S * k
<1>14. zk \in Int /\ x1 \in Int /\ x2 \in Int /\ x3 \in Int /\ x4 \in Int /\ x5 \in Int /\ x6 \in Int /\ x7 \in Int
  BY <1>1, <1>3, <1>10, <1>11, <1>13
<1>15. x1 <= x2 /\ x2 <= x1 + x5 - f
  <2> DEFINE u == q * l
             v == B * cw
  <2>1. v \in Int /\ u \in Int /\ v <= u /\ u <= v + B - 1
    BY <1>1, <1>10, <1>11, <1>12
  <2> HIDE DEF v, u, f
  <2>2. v * f <= u * f /\ u * f <= (v + B - 1) * f
    BY <1>1, <1>3, <2>1
  <2>3. (v + B - 1) * f = v * f + B * f - f
    BY <1>1, <1>3, <2>1
  <2>4. QED
    BY <1>1, <1>3, <2>2, <2>3 DEF v, u
<1>16. x2 <= x4 /\ x4 <= x2 + x3 /\ (l > 0 => x2 < x4)
  <2> HIDE DEF f
  <2>1. x2 = (f * q) * l
    BY <1>1, <1>3, <1>6
  <2> HIDE DEF S, q
  <2> DEFINE u == f * q
  <2>2. u \in Int /\ u <= S /\ S <= u + f /\ u + 1 <= S
    BY <1>1, <1>4, <1>6
  <2> HIDE DEF u
  <2>3. u * l <= S * l /\ S * l <= (u + f) * l /\ (u + f) * l = u * l + f * l
    BY <1>1, <1>3, <2>2
  <2>4. (u + 1) * l <= S * l /\ (u + 1) * l = u * l + l
    BY <1>1, <2>2
  <2>5. u * l \in Int
    BY <1>1, <2>2
  <2>6. QED
    BY <1>1, <2>1, <2>3, <2>4, <2>5 DEF u
<1>17. x6 <= x1 /\ x1 <= x6 + x7 - x5
  <2>1. S * (zq * k) = (B * (D * zq)) * f /\ S * k = (B * D) * f
    <3>1. (D * t) * B = S
      BY <1>1, <1>2
    <3>2. (B * (D * zq)) * f = ((D * t) * B) * (zq * k) /\ (B * D) * f = ((D * t) * B) * k
      BY <1>1, <1>2, <1>13
    <3>3. QED
      BY <3>1, <3>2
  <2> DEFINE u == D * zq
  <2> HIDE DEF f, D
  <2>2. u \in Int /\ u <= cw /\ cw <= u + D - 1 /\ D \in Int
    BY <1>13
  <2> HIDE DEF u
  <2>3. B * u <= B * cw /\ B * cw <= B * (u + D - 1) /\ B * (u + D - 1) = B * u + B * D - B
    BY <1>1, <1>11, <2>2
  <2> DEFINE y1 == B * u
             y2 == B * cw
             y3 == B * D
  <2>4. y1 \in Int /\ y2 \in Int /\ y3 \in Int /\ y1 <= y2 /\ y2 <= y1 + y3 - B
    BY <1>1, <1>11, <2>2, <2>3
  <2> HIDE DEF y1, y2, y3
  <2>5. y1 * f <= y2 * f /\ y2 * f <= (y1 + y3 - B) * f /\ (y1 + y3 - B) * f = y1 * f + y3 * f - B * f
    BY <1>1, <1>3, <2>4
  <2>6. y1 * f = x6 /\ y2 * f = x1 /\ y3 * f = x7
    BY <2>1 DEF y1, y2, y3, u
  <2>7. QED
    BY <1>1, <1>3, <1>14, <2>5, <2>6
<1>18. x3 < S
  <2> HIDE DEF f
  <2>1. f * l <= f * B /\ f * B < B * B /\ f * B \in Int /\ f * l \in Int /\ B * B \in Int
    BY <1>1, <1>3
  <2>2. QED
    BY <2>1
<1>19. R = l - zk /\ x4 - x6 = S * R /\ R \in Int
  <2> HIDE DEF S
  <2>1. S * (l - zk) = S * l - S * zk
    BY <1>1, <1>14
  <2>2. QED
    BY <1>1, <1>14, <2>1
<1> HIDE DEF f, x1, x2, x3, x4, x5, x6, x7, S, R
<1>20. S * R >= 0 /\ S * R \in Int /\ S * R <= x3 - f + x7
  BY <1>1, <1>3, <1>14, <1>15, <1>16, <1>17, <1>19
<1>21. S > 0
  BY <1>1 DEF S
<1>22. R >= 0
  <2>1. SUFFICES ASSUME R <= 0 - 1 PROVE FALSE
    BY <1>19
  <2>2. S * R <= S * (0 - 1) /\ S * (0 - 1) = 0 - S
    BY <1>1, <1>19, <1>21, <2>1
  <2>3. QED
    BY <1>1, <1>20, <1>21, <2>2
<1>23. R <= k
  <2>1. SUFFICES ASSUME R >= k + 1 PROVE FALSE
    BY <1>19
  <2>2. S * R >= S * (k + 1) /\ S * (k + 1) = x7 + S
    BY <1>1, <1>19, <1>21, <2>1 DEF x7
  <2>3. QED
    BY <1>1, <1>3, <1>14, <1>18, <1>20, <2>2
<1>24. R < B
  <2>1. zk >= 0
    <3>1. zq >= 0
      <4>1. SUFFICES ASSUME zq <= 0 - 1 PROVE FALSE
        BY <1>13
      <4>2. D * zq <= D * (0 - 1) /\ D * (0 - 1) = 0 - D
        BY <1>2, <1>13, <4>1
      <4> DEFINE u == D * zq
      <4> HIDE DEF D
      <4>3. u \in Int /\ u <= 0 - D /\ cw <= u + D - 1 /\ D \in Int
        BY <1>13, <4>2
      <4> HIDE DEF u
      <4>4. QED
        BY <1>11, <4>3
    <3>2. QED
      BY <1>13, <3>1
  <2> HIDE DEF zk
  <2>2. QED
    BY <1>1, <1>14, <1>19, <2>1
<1>25. Lo(R) = R
  BY <1>19, <1>22, <1>24, LoSmall
<1>26. l = k * zq + R /\ l = k * (zq + 1) + (R - k)
  <2>1. zk = k * zq /\ k * (zq + 1) = k * zq + k /\ k * zq \in Int
    BY <1>13
  <2>2. zk = k * zq /\ zk \in Int /\ k * (zq + 1) = zk + k
    BY <1>14, <2>1
  <2> HIDE DEF zk
  <2>3. QED
    BY <1>1, <1>14, <1>19, <2>2
<1>27. CASE R >= k
  <2>1. R - k \in 0 .. (k - 1) /\ zq + 1 \in Int
    BY <1>13, <1>19, <1>23, <1>27
  <2> DEFINE g == zq + 1
             s == R - k
  <2>2. g \in Int /\ s \in 0 .. (k - 1) /\ l = k * g + s
    BY <1>26, <2>1
  <2> HIDE DEF g, s
  <2>3. (k * g + s) % k = s
    BY <2>2, DivUnique
  <2>4. QED
    BY <1>5, <1>25, <1>27, <2>2, <2>3 DEF s, rw, f, t
<1>28. CASE R < k
  <2>1. R \in 0 .. (k - 1)
    BY <1>19, <1>22, <1>28
  <2>2. (k * zq + R) % k = R
    BY <1>13, <2>1, DivUnique
  <2>3. ~(R >= k)
    BY <1>19, <1>28
  <2>4. QED
    BY <1>5, <1>25, <1>26, <2>2, <2>3 DEF rw, f, t
<1>29. QED
  BY <1>19, <1>27, <1>28

\* A nonzero word can be normalized.
LEMMA ClzRight ==
  ASSUME NEW k \in Int, k > 0, k < B
  PROVE  /\ Clz(k) \in 0 .. (W - 1)
         /\ k * TwoTo[Clz(k)] < B /\ B <= 2 * (k * TwoTo[Clz(k)])
<1> DEFINE T == {jj \in Nat : k * TwoTo[jj] >= B}
<1>1. W \in Nat /\ W >= 1 /\ B = TwoTo[W] /\ B \in Nat
  BY BaseAssumption, WordBitsAssumption
<1>2. W \in T
  <2>1. k * B >= B
    BY <1>1
  <2>2. QED
    BY <1>1, <2>1
<1>3. PICK b \in T : \A cw \in T : b <= cw
  <2>1. T \in SUBSET Nat /\ T # {}
    BY <1>2
  <2> HIDE DEF T
  <2>2. QED
    BY <2>1, LeastElement
<1>4. b \in Nat /\ b <= W /\ k * TwoTo[b] >= B
  BY <1>2, <1>3
<1>5. b # 0
  <2>1. SUFFICES ASSUME b = 0 PROVE FALSE
    OBVIOUS
  <2>2. k * 1 >= B
    BY <1>4, <2>1, TwoToFacts
  <2>3. QED
    BY <1>1, <2>2
<1> DEFINE e == b - 1
<1>6. e \in 0 .. (W - 1) /\ e \in Nat /\ e + 1 = b
  BY <1>1, <1>4, <1>5
<1>7. k * TwoTo[e] < B
  <2>1. e \notin T
    BY <1>3, <1>6
  <2>2. TwoTo[e] \in Nat
    BY <1>6, TwoToFacts
  <2> DEFINE u == k * TwoTo[e]
  <2>3. u \in Int /\ ~(u >= B)
    BY <1>6, <2>1, <2>2
  <2> HIDE DEF u
  <2>4. u < B
    BY <1>1, <2>3
  <2>5. QED
    BY <2>4 DEF u
<1>8. B <= 2 * k * TwoTo[e] /\ 2 * k * TwoTo[e] >= B
  <2>1. TwoTo[e + 1] = 2 * TwoTo[e] /\ TwoTo[e] \in Nat
    BY <1>6, TwoToFacts
  <2> HIDE DEF e
  <2>2. k * TwoTo[e + 1] >= B
    BY <1>4, <1>6
  <2>3. k * (2 * TwoTo[e]) = 2 * k * TwoTo[e]
    BY <2>1
  <2>4. QED
    BY <1>1, <2>1, <2>2, <2>3
<1>9. \E jj \in 0 .. (W - 1) : k * TwoTo[jj] < B /\ 2 * k * TwoTo[jj] >= B
  <2> HIDE DEF e
  <2>1. QED
    BY <1>6, <1>7, <1>8
<1>10. Clz(k) \in 0 .. (W - 1) /\ k * TwoTo[Clz(k)] < B /\ 2 * k * TwoTo[Clz(k)] >= B
  BY <1>9 DEF Clz
<1> DEFINE g == Clz(k)
<1>11. g \in Nat /\ k * TwoTo[g] < B /\ 2 * k * TwoTo[g] >= B /\ g \in 0 .. (W - 1)
  BY <1>1, <1>10
<1> HIDE DEF g
<1>12. TwoTo[g] \in Nat
  BY <1>11, TwoToFacts
<1>13. 2 * k * TwoTo[g] = 2 * (k * TwoTo[g])
  BY <1>12
<1>14. B <= 2 * (k * TwoTo[g])
  BY <1>1, <1>11, <1>12, <1>13
<1>15. QED
  BY <1>11, <1>14 DEF g

\* What is left of a nonzero word without its trailing zeros is odd.
LEMMA CtzRight ==
  ASSUME NEW k \in Int, k > 0, k < B
  PROVE  /\ Ctz(k) \in 0 .. (W - 1)
         /\ k = (k \div TwoTo[Ctz(k)]) * TwoTo[Ctz(k)] /\ (k \div TwoTo[Ctz(k)]) % 2 = 1
         /\ k \div TwoTo[Ctz(k)] \in Nat /\ k \div TwoTo[Ctz(k)] <= k
<1> DEFINE T == {jj \in Nat : k % TwoTo[jj + 1] # 0}
<1>1. W \in Nat /\ W >= 1 /\ B = TwoTo[W] /\ B \in Nat /\ W - 1 \in Nat /\ (W - 1) + 1 = W
  BY BaseAssumption, WordBitsAssumption
<1>2. W - 1 \in T
  <2>1. k \in 0 .. (B - 1) /\ 0 \in Int /\ B * 0 + k = k /\ B > 0
    BY <1>1
  <2>2. (B * 0 + k) % B = k
    BY <1>1, <2>1, DivUnique
  <2>3. k % B # 0
    BY <2>1, <2>2
  <2>4. QED
    BY <1>1, <2>3
<1>3. PICK e \in T : \A cw \in T : e <= cw
  <2>1. T \in SUBSET Nat /\ T # {}
    BY <1>2
  <2> HIDE DEF T
  <2>2. QED
    BY <2>1, LeastElement
<1>4. e \in Nat /\ e \in 0 .. (W - 1) /\ k % TwoTo[e + 1] # 0
  BY <1>1, <1>2, <1>3
<1>5. TwoTo[e] \in Nat /\ TwoTo[e] >= 1 /\ TwoTo[e + 1] = 2 * TwoTo[e] /\ TwoTo[0] = 1
  BY <1>4, TwoToFacts
<1>6. k % TwoTo[e] = 0
  <2>1. CASE e = 0
    <3>1. k % 1 = 0
      OBVIOUS
    <3>2. QED
      BY <1>5, <2>1, <3>1
  <2>2. CASE e # 0
    <3>1. e - 1 \in Nat /\ (e - 1) + 1 = e /\ ~(e <= e - 1)
      BY <1>4, <2>2
    <3>2. e - 1 \notin T
      BY <1>3, <3>1
    <3>3. QED
      BY <3>1, <3>2
  <2>3. QED
    BY <2>1, <2>2
<1> DEFINE t == TwoTo[e]
           y == k \div t
<1>7. t \in Nat /\ t >= 1 /\ TwoTo[e + 1] = 2 * t /\ k % t = 0
  BY <1>5, <1>6
<1> HIDE DEF t
<1>8. y \in Int /\ k = t * y
  BY <1>7, DivMod
<1> HIDE DEF y
<1>9. y % 2 = 1
  <2>1. SUFFICES ASSUME y % 2 = 0 PROVE FALSE
    BY <1>8
  <2> DEFINE g == y \div 2
  <2>2. g \in Int /\ y = 2 * g
    BY <1>8, <2>1
  <2> HIDE DEF g
  <2> DEFINE tt == 2 * t
  <2>3. k = tt * g + 0 /\ tt \in Nat /\ tt > 0 /\ 0 \in 0 .. (tt - 1)
    BY <1>7, <1>8, <2>2
  <2> HIDE DEF tt
  <2>4. (tt * g + 0) % tt = 0
    BY <2>2, <2>3, DivUnique
  <2>5. k % tt = 0
    BY <2>3, <2>4
  <2>6. QED
    BY <1>4, <1>7, <2>5 DEF tt
<1>10. \E jj \in 0 .. (W - 1) : k % TwoTo[jj] = 0 /\ (k \div TwoTo[jj]) % 2 = 1
  BY <1>4, <1>7, <1>9 DEF t, y
<1>11. Ctz(k) \in 0 .. (W - 1) /\ k % TwoTo[Ctz(k)] = 0 /\ (k \div TwoTo[Ctz(k)]) % 2 = 1
  BY <1>10 DEF Ctz
<1> DEFINE g == Ctz(k)
           s == TwoTo[g]
           zq == k \div s
<1>12. g \in 0 .. (W - 1) /\ g \in Nat /\ k % s = 0 /\ zq % 2 = 1
  BY <1>1, <1>11
<1> HIDE DEF g
<1>13. s \in Nat /\ s >= 1
  BY <1>12, TwoToFacts
<1> HIDE DEF s
<1>14. zq \in Int /\ k = s * zq
  BY <1>12, <1>13, DivMod
<1> HIDE DEF zq
<1>15. k = zq * s /\ zq \in Nat /\ zq <= k
  <2>1. zq >= 1
    <3>1. SUFFICES ASSUME zq <= 0 PROVE FALSE
      BY <1>14
    <3>2. s * zq <= 0
      BY <1>13, <1>14, <3>1
    <3>3. QED
      BY <1>14, <3>2
  <2>2. zq * 1 <= zq * s /\ zq * 1 = zq /\ zq * s = s * zq
    BY <1>13, <1>14, <2>1
  <2>3. QED
    BY <1>14, <2>1, <2>2
<1>16. QED
  BY <1>12, <1>15 DEF zq, s, g

-----------------------------------------------------------------------------
(* Division: the loops over the words of a number.                          *)

\* The values of the highest words of x in base b, word by word.
Horner(v, x, b) ==
  /\ v \in [Nat -> Int] /\ v[0] = 0
  /\ \A jj \in Nat : v[jj + 1] = WordOf(x, Len(x) - jj) + b * v[jj]

\* A word of x is below the base, also where x has none.
LEMMA WordOfType ==
  ASSUME NEW b \in Nat, b > 0, NEW x \in Seq(0 .. (b - 1)), NEW jj \in Int
  PROVE  WordOf(x, jj) \in 0 .. (b - 1) /\ WordOf(x, jj) \in Int
         /\ 0 <= WordOf(x, jj) /\ WordOf(x, jj) < b
<1>1. CASE jj \in 1 .. Len(x)
  <2>1. x[jj] \in 0 .. (b - 1)
    BY <1>1
  <2>2. WordOf(x, jj) = x[jj]
    BY <1>1 DEF WordOf
  <2>3. QED
    BY <2>1, <2>2
<1>2. CASE jj \notin 1 .. Len(x)
  <2>1. WordOf(x, jj) = 0
    BY <1>2 DEF WordOf
  <2>2. QED
    BY <2>1
<1>3. QED
  BY <1>1, <1>2

\* The recursion that defines the value of a number.
LEMMA OfIs ==
  ASSUME NEW b \in Nat, b > 0, NEW x \in Seq(0 .. (b - 1))
  PROVE  \E v : Horner(v, x, b) /\ Of(b, x) = v[Len(x)]
<1> DEFINE h1(jj) == [u \in Int |-> WordOf(x, Len(x) - jj) + b * u]
           hh == [jj \in Nat |-> h1(jj)]
           body(v) == [jj \in Nat |-> IF jj = 0 THEN 0 ELSE WordOf(x, Len(x) - (jj - 1)) + b * v[jj - 1]]
           V == CHOOSE v : v = body(v)
           S == Int
<1>0. Len(x) \in Nat
  OBVIOUS
<1>1. ASSUME NEW jj \in Nat PROVE h1(jj) \in [S -> S]
  <2>1. Len(x) - jj \in Int
    BY <1>0
  <2>2. WordOf(x, Len(x) - jj) \in Int
    BY <2>1, WordOfType
  <2>3. QED
    BY <2>2
<1>2. hh \in [Nat -> [S -> S]] /\ 0 \in S
  <2> HIDE DEF h1, S
  <2>1. hh \in [Nat -> [S -> S]]
    BY <1>1
  <2>2. 0 \in S
    BY DEF S
  <2>3. QED
    BY <2>1, <2>2
<1>3. PICK f : Follows(f, 0, hh, S)
  <2> HIDE DEF hh, S
  <2>1. QED
    BY <1>2, RecExistsIn
<1>4. f \in [Nat -> Int] /\ f[0] = 0 /\ \A jj \in Nat : f[jj + 1] = hh[jj][f[jj]]
  BY <1>3 DEF Follows
<1>5. ASSUME NEW jj \in Nat PROVE f[jj + 1] = WordOf(x, Len(x) - jj) + b * f[jj]
  <2>1. hh[jj] = h1(jj) /\ f[jj] \in Int
    BY <1>4
  <2>2. f[jj + 1] = hh[jj][f[jj]]
    BY <1>4
  <2> HIDE DEF hh
  <2>3. QED
    BY <2>1, <2>2
<1>6. f = body(f)
  <2>1. ASSUME NEW jj \in Nat PROVE f[jj] = body(f)[jj]
    <3>1. CASE jj = 0
      BY <1>4, <3>1
    <3>2. CASE jj # 0
      <4>1. jj - 1 \in Nat /\ (jj - 1) + 1 = jj
        BY <3>2
      <4>2. f[(jj - 1) + 1] = WordOf(x, Len(x) - (jj - 1)) + b * f[jj - 1]
        BY <1>5, <4>1
      <4>3. QED
        BY <3>2, <4>1, <4>2
    <3>3. QED
      BY <3>1, <3>2
  <2>2. f = [jj \in Nat |-> f[jj]]
    BY <1>4
  <2>3. body(f) = [jj \in Nat |-> body(f)[jj]]
    OBVIOUS
  <2> HIDE DEF body
  <2>4. QED
    BY <2>1, <2>2, <2>3
<1>7. V = body(V)
  <2> HIDE DEF body
  <2>1. QED
    BY <1>6
<1>8. Of(b, x) = V[Len(x)]
  BY DEF Of
<1>9. V[0] = 0 /\ \A jj \in Nat : V[jj + 1] = WordOf(x, Len(x) - jj) + b * V[jj]
  <2> HIDE DEF V
  <2>1. V[0] = 0
    BY <1>7
  <2>2. ASSUME NEW jj \in Nat PROVE V[jj + 1] = WordOf(x, Len(x) - jj) + b * V[jj]
    <3>1. jj + 1 \in Nat /\ jj + 1 # 0 /\ (jj + 1) - 1 = jj
      OBVIOUS
    <3>2. V[jj + 1] = WordOf(x, Len(x) - ((jj + 1) - 1)) + b * V[(jj + 1) - 1]
      BY <1>7, <3>1
    <3>3. QED
      BY <3>1, <3>2
  <2>3. QED
    BY <2>1, <2>2
<1>10. V \in [Nat -> Int]
  <2> DEFINE T == {jj \in Nat : V[jj] \in Int}
  <2> HIDE DEF V
  <2>1. 0 \in T
    <3>1. V[0] = 0 /\ 0 \in Nat
      BY <1>9
    <3>2. QED
      BY <3>1
  <2>2. ASSUME NEW jj \in T PROVE jj + 1 \in T
    <3>1. jj \in Nat /\ V[jj] \in Int /\ Len(x) - jj \in Int /\ jj + 1 \in Nat
      BY <1>0
    <3>2. WordOf(x, Len(x) - jj) \in Int
      BY <3>1, WordOfType
    <3>3. b * V[jj] \in Int
      BY <3>1
    <3>4. V[jj + 1] = WordOf(x, Len(x) - jj) + b * V[jj]
      BY <1>9, <3>1
    <3>5. QED
      BY <3>1, <3>2, <3>3, <3>4
  <2>3. T = Nat
    <3>1. T \in SUBSET Nat
      OBVIOUS
    <3> HIDE DEF T
    <3>2. QED
      BY <2>1, <2>2, <3>1, InductionOnNat
  <2>4. V = [jj \in Nat |-> V[jj]]
    <3>1. body(V) = [jj \in Nat |-> body(V)[jj]]
      OBVIOUS
    <3> HIDE DEF body
    <3>2. QED
      BY <1>7, <3>1
  <2>5. QED
    BY <2>3, <2>4
<1>11. QED
  <2> HIDE DEF V
  <2>1. QED
    BY <1>8, <1>9, <1>10 DEF Horner

\* The highest words of a number are a number.
LEMMA HornerBounds ==
  ASSUME NEW b \in Nat, b > 0, NEW x \in Seq(0 .. (b - 1)), NEW v, Horner(v, x, b)
  PROVE  \A jj \in Nat : v[jj] \in Int /\ v[jj] >= 0
<1> DEFINE T == {jj \in Nat : v[jj] >= 0}
<1>0. /\ v \in [Nat -> Int] /\ v[0] = 0
      /\ \A jj \in Nat : v[jj + 1] = WordOf(x, Len(x) - jj) + b * v[jj]
  BY DEF Horner
<1>1. 0 \in T
  BY <1>0
<1>2. ASSUME NEW jj \in T PROVE jj + 1 \in T
  <2>1. jj \in Nat /\ v[jj] \in Int /\ v[jj] >= 0 /\ Len(x) - jj \in Int /\ jj + 1 \in Nat
    BY <1>0
  <2>2. WordOf(x, Len(x) - jj) \in Int /\ WordOf(x, Len(x) - jj) >= 0
    BY <2>1, WordOfType
  <2>3. b * v[jj] \in Int /\ b * v[jj] >= 0
    BY <2>1
  <2>4. v[jj + 1] = WordOf(x, Len(x) - jj) + b * v[jj]
    BY <1>0, <2>1
  <2>5. v[jj + 1] >= 0
    BY <2>2, <2>3, <2>4
  <2>6. QED
    BY <2>1, <2>5
<1>3. T = Nat
  <2>1. T \in SUBSET Nat
    OBVIOUS
  <2> HIDE DEF T
  <2>2. QED
    BY <1>1, <1>2, <2>1, InductionOnNat
<1>4. QED
  BY <1>0, <1>3

\* A further word keeps numbers congruent.
LEMMA CongruentShift ==
  ASSUME NEW f \in Nat, NEW b \in Int, NEW u \in Int, NEW v \in Int, NEW dw \in Int, NEW s \in Int,
         Congruent(u, v, f), Congruent(s, b * u + dw, f)
  PROVE  Congruent(s, dw + b * v, f)
<1>1. PICK q \in Int : u = v + f * q
  BY DEF Congruent
<1>2. PICK g \in Int : s = b * u + dw + f * g
  BY DEF Congruent
<1> DEFINE e == b * q + g
<1>3. e \in Int /\ f * e = f * (b * q) + f * g /\ f * (b * q) \in Int /\ f * g \in Int
  BY <1>1, <1>2
<1>4. b * u = b * v + f * (b * q) /\ b * v \in Int
  <2>1. b * (v + f * q) = b * v + b * (f * q)
    BY <1>1
  <2>2. b * (f * q) = f * (b * q)
    BY <1>1
  <2>3. QED
    BY <1>1, <2>1, <2>2
<1>5. s = (dw + b * v) + f * e
  <2> DEFINE p1 == b * u
             p2 == b * v
             p3 == f * (b * q)
             p4 == f * g
             p5 == f * e
  <2>1. /\ p1 = p2 + p3 /\ s = p1 + dw + p4 /\ p5 = p3 + p4
        /\ p2 \in Int /\ p3 \in Int /\ p4 \in Int
    BY <1>2, <1>3, <1>4
  <2> HIDE DEF p1, p2, p3, p4, p5
  <2>2. s = (dw + p2) + p5
    BY <2>1
  <2>3. QED
    BY <2>2 DEF p2, p5
<1>6. QED
  <2>1. dw + b * v \in Int
    BY <1>4
  <2> HIDE DEF e
  <2>2. QED
    BY <1>3, <1>5, <2>1, ApartBy

\* The loop of the remainder: two words congruent to the number.
LEMMA ModloopRight ==
  ASSUME NEW f \in Nat, f > 0, NEW x \in Seq(Digit), NEW r \in Digit, Congruent(r, B * B, f),
         NEW v, Horner(v, x, B)
  PROVE  /\ Modloop(x, r) \in Int /\ 0 <= Modloop(x, r) /\ Modloop(x, r) < B * B
         /\ Congruent(Modloop(x, r), v[Len(x)], f)
<1> DEFINE S == {u \in Int : 0 <= u /\ u < B * B}
           dw(jj) == WordOf(x, Len(x) - jj)
           h1(jj) == [u \in S |-> Modstep(u, dw(jj), r)]
           hh == [jj \in Nat |-> h1(jj)]
           body(u) == [jj \in Nat |-> IF jj = 0 THEN 0
                                     ELSE Modstep(u[jj - 1], WordOf(x, Len(x) - (jj - 1)), r)]
           V == CHOOSE u : u = body(u)
<1>0. Len(x) \in Nat /\ B \in Nat /\ B >= 2 /\ B > 0 /\ 0 <= B * B /\ 0 < B * B
  BY BaseAssumption
<1>1. ASSUME NEW jj \in Nat PROVE dw(jj) \in Digit /\ dw(jj) \in Int
  <2>1. Len(x) - jj \in Int
    BY <1>0
  <2>2. WordOf(x, Len(x) - jj) \in Digit
    BY <1>0, <2>1, WordOfType DEF Digit
  <2>3. QED
    BY <1>0, <2>2 DEF Digit
<1> HIDE DEF dw
<1>2. ASSUME NEW u \in S, NEW jj \in Nat
      PROVE  Modstep(u, dw(jj), r) \in S /\ Congruent(Modstep(u, dw(jj), r), B * u + dw(jj), f)
  <2>1. u \in Int /\ 0 <= u /\ u < B * B /\ dw(jj) \in Digit
    BY <1>1
  <2> HIDE DEF S
  <2>2. /\ Modstep(u, dw(jj), r) \in Int /\ 0 <= Modstep(u, dw(jj), r) /\ Modstep(u, dw(jj), r) < B * B
        /\ Congruent(Modstep(u, dw(jj), r), B * u + dw(jj), f)
    BY <2>1, ModstepRight
  <2>3. QED
    BY <2>2 DEF S
<1>3. ASSUME NEW jj \in Nat PROVE h1(jj) \in [S -> S]
  <2> HIDE DEF S
  <2>1. QED
    BY <1>2
<1>4. hh \in [Nat -> [S -> S]] /\ 0 \in S
  <2>1. 0 \in S
    BY <1>0
  <2> HIDE DEF h1, S
  <2>2. hh \in [Nat -> [S -> S]]
    BY <1>3
  <2>3. QED
    BY <2>1, <2>2
<1>5. PICK g : Follows(g, 0, hh, S)
  <2> HIDE DEF hh, S
  <2>1. QED
    BY <1>4, RecExistsIn
<1>6. g \in [Nat -> S] /\ g[0] = 0 /\ \A jj \in Nat : g[jj + 1] = hh[jj][g[jj]]
  <2> HIDE DEF hh, S
  <2>1. QED
    BY <1>5 DEF Follows
<1>7. ASSUME NEW jj \in Nat PROVE g[jj + 1] = Modstep(g[jj], dw(jj), r)
  <2>1. hh[jj] = h1(jj) /\ g[jj] \in S
    BY <1>6
  <2>2. g[jj + 1] = hh[jj][g[jj]]
    BY <1>6
  <2> HIDE DEF hh, S
  <2>3. QED
    BY <2>1, <2>2
<1>8. g = body(g)
  <2>1. ASSUME NEW jj \in Nat PROVE g[jj] = body(g)[jj]
    <3>1. CASE jj = 0
      BY <1>6, <3>1
    <3>2. CASE jj # 0
      <4>1. jj - 1 \in Nat /\ (jj - 1) + 1 = jj
        BY <3>2
      <4>2. g[(jj - 1) + 1] = Modstep(g[jj - 1], WordOf(x, Len(x) - (jj - 1)), r)
        BY <1>7, <4>1 DEF dw
      <4>3. QED
        BY <3>2, <4>1, <4>2
    <3>3. QED
      BY <3>1, <3>2
  <2>2. g = [jj \in Nat |-> g[jj]]
    <3> HIDE DEF S
    <3>1. QED
      BY <1>6
  <2>3. body(g) = [jj \in Nat |-> body(g)[jj]]
    OBVIOUS
  <2> HIDE DEF body
  <2>4. QED
    BY <2>1, <2>2, <2>3
<1>9. V = body(V)
  <2> HIDE DEF body
  <2>1. QED
    BY <1>8
<1>10. Modloop(x, r) = V[Len(x)]
  BY DEF Modloop
<1>11. V[0] = 0 /\ \A jj \in Nat : V[jj + 1] = Modstep(V[jj], dw(jj), r)
  <2> HIDE DEF V
  <2>1. V[0] = 0
    BY <1>9
  <2>2. ASSUME NEW jj \in Nat PROVE V[jj + 1] = Modstep(V[jj], dw(jj), r)
    <3>1. jj + 1 \in Nat /\ jj + 1 # 0 /\ (jj + 1) - 1 = jj
      OBVIOUS
    <3>2. V[jj + 1] = Modstep(V[(jj + 1) - 1], WordOf(x, Len(x) - ((jj + 1) - 1)), r)
      BY <1>9, <3>1
    <3>3. QED
      BY <3>1, <3>2 DEF dw
  <2>3. QED
    BY <2>1, <2>2
<1> HIDE DEF V, body, h1, hh
<1>12. /\ v \in [Nat -> Int] /\ v[0] = 0
       /\ \A jj \in Nat : v[jj + 1] = dw(jj) + B * v[jj]
  BY DEF Horner, dw
<1> DEFINE T == {jj \in Nat : V[jj] \in S /\ Congruent(V[jj], v[jj], f)}
<1>13. 0 \in T
  <2>1. Congruent(0, 0, f)
    <3>1. 0 = 0 + f * 0 /\ 0 \in Int
      OBVIOUS
    <3>2. QED
      BY <3>1, ApartBy
  <2> HIDE DEF S
  <2>2. QED
    BY <1>4, <1>11, <1>12, <2>1
<1>14. ASSUME NEW jj \in T PROVE jj + 1 \in T
  <2>1. jj \in Nat /\ V[jj] \in S /\ Congruent(V[jj], v[jj], f) /\ v[jj] \in Int /\ jj + 1 \in Nat
    BY <1>12
  <2> DEFINE u == V[jj]
             s == Modstep(u, dw(jj), r)
             vj == v[jj]
             dj == dw(jj)
  <2>2. u \in S /\ s \in S /\ Congruent(s, B * u + dj, f) /\ u \in Int /\ s \in Int
    <3>1. \A t \in S : t \in Int
      OBVIOUS
    <3> HIDE DEF S
    <3>2. QED
      BY <1>2, <2>1, <3>1
  <2>3. V[jj + 1] = s /\ v[jj + 1] = dj + B * vj /\ dj \in Int /\ vj \in Int /\ Congruent(u, vj, f) /\ B \in Int
    BY <1>0, <1>1, <1>11, <1>12, <2>1
  <2> HIDE DEF u, s, dj, vj, S
  <2>4. Congruent(s, dj + B * vj, f)
    BY <2>2, <2>3, CongruentShift
  <2>5. QED
    BY <2>1, <2>2, <2>3, <2>4
<1>15. T = Nat
  <2>1. T \in SUBSET Nat
    OBVIOUS
  <2> HIDE DEF T
  <2>2. QED
    BY <1>13, <1>14, <2>1, InductionOnNat
<1>16. V[Len(x)] \in S /\ Congruent(V[Len(x)], v[Len(x)], f)
  BY <1>0, <1>15
<1>17. QED
  BY <1>10, <1>16

\* The remainder of a number by a word.
LEMMA CmodRight ==
  ASSUME NEW x \in Seq(Digit), NEW k \in 1 .. (B - 1)
  PROVE  cmod(x, k) = Of(B, x) % k
<1>0. B \in Nat /\ B >= 2 /\ B > 0 /\ k \in Nat /\ k > 0 /\ k < B /\ k \in Int
      /\ B * B \in Int /\ W \in Nat
  BY BaseAssumption, WordBitsAssumption
<1>1. PICK v : Horner(v, x, B) /\ Of(B, x) = v[Len(x)]
  <2>1. x \in Seq(0 .. (B - 1))
    BY DEF Digit
  <2>2. QED
    BY <1>0, <2>1, OfIs
<1>2. v[Len(x)] \in Int /\ Len(x) \in Nat /\ v[0] = 0
  BY <1>1 DEF Horner
<1> DEFINE e == Clz(k)
           t == TwoTo[e]
           f == k * t
           rw == Recip(f)
           r == Lo(-(rw * f))
           u == Modloop(x, r)
           l == Oneword(u, f, rw)
<1>3. e \in 0 .. (W - 1) /\ k * t < B /\ B <= 2 * (k * t) /\ e \in Nat
  BY <1>0, ClzRight
<1> HIDE DEF e
<1>4. t \in Nat /\ t >= 1
  BY <1>3, TwoToFacts
<1>5. f \in Nat /\ f \in Int /\ f > 0 /\ f < B /\ B <= 2 * f
  <2>1. f \in Int /\ k * t >= 1
    BY <1>0, <1>4
  <2>2. QED
    BY <1>3, <2>1
<1>6. cmod(x, k) = IF x = <<>> THEN 0 ELSE Final(l, k, e, rw)
  BY DEF cmod, e
<1>7. CASE x = <<>>
  <2>1. Len(x) = 0
    BY <1>7
  <2>2. 0 % k = 0
    <3>1. 0 \in 0 .. (k - 1) /\ k * 0 + 0 = 0 /\ 0 \in Int
      BY <1>0
    <3>2. (k * 0 + 0) % k = 0
      BY <1>0, <3>1, DivUnique
    <3>3. QED
      BY <3>1, <3>2
  <2>3. QED
    BY <1>1, <1>2, <1>6, <1>7, <2>1, <2>2
<1>8. CASE x # <<>>
  <2>1. r \in Digit /\ Congruent(r, B * B, f)
    <3> HIDE DEF f
    <3>1. QED
      BY <1>5, ResidueRight
  <2>2. u \in Int /\ 0 <= u /\ u < B * B /\ Congruent(u, v[Len(x)], f)
    <3> HIDE DEF f, r
    <3>1. QED
      BY <1>1, <1>5, <2>1, ModloopRight
  <2>3. l \in Digit /\ Congruent(l, u, f)
    <3> HIDE DEF f, u
    <3>1. QED
      BY <1>5, <2>2, OnewordRight
  <2>4. Final(l, k, e, rw) = l % k
    <3> HIDE DEF l
    <3>1. k * TwoTo[e] < B /\ B <= 2 * (k * TwoTo[e])
      BY <1>3
    <3>2. Final(l, k, e, Recip(k * TwoTo[e])) = l % k
      BY <1>0, <1>3, <2>3, <3>1, FinalRight
    <3>3. QED
      BY <3>2
  <2> DEFINE n1 == v[Len(x)]
  <2>5. n1 \in Int /\ l \in Int /\ u \in Int
    BY <1>0, <1>2, <2>2, <2>3 DEF Digit
  <2>6. Congruent(l, n1, f)
    <3>1. Congruent(l, u, f) /\ Congruent(u, n1, f) /\ f \in Nat
      BY <1>5, <2>2, <2>3
    <3> HIDE DEF l, u, f, n1
    <3>2. QED
      BY <2>5, <3>1, CongruentTransitive
  <2>7. Congruent(l, n1, k)
    <3> HIDE DEF l, n1, t
    <3>1. PICK g \in Int : l = n1 + f * g
      BY <2>6 DEF Congruent
    <3>2. f * g = k * (t * g) /\ t * g \in Int
      BY <1>4
    <3>3. l = n1 + k * (t * g)
      BY <3>1, <3>2
    <3> DEFINE gg == t * g
    <3>4. gg \in Int /\ l = n1 + k * gg
      BY <3>2, <3>3
    <3> HIDE DEF gg
    <3>5. QED
      BY <1>0, <2>5, <3>4, ApartBy
  <2>8. l % k = n1 % k
    <3> HIDE DEF l, n1
    <3>1. QED
      BY <1>0, <2>5, <2>7, CongruentMod
  <2>9. QED
    BY <1>1, <1>6, <1>8, <2>4, <2>8
<1>9. QED
  BY <1>7, <1>8

-----------------------------------------------------------------------------
(* Division: the negated inverse of an odd word.                            *)

\* A number is congruent to its lower half.
LEMMA LoCongruent ==
  ASSUME NEW v \in Int
  PROVE  Lo(v) \in Int /\ Congruent(Lo(v), v, B) /\ Congruent(v, Lo(v), B)
<1> DEFINE u == Hi(v)
           l == Lo(v)
<1>1. B \in Nat /\ l \in Int /\ u \in Int /\ v = l + B * u
  BY WordHalves, BaseAssumption
<1> HIDE DEF u, l
<1>2. Congruent(v, l, B)
  BY <1>1, ApartBy
<1>3. Congruent(l, v, B)
  BY <1>1, <1>2, CongruentSymmetric
<1>4. QED
  BY <1>1, <1>2, <1>3 DEF l

\* A power of two divides the greater ones.
LEMMA TwoToDivides ==
  ASSUME NEW cw \in Nat, NEW dw \in Nat, cw <= dw, NEW v \in Int, Congruent(v, 0, TwoTo[dw])
  PROVE  Congruent(v, 0, TwoTo[cw])
<1>1. dw - cw \in Nat /\ (dw - cw) + cw = dw
  OBVIOUS
<1> DEFINE g == dw - cw
           t == TwoTo[cw]
           s == TwoTo[g]
<1>2. g \in Nat /\ g + cw = dw
  BY <1>1
<1> HIDE DEF g
<1>3. t \in Nat /\ s \in Nat /\ TwoTo[dw] = s * t
  <2>1. TwoTo[g + cw] = TwoTo[g] * TwoTo[cw]
    BY <1>2, TwoToAdds
  <2>2. QED
    BY <1>2, <2>1, TwoToFacts
<1> HIDE DEF t, s
<1>4. PICK q \in Int : v = 0 + (s * t) * q
  BY <1>3 DEF Congruent
<1>5. (s * t) * q = t * (s * q) /\ s * q \in Int
  BY <1>3
<1> DEFINE e == s * q
<1>6. e \in Int /\ v = 0 + t * e
  BY <1>4, <1>5
<1> HIDE DEF e
<1>7. Congruent(v, 0, t)
  BY <1>6 DEF Congruent
<1>8. QED
  BY <1>7 DEF t

\* The lower half of the square of a multiple of a power of two.
LEMMA LoSquare ==
  ASSUME NEW jj \in Nat, NEW v \in Int, Congruent(v, 0, TwoTo[Lesser(W, jj)])
  PROVE  Lo(v * v) \in Int /\ Congruent(Lo(v * v), 0, TwoTo[Lesser(W, 2 * jj)])
<1> DEFINE cw == Lesser(W, jj)
           dw == Lesser(W, 2 * jj)
<1>1. W \in Nat /\ B = TwoTo[W] /\ B \in Nat
  BY WordBitsAssumption, BaseAssumption
<1>2. cw \in Nat /\ dw \in Nat /\ dw <= cw + cw /\ dw <= W /\ cw + cw \in Nat
  BY <1>1 DEF Lesser
<1> HIDE DEF cw, dw
<1> DEFINE t == TwoTo[cw]
           s == v * v
<1>3. t \in Nat /\ TwoTo[cw + cw] = t * t
  BY <1>2, TwoToFacts, TwoToAdds
<1>4. PICK q \in Int : v = 0 + t * q
  BY DEF Congruent, cw
<1> HIDE DEF t
<1>5. s \in Int /\ s = 0 + (t * t) * (q * q) /\ q * q \in Int
  <2>1. v = t * q /\ t * q \in Int
    BY <1>3, <1>4
  <2>2. (t * q) * (t * q) = (t * t) * (q * q)
    BY <1>3
  <2>3. (t * t) * (q * q) \in Int
    BY <1>3
  <2>4. QED
    BY <2>1, <2>2, <2>3
<1> HIDE DEF s
<1>6. Congruent(s, 0, TwoTo[cw + cw])
  <2> DEFINE g == q * q
             r == t * t
  <2>1. g \in Int /\ s = 0 + r * g /\ TwoTo[cw + cw] = r
    BY <1>3, <1>5
  <2> HIDE DEF g, r
  <2>2. QED
    BY <2>1 DEF Congruent
<1>7. Congruent(s, 0, TwoTo[dw])
  <2> DEFINE cc == cw + cw
  <2>1. cc \in Nat /\ dw \in Nat /\ dw <= cc /\ Congruent(s, 0, TwoTo[cc]) /\ s \in Int
    BY <1>2, <1>5, <1>6
  <2> HIDE DEF cc
  <2>2. QED
    BY <2>1, TwoToDivides
<1>8. Lo(s) \in Int /\ Congruent(Lo(s), s, B)
  BY <1>5, LoCongruent
<1>9. Congruent(Lo(s) - s, 0, TwoTo[dw])
  <2> DEFINE y == Lo(s) - s
  <2>1. PICK g \in Int : Lo(s) = s + B * g
    BY <1>8 DEF Congruent
  <2>2. y \in Int /\ y = 0 + B * g
    <3>1. B * g \in Int
      BY <1>1, <2>1
    <3>2. QED
      BY <1>5, <1>8, <2>1, <3>1
  <2> HIDE DEF y
  <2>3. Congruent(y, 0, TwoTo[W])
    BY <1>1, <2>2 DEF Congruent
  <2>4. Congruent(y, 0, TwoTo[dw])
    BY <1>1, <1>2, <2>2, <2>3, TwoToDivides
  <2>5. QED
    BY <2>4 DEF y
<1>10. Congruent(Lo(s), 0, TwoTo[dw])
  <2> DEFINE r == TwoTo[dw]
  <2>1. r \in Nat
    BY <1>2, TwoToFacts
  <2>2. PICK g \in Int : s = 0 + r * g
    BY <1>7 DEF Congruent
  <2>3. PICK k \in Int : Lo(s) - s = 0 + r * k
    BY <1>9 DEF Congruent
  <2> HIDE DEF r
  <2>4. g + k \in Int /\ r * (g + k) = r * g + r * k /\ r * g \in Int /\ r * k \in Int
    BY <2>1, <2>2, <2>3
  <2>5. Lo(s) = 0 + r * (g + k)
    BY <1>5, <1>8, <2>2, <2>3, <2>4
  <2> DEFINE y == g + k
  <2>6. y \in Int /\ Lo(s) = 0 + r * y
    BY <2>4, <2>5
  <2> HIDE DEF y
  <2>7. Congruent(Lo(s), 0, r)
    BY <2>6 DEF Congruent
  <2>8. QED
    BY <2>7 DEF r
<1>11. QED
  BY <1>8, <1>10 DEF s, dw

\* A step of Newton's iteration squares the error.
LEMMA NewtonStep ==
  ASSUME NEW k \in Int, NEW x \in Int, NEW e \in Int, Congruent(k * x + 1, e, B)
  PROVE  Lo(e * x + x) \in Int /\ Congruent(k * Lo(e * x + x) + 1, Lo(e * e), B)
<1> DEFINE p1 == e * x + x
           y == Lo(p1)
           s == e * e
<1>1. B \in Nat /\ p1 \in Int /\ s \in Int /\ k * x \in Int
  BY BaseAssumption
<1>2. y \in Int /\ Congruent(y, p1, B) /\ Lo(s) \in Int /\ Congruent(s, Lo(s), B)
  <2> HIDE DEF p1, s
  <2>1. QED
    BY <1>1, LoCongruent
<1>3. PICK h1 \in Int : y = p1 + B * h1
  BY <1>2 DEF Congruent
<1>4. PICK g \in Int : k * x + 1 = e + B * g
  BY DEF Congruent
<1> HIDE DEF y
<1> DEFINE a1 == k * x
           u == g * (e + 1) + k * h1
<1>5. u \in Int /\ k * y \in Int
  BY <1>2, <1>3, <1>4
<1>6. k * y + 1 = s + B * u
  <2>1. k * y = k * p1 + k * (B * h1)
    <3>1. B * h1 \in Int
      BY <1>1, <1>3
    <3> HIDE DEF p1
    <3>2. QED
      BY <1>1, <1>3, <3>1
  <2>2. k * p1 = a1 * (e + 1)
    BY <1>1
  <2>3. k * (B * h1) = B * (k * h1) /\ B * (k * h1) \in Int
    BY <1>1, <1>3
  <2>4. B * g \in Int /\ a1 = (e - 1) + B * g
    <3>1. B * g \in Int
      BY <1>1, <1>4
    <3> DEFINE zq == B * g
    <3>2. zq \in Int /\ a1 + 1 = e + zq /\ a1 \in Int
      BY <1>1, <1>4, <3>1
    <3> HIDE DEF zq, a1
    <3>3. a1 = (e - 1) + zq
      BY <3>2
    <3>4. QED
      BY <3>1, <3>3 DEF zq
  <2> DEFINE zq == B * g
  <2> HIDE DEF a1
  <2>5. a1 = (e - 1) + zq /\ zq \in Int
    BY <2>4
  <2> HIDE DEF zq
  <2>6. a1 * (e + 1) = e * e - 1 + zq * (e + 1)
    <3>1. ((e - 1) + zq) * (e + 1) = (e - 1) * (e + 1) + zq * (e + 1) /\ (e - 1) * (e + 1) = e * e - 1
      BY <2>5
    <3>2. QED
      BY <2>5, <3>1
  <2>7. zq * (e + 1) = B * (g * (e + 1)) /\ B * (g * (e + 1)) \in Int
    BY <1>1, <1>4 DEF zq
  <2>8. B * u = B * (g * (e + 1)) + B * (k * h1)
    BY <1>1, <1>3, <1>4
  <2> DEFINE w1 == B * (g * (e + 1))
             w2 == B * (k * h1)
             w3 == k * y
             w4 == B * u
  <2>9. w3 = s - 1 + w1 + w2 /\ w4 = w1 + w2 /\ w1 \in Int /\ w2 \in Int
    <3> HIDE DEF p1, u
    <3>1. w3 = a1 * (e + 1) + w2
      BY <2>1, <2>2, <2>3
    <3>2. a1 * (e + 1) = s - 1 + w1
      BY <2>6, <2>7
    <3>3. QED
      BY <2>3, <2>7, <2>8, <3>1, <3>2
  <2> HIDE DEF w1, w2, w3, w4, s
  <2>10. w3 + 1 = s + w4
    BY <1>1, <2>9
  <2>11. QED
    BY <2>10 DEF w3, w4
<1> HIDE DEF u, s
<1>7. Congruent(k * y + 1, s, B)
  <2> DEFINE zq == k * y + 1
  <2>1. zq \in Int /\ zq = s + B * u /\ u \in Int
    BY <1>5, <1>6
  <2> HIDE DEF zq
  <2>2. Congruent(zq, s, B)
    BY <1>1, <2>1, ApartBy
  <2>3. QED
    BY <2>2 DEF zq
<1>8. Congruent(k * y + 1, Lo(s), B)
  <2> DEFINE zq == k * y + 1
             sl == Lo(s)
  <2>1. zq \in Int /\ s \in Int /\ sl \in Int /\ Congruent(zq, s, B) /\ Congruent(s, sl, B) /\ B \in Nat
    BY <1>1, <1>2, <1>5, <1>7
  <2> HIDE DEF zq, sl
  <2>2. Congruent(zq, sl, B)
    BY <2>1, CongruentTransitive
  <2>3. QED
    BY <2>2 DEF zq, sl
<1>9. QED
  BY <1>2, <1>8 DEF y, s

\* The sum of two multiples.
LEMMA SumOfMultiples ==
  ASSUME NEW r \in Nat, NEW u \in Int, NEW v \in Int, Congruent(u, 0, r), Congruent(v, 0, r)
  PROVE  Congruent(u + v, 0, r)
<1>1. PICK g \in Int : u = 0 + r * g
  BY DEF Congruent
<1>2. PICK k \in Int : v = 0 + r * k
  BY DEF Congruent
<1>3. g + k \in Int /\ r * (g + k) = r * g + r * k /\ r * g \in Int /\ r * k \in Int
  BY <1>1, <1>2
<1>4. u + v = 0 + r * (g + k)
  BY <1>1, <1>2, <1>3
<1> DEFINE y == g + k
<1>5. y \in Int /\ u + v = 0 + r * y
  BY <1>3, <1>4
<1> HIDE DEF y
<1>6. QED
  BY <1>5 DEF Congruent

\* The first five bits of the negated inverse.
LEMMA NegmodinvStart ==
  ASSUME NEW k \in Nat, k % 2 = 1
  PROVE  LET s == Lo(k - 4 * k)
             x == IF (s \div 2) % 2 = 1 THEN s - 2 ELSE s + 2
         IN  x \in Int /\ Congruent(k * x + 1, 0, TwoTo[Lesser(W, 5)])
<1> DEFINE s == Lo(k - 4 * k)
           x == IF (s \div 2) % 2 = 1 THEN s - 2 ELSE s + 2
           cw == Lesser(W, 5)
           h1 == Hi(k - 4 * k)
<1>1. W \in Nat /\ W >= 1 /\ B = TwoTo[W] /\ B \in Nat
  BY WordBitsAssumption, BaseAssumption
<1>2. s \in Int /\ 0 <= s /\ s < B /\ h1 \in Int /\ k - 4 * k = s + B * h1
  <2> DEFINE y == k - 4 * k
  <2>1. y \in Int
    OBVIOUS
  <2> HIDE DEF y
  <2>2. Lo(y) \in Int /\ 0 <= Lo(y) /\ Lo(y) < B /\ Hi(y) \in Int /\ y = Lo(y) + B * Hi(y)
    BY <2>1, WordHalves
  <2>3. QED
    BY <2>2 DEF y
<1> HIDE DEF s, h1
<1>3. cw \in Nat /\ cw <= W /\ cw <= 5 /\ (W = 1 => cw = 1)
  BY <1>1 DEF Lesser
<1> HIDE DEF cw
<1>4. x \in Int
  BY <1>2
<1>5. TwoTo[1] = 2 /\ TwoTo[2] = 4 /\ TwoTo[5] = 32
  <2>1. TwoTo[0] = 1 /\ TwoTo[0 + 1] = 2 * TwoTo[0] /\ TwoTo[1 + 1] = 2 * TwoTo[1]
        /\ TwoTo[2 + 1] = 2 * TwoTo[2] /\ TwoTo[3 + 1] = 2 * TwoTo[3] /\ TwoTo[4 + 1] = 2 * TwoTo[4]
    BY TwoToFacts
  <2>2. 0 + 1 = 1 /\ 1 + 1 = 2 /\ 2 + 1 = 3 /\ 3 + 1 = 4 /\ 4 + 1 = 5
    OBVIOUS
  <2>3. QED
    BY <2>1, <2>2
<1>6. CASE W = 1
  <2>1. B = 2
    BY <1>1, <1>5, <1>6
  <2>2. k - 4 * k = s + 2 * h1
    BY <1>2, <2>1
  <2>3. s = 1
    BY <1>2, <2>1, <2>2
  <2>4. x = 3
    <3>1. (1 \div 2) % 2 = 0
      OBVIOUS
    <3>2. QED
      BY <2>3, <3>1
  <2> DEFINE g == k \div 2
  <2>5. g \in Int /\ k = 2 * g + 1
    OBVIOUS
  <2>6. k * x + 1 = 0 + 2 * (3 * g + 2) /\ 3 * g + 2 \in Int
    BY <2>4, <2>5
  <2>7. Congruent(k * x + 1, 0, 2)
    <3> DEFINE y == 3 * g + 2
    <3>1. y \in Int /\ k * x + 1 = 0 + 2 * y
      BY <2>6
    <3> HIDE DEF y, x
    <3>2. QED
      BY <3>1 DEF Congruent
  <2>8. TwoTo[cw] = 2
    BY <1>3, <1>5, <1>6
  <2>9. QED
    BY <1>4, <2>7, <2>8 DEF cw, s
<1>7. CASE W # 1
  <2> DEFINE b4 == TwoTo[W - 2]
             t == k \div 4
             gg == b4 * h1
             g == 0 - h1
  <2>1. b4 \in Nat /\ B = 4 * b4
    <3>1. W - 2 \in Nat /\ (W - 2) + 2 = W
      BY <1>1, <1>7
    <3> DEFINE jj == W - 2
    <3>2. jj \in Nat /\ jj + 2 = W /\ 2 \in Nat
      BY <3>1
    <3> HIDE DEF jj
    <3>3. TwoTo[jj + 2] = TwoTo[jj] * TwoTo[2] /\ TwoTo[jj] \in Nat
      BY <3>2, TwoToAdds, TwoToFacts
    <3>4. QED
      BY <1>1, <1>5, <3>2, <3>3 DEF jj
  <2> HIDE DEF b4
  <2>2. gg \in Int /\ B * h1 = 4 * gg /\ s = k - 4 * k - 4 * gg
    <3>1. (4 * b4) * h1 = 4 * (b4 * h1) /\ b4 * h1 \in Int
      BY <1>2, <2>1
    <3>2. B * h1 = 4 * (b4 * h1)
      BY <2>1, <3>1
    <3> DEFINE zq == B * h1
    <3>3. zq = 4 * gg /\ k - 4 * k = s + zq /\ gg \in Int
      BY <1>2, <3>1, <3>2
    <3> HIDE DEF zq, gg
    <3>4. s = k - 4 * k - 4 * gg
      BY <1>2, <3>3
    <3>5. QED
      BY <3>3, <3>4 DEF zq
  <2>3. t \in Int /\ (k = 4 * t + 1 \/ k = 4 * t + 3)
    OBVIOUS
  <2> HIDE DEF t, gg
  <2>4. \E y \in Int : k * x + 1 = 32 * y + B * (k * g)
    <3>0. g \in Int /\ k * g \in Int /\ B * (k * g) \in Int /\ k * (B * h1) \in Int /\ B * (k * g) = 0 - k * (B * h1)
      <4>1. k * g = 0 - k * h1 /\ k * h1 \in Int
        BY <1>2
      <4>2. B * (0 - k * h1) = 0 - B * (k * h1)
        BY <1>1, <4>1
      <4>3. B * (k * h1) = k * (B * h1) /\ B * (k * h1) \in Int
        BY <1>1, <1>2
      <4>4. QED
        BY <1>1, <1>2, <4>1, <4>2, <4>3
    <3>1. CASE k = 4 * t + 1
      <4> DEFINE jj == 0 - 3 * t - 1 - gg
      <4>1. jj \in Int /\ s = 4 * jj + 1
        BY <2>2, <2>3, <3>1
      <4>2. (s \div 2) % 2 = 0
        <5> HIDE DEF jj
        <5>1. s \div 2 = 2 * jj
          BY <4>1
        <5>2. QED
          BY <4>1, <5>1
      <4>3. x = s + 2
        BY <4>2
      <4> DEFINE q == (t * (3 * t + 1)) \div 2
                 pz == t * (3 * t + 1)
      <4>4. q \in Int /\ pz = 2 * q
        <5>1. pz \in Int /\ pz % 2 = 0
          <6> DEFINE y == t \div 2
          <6>1. y \in Int /\ (t = 2 * y \/ t = 2 * y + 1)
            BY <2>3
          <6> HIDE DEF y
          <6>2. CASE t = 2 * y
            <7>1. pz = 2 * (y * (3 * t + 1)) /\ y * (3 * t + 1) \in Int
              BY <2>3, <6>1, <6>2
            <7> DEFINE zq == y * (3 * t + 1)
            <7> HIDE DEF zq
            <7>2. pz = 2 * zq /\ zq \in Int
              BY <7>1 DEF zq
            <7> HIDE DEF pz
            <7>3. QED
              BY <7>2
          <6>3. CASE t = 2 * y + 1
            <7>1. 3 * t + 1 = 2 * (3 * y + 2)
              BY <6>1, <6>3
            <7>2. pz = 2 * (t * (3 * y + 2)) /\ t * (3 * y + 2) \in Int
              BY <2>3, <6>1, <7>1
            <7> DEFINE zq == t * (3 * y + 2)
            <7>3. pz = 2 * zq /\ zq \in Int
              BY <7>2
            <7> HIDE DEF zq, pz
            <7>4. QED
              BY <7>3
          <6>4. QED
            BY <6>1, <6>2, <6>3
        <5> HIDE DEF pz
        <5>2. pz \div 2 \in Int /\ pz = 2 * (pz \div 2)
          BY <5>1
        <5>3. QED
          BY <5>2 DEF pz
      <4> HIDE DEF q
      <4>5. k * x + 1 = (0 - 16) * pz - k * (B * h1)
        <5> DEFINE zq == B * h1
        <5>1. zq = 4 * gg /\ x = 2 - 3 * k - zq /\ zq \in Int
          BY <2>2, <4>3
        <5> HIDE DEF zq, x
        <5>2. k * x = k * (2 - 3 * k) - k * zq /\ k * (2 - 3 * k) + 1 = (0 - 16) * pz
          BY <2>3, <3>1, <5>1
        <5>3. k * zq \in Int /\ k * (2 - 3 * k) \in Int
          BY <5>1
        <5>4. k * x + 1 = (0 - 16) * pz - k * zq
          <6> DEFINE y1 == k * x
                     y2 == k * (2 - 3 * k)
                     y3 == k * zq
          <6>1. y1 = y2 - y3 /\ y2 + 1 = (0 - 16) * pz /\ y2 \in Int /\ y3 \in Int /\ pz \in Int
            BY <4>4, <5>2, <5>3
          <6> HIDE DEF y1, y2, y3, pz
          <6>2. y1 + 1 = (0 - 16) * pz - y3
            BY <6>1
          <6>3. QED
            BY <6>2 DEF y1, y3
        <5>5. QED
          BY <5>4 DEF zq
      <4> HIDE DEF x
      <4>6. k * x + 1 = 32 * (0 - q) + B * (k * g) /\ 0 - q \in Int
        <5> DEFINE z1 == B * (k * g)
                   z2 == k * (B * h1)
        <5>1. z1 = 0 - z2 /\ z2 \in Int /\ k * x + 1 = (0 - 16) * pz - z2 /\ pz = 2 * q /\ q \in Int
          BY <3>0, <4>4, <4>5
        <5> HIDE DEF z1, z2, pz
        <5>2. k * x + 1 = 32 * (0 - q) + z1
          BY <5>1
        <5>3. QED
          BY <5>1, <5>2 DEF z1
      <4>7. QED
        BY <4>6
    <3>2. CASE k = 4 * t + 3
      <4> DEFINE jj == 0 - 3 * t - 3 - gg
      <4>1. jj \in Int /\ s = 4 * jj + 3
        BY <2>2, <2>3, <3>2
      <4>2. (s \div 2) % 2 = 1
        <5> HIDE DEF jj
        <5>1. s \div 2 = 2 * jj + 1
          BY <4>1
        <5>2. QED
          BY <4>1, <5>1
      <4>3. x = s - 2
        BY <4>2
      <4> DEFINE pz == (3 * t + 2) * (t + 1)
                 q == pz \div 2
      <4>4. q \in Int /\ pz = 2 * q
        <5>1. pz \in Int /\ pz % 2 = 0
          <6> DEFINE y == t \div 2
          <6>1. y \in Int /\ (t = 2 * y \/ t = 2 * y + 1)
            BY <2>3
          <6> HIDE DEF y
          <6>2. CASE t = 2 * y
            <7>1. 3 * t + 2 = 2 * (3 * y + 1)
              BY <6>1, <6>2
            <7>2. pz = 2 * ((3 * y + 1) * (t + 1)) /\ (3 * y + 1) * (t + 1) \in Int
              BY <2>3, <6>1, <7>1
            <7> DEFINE zq == (3 * y + 1) * (t + 1)
            <7>3. pz = 2 * zq /\ zq \in Int
              BY <7>2
            <7> HIDE DEF pz, zq
            <7>4. QED
              BY <7>3
          <6>3. CASE t = 2 * y + 1
            <7>1. t + 1 = 2 * (y + 1)
              BY <6>1, <6>3
            <7>2. pz = 2 * ((3 * t + 2) * (y + 1)) /\ (3 * t + 2) * (y + 1) \in Int
              BY <2>3, <6>1, <7>1
            <7> DEFINE zq == (3 * t + 2) * (y + 1)
            <7>3. pz = 2 * zq /\ zq \in Int
              BY <7>2
            <7> HIDE DEF zq, pz
            <7>4. QED
              BY <7>3
          <6>4. QED
            BY <6>1, <6>2, <6>3
        <5> HIDE DEF pz
        <5>2. pz \div 2 \in Int /\ pz = 2 * (pz \div 2)
          BY <5>1
        <5>3. QED
          BY <5>2
      <4> HIDE DEF q
      <4>5. k * x + 1 = (0 - 16) * pz - k * (B * h1)
        <5> DEFINE zq == B * h1
        <5>1. zq = 4 * gg /\ x = 0 - 2 - 3 * k - zq /\ zq \in Int
          BY <2>2, <4>3
        <5> HIDE DEF zq, x
        <5>2. k * x = k * (0 - 2 - 3 * k) - k * zq /\ k * (0 - 2 - 3 * k) + 1 = (0 - 16) * pz
          BY <2>3, <3>2, <5>1
        <5>3. k * zq \in Int /\ k * (0 - 2 - 3 * k) \in Int
          BY <5>1
        <5>4. k * x + 1 = (0 - 16) * pz - k * zq
          <6> DEFINE y1 == k * x
                     y2 == k * (0 - 2 - 3 * k)
                     y3 == k * zq
          <6>1. y1 = y2 - y3 /\ y2 + 1 = (0 - 16) * pz /\ y2 \in Int /\ y3 \in Int /\ pz \in Int
            BY <4>4, <5>2, <5>3
          <6> HIDE DEF y1, y2, y3, pz
          <6>2. y1 + 1 = (0 - 16) * pz - y3
            BY <6>1
          <6>3. QED
            BY <6>2 DEF y1, y3
        <5>5. QED
          BY <5>4 DEF zq
      <4> HIDE DEF x
      <4>6. k * x + 1 = 32 * (0 - q) + B * (k * g) /\ 0 - q \in Int
        <5> DEFINE z1 == B * (k * g)
                   z2 == k * (B * h1)
        <5>1. z1 = 0 - z2 /\ z2 \in Int /\ k * x + 1 = (0 - 16) * pz - z2 /\ pz = 2 * q /\ q \in Int
          BY <3>0, <4>4, <4>5
        <5> HIDE DEF z1, z2, pz
        <5>2. k * x + 1 = 32 * (0 - q) + z1
          BY <5>1
        <5>3. QED
          BY <5>1, <5>2 DEF z1
      <4>7. QED
        BY <4>6
    <3>3. QED
      BY <2>3, <3>1, <3>2
  <2> DEFINE kg == k * g
  <2>5. kg \in Int
    BY <1>2
  <2>6. PICK y \in Int : k * x + 1 = 32 * y + B * kg
    BY <2>4
  <2> HIDE DEF kg, x
  <2> DEFINE u1 == 32 * y
             u2 == B * kg
  <2>7. u1 \in Int /\ u2 \in Int /\ k * x + 1 = u1 + u2
    BY <1>1, <2>5, <2>6
  <2>8. Congruent(u1, 0, TwoTo[5]) /\ Congruent(u2, 0, TwoTo[W])
    <3>1. u1 = 0 + TwoTo[5] * y /\ u2 = 0 + TwoTo[W] * kg
      BY <1>1, <1>5, <2>7
    <3> HIDE DEF u1, u2
    <3>2. QED
      BY <2>5, <3>1 DEF Congruent
  <2> HIDE DEF u1, u2
  <2>9. Congruent(u1, 0, TwoTo[cw]) /\ Congruent(u2, 0, TwoTo[cw])
    <3>1. 5 \in Nat /\ cw \in Nat /\ W \in Nat /\ cw <= 5 /\ cw <= W
      BY <1>1, <1>3
    <3>2. Congruent(u1, 0, TwoTo[cw])
      BY <2>7, <2>8, <3>1, TwoToDivides
    <3>3. Congruent(u2, 0, TwoTo[cw])
      BY <2>7, <2>8, <3>1, TwoToDivides
    <3>4. QED
      BY <3>2, <3>3
  <2>10. Congruent(k * x + 1, 0, TwoTo[cw])
    <3> DEFINE r == TwoTo[cw]
    <3>1. r \in Nat /\ Congruent(u1, 0, r) /\ Congruent(u2, 0, r)
      BY <1>3, <2>9, TwoToFacts
    <3> HIDE DEF r
    <3>2. Congruent(u1 + u2, 0, r)
      BY <2>7, <3>1, SumOfMultiples
    <3>3. QED
      BY <2>7, <3>2 DEF r
  <2>11. QED
    BY <1>4, <2>10 DEF cw, s, x
<1>8. QED
  BY <1>6, <1>7

\* The negated inverse of an odd word: four steps are enough for 80 bits.
LEMMA NegmodinvRight ==
  ASSUME NEW k \in Nat, k % 2 = 1
  PROVE  WordNegmodinv(k) \in Digit /\ Congruent(k * WordNegmodinv(k) + 1, 0, B)
         /\ word_negmodinv(k, WordNegmodinv(k))
<1> DEFINE s == Lo(k - 4 * k)
           x == IF (s \div 2) % 2 = 1 THEN s - 2 ELSE s + 2
           e1 == Lo(k * x + 1)
           e2 == Lo(e1 * e1)
           e4 == Lo(e2 * e2)
           e8 == Lo(e4 * e4)
           e16 == Lo(e8 * e8)
           x10 == Lo(e1 * x + x)
           x20 == Lo(e2 * x10 + x10)
           x40 == Lo(e4 * x20 + x20)
           x80 == Lo(e8 * x40 + x40)
<1>0. W \in Nat /\ B = TwoTo[W] /\ B \in Nat /\ B >= 2 /\ W <= 80 /\ k \in Int
  BY WordBitsAssumption, BaseAssumption, NewtonAssumption
<1>1. WordNegmodinv(k) = x80
  BY DEF WordNegmodinv
<1>2. x \in Int /\ Congruent(k * x + 1, 0, TwoTo[Lesser(W, 5)])
  BY NegmodinvStart
<1> HIDE DEF s, x
<1>3. k * x + 1 \in Int
  BY <1>2
<1>4. e1 \in Int /\ Congruent(k * x + 1, e1, B)
  <2> DEFINE v == k * x + 1
  <2> HIDE DEF v
  <2>1. Lo(v) \in Int /\ Congruent(v, Lo(v), B)
    BY <1>3, LoCongruent DEF v
  <2>2. QED
    BY <2>1 DEF v
<1>5. Congruent(e1, 0, TwoTo[Lesser(W, 5)])
  <2> DEFINE v == k * x + 1
             cw == Lesser(W, 5)
             r == TwoTo[cw]
  <2>1. cw \in Nat /\ cw <= W
    BY <1>0 DEF Lesser
  <2>2. r \in Nat
    <3> HIDE DEF cw
    <3>1. QED
      BY <2>1, TwoToFacts
  <2>3. v \in Int /\ Congruent(v, 0, r) /\ Congruent(v, e1, B)
    BY <1>2, <1>3, <1>4
  <2> HIDE DEF v, e1, cw
  <2>4. PICK g \in Int : v = e1 + B * g
    BY <2>3 DEF Congruent
  <2> DEFINE u == e1 - v
             gg == 0 - g
  <2>5. gg \in Int /\ u \in Int /\ u = 0 + B * gg
    <3>1. B * (0 - g) = 0 - B * g /\ B * g \in Int
      BY <1>0, <2>4
    <3>2. QED
      BY <1>4, <2>3, <2>4, <3>1
  <2> HIDE DEF gg
  <2>6. Congruent(u, 0, TwoTo[W])
    <3> HIDE DEF u
    <3>1. QED
      BY <1>0, <2>5 DEF Congruent
  <2>7. Congruent(u, 0, r)
    <3> HIDE DEF u
    <3>1. QED
      BY <1>0, <2>1, <2>5, <2>6, TwoToDivides
  <2>8. Congruent(u + v, 0, r)
    <3> HIDE DEF u, r
    <3>1. QED
      BY <2>2, <2>3, <2>5, <2>7, SumOfMultiples
  <2>9. u + v = e1
    BY <1>4, <2>3
  <2>10. QED
    BY <2>8, <2>9 DEF cw
<1>6. e2 \in Int /\ Congruent(e2, 0, TwoTo[Lesser(W, 10)])
  <2>1. 5 \in Nat /\ 2 * 5 = 10
    OBVIOUS
  <2> HIDE DEF e1
  <2>2. Lo(e1 * e1) \in Int /\ Congruent(Lo(e1 * e1), 0, TwoTo[Lesser(W, 2 * 5)])
    BY <1>4, <1>5, <2>1, LoSquare
  <2>3. QED
    BY <2>1, <2>2
<1>7. e4 \in Int /\ Congruent(e4, 0, TwoTo[Lesser(W, 20)])
  <2>1. 10 \in Nat /\ 2 * 10 = 20
    OBVIOUS
  <2> HIDE DEF e2
  <2>2. Lo(e2 * e2) \in Int /\ Congruent(Lo(e2 * e2), 0, TwoTo[Lesser(W, 2 * 10)])
    BY <1>6, <2>1, LoSquare
  <2>3. QED
    BY <2>1, <2>2
<1>8. e8 \in Int /\ Congruent(e8, 0, TwoTo[Lesser(W, 40)])
  <2>1. 20 \in Nat /\ 2 * 20 = 40
    OBVIOUS
  <2> HIDE DEF e4
  <2>2. Lo(e4 * e4) \in Int /\ Congruent(Lo(e4 * e4), 0, TwoTo[Lesser(W, 2 * 20)])
    BY <1>7, <2>1, LoSquare
  <2>3. QED
    BY <2>1, <2>2
<1>9. e16 \in Int /\ Congruent(e16, 0, B)
  <2>1. 40 \in Nat /\ 2 * 40 = 80 /\ Lesser(W, 80) = W
    BY <1>0 DEF Lesser
  <2> HIDE DEF e8
  <2>2. Lo(e8 * e8) \in Int /\ Congruent(Lo(e8 * e8), 0, TwoTo[Lesser(W, 2 * 40)])
    BY <1>8, <2>1, LoSquare
  <2>3. QED
    BY <1>0, <2>1, <2>2
<1>10. x10 \in Int /\ Congruent(k * x10 + 1, e2, B)
  <2> HIDE DEF e1
  <2>1. QED
    BY <1>0, <1>2, <1>4, NewtonStep
<1>11. x20 \in Int /\ Congruent(k * x20 + 1, e4, B)
  <2> HIDE DEF e2, x10
  <2>1. QED
    BY <1>0, <1>6, <1>10, NewtonStep
<1>12. x40 \in Int /\ Congruent(k * x40 + 1, e8, B)
  <2> HIDE DEF e4, x20
  <2>1. QED
    BY <1>0, <1>7, <1>11, NewtonStep
<1>13. x80 \in Int /\ Congruent(k * x80 + 1, e16, B)
  <2> HIDE DEF e8, x40
  <2>1. QED
    BY <1>0, <1>8, <1>12, NewtonStep
<1>14. x80 \in Digit
  <2> HIDE DEF e8, x40
  <2> DEFINE v == e8 * x40 + x40
  <2>1. v \in Int
    BY <1>8, <1>12
  <2> HIDE DEF v
  <2>2. Lo(v) \in Int /\ 0 <= Lo(v) /\ Lo(v) < B
    BY <2>1, WordHalves
  <2>3. Lo(v) \in Digit
    BY <1>0, <2>2 DEF Digit
  <2>4. QED
    BY <2>3 DEF v
<1> HIDE DEF x80, e16
<1> DEFINE zq == k * x80 + 1
<1>15. zq \in Int
  BY <1>13
<1>16. Congruent(zq, 0, B)
  <2>1. Congruent(zq, e16, B)
    BY <1>13
  <2> HIDE DEF zq
  <2>2. 0 \in Int
    OBVIOUS
  <2>3. QED
    BY <1>0, <1>9, <1>15, <2>1, <2>2, CongruentTransitive
<1>17. zq % B = 0
  <2> HIDE DEF zq
  <2>1. PICK g \in Int : zq = 0 + B * g
    BY <1>16 DEF Congruent
  <2>2. 0 \in 0 .. (B - 1) /\ B * g \in Int
    BY <1>0, <2>1
  <2>3. (B * g + 0) % B = 0
    <3>1. B \in Nat /\ B > 0 /\ g \in Int /\ 0 \in 0 .. (B - 1)
      BY <1>0, <2>1, <2>2
    <3>2. QED
      BY ONLY <3>1, DivUnique
  <2>4. zq = B * g + 0
    BY <2>1, <2>2
  <2>5. QED
    BY <2>3, <2>4
<1>18. QED
  BY <1>1, <1>14, <1>16, <1>17 DEF word_negmodinv

-----------------------------------------------------------------------------
(* Division: the quotient from the lowest word up.                          *)

\* An odd number has no factor in common with a power of two.
LEMMA OddCancels ==
  ASSUME NEW o \in Nat, o % 2 = 1, NEW jj \in Nat, NEW y \in Int, Congruent(o * y, 0, TwoTo[jj])
  PROVE  Congruent(y, 0, TwoTo[jj])
<1> DEFINE r == TwoTo[jj]
<1>1. IsPow2(TwoTo) /\ r \in Nat
  BY TwoToFacts DEF IsPow2
<1>2. HasMultiplier(1, o, r)
  BY <1>1, OddMultiplier
<1> HIDE DEF r
<1>3. PICK u \in 0 .. (r - 1), s \in Int : 1 + u * o = r * s
  BY <1>2 DEF HasMultiplier
<1>4. PICK g \in Int : o * y = 0 + r * g
  BY DEF Congruent, r
<1>5. u \in Int
  BY <1>1
<1> DEFINE q == y * s - u * g
<1>6. q \in Int /\ y = 0 + r * q
  <2>1. (1 + u * o) * y = y + u * (o * y)
    BY <1>5
  <2>2. (r * s) * y = r * (y * s) /\ u * (r * g) = r * (u * g) /\ r * (u * g) \in Int /\ r * (y * s) \in Int
    BY <1>1, <1>3, <1>4, <1>5
  <2>3. r * q = r * (y * s) - r * (u * g)
    BY <1>1, <1>3, <1>4, <1>5
  <2>4. o * y = r * g /\ r * g \in Int
    BY <1>1, <1>4
  <2>5. u * (o * y) = r * (u * g)
    BY <2>2, <2>4
  <2>6. (1 + u * o) * y = r * (y * s)
    BY <1>3, <2>2
  <2>7. q \in Int
    BY <1>3, <1>4, <1>5
  <2> DEFINE y1 == r * (y * s)
             y2 == r * (u * g)
             y3 == r * q
  <2>8. y1 = y + y2 /\ y3 = y1 - y2 /\ y1 \in Int /\ y2 \in Int
    BY <2>1, <2>2, <2>3, <2>5, <2>6
  <2> HIDE DEF y1, y2, y3
  <2>9. y = 0 + y3
    BY <2>8
  <2>10. QED
    BY <2>7, <2>9 DEF y3
<1> HIDE DEF q
<1>7. Congruent(y, 0, r)
  BY <1>6 DEF Congruent
<1>8. QED
  BY <1>7 DEF r

\* The words of a number from the lowest up: t[j] is the value of those from
\* word j on.
Tails(t, b, x) ==
  /\ t \in [Nat -> Int] /\ t[0] = Of(b, x)
  /\ \A jj \in Nat : t[jj] = WordOf(x, jj + 1) + b * t[jj + 1]
  /\ \A jj \in Nat : jj >= Len(x) => t[jj] = 0

\* Every number has them.
LEMMA TailsExist ==
  ASSUME NEW b \in Nat, b > 0, NEW x \in Seq(0 .. (b - 1))
  PROVE  \E t : Tails(t, b, x)
<1>1. PICK v : Horner(v, x, b) /\ Of(b, x) = v[Len(x)]
  BY OfIs
<1>2. /\ v \in [Nat -> Int] /\ v[0] = 0
      /\ \A jj \in Nat : v[jj + 1] = WordOf(x, Len(x) - jj) + b * v[jj]
      /\ Len(x) \in Nat
  <2>1. Len(x) \in Nat
    OBVIOUS
  <2>2. QED
    BY <1>1, <2>1 DEF Horner
<1> DEFINE len == Len(x)
           t == [jj \in Nat |-> IF jj <= len THEN v[len - jj] ELSE 0]
<1>3. t \in [Nat -> Int]
  <2>1. ASSUME NEW jj \in Nat, jj <= len PROVE v[len - jj] \in Int
    <3>1. len - jj \in Nat
      BY <1>2, <2>1
    <3>2. QED
      BY <1>2, <3>1
  <2> HIDE DEF len
  <2>2. QED
    BY <2>1
<1>4. t[0] = Of(b, x)
  BY <1>1, <1>2
<1>5. ASSUME NEW jj \in Nat, jj >= len PROVE t[jj] = 0
  <2>1. CASE jj = len
    <3>1. len - jj = 0 /\ jj <= len
      BY <1>2, <2>1
    <3>2. QED
      BY <1>2, <3>1
  <2>2. CASE jj # len
    <3>1. ~(jj <= len)
      BY <1>2, <1>5, <2>2
    <3>2. QED
      BY <3>1
  <2>3. QED
    BY <2>1, <2>2
<1>6. ASSUME NEW jj \in Nat PROVE t[jj] = WordOf(x, jj + 1) + b * t[jj + 1]
  <2>1. CASE jj < len
    <3> DEFINE dw == len - (jj + 1)
    <3>0. len \in Nat
      BY <1>2
    <3> HIDE DEF len
    <3>1. dw \in Nat /\ dw + 1 = len - jj /\ len - dw = jj + 1 /\ jj + 1 <= len /\ jj <= len /\ jj + 1 \in Nat
      BY <2>1, <3>0
    <3>2. t[jj + 1] = v[dw] /\ t[jj] = v[dw + 1]
      BY <3>1
    <3> HIDE DEF dw, t
    <3>3. v[dw + 1] = WordOf(x, len - dw) + b * v[dw]
      BY <1>2, <3>1 DEF len
    <3>4. QED
      BY <3>1, <3>2, <3>3
  <2>2. CASE jj >= len
    <3>1. jj + 1 \in Nat /\ jj + 1 >= len
      BY <1>2, <2>2
    <3>2. t[jj] = 0 /\ t[jj + 1] = 0
      BY <1>5, <2>2, <3>1
    <3>3. WordOf(x, jj + 1) = 0
      <4>1. jj + 1 \notin 1 .. Len(x)
        BY <1>2, <2>2
      <4>2. QED
        BY <4>1 DEF WordOf
    <3> HIDE DEF t
    <3>4. b * 0 = 0
      OBVIOUS
    <3>5. QED
      BY <3>2, <3>3, <3>4
  <2>3. QED
    BY <1>2, <2>1, <2>2
<1> HIDE DEF t
<1>7. QED
  BY <1>3, <1>4, <1>5, <1>6 DEF Tails, len

\* A number of len words is below the power of the base.
LEMMA OfBelow ==
  ASSUME NEW x \in Seq(Digit)
  PROVE  Of(B, x) \in Int /\ 0 <= Of(B, x) /\ Of(B, x) < Pow[Len(x)]
<1>0. B \in Nat /\ B > 0
  BY BaseAssumption
<1>1. PICK v : Horner(v, x, B) /\ Of(B, x) = v[Len(x)]
  <2>1. x \in Seq(0 .. (B - 1))
    BY DEF Digit
  <2>2. QED
    BY <1>0, <2>1, OfIs
<1>2. /\ v \in [Nat -> Int] /\ v[0] = 0
      /\ \A jj \in Nat : v[jj + 1] = WordOf(x, Len(x) - jj) + B * v[jj]
      /\ Len(x) \in Nat
  <2>1. Len(x) \in Nat
    OBVIOUS
  <2>2. QED
    BY <1>1, <2>1 DEF Horner
<1> DEFINE T == {jj \in Nat : 0 <= v[jj] /\ v[jj] < Pow[jj]}
<1>3. 0 \in T
  <2>1. v[0] = 0 /\ Pow[0] = 1 /\ 0 \in Nat
    BY <1>2, PowFacts
  <2>2. QED
    BY <2>1
<1>4. ASSUME NEW jj \in T PROVE jj + 1 \in T
  <2>1. jj \in Nat /\ jj + 1 \in Nat /\ v[jj] \in Int /\ 0 <= v[jj] /\ v[jj] < Pow[jj] /\ Len(x) - jj \in Int
    BY <1>2
  <2>2. v[jj + 1] = WordOf(x, Len(x) - jj) + B * v[jj] /\ Pow[jj + 1] = B * Pow[jj] /\ Pow[jj] \in Nat
    <3>1. v[jj + 1] = WordOf(x, Len(x) - jj) + B * v[jj]
      BY <1>2, <2>1
    <3>2. Pow[jj + 1] = B * Pow[jj] /\ Pow[jj] \in Nat
      <4>1. jj \in Nat
        BY <2>1
      <4> HIDE DEF T
      <4>2. Pow[jj] \in Nat
        BY <4>1, PowPositive
      <4>3. Pow[jj + 1] = B * Pow[jj]
        BY <4>1, PowFacts, Zenon
      <4>4. QED
        BY <4>2, <4>3
    <3>3. QED
      BY <3>1, <3>2
  <2> DEFINE dw == WordOf(x, Len(x) - jj)
             u == v[jj]
             pz == Pow[jj]
  <2>3. dw \in Int /\ 0 <= dw /\ dw < B
    <3>1. x \in Seq(0 .. (B - 1))
      BY DEF Digit
    <3>2. QED
      BY <1>0, <2>1, <3>1, WordOfType
  <2>4. u \in Int /\ 0 <= u /\ u + 1 <= pz /\ pz \in Nat
    BY <2>1, <2>2
  <2> HIDE DEF dw, u, pz
  <2>5. 0 <= B * u /\ B * (u + 1) <= B * pz /\ B * (u + 1) = B * u + B /\ B * u \in Int /\ B * pz \in Int
    BY <1>0, <2>4
  <2>6. 0 <= dw + B * u /\ dw + B * u < B * pz
    BY <1>0, <2>3, <2>5
  <2>7. QED
    BY <2>1, <2>2, <2>6 DEF dw, u, pz
<1>5. T = Nat
  <2>1. T \in SUBSET Nat
    OBVIOUS
  <2> HIDE DEF T
  <2>2. QED
    BY <1>3, <1>4, <2>1, InductionOnNat
<1>6. QED
  BY <1>1, <1>2, <1>5

\* A multiplier clears the lowest word, and what is carried is one word.
LEMMA CarryRight ==
  ASSUME NEW o \in Nat, o % 2 = 1, o < B, NEW s \in Int, 0 <= s, s <= 2 * B - 2
  PROVE  LET q == Lo(Lo(s) * WordNegmodinv(o))
             cw == Lo(Hi(q * o) + Hi(s) + Hi(Lo(q * o) + Lo(s)))
         IN  /\ q \in Int /\ 0 <= q /\ q < B /\ cw \in Int /\ 0 <= cw /\ cw < B
             /\ q * o + s = B * cw
<1> DEFINE rw == WordNegmodinv(o)
           sl == Lo(s)
           sh == Hi(s)
           p1 == sl * rw
           q == Lo(p1)
           P == q * o
           pl == Lo(P)
           ph == Hi(P)
           y == pl + sl
           c0 == ph + sh + Hi(y)
<1>0. B \in Nat /\ B >= 2 /\ o \in Int /\ B * B \in Int
  BY BaseAssumption
<1>1. rw \in Int /\ Congruent(o * rw + 1, 0, B)
  <2>1. rw \in Digit /\ Congruent(o * rw + 1, 0, B)
    BY NegmodinvRight
  <2>2. QED
    BY <1>0, <2>1 DEF Digit
<1> HIDE DEF rw
<1>2. PICK g \in Int : o * rw + 1 = 0 + B * g
  BY <1>1 DEF Congruent
<1>3. sl \in Int /\ 0 <= sl /\ sl < B /\ sh \in Int /\ s = sl + B * sh
  BY WordHalves
<1> HIDE DEF sl, sh
<1>4. p1 \in Int
  BY <1>1, <1>3
<1> DEFINE h1 == Hi(p1)
<1>5. q \in Int /\ 0 <= q /\ q < B /\ h1 \in Int /\ p1 = q + B * h1
  <2> HIDE DEF p1
  <2>1. QED
    BY <1>4, WordHalves
<1> HIDE DEF q, h1
<1>6. P \in Int /\ 0 <= P /\ P <= (B - 1) * (B - 1)
  <2>1. P \in Int /\ 0 <= P
    BY <1>0, <1>5
  <2>2. q * o <= q * (B - 1) /\ q * (B - 1) <= (B - 1) * (B - 1)
    BY <1>0, <1>5
  <2>3. q * (B - 1) \in Int /\ (B - 1) * (B - 1) \in Int
    BY <1>0, <1>5
  <2>4. QED
    BY <2>1, <2>2, <2>3
<1>7. pl \in Int /\ 0 <= pl /\ pl < B /\ ph \in Int /\ P = pl + B * ph
  <2> HIDE DEF P
  <2>1. QED
    BY <1>6, WordHalves
<1> DEFINE C == sl * g + sh - h1 * o
<1>8. C \in Int /\ P + s = B * C
  <2>1. sl * g \in Int /\ h1 * o \in Int /\ C \in Int
    BY <1>0, <1>2, <1>3, <1>5
  <2>2. B * C = B * (sl * g) + B * sh - B * (h1 * o)
    BY <1>0, <1>2, <1>3, <1>5
  <2>3. P = (sl * rw) * o - (B * h1) * o
    <3>1. B * h1 \in Int
      BY <1>0, <1>5
    <3> DEFINE zq == B * h1
    <3>2. zq \in Int /\ p1 = q + zq
      BY <1>5, <3>1
    <3> HIDE DEF zq, p1
    <3>3. q = p1 - zq
      BY <1>4, <1>5, <3>2
    <3>4. q * o = p1 * o - zq * o
      BY <1>0, <1>4, <3>2, <3>3
    <3>5. QED
      BY <3>4 DEF zq, p1
  <2>4. (sl * rw) * o = sl * (B * g) - sl
    <3>1. sl * (o * rw + 1) = (sl * rw) * o + sl /\ (sl * rw) * o \in Int
      BY <1>0, <1>1, <1>3
    <3>2. o * rw + 1 = B * g
      BY <1>0, <1>2
    <3>3. QED
      BY <1>3, <3>1, <3>2
  <2>5. sl * (B * g) = B * (sl * g) /\ (B * h1) * o = B * (h1 * o)
    BY <1>0, <1>2, <1>3, <1>5
  <2> DEFINE z1 == B * (sl * g)
             z2 == B * (h1 * o)
             z3 == B * sh
  <2>6. z1 \in Int /\ z2 \in Int /\ z3 \in Int
    BY <1>0, <1>2, <1>3, <1>5
  <2>7. P = z1 - sl - z2 /\ s = sl + z3 /\ B * C = z1 + z3 - z2
    BY <1>3, <2>2, <2>3, <2>4, <2>5
  <2> DEFINE z4 == B * C
  <2> HIDE DEF z1, z2, z3, z4, P, C
  <2>8. P + s = z4
    BY <1>3, <2>6, <2>7 DEF z4
  <2>9. QED
    BY <2>1, <2>8 DEF z4
<1> HIDE DEF C
<1> DEFINE bc == B * C
<1>9. bc \in Int /\ 0 <= bc /\ bc <= B * B - 1
  <2>1. (B - 1) * (B - 1) = B * B - 2 * B + 1
    BY <1>0
  <2> DEFINE S == B * B
             t == (B - 1) * (B - 1)
  <2>2. S \in Int /\ t = S - 2 * B + 1 /\ P <= t /\ P + s = bc
    BY <1>0, <1>6, <1>8, <2>1
  <2> HIDE DEF S, t, P, bc
  <2>3. bc \in Int /\ 0 <= bc /\ bc <= S - 1
    BY <1>0, <1>6, <2>2
  <2>4. QED
    BY <2>3 DEF S
<1>10. 0 <= C /\ C < B
  <2>1. C >= 0
    <3>1. SUFFICES ASSUME C <= 0 - 1 PROVE FALSE
      BY <1>8
    <3>2. B * C <= B * (0 - 1) /\ B * (0 - 1) = 0 - B
      BY <1>0, <1>8, <3>1
    <3>3. QED
      BY <1>0, <1>9, <3>2
  <2>2. C < B
    <3>1. SUFFICES ASSUME C >= B PROVE FALSE
      BY <1>0, <1>8
    <3>2. B * C >= B * B
      BY <1>0, <1>8, <3>1
    <3> DEFINE S == B * B
    <3>3. S \in Int /\ bc >= S /\ bc <= S - 1
      BY <1>0, <1>9, <3>2
    <3> HIDE DEF bc, S
    <3>4. QED
      BY <1>9, <3>3
  <2>3. QED
    BY <2>1, <2>2
<1> DEFINE zq == C - ph - sh
<1>11. y \in Int /\ zq \in Int /\ y = B * zq
  <2>1. B * zq = B * C - B * ph - B * sh
    BY <1>0, <1>3, <1>7, <1>8
  <2> DEFINE z1 == B * ph
             z2 == B * sh
             z3 == B * zq
  <2>2. z1 \in Int /\ z2 \in Int /\ z3 = bc - z1 - z2 /\ P = pl + z1 /\ s = sl + z2 /\ P + s = bc
    BY <1>0, <1>3, <1>7, <1>8, <2>1
  <2>3. y \in Int /\ zq \in Int
    BY <1>3, <1>7, <1>8
  <2> HIDE DEF z1, z2, z3, P, bc, pl, ph
  <2>4. y = z3
    BY <1>3, <1>6, <1>7, <1>9, <2>2
  <2>5. QED
    BY <2>3, <2>4 DEF z3
<1>12. Hi(y) = zq
  <2> HIDE DEF y, zq
  <2>1. B * zq <= y /\ y < B * zq + B
    BY <1>0, <1>11
  <2>2. QED
    BY <1>11, <2>1, HiBound
<1>13. c0 = C
  <2> HIDE DEF ph, pl
  <2>1. ph + sh + zq = C
    BY <1>3, <1>7, <1>8
  <2> HIDE DEF y
  <2>2. c0 = ph + sh + zq
    BY <1>12
  <2>3. QED
    BY <2>1, <2>2
<1>14. Lo(c0) = C
  <2> HIDE DEF c0
  <2>1. QED
    BY <1>8, <1>10, <1>13, LoSmall
<1>15. P + s = B * Lo(c0)
  BY <1>8, <1>14
<1>16. QED
  <2> DEFINE cc == Lo(c0)
  <2>1. cc \in Int /\ 0 <= cc /\ cc < B /\ q * o + s = B * cc
    BY <1>8, <1>10, <1>14, <1>15
  <2>2. QED
    BY <1>5, <2>1 DEF q, sl, sh, rw

\* The states of the loop of the quotient: the words of z it holds, the part of
\* the word of x already read, and the carry.
LoopState(len) == [z : [1 .. len -> Int], d : Int, c : Int]

\* How many words the loop holds, and its first state.
Held(k, x, inplace) == IF inplace /\ Len(x) > k THEN Len(x) ELSE k
FirstState(k, x, e, carry, inplace) ==
  [z |-> [jj \in 1 .. Held(k, x, inplace) |-> IF inplace /\ jj <= Len(x) THEN x[jj] ELSE B - 1],
   d |-> WordOf(x, 1) \div TwoTo[e], c |-> carry]

\* The sequence of the states.
LoopStates(s, k, x, e, o, carry, inplace) ==
  /\ s[0] = FirstState(k, x, e, carry, inplace)
  /\ \A jj \in Nat : s[jj + 1] = QuotientStep(s[jj], jj + 1, x, e, o, WordNegmodinv(o), inplace)
  /\ \A jj \in Nat : s[jj] \in LoopState(Held(k, x, inplace))

\* The word a step reads.
NextWord(zq, jj, x, inplace) == IF jj < Len(x) THEN WordOf(IF inplace THEN zq ELSE x, jj + 1) ELSE 0

\* A step keeps the state one of the loop.
LEMMA LoopStepType ==
  ASSUME NEW len \in Nat, NEW s \in LoopState(len), NEW jj \in Int, NEW x \in Seq(Digit),
         NEW e \in Nat, W - e \in Nat, NEW o \in Int, NEW rw \in Int, NEW inplace \in BOOLEAN
  PROVE  QuotientStep(s, jj, x, e, o, rw, inplace) \in LoopState(len)
<1> DEFINE l == NextWord(s.z, jj, x, inplace)
           y == s.d + (l % TwoTo[e]) * TwoTo[W - e] + s.c
           q == Lo(Lo(y) * rw)
           z1 == [s.z EXCEPT ![jj] = B - 1 - q]
           d1 == l \div TwoTo[e]
           c1 == Lo(Hi(q * o) + Hi(y) + Hi(Lo(q * o) + Lo(y)))
<1>1. s.z \in [1 .. len -> Int] /\ s.d \in Int /\ s.c \in Int
  BY DEF LoopState
<1>2. l \in Int
  <2>1. WordOf(s.z, jj + 1) \in Int
    <3> DEFINE zz == s.z
    <3>1. zz \in [1 .. len -> Int]
      BY <1>1
    <3> HIDE DEF zz
    <3>2. zz \in Seq(Int) /\ Len(zz) = len
      BY <3>1
    <3>3. WordOf(zz, jj + 1) \in Int
      <4>1. CASE jj + 1 \in 1 .. Len(zz)
        <5>1. WordOf(zz, jj + 1) = zz[jj + 1] /\ jj + 1 \in 1 .. len
          BY <3>2, <4>1 DEF WordOf
        <5>2. QED
          BY <3>1, <5>1
      <4>2. CASE jj + 1 \notin 1 .. Len(zz)
        BY <4>2 DEF WordOf
      <4>3. QED
        BY <4>1, <4>2
    <3>4. QED
      BY <3>3 DEF zz
  <2>2. WordOf(x, jj + 1) \in Int
    <3>1. x \in Seq(0 .. (B - 1)) /\ B \in Nat /\ B > 0 /\ jj + 1 \in Int
      BY BaseAssumption DEF Digit
    <3>2. QED
      BY <3>1, WordOfType
  <2>3. QED
    BY <2>1, <2>2 DEF NextWord
<1> HIDE DEF l
<1>3. TwoTo[e] \in Nat /\ TwoTo[e] >= 1 /\ TwoTo[W - e] \in Nat
  BY TwoToFacts
<1>4. d1 \in Int /\ l % TwoTo[e] \in Int
  <2> DEFINE t == TwoTo[e]
  <2>1. t \in Nat /\ t > 0
    BY <1>3
  <2> HIDE DEF t
  <2>2. l \div t \in Int /\ l % t \in Int
    BY <1>2, <2>1, DivMod
  <2>3. QED
    BY <2>2 DEF t
<1>5. y \in Int
  <2> DEFINE t1 == l % TwoTo[e]
             t2 == TwoTo[W - e]
  <2>1. t1 \in Int /\ t2 \in Int
    BY <1>3, <1>4
  <2> HIDE DEF t1, t2
  <2>2. t1 * t2 \in Int
    BY <2>1
  <2>3. QED
    BY <1>1, <2>2 DEF t1, t2
<1> HIDE DEF y
<1>6. B \in Int
  BY BaseAssumption
<1>7. q \in Int
  <2>1. Lo(y) \in Int
    BY <1>5, WordHalves
  <2> DEFINE v == Lo(y) * rw
  <2>2. v \in Int
    BY <2>1
  <2> HIDE DEF v
  <2>3. Lo(v) \in Int
    BY <2>2, WordHalves
  <2>4. QED
    BY <2>3 DEF v
<1> HIDE DEF q
<1>8. c1 \in Int
  <2> DEFINE v == q * o
  <2>1. v \in Int
    BY <1>7
  <2> HIDE DEF v
  <2>2. Hi(v) \in Int /\ Lo(v) \in Int /\ Hi(y) \in Int /\ Lo(y) \in Int
    BY <1>5, <2>1, WordHalves
  <2> DEFINE v2 == Lo(v) + Lo(y)
  <2>3. v2 \in Int
    BY <2>2
  <2> HIDE DEF v2
  <2>4. Hi(v2) \in Int
    BY <2>3, WordHalves
  <2> DEFINE v3 == Hi(v) + Hi(y) + Hi(v2)
  <2>5. v3 \in Int
    BY <2>2, <2>4
  <2> HIDE DEF v3
  <2>6. Lo(v3) \in Int
    BY <2>5, WordHalves
  <2>7. QED
    BY <2>6 DEF v3, v2, v
<1>9. z1 \in [1 .. len -> Int]
  <2> DEFINE zz == s.z
             v == B - 1 - q
  <2>1. zz \in [1 .. len -> Int] /\ v \in Int
    BY <1>1, <1>6, <1>7
  <2> HIDE DEF zz, v
  <2>2. [zz EXCEPT ![jj] = v] \in [1 .. len -> Int]
    BY <2>1
  <2>3. QED
    BY <2>2 DEF zz, v
<1>10. QuotientStep(s, jj, x, e, o, rw, inplace) = [z |-> z1, d |-> d1, c |-> c1]
  BY DEF QuotientStep, l, y, q, NextWord
<1> HIDE DEF z1, d1, c1
<1>11. QED
  BY <1>4, <1>8, <1>9, <1>10 DEF LoopState

\* The words below k of the state s.
WordsIn(s, k) == [jj \in 1 .. k |-> s.z[jj]]

\* The recursion that defines the words of the quotient.
LEMMA QuotientsIs ==
  ASSUME NEW k \in Nat, NEW x \in Seq(Digit), NEW g \in Int, Ctz(g) \in Nat, W - Ctz(g) \in Nat,
         g \div TwoTo[Ctz(g)] \in Int, WordNegmodinv(g \div TwoTo[Ctz(g)]) \in Int,
         NEW carry \in Int, NEW inplace \in BOOLEAN
  PROVE  \E s : /\ LoopStates(s, k, x, Ctz(g), g \div TwoTo[Ctz(g)], carry, inplace)
                /\ Quotients(k, x, g, carry, inplace) = WordsIn(s[k], k)
<1> DEFINE e == Ctz(g)
           o == g \div TwoTo[e]
           rw == WordNegmodinv(o)
           len == Held(k, x, inplace)
           S == LoopState(len)
           start == FirstState(k, x, e, carry, inplace)
           st(u, jj) == QuotientStep(u, jj + 1, x, e, o, rw, inplace)
           h1(jj) == [u \in S |-> st(u, jj)]
           hh == [jj \in Nat |-> h1(jj)]
           body(u) == [jj \in Nat |-> IF jj = 0 THEN start
                                     ELSE QuotientStep(u[jj - 1], jj, x, e, o, rw, inplace)]
           V == CHOOSE u : u = body(u)
<1>0. Len(x) \in Nat /\ B \in Nat /\ B > 0 /\ x \in Seq(0 .. (B - 1))
  BY BaseAssumption DEF Digit
<1>1. e \in Nat /\ W - e \in Nat /\ o \in Int /\ rw \in Int /\ len \in Nat
  BY <1>0 DEF Held
<1>2. start \in S
  <2>1. WordOf(x, 1) \in Int
    BY <1>0, WordOfType
  <2> DEFINE t == TwoTo[e]
             u == WordOf(x, 1)
  <2>2. t \in Nat /\ t > 0 /\ u \in Int
    <3>1. e \in Nat
      BY <1>1
    <3> HIDE DEF e
    <3>2. TwoTo[e] \in Nat /\ TwoTo[e] >= 1
      BY <3>1, TwoToFacts
    <3>3. QED
      BY <2>1, <3>2
  <2> HIDE DEF t, u, e
  <2>3. u \div t \in Int
    BY <2>2, DivMod
  <2> HIDE DEF len
  <2> DEFINE z0 == [jj \in 1 .. len |-> IF inplace /\ jj <= Len(x) THEN x[jj] ELSE B - 1]
  <2>4. z0 \in [1 .. len -> Int]
    <3>1. ASSUME NEW jj \in 1 .. len, jj <= Len(x) PROVE x[jj] \in Int
      <4>1. jj \in 1 .. Len(x)
        BY <1>0, <1>1, <3>1
      <4>2. x[jj] \in Digit
        BY <4>1
      <4>3. QED
        BY <1>0, <4>2 DEF Digit
    <3>2. QED
      BY <1>0, <3>1
  <2>5. start = [z |-> z0, d |-> u \div t, c |-> carry]
    BY DEF FirstState, len, u, t
  <2> HIDE DEF z0, start
  <2>6. QED
    BY <2>3, <2>4, <2>5 DEF LoopState
<1>3. ASSUME NEW u \in S, NEW jj \in Nat PROVE st(u, jj) \in S
  <2>1. jj + 1 \in Int
    OBVIOUS
  <2> HIDE DEF e, o, rw, len
  <2>2. QED
    BY <1>1, <2>1, LoopStepType
<1> HIDE DEF S, st, start
<1>4. ASSUME NEW jj \in Nat PROVE h1(jj) \in [S -> S]
  BY <1>3
<1>5. hh \in [Nat -> [S -> S]]
  <2> HIDE DEF h1
  <2>1. QED
    BY <1>4
<1>6. PICK f : Follows(f, start, hh, S)
  <2> HIDE DEF hh
  <2>1. QED
    BY <1>2, <1>5, RecExistsIn
<1>7. f \in [Nat -> S] /\ f[0] = start /\ \A jj \in Nat : f[jj + 1] = hh[jj][f[jj]]
  <2> HIDE DEF hh
  <2>1. QED
    BY <1>6 DEF Follows
<1>8. ASSUME NEW jj \in Nat PROVE f[jj + 1] = st(f[jj], jj)
  <2>1. hh[jj] = h1(jj) /\ f[jj] \in S
    BY <1>7
  <2>2. f[jj + 1] = hh[jj][f[jj]]
    BY <1>7
  <2> HIDE DEF hh
  <2>3. QED
    BY <2>1, <2>2
<1>9. f = body(f)
  <2>1. ASSUME NEW jj \in Nat PROVE f[jj] = body(f)[jj]
    <3>1. CASE jj = 0
      BY <1>7, <3>1
    <3>2. CASE jj # 0
      <4>1. jj - 1 \in Nat /\ (jj - 1) + 1 = jj
        BY <3>2
      <4>2. f[(jj - 1) + 1] = st(f[jj - 1], jj - 1)
        BY <1>8, <4>1
      <4>3. st(f[jj - 1], jj - 1) = QuotientStep(f[jj - 1], jj, x, e, o, rw, inplace)
        BY <4>1 DEF st
      <4> HIDE DEF e, o, rw
      <4>4. QED
        BY <3>2, <4>1, <4>2, <4>3
    <3>3. QED
      BY <3>1, <3>2
  <2>2. f = [jj \in Nat |-> f[jj]]
    BY <1>7
  <2>3. body(f) = [jj \in Nat |-> body(f)[jj]]
    OBVIOUS
  <2> HIDE DEF body
  <2>4. QED
    BY <2>1, <2>2, <2>3
<1>10. V = body(V)
  <2> HIDE DEF body
  <2>1. QED
    BY <1>9
<1>11. Quotients(k, x, g, carry, inplace) = [jj \in 1 .. k |-> V[k].z[jj]]
  BY DEF Quotients, start, FirstState, Held
<1>12. V[0] = start /\ \A jj \in Nat : V[jj + 1] = st(V[jj], jj)
  <2> HIDE DEF V
  <2>1. V[0] = start
    BY <1>10
  <2>2. ASSUME NEW jj \in Nat PROVE V[jj + 1] = st(V[jj], jj)
    <3>1. jj + 1 \in Nat /\ jj + 1 # 0 /\ (jj + 1) - 1 = jj
      OBVIOUS
    <3>2. V[jj + 1] = QuotientStep(V[(jj + 1) - 1], jj + 1, x, e, o, rw, inplace)
      <4> HIDE DEF e, o, rw
      <4>1. QED
        BY <1>10, <3>1
    <3>3. QED
      BY <3>1, <3>2 DEF st
  <2>3. QED
    BY <2>1, <2>2
<1> HIDE DEF V
<1>13. \A jj \in Nat : V[jj] \in S
  <2> DEFINE T == {jj \in Nat : V[jj] \in S}
  <2>1. 0 \in T
    BY <1>2, <1>12
  <2>2. ASSUME NEW jj \in T PROVE jj + 1 \in T
    <3>1. jj \in Nat /\ V[jj] \in S /\ jj + 1 \in Nat
      OBVIOUS
    <3>2. st(V[jj], jj) \in S
      BY <1>3, <3>1
    <3>3. V[jj + 1] = st(V[jj], jj)
      BY <1>12, <3>1
    <3>4. QED
      BY <3>1, <3>2, <3>3
  <2>3. T = Nat
    <3>1. T \in SUBSET Nat
      OBVIOUS
    <3> HIDE DEF T
    <3>2. QED
      BY <2>1, <2>2, <3>1, InductionOnNat
  <2>4. QED
    BY <2>3
<1>14. LoopStates(V, k, x, e, o, carry, inplace)
  BY <1>12, <1>13 DEF LoopStates, S, st, start
<1>15. QED
  BY <1>11, <1>14 DEF WordsIn

\* The bits of two neighbouring words that make a word of the shifted number.
LEMMA ShiftedWord ==
  ASSUME NEW e \in Nat, W - e \in Nat, NEW u \in Int, 0 <= u, u < B, NEW l \in Int
  PROVE  /\ u \div TwoTo[e] \in Int /\ l % TwoTo[e] \in Int /\ (l % TwoTo[e]) * TwoTo[W - e] \in Int
         /\ 0 <= (u \div TwoTo[e]) + (l % TwoTo[e]) * TwoTo[W - e]
         /\ (u \div TwoTo[e]) + (l % TwoTo[e]) * TwoTo[W - e] < B
         /\ TwoTo[e] \in Nat /\ TwoTo[e] >= 1 /\ B = TwoTo[e] * TwoTo[W - e] /\ TwoTo[W - e] \in Nat
<1> DEFINE t == TwoTo[e]
           r == TwoTo[W - e]
           dw == u \div t
           y == l % t
           ul == u % t
<1>1. t \in Nat /\ t >= 1 /\ r \in Nat /\ r >= 1 /\ B = t * r
  <2> DEFINE jj == W - e
  <2>1. jj \in Nat /\ e + jj = W /\ B = TwoTo[W]
    BY WordBitsAssumption
  <2> HIDE DEF jj
  <2>2. TwoTo[e + jj] = TwoTo[e] * TwoTo[jj] /\ TwoTo[e] \in Nat /\ TwoTo[e] >= 1
        /\ TwoTo[jj] \in Nat /\ TwoTo[jj] >= 1
    BY <2>1, TwoToAdds, TwoToFacts
  <2>3. QED
    BY <2>1, <2>2 DEF jj
<1> HIDE DEF t, r
<1>2. dw \in Int /\ ul \in Int /\ u = t * dw + ul /\ 0 <= ul /\ ul < t
  BY <1>1, DivMod
<1>3. y \in Int /\ 0 <= y /\ y < t
  BY <1>1, DivMod
<1> HIDE DEF dw, y, ul
<1>4. 0 <= dw
  <2>1. SUFFICES ASSUME dw <= 0 - 1 PROVE FALSE
    BY <1>2
  <2>2. t * dw <= t * (0 - 1) /\ t * (0 - 1) = 0 - t /\ t * dw \in Int
    BY <1>1, <1>2, <2>1
  <2>3. QED
    BY <1>1, <1>2, <2>2
<1>5. dw < r
  <2>1. SUFFICES ASSUME dw >= r PROVE FALSE
    BY <1>1, <1>2
  <2>2. t * dw >= t * r /\ t * dw \in Int /\ t * r \in Int
    BY <1>1, <1>2, <2>1
  <2>3. QED
    BY <1>1, <1>2, <2>2
<1>6. 0 <= y * r /\ y * r <= (t - 1) * r /\ (t - 1) * r = B - r /\ y * r \in Int /\ B \in Int
  <2>1. y * r <= (t - 1) * r
    BY <1>1, <1>3
  <2>2. (t - 1) * r = t * r - r
    BY <1>1
  <2>3. QED
    BY <1>1, <1>3, <2>1, <2>2
<1> DEFINE yr == y * r
<1>7. 0 <= dw + yr /\ dw + yr < B
  <2> HIDE DEF yr
  <2>1. 0 <= yr /\ yr <= B - r /\ yr \in Int /\ B \in Int
    BY <1>1, <1>6 DEF yr
  <2>2. QED
    BY <1>1, <1>2, <1>4, <1>5, <2>1
<1>8. QED
  BY <1>1, <1>2, <1>3, <1>6, <1>7 DEF t, r, dw, y

\* What holds of the loop of the quotient at word j: the words above j are the
\* ones of the number where the quotient replaces it.
LoopHolds(s, jj, k, x, e, inplace) ==
  /\ s.d = WordOf(x, jj + 1) \div TwoTo[e]
  /\ 0 <= s.c /\ s.c < B
  /\ inplace => \A y \in 1 .. Len(x) : y > jj => s.z[y] = x[y]

\* What a step does to the number.
LoopSteps(s, s1, jj, k, x, e, o) ==
  \E q \in Int :
    /\ 0 <= q /\ q < B
    /\ jj < k => s1.z[jj + 1] = B - 1 - q
    /\ q * o + (s.d + (WordOf(x, jj + 2) % TwoTo[e]) * TwoTo[W - e] + s.c) = B * s1.c

\* The same with what a step keeps.
LoopStepped(s, s1, jj, k, x, e, o, inplace) ==
  /\ LoopHolds(s1, jj + 1, k, x, e, inplace)
  /\ LoopSteps(s, s1, jj, k, x, e, o)
  /\ \A y \in 1 .. Held(k, x, inplace) : y # jj + 1 => s1.z[y] = s.z[y]

\* Each step reads the next word of the number, also in place.
LEMMA LoopStepRight ==
  ASSUME NEW k \in Nat, NEW x \in Seq(Digit), NEW e \in Nat, W - e \in Nat,
         NEW o \in Nat, o % 2 = 1, o < B, NEW inplace \in BOOLEAN, NEW jj \in Nat,
         NEW s \in LoopState(Held(k, x, inplace)), LoopHolds(s, jj, k, x, e, inplace)
  PROVE  LoopStepped(s, QuotientStep(s, jj + 1, x, e, o, WordNegmodinv(o), inplace), jj, k, x, e, o, inplace)
<1> DEFINE len == Held(k, x, inplace)
           rw == WordNegmodinv(o)
           j1 == jj + 1
           l == NextWord(s.z, j1, x, inplace)
           y0 == s.d + (l % TwoTo[e]) * TwoTo[W - e] + s.c
           q == Lo(Lo(y0) * rw)
           z1 == [s.z EXCEPT ![j1] = B - 1 - q]
           c1 == Lo(Hi(q * o) + Hi(y0) + Hi(Lo(q * o) + Lo(y0)))
           s1 == QuotientStep(s, jj + 1, x, e, o, rw, inplace)
<1>0. /\ B \in Nat /\ B > 0 /\ B >= 2 /\ x \in Seq(0 .. (B - 1)) /\ Len(x) \in Nat
      /\ j1 \in Int /\ j1 + 1 = jj + 2
  BY BaseAssumption DEF Digit
<1>1. len \in Nat /\ k <= len /\ (inplace => Len(x) <= len)
  BY <1>0 DEF Held
<1> HIDE DEF len
<1>2. s.z \in [1 .. len -> Int] /\ s.d \in Int /\ s.c \in Int
  BY DEF LoopState, len
<1>3. /\ s.d = WordOf(x, jj + 1) \div TwoTo[e]
      /\ 0 <= s.c /\ s.c < B
      /\ inplace => \A y \in 1 .. Len(x) : y > jj => s.z[y] = x[y]
  BY DEF LoopHolds
<1>4. s1 = [z |-> z1, d |-> l \div TwoTo[e], c |-> c1]
  BY DEF QuotientStep, NextWord
<1>5. l = WordOf(x, jj + 2)
  <2>1. CASE j1 < Len(x)
    <3>1. CASE inplace
      <4> DEFINE zz == s.z
      <4>1. zz \in [1 .. len -> Int]
        BY <1>2
      <4>2. jj + 2 \in 1 .. Len(x) /\ jj + 2 > jj /\ jj + 2 \in 1 .. len
        BY <1>0, <1>1, <2>1, <3>1
      <4>3. zz[jj + 2] = x[jj + 2]
        BY <1>3, <3>1, <4>2
      <4> HIDE DEF zz
      <4>4. zz \in Seq(Int) /\ Len(zz) = len
        BY <1>1, <4>1
      <4>5. WordOf(zz, jj + 2) = zz[jj + 2] /\ WordOf(x, jj + 2) = x[jj + 2]
        BY <4>2, <4>4 DEF WordOf
      <4>6. l = WordOf(zz, jj + 2)
        BY <1>0, <2>1, <3>1 DEF NextWord, zz
      <4>7. QED
        BY <4>3, <4>5, <4>6
    <3>2. CASE ~inplace
      BY <1>0, <2>1, <3>2 DEF NextWord
    <3>3. QED
      BY <3>1, <3>2
  <2>2. CASE ~(j1 < Len(x))
    <3>1. l = 0
      BY <2>2 DEF NextWord
    <3>2. jj + 2 \notin 1 .. Len(x)
      BY <1>0, <2>2
    <3>3. QED
      BY <3>1, <3>2 DEF WordOf
  <2>3. QED
    BY <2>1, <2>2
<1> HIDE DEF l
<1> DEFINE u == WordOf(x, jj + 1)
<1>6. u \in Int /\ 0 <= u /\ u < B /\ l \in Int
  <2>1. jj + 1 \in Int /\ jj + 2 \in Int
    OBVIOUS
  <2>2. QED
    BY <1>0, <1>5, <2>1, WordOfType
<1> HIDE DEF u
<1> DEFINE t == TwoTo[e]
           r == TwoTo[W - e]
           f == (u \div t) + (l % t) * r
<1>7. f \in Int /\ 0 <= f /\ f < B /\ u \div t \in Int /\ (l % t) * r \in Int
  <2>1. /\ u \div t \in Int /\ l % t \in Int /\ (l % t) * r \in Int
        /\ 0 <= f /\ f < B
    BY <1>6, ShiftedWord
  <2>2. QED
    BY <2>1
<1>8. y0 = f + s.c
  <2>1. s.d = u \div t
    BY <1>3 DEF u
  <2> DEFINE v1 == (l % t) * r
             v2 == u \div t
  <2>2. v1 \in Int /\ v2 \in Int
    BY <1>7
  <2>3. y0 = v2 + v1 + s.c /\ f = v2 + v1
    BY <2>1
  <2> HIDE DEF v1, v2, t, r, y0, f
  <2>4. QED
    BY <1>2, <2>2, <2>3
<1>9. y0 \in Int /\ 0 <= y0 /\ y0 <= 2 * B - 2
  <2> HIDE DEF f, y0
  <2>1. QED
    BY <1>0, <1>2, <1>3, <1>7, <1>8
<1> HIDE DEF y0, f
<1>10. /\ q \in Int /\ 0 <= q /\ q < B /\ c1 \in Int /\ 0 <= c1 /\ c1 < B
       /\ q * o + y0 = B * c1
  BY <1>9, CarryRight
<1> HIDE DEF q, c1
<1>11. ASSUME NEW y \in 1 .. len, y # jj + 1 PROVE z1[y] = s.z[y]
  BY <1>2, <1>11
<1>12. jj < k => z1[jj + 1] = B - 1 - q
  <2>1. SUFFICES ASSUME jj < k PROVE z1[jj + 1] = B - 1 - q
    OBVIOUS
  <2>2. jj + 1 \in 1 .. len
    BY <1>1, <2>1
  <2>3. QED
    BY <1>2, <2>2
<1>13. inplace => \A y \in 1 .. Len(x) : y > jj + 1 => z1[y] = x[y]
  <2>1. SUFFICES ASSUME inplace, NEW y \in 1 .. Len(x), y > jj + 1 PROVE z1[y] = x[y]
    BY Zenon
  <2>2. y \in 1 .. len /\ y # jj + 1 /\ y > jj
    BY <1>0, <1>1, <2>1
  <2> HIDE DEF z1
  <2>3. z1[y] = s.z[y]
    BY <1>11, <2>2
  <2>4. QED
    BY <1>3, <2>1, <2>2, <2>3
<1> HIDE DEF z1
<1>14. s1.z = z1 /\ s1.d = l \div t /\ s1.c = c1
  BY <1>4
<1> HIDE DEF s1
<1>15. LoopHolds(s1, jj + 1, k, x, e, inplace)
  <2>1. s1.d = WordOf(x, (jj + 1) + 1) \div TwoTo[e]
    BY <1>0, <1>5, <1>14
  <2>2. QED
    BY <1>10, <1>13, <1>14, <2>1 DEF LoopHolds
<1>16. LoopSteps(s, s1, jj, k, x, e, o)
  <2>1. q * o + (s.d + (WordOf(x, jj + 2) % TwoTo[e]) * TwoTo[W - e] + s.c) = B * s1.c
    BY <1>5, <1>10, <1>14 DEF y0
  <2>2. QED
    BY <1>10, <1>12, <1>14, <2>1 DEF LoopSteps
<1>17. \A y \in 1 .. len : y # jj + 1 => s1.z[y] = s.z[y]
  BY <1>11, <1>14
<1>18. QED
  BY <1>15, <1>16, <1>17 DEF LoopStepped, s1, rw, len

\* The loop of the quotient at word j, and its words once stored.
LoopIsRight(s, jj, k, x, e, o, inplace) ==
  /\ LoopHolds(s[jj], jj, k, x, e, inplace)
  /\ LoopSteps(s[jj], s[jj + 1], jj, k, x, e, o)
  /\ \A y \in 1 .. Held(k, x, inplace) : y <= jj => s[jj].z[y] = s[y].z[y]
  /\ s[jj] \in LoopState(Held(k, x, inplace))

\* It is right at every word.
LEMMA LoopStatesRight ==
  ASSUME NEW k \in Nat, NEW x \in Seq(Digit), NEW e \in Nat, W - e \in Nat,
         NEW o \in Nat, o % 2 = 1, o < B, NEW inplace \in BOOLEAN,
         NEW carry \in Int, 0 <= carry, carry < B,
         NEW s, LoopStates(s, k, x, e, o, carry, inplace)
  PROVE  \A jj \in Nat : LoopIsRight(s, jj, k, x, e, o, inplace)
<1> DEFINE len == Held(k, x, inplace)
<1>0. B \in Nat /\ B > 0 /\ Len(x) \in Nat /\ len \in Nat /\ (inplace => Len(x) <= len)
  <2>1. Len(x) \in Nat
    OBVIOUS
  <2>2. QED
    BY <2>1, BaseAssumption DEF Held
<1>1. s[0] = FirstState(k, x, e, carry, inplace)
  BY DEF LoopStates
<1>2. \A jj \in Nat : s[jj + 1] = QuotientStep(s[jj], jj + 1, x, e, o, WordNegmodinv(o), inplace)
                     /\ s[jj] \in LoopState(len)
  BY DEF LoopStates
<1> HIDE DEF len
<1>3. LoopHolds(s[0], 0, k, x, e, inplace)
  <2>1. s[0].d = WordOf(x, 0 + 1) \div TwoTo[e] /\ s[0].c = carry
    BY <1>1 DEF FirstState
  <2>2. inplace => \A y \in 1 .. Len(x) : s[0].z[y] = x[y]
    <3>1. SUFFICES ASSUME inplace, NEW y \in 1 .. Len(x) PROVE s[0].z[y] = x[y]
      BY Zenon
    <3>2. y \in 1 .. len /\ y <= Len(x)
      BY <1>0, <3>1
    <3>3. s[0].z = [ii \in 1 .. len |-> IF inplace /\ ii <= Len(x) THEN x[ii] ELSE B - 1]
      BY <1>1 DEF FirstState, len
    <3>4. QED
      BY <3>1, <3>2, <3>3
  <2>3. QED
    BY <2>1, <2>2 DEF LoopHolds
<1>4. ASSUME NEW jj \in Nat, LoopHolds(s[jj], jj, k, x, e, inplace)
      PROVE  /\ LoopHolds(s[jj + 1], jj + 1, k, x, e, inplace)
             /\ LoopSteps(s[jj], s[jj + 1], jj, k, x, e, o)
             /\ \A y \in 1 .. len : y # jj + 1 => s[jj + 1].z[y] = s[jj].z[y]
  <2> DEFINE u == s[jj]
             u1 == QuotientStep(u, jj + 1, x, e, o, WordNegmodinv(o), inplace)
  <2>1. u \in LoopState(len) /\ s[jj + 1] = u1 /\ LoopHolds(u, jj, k, x, e, inplace)
    BY <1>2, <1>4
  <2> HIDE DEF u
  <2>2. /\ LoopHolds(u1, jj + 1, k, x, e, inplace)
        /\ LoopSteps(u, u1, jj, k, x, e, o)
        /\ \A y \in 1 .. len : y # jj + 1 => u1.z[y] = u.z[y]
    <3>1. u \in LoopState(Held(k, x, inplace)) /\ LoopHolds(u, jj, k, x, e, inplace)
      BY <2>1 DEF len
    <3>2. LoopStepped(u, QuotientStep(u, jj + 1, x, e, o, WordNegmodinv(o), inplace), jj, k, x, e, o, inplace)
      BY <3>1, LoopStepRight
    <3>3. QED
      BY <3>2 DEF LoopStepped, len
  <2> HIDE DEF u1
  <2>3. QED
    BY <2>1, <2>2 DEF u
<1> DEFINE T == {jj \in Nat : /\ LoopHolds(s[jj], jj, k, x, e, inplace)
                              /\ \A y \in 1 .. len : y <= jj => s[jj].z[y] = s[y].z[y]}
<1>5. 0 \in T
  <2>1. \A y \in 1 .. len : ~(y <= 0)
    BY <1>0
  <2>2. QED
    BY <1>3, <2>1
<1>6. ASSUME NEW jj \in T PROVE jj + 1 \in T
  <2>1. jj \in Nat /\ jj + 1 \in Nat /\ LoopHolds(s[jj], jj, k, x, e, inplace)
        /\ \A y \in 1 .. len : y <= jj => s[jj].z[y] = s[y].z[y]
    OBVIOUS
  <2>2. /\ LoopHolds(s[jj + 1], jj + 1, k, x, e, inplace)
        /\ \A y \in 1 .. len : y # jj + 1 => s[jj + 1].z[y] = s[jj].z[y]
    BY <1>4, <2>1
  <2>3. ASSUME NEW y \in 1 .. len, y <= jj + 1 PROVE s[jj + 1].z[y] = s[y].z[y]
    <3>1. CASE y = jj + 1
      BY <3>1
    <3>2. CASE y # jj + 1
      <4>1. y <= jj
        BY <1>0, <2>1, <2>3, <3>2
      <4>2. QED
        BY <2>1, <2>2, <3>2, <4>1
    <3>3. QED
      BY <3>1, <3>2
  <2>4. QED
    BY <2>1, <2>2, <2>3
<1>7. T = Nat
  <2>1. T \in SUBSET Nat
    OBVIOUS
  <2> HIDE DEF T
  <2>2. QED
    BY <1>5, <1>6, <2>1, InductionOnNat
<1>8. ASSUME NEW jj \in Nat
      PROVE  /\ LoopHolds(s[jj], jj, k, x, e, inplace)
             /\ LoopSteps(s[jj], s[jj + 1], jj, k, x, e, o)
             /\ \A y \in 1 .. len : y <= jj => s[jj].z[y] = s[y].z[y]
             /\ s[jj] \in LoopState(len)
  <2>1. /\ LoopHolds(s[jj], jj, k, x, e, inplace)
        /\ \A y \in 1 .. len : y <= jj => s[jj].z[y] = s[y].z[y]
    BY <1>7
  <2>2. LoopSteps(s[jj], s[jj + 1], jj, k, x, e, o)
    BY <1>4, <2>1
  <2>3. QED
    BY <1>2, <2>1, <2>2
<1>9. QED
  BY <1>8 DEF len, LoopIsRight

\* The weight of a state of the loop: what is left of the number N less the
\* quotient so far, P the power of the base it has reached.
Weighed(N, P, o, t, cw, dw, b, u, v) ==
  N + (o * t) * (P * v) = P * (t * (cw + dw - o) + b * u)

\* What a step does to the carry, the words read and the words left.
WeightStep(o, t, b, cw, dw, c1, d1, u1, u2, v1, v2) ==
  \E r \in Int, l \in Int, y \in Int, q \in Int :
    /\ b = t * r /\ v1 = (b - 1 - q) + b * v2 /\ q * o + (dw + y * r + cw) = b * c1
    /\ u1 = l + b * u2 /\ l = t * d1 + y

\* The weights of a step.
LEMMA QuotientWeight ==
  ASSUME NEW N \in Int, NEW P \in Int, NEW o \in Int, NEW t \in Int,
         NEW cw \in Int, NEW dw \in Int, NEW c1 \in Int, NEW d1 \in Int,
         NEW u1 \in Int, NEW u2 \in Int, NEW v1 \in Int, NEW v2 \in Int, NEW b \in Int,
         Weighed(N, P, o, t, cw, dw, b, u1, v1), WeightStep(o, t, b, cw, dw, c1, d1, u1, u2, v1, v2)
  PROVE  Weighed(N, b * P, o, t, c1, d1, b, u2, v2)
<1>0. PICK r \in Int, l \in Int, y \in Int, q \in Int :
        /\ b = t * r /\ v1 = (b - 1 - q) + b * v2 /\ q * o + (dw + y * r + cw) = b * c1
        /\ u1 = l + b * u2 /\ l = t * d1 + y
        /\ N + (o * t) * (P * v1) = P * (t * (cw + dw - o) + b * u1)
  BY DEF WeightStep, Weighed
<1> USE <1>0
<1> DEFINE g == o * t
           K == t * (cw + dw - o) + b * u1 - g * (b - 1 - q)
           L == t * (c1 + d1 - o) + b * u2
           cd == cw + dw - o
           bq == b - 1 - q
<1>1. g \in Int /\ K \in Int /\ L \in Int /\ cd \in Int /\ bq \in Int
  OBVIOUS
<1>2. K = b * L
  <2>1. t * (cw + dw - o) = t * cw + t * dw - t * o
    OBVIOUS
  <2>2. b * u1 = b * (t * d1) + b * y + b * (b * u2)
    <3> DEFINE z1 == t * d1
               z2 == b * u2
    <3>1. z1 \in Int /\ z2 \in Int /\ u1 = z1 + y + z2
      OBVIOUS
    <3> HIDE DEF z1, z2
    <3>2. b * u1 = b * z1 + b * y + b * z2
      BY <3>1
    <3>3. QED
      BY <3>2 DEF z1, z2
  <2>3. g * (b - 1 - q) = b * (o * t) - o * t - t * (q * o)
    BY <1>1
  <2>4. t * (q * o) + t * dw + b * y + t * cw = b * (t * c1)
    <3> DEFINE z1 == q * o
               z2 == y * r
               z3 == b * c1
    <3>1. z1 \in Int /\ z2 \in Int /\ z3 \in Int /\ z1 + (dw + z2 + cw) = z3
      OBVIOUS
    <3> HIDE DEF z1, z2, z3
    <3>2. t * z1 + t * dw + t * z2 + t * cw = t * z3
      <4>1. t * (z1 + (dw + z2 + cw)) = t * z1 + t * dw + t * z2 + t * cw
        BY <3>1
      <4>2. QED
        BY <3>1, <4>1
    <3>3. t * z2 = b * y
      <4>1. t * (y * r) = (t * r) * y
        OBVIOUS
      <4>2. QED
        BY <4>1 DEF z2
    <3>4. t * z3 = b * (t * c1)
      BY DEF z3
    <3>5. QED
      BY <3>2, <3>3, <3>4 DEF z1
  <2>5. b * L = b * (t * c1) + b * (t * d1) - b * (o * t) + b * (b * u2)
    OBVIOUS
  <2>6. t * o = o * t
    OBVIOUS
  <2> DEFINE y1 == t * cw
             y2 == t * dw
             y3 == o * t
             y4 == b * (t * d1)
             y5 == b * y
             y6 == b * (b * u2)
             y7 == b * (o * t)
             y8 == t * (q * o)
             y9 == b * (t * c1)
  <2>7. y1 \in Int /\ y2 \in Int /\ y3 \in Int /\ y4 \in Int /\ y5 \in Int /\ y6 \in Int /\ y7 \in Int
        /\ y8 \in Int /\ y9 \in Int
    OBVIOUS
  <2> DEFINE k1 == t * (cw + dw - o)
             k2 == b * u1
             k3 == g * (b - 1 - q)
             k4 == b * L
  <2>8. /\ k1 = y1 + y2 - y3 /\ k2 = y4 + y5 + y6 /\ k3 = y7 - y3 - y8 /\ y8 + y2 + y5 + y1 = y9
        /\ k4 = y9 + y4 - y7 + y6 /\ K = k1 + k2 - k3
    BY <2>1, <2>2, <2>3, <2>4, <2>5, <2>6
  <2> HIDE DEF y1, y2, y3, y4, y5, y6, y7, y8, y9, k1, k2, k3, k4, K
  <2>9. K = k4
    BY <2>7, <2>8
  <2>10. QED
    BY <2>9 DEF k4
<1>3. P * K = (b * P) * L
  <2>1. P * (b * L) = (b * P) * L
    BY <1>1
  <2>2. QED
    BY <1>2, <2>1
<1>4. g * (P * v1) = P * (g * bq) + g * ((b * P) * v2)
  <2> DEFINE zq == b * v2
  <2>1. zq \in Int /\ v1 = bq + zq
    OBVIOUS
  <2>2. g * ((b * P) * v2) = g * (P * zq)
    <3>1. (b * P) * v2 = P * (b * v2)
      OBVIOUS
    <3>2. QED
      BY <3>1
  <2> HIDE DEF zq, bq, g
  <2>3. g * (P * (bq + zq)) = P * (g * bq) + g * (P * zq)
    BY <1>1, <2>1
  <2>4. QED
    BY <2>1, <2>2, <2>3
<1>5. P * K = P * (t * cd + b * u1) - P * (g * bq)
  <2> DEFINE z1 == t * cd + b * u1
             z2 == g * bq
  <2>1. z1 \in Int /\ z2 \in Int /\ K = z1 - z2
    <3>1. t * cd \in Int /\ b * u1 \in Int /\ g * bq \in Int
      BY <1>1
    <3> DEFINE z3 == t * cd
               z4 == b * u1
    <3>2. z3 \in Int /\ z4 \in Int /\ z2 \in Int /\ z1 = z3 + z4 /\ K = z3 + z4 - z2
      BY <3>1
    <3> HIDE DEF z1, z2, z3, z4, K
    <3>3. QED
      BY <3>2
  <2> HIDE DEF z1, z2, K
  <2>2. P * (z1 - z2) = P * z1 - P * z2
    BY <2>1
  <2>3. QED
    BY <2>1, <2>2 DEF z1, z2
<1> DEFINE a1 == g * (P * v1)
           a2 == P * (g * bq)
           a3 == g * ((b * P) * v2)
           a4 == P * (t * cd + b * u1)
           a5 == (b * P) * L
<1>6. /\ a1 \in Int /\ a2 \in Int /\ a3 \in Int /\ a4 \in Int
      /\ N + a1 = a4 /\ a1 = a2 + a3 /\ a5 = a4 - a2
  <2>1. a2 \in Int
    <3> HIDE DEF bq, g
    <3>1. QED
      BY <1>1
  <2>2. a4 \in Int
    <3> HIDE DEF cd
    <3>1. QED
      BY <1>1
  <2>3. a1 \in Int /\ a3 \in Int
    <3> HIDE DEF g
    <3>1. QED
      BY <1>1
  <2>4. N + a1 = a4
    OBVIOUS
  <2>5. a1 = a2 + a3
    BY <1>4
  <2>6. a5 = a4 - a2
    BY <1>3, <1>5
  <2>7. QED
    BY <2>1, <2>2, <2>3, <2>4, <2>5, <2>6
<1> HIDE DEF a1, a2, a3, a4, a5
<1>7. N + a3 = a5
  BY <1>6
<1>8. QED
  BY <1>7 DEF a3, a5, L, g, Weighed

\* What a number u of lowest word x is: a multiple of the divisor and R.
DividedAs(o, t, b, u, R, x, y) ==
  \E r \in Int, Q \in Int : b = t * r /\ u = x + b * y /\ u = (o * t) * Q + R

\* The carry o - R \div t makes a multiple of the divisor of the number.
FirstWeighed(o, t, b, u, R, x, y) ==
  u - R = t * ((o - R \div t) + x \div t - o) + b * y

\* That is the first weight.
LEMMA FirstWeight ==
  ASSUME NEW x0 \in Int, NEW u0 \in Int, NEW y1 \in Int, NEW o \in Int, NEW t \in Nat, t >= 1,
         NEW b \in Int, NEW R \in Int, DividedAs(o, t, b, u0, R, x0, y1)
  PROVE  FirstWeighed(o, t, b, u0, R, x0, y1)
<1>0. PICK r \in Int, Q \in Int : b = t * r /\ u0 = x0 + b * y1 /\ u0 = (o * t) * Q + R
  BY DEF DividedAs
<1> USE <1>0
<1> DEFINE dw == x0 \div t
           dl == x0 % t
           f == R \div t
           fl == R % t
<1>1. dw \in Int /\ dl \in Int /\ x0 = t * dw + dl /\ 0 <= dl /\ dl < t
  BY DivMod
<1>2. f \in Int /\ fl \in Int /\ R = t * f + fl /\ 0 <= fl /\ fl < t
  BY DivMod
<1> HIDE DEF dw, dl, f, fl
<1> DEFINE zq == o * Q + f - dw - r * y1
<1>3. zq \in Int /\ t * zq = dl - fl
  <2>1. zq \in Int
    BY <1>1, <1>2
  <2>2. t * zq = t * (o * Q) + t * f - t * dw - t * (r * y1)
    BY <1>1, <1>2
  <2>3. (o * t) * Q = t * (o * Q) /\ b * y1 = t * (r * y1)
    <3>1. (t * r) * y1 = t * (r * y1)
      OBVIOUS
    <3>2. QED
      BY <3>1
  <2> DEFINE z1 == t * (o * Q)
             z2 == t * f
             z3 == t * dw
             z4 == t * (r * y1)
             z5 == t * zq
  <2>4. z1 \in Int /\ z2 \in Int /\ z3 \in Int /\ z4 \in Int
    BY <1>1, <1>2
  <2>5. z5 = z1 + z2 - z3 - z4 /\ u0 = x0 + z4 /\ u0 = z1 + R /\ x0 = z3 + dl /\ R = z2 + fl
    BY <1>1, <1>2, <2>2, <2>3
  <2> HIDE DEF z1, z2, z3, z4, z5
  <2>6. z5 = dl - fl
    BY <1>1, <1>2, <2>4, <2>5
  <2>7. QED
    BY <2>1, <2>6 DEF z5
<1> HIDE DEF zq
<1>4. zq = 0
  <2>1. 0 - t < t * zq /\ t * zq < t
    BY <1>1, <1>2, <1>3
  <2>2. QED
    BY <1>3, <2>1, NoMultipleBetween
<1>5. dl = fl
  <2>1. t * 0 = 0
    OBVIOUS
  <2>2. QED
    BY <1>1, <1>2, <1>3, <1>4, <2>1
<1>6. t * ((o - f) + dw - o) = t * dw - t * f
  BY <1>1, <1>2
<1> DEFINE z2 == t * f
           z3 == t * dw
           z4 == b * y1
           z5 == t * ((o - f) + dw - o)
<1>7. z2 \in Int /\ z3 \in Int /\ z4 \in Int /\ z5 = z3 - z2 /\ u0 = x0 + z4 /\ x0 = z3 + dl /\ R = z2 + fl
  BY <1>1, <1>2, <1>6
<1> HIDE DEF z2, z3, z4, z5
<1>8. u0 - R = z5 + z4
  BY <1>1, <1>2, <1>5, <1>7
<1>9. QED
  BY <1>8 DEF z5, z4, dw, f, FirstWeighed

\* The last weight: the multiples of the divisor by Q and by Z differ by a
\* multiple of a power of the base and of the power of two in the divisor.
LastWeighed(k, o, t, Q, Z) == \E g \in Int : (o * t) * Q - (o * t) * Z = Pow[k] * (t * g)

\* It determines the quotient.
LEMMA LastWeight ==
  ASSUME NEW k \in Nat, NEW o \in Nat, o % 2 = 1, NEW t \in Nat, t >= 1, NEW Q \in Int, NEW Z \in Int,
         0 <= Z, Z < Pow[k], LastWeighed(k, o, t, Q, Z)
  PROVE  Z = Low(k, Q)
<1>0. PICK g \in Int : (o * t) * Q - (o * t) * Z = Pow[k] * (t * g)
  BY DEF LastWeighed
<1> USE <1>0
<1> DEFINE P == Pow[k]
           y == Q - Z
<1>1. P \in Nat /\ P > 0
  BY PowPositive
<1>2. TwoTo[W * k] = P /\ W * k \in Nat
  BY PowIsTwoTo
<1> HIDE DEF P
<1>3. o * y = P * g
  <2> DEFINE v == o * y - P * g
  <2>1. v \in Int /\ t * v = 0
    <3>1. v \in Int
      BY <1>1
    <3>2. t * v = (o * t) * Q - (o * t) * Z - P * (t * g)
      BY <1>1
    <3>3. (o * t) * Q - (o * t) * Z = P * (t * g)
      BY DEF P
    <3> DEFINE z1 == (o * t) * Q - (o * t) * Z
               z2 == P * (t * g)
    <3>4. z1 = z2 /\ z2 \in Int /\ t * v = z1 - z2
      BY <1>1, <3>2, <3>3
    <3> HIDE DEF z1, z2, v
    <3>5. QED
      BY <3>1, <3>4
  <2>2. v = 0
    <3> HIDE DEF v
    <3>1. QED
      BY <2>1
  <2> DEFINE z1 == o * y
             z2 == P * g
  <2>3. z1 \in Int /\ z2 \in Int /\ z1 - z2 = 0
    BY <1>1, <2>2
  <2> HIDE DEF z1, z2
  <2>4. z1 = z2
    BY <2>3
  <2>5. QED
    BY <2>4 DEF z1, z2
<1>4. Congruent(o * y, 0, TwoTo[W * k])
  <2>1. o * y = 0 + P * g
    BY <1>1, <1>3
  <2> HIDE DEF y
  <2>2. Congruent(o * y, 0, P)
    BY <2>1 DEF Congruent
  <2>3. QED
    BY <1>2, <2>2
<1>5. y \in Int
  OBVIOUS
<1>6. Congruent(y, 0, P)
  <2> DEFINE jj == W * k
  <2>1. jj \in Nat /\ Congruent(o * y, 0, TwoTo[jj]) /\ TwoTo[jj] = P
    BY <1>2, <1>4
  <2> HIDE DEF jj, y
  <2>2. Congruent(y, 0, TwoTo[jj])
    BY <1>5, <2>1, OddCancels
  <2>3. QED
    BY <2>1, <2>2
<1>7. PICK q \in Int : y = 0 + P * q
  BY <1>6 DEF Congruent
<1>8. Q = P * q + Z /\ Z \in 0 .. (P - 1)
  <2>1. P * q \in Int
    BY <1>1, <1>7
  <2>2. Z < P
    BY DEF P
  <2>3. QED
    BY <1>1, <1>7, <2>1, <2>2
<1>9. (P * q + Z) % P = Z
  BY <1>1, <1>7, <1>8, DivUnique
<1>10. QED
  BY <1>8, <1>9 DEF Low, P

\* The words of the quotient, in place and not, truncated and extended.
LEMMA QuotientLoopRight ==
  ASSUME NEW k \in Nat, NEW x \in Seq(Digit), NEW g \in Int, g > 0, g < B, NEW inplace \in BOOLEAN,
         NEW R \in Int, 0 <= R, R < g, NEW Q \in Int, Of(B, x) = g * Q + R,
         NEW carry, carry = g \div TwoTo[Ctz(g)] - R \div TwoTo[Ctz(g)]
  PROVE  Of(B, Quotients(k, x, g, carry, inplace)) = Low(k, Q)
<1> DEFINE e == Ctz(g)
           t == TwoTo[e]
           o == g \div t
           r == TwoTo[W - e]
           len == Held(k, x, inplace)
<1>0. /\ B \in Nat /\ B > 0 /\ B >= 2 /\ x \in Seq(0 .. (B - 1)) /\ Len(x) \in Nat
      /\ W \in Nat
  BY BaseAssumption, WordBitsAssumption DEF Digit
<1>1. e \in 0 .. (W - 1) /\ g = o * t /\ o % 2 = 1 /\ o \in Nat /\ o <= g
  BY CtzRight
<1>2. e \in Nat /\ W - e \in Nat /\ o < B /\ o \in Int
  BY <1>0, <1>1
<1> HIDE DEF e
<1>3. t \in Nat /\ t >= 1 /\ r \in Nat /\ B = t * r
  <2>1. 0 \in Int /\ 0 <= 0 /\ 0 < B
    BY <1>0
  <2>2. QED
    BY <1>2, <2>1, ShiftedWord
<1>4. carry = o - R \div t
  BY DEF e
<1> HIDE DEF t, r, o
<1>5. carry \in Int /\ 0 <= carry /\ carry < B
  <2> DEFINE f == R \div t
             fl == R % t
  <2>1. f \in Int /\ fl \in Int /\ R = t * f + fl /\ 0 <= fl /\ fl < t
    BY <1>3, DivMod
  <2> HIDE DEF f, fl
  <2>2. f >= 0
    <3>1. SUFFICES ASSUME f <= 0 - 1 PROVE FALSE
      BY <2>1
    <3>2. t * f <= t * (0 - 1) /\ t * (0 - 1) = 0 - t /\ t * f \in Int
      BY <1>3, <2>1, <3>1
    <3>3. QED
      BY <1>3, <2>1, <3>2
  <2>3. f < o
    <3>1. SUFFICES ASSUME f >= o PROVE FALSE
      BY <1>2, <2>1
    <3>2. t * f >= t * o /\ t * o = g /\ t * f \in Int
      BY <1>1, <1>2, <1>3, <2>1, <3>1
    <3>3. QED
      BY <1>3, <2>1, <3>2
  <2>4. QED
    BY <1>0, <1>2, <1>4, <2>1, <2>2, <2>3 DEF f
<1>6. WordNegmodinv(o) \in Int
  <2>1. WordNegmodinv(o) \in Digit
    BY <1>1, NegmodinvRight
  <2>2. QED
    BY <1>0, <2>1 DEF Digit
<1>7. PICK s : /\ LoopStates(s, k, x, e, o, carry, inplace)
               /\ Quotients(k, x, g, carry, inplace) = WordsIn(s[k], k)
  <2>1. \E s : /\ LoopStates(s, k, x, Ctz(g), g \div TwoTo[Ctz(g)], carry, inplace)
               /\ Quotients(k, x, g, carry, inplace) = WordsIn(s[k], k)
    <3>1. Ctz(g) \in Nat /\ W - Ctz(g) \in Nat /\ g \div TwoTo[Ctz(g)] \in Int
          /\ WordNegmodinv(g \div TwoTo[Ctz(g)]) \in Int
      BY <1>2, <1>6 DEF e, t, o
    <3> HIDE DEF e, t, o
    <3>2. carry \in Int
      BY <1>5
    <3>3. QED
      BY <3>1, <3>2, QuotientsIs
  <2>2. QED
    BY <2>1 DEF e, t, o
<1> DEFINE zq == [jj \in 1 .. k |-> s[k].z[jj]]
           Z == Of(B, zq)
<1>8. ASSUME NEW jj \in Nat
      PROVE  /\ LoopHolds(s[jj], jj, k, x, e, inplace)
             /\ LoopSteps(s[jj], s[jj + 1], jj, k, x, e, o)
             /\ \A y \in 1 .. len : y <= jj => s[jj].z[y] = s[y].z[y]
             /\ s[jj] \in LoopState(len)
  <2>1. /\ e \in Nat /\ W - e \in Nat /\ o \in Nat /\ o % 2 = 1 /\ o < B
        /\ carry \in Int /\ 0 <= carry /\ carry < B /\ LoopStates(s, k, x, e, o, carry, inplace)
    BY <1>1, <1>2, <1>5, <1>7
  <2> HIDE DEF len
  <2>2. LoopIsRight(s, jj, k, x, e, o, inplace)
    BY <2>1, LoopStatesRight
  <2>3. QED
    BY <2>2 DEF len, LoopIsRight
<1>9. len \in Nat /\ k <= len
  BY <1>0 DEF Held
<1> HIDE DEF len
<1>10. ASSUME NEW jj \in Nat, jj < k
       PROVE  \E q \in Int :
                /\ 0 <= q /\ q < B /\ zq[jj + 1] = B - 1 - q
                /\ q * o + (s[jj].d + (WordOf(x, jj + 2) % t) * r + s[jj].c) = B * s[jj + 1].c
  <2>1. PICK q \in Int :
          /\ 0 <= q /\ q < B
          /\ jj < k => s[jj + 1].z[jj + 1] = B - 1 - q
          /\ q * o + (s[jj].d + (WordOf(x, jj + 2) % TwoTo[e]) * TwoTo[W - e] + s[jj].c) = B * s[jj + 1].c
    BY <1>8 DEF LoopSteps
  <2>2. jj + 1 \in 1 .. k /\ jj + 1 \in 1 .. len /\ jj + 1 <= k /\ k \in Nat
    BY <1>9, <1>10
  <2>3. s[k].z[jj + 1] = s[jj + 1].z[jj + 1]
    BY <1>8, <2>2
  <2>4. zq[jj + 1] = s[k].z[jj + 1]
    BY <2>2
  <2> HIDE DEF zq
  <2>5. QED
    BY <1>10, <2>1, <2>3, <2>4 DEF t, r
<1>11. zq \in [1 .. k -> Digit]
  <2>1. ASSUME NEW y \in 1 .. k PROVE s[k].z[y] \in Digit
    <3> DEFINE jj == y - 1
    <3>1. jj \in Nat /\ jj < k /\ jj + 1 = y
      OBVIOUS
    <3> HIDE DEF jj
    <3>2. PICK q \in Int : 0 <= q /\ q < B /\ zq[jj + 1] = B - 1 - q
      BY <1>10, <3>1
    <3>3. B - 1 - q \in Digit
      BY <1>0, <3>2 DEF Digit
    <3>4. zq[y] = s[k].z[y]
      OBVIOUS
    <3> HIDE DEF zq
    <3>5. QED
      BY <3>1, <3>2, <3>3, <3>4
  <2>2. QED
    BY <2>1
<1> HIDE DEF zq
<1>12. zq \in Seq(Digit) /\ zq \in Seq(0 .. (B - 1)) /\ Len(zq) = k
  <2>1. zq \in Seq(Digit) /\ Len(zq) = k
    <3>1. zq = [jj \in 1 .. k |-> zq[jj]] /\ \A jj \in 1 .. k : zq[jj] \in Digit
      BY <1>11
    <3>2. [jj \in 1 .. k |-> zq[jj]] \in Seq(Digit) /\ Len([jj \in 1 .. k |-> zq[jj]]) = k
      BY <3>1
    <3>3. QED
      BY <3>1, <3>2
  <2>2. QED
    BY <2>1 DEF Digit
<1>13. Z \in Int /\ 0 <= Z /\ Z < Pow[k]
  BY <1>12, OfBelow
<1>14. PICK tz : Tails(tz, B, zq)
  BY <1>0, <1>12, TailsExist
<1>15. PICK tx : Tails(tx, B, x)
  BY <1>0, TailsExist
<1>16. /\ tz \in [Nat -> Int] /\ tz[0] = Z /\ tz[k] = 0
       /\ \A jj \in Nat : tz[jj] = WordOf(zq, jj + 1) + B * tz[jj + 1]
  BY <1>12, <1>14 DEF Tails
<1>17. /\ tx \in [Nat -> Int] /\ tx[0] = Of(B, x)
       /\ \A jj \in Nat : tx[jj] = WordOf(x, jj + 1) + B * tx[jj + 1]
  BY <1>15 DEF Tails
<1> DEFINE X == Of(B, x)
           N == X - R - (o * t) * Z
           Weight(jj) == Weighed(N, Pow[jj], o, t, s[jj].c, s[jj].d, B, tx[jj + 1], tz[jj])
<1> HIDE DEF Z
<1>18. X \in Int /\ N \in Int /\ (o * t) * Z \in Int /\ X = (o * t) * Q + R
  <2>1. X \in Int
    BY <1>17
  <2>2. (o * t) * Z \in Int
    BY <1>2, <1>3, <1>13
  <2>3. QED
    BY <1>1, <2>1, <2>2
<1>19. ASSUME NEW jj \in Nat
       PROVE  /\ s[jj].c \in Int /\ s[jj].d \in Int /\ s[jj].d = WordOf(x, jj + 1) \div t
              /\ WordOf(x, jj + 1) \in Int
  <2>1. LoopHolds(s[jj], jj, k, x, e, inplace) /\ s[jj] \in LoopState(len)
    BY <1>8
  <2>2. s[jj].c \in Int /\ s[jj].d \in Int
    BY <2>1 DEF LoopState
  <2>3. s[jj].d = WordOf(x, jj + 1) \div t
    BY <2>1 DEF LoopHolds, t
  <2>4. jj + 1 \in Int
    OBVIOUS
  <2>5. WordOf(x, jj + 1) \in Int
    BY <1>0, <2>4, WordOfType
  <2>6. QED
    BY <2>2, <2>3, <2>5
<1>20. Weight(0)
  <2> DEFINE x0 == WordOf(x, 1)
             y1 == tx[1]
  <2>1. x0 \in Int /\ y1 \in Int /\ X = x0 + B * y1 /\ s[0].d = x0 \div t /\ s[0].c = o - R \div t
        /\ Pow[0] = 1 /\ tz[0] = Z
    <3>1. 0 + 1 = 1 /\ 0 \in Nat /\ 1 \in Nat
      OBVIOUS
    <3>2. s[0].c = carry
      BY <1>7 DEF LoopStates, FirstState
    <3>3. x0 \in Int /\ s[0].d = x0 \div t
      BY <1>19, <3>1
    <3>4. y1 \in Int /\ X = x0 + B * y1
      BY <1>17, <3>1
    <3>5. QED
      BY <1>4, <1>16, <3>2, <3>3, <3>4, PowFacts
  <2> HIDE DEF x0, y1, X
  <2>2. X - R = t * ((o - R \div t) + x0 \div t - o) + B * y1
    <3> HIDE DEF N, Weight
    <3>0. r \in Int /\ B = t * r
      BY <1>3
    <3>1. B = t * r /\ r \in Int /\ X = (o * t) * Q + R /\ X = x0 + B * y1
      BY <1>18, <2>1, <3>0
    <3>2. DividedAs(o, t, B, X, R, x0, y1)
      BY <3>1 DEF DividedAs
    <3>3. o \in Int /\ t \in Nat /\ t >= 1 /\ B \in Int /\ X \in Int /\ x0 \in Int /\ y1 \in Int
      BY <1>0, <1>2, <1>3, <1>18, <2>1
    <3> HIDE DEF N, Weight
    <3>4. FirstWeighed(o, t, B, X, R, x0, y1)
      BY <3>2, <3>3, FirstWeight
    <3>5. QED
      BY <3>4 DEF FirstWeighed
  <2> DEFINE gz == (o * t) * Z
             rhs == t * (s[0].c + s[0].d - o) + B * tx[0 + 1]
  <2>3. rhs = X - R
    <3>1. 0 + 1 = 1
      OBVIOUS
    <3>2. QED
      BY <2>1, <2>2, <3>1 DEF y1
  <2>4. N = X - R - gz /\ gz \in Int /\ X \in Int
    BY <1>18
  <2>5. 1 * Z = Z
    BY <1>13
  <2>6. N + (o * t) * (Pow[0] * tz[0]) = N + gz
    BY <2>1, <2>5
  <2>7. Pow[0] * rhs = X - R
    <3>1. 1 * (X - R) = X - R
      BY <1>18
    <3> HIDE DEF rhs
    <3>2. QED
      BY <2>1, <2>3, <3>1
  <2>8. N + gz = X - R
    <3> HIDE DEF gz, N
    <3>1. QED
      BY <2>4
  <2>9. N + (o * t) * (Pow[0] * tz[0]) = Pow[0] * rhs
    BY <2>6, <2>7, <2>8
  <2>10. QED
    BY <2>9 DEF Weighed
<1>21. ASSUME NEW jj \in Nat, jj < k, Weight(jj)
       PROVE  Weight(jj + 1)
  <2>0. Pow[jj] \in Int /\ Pow[jj + 1] = B * Pow[jj]
    <3>1. Pow[jj] \in Nat
      BY PowPositive
    <3>2. Pow[jj + 1] = B * Pow[jj]
      BY PowFacts
    <3>3. QED
      BY <3>1, <3>2
  <2>1. PICK q \in Int :
          /\ 0 <= q /\ q < B /\ zq[jj + 1] = B - 1 - q
          /\ q * o + (s[jj].d + (WordOf(x, jj + 2) % t) * r + s[jj].c) = B * s[jj + 1].c
    BY <1>10, <1>21
  <2> DEFINE P == Pow[jj]
             cw == s[jj].c
             dw == s[jj].d
             c1 == s[jj + 1].c
             d1 == s[jj + 1].d
             l == WordOf(x, jj + 2)
             y == l % t
             u1 == tx[jj + 1]
             u2 == tx[jj + 2]
             v1 == tz[jj]
             v2 == tz[jj + 1]
  <2>2. jj + 1 \in Nat /\ (jj + 1) + 1 = jj + 2 /\ jj + 2 \in Nat /\ jj + 1 \in 1 .. k
    BY <1>21
  <2>3. cw \in Int /\ dw \in Int /\ c1 \in Int /\ d1 \in Int /\ d1 = l \div t /\ l \in Int
    BY <1>19, <2>2
  <2>4. P \in Int /\ Pow[jj + 1] = B * P
    BY <2>0
  <2>5. u1 \in Int /\ u2 \in Int /\ u1 = l + B * u2
    BY <1>17, <2>2
  <2>6. v1 \in Int /\ v2 \in Int /\ v1 = (B - 1 - q) + B * v2
    <3>1. v1 \in Int /\ v2 \in Int /\ v1 = WordOf(zq, jj + 1) + B * v2
      BY <1>16, <2>2
    <3>2. WordOf(zq, jj + 1) = zq[jj + 1]
      BY <1>12, <2>2 DEF WordOf
    <3>3. QED
      BY <2>1, <3>1, <3>2
  <2>7. y \in Int /\ l = t * d1 + y
    <3> HIDE DEF l
    <3>1. l \div t \in Int /\ l % t \in Int /\ l = t * (l \div t) + (l % t)
      BY <1>3, <2>3, DivMod
    <3>2. QED
      BY <2>3, <3>1
  <2>8. q * o + (dw + y * r + cw) = B * c1
    BY <2>1
  <2>9. Weighed(N, P, o, t, cw, dw, B, u1, v1)
    BY <1>21
  <2>10. WeightStep(o, t, B, cw, dw, c1, d1, u1, u2, v1, v2)
    <3> HIDE DEF P, cw, dw, c1, d1, l, y, u1, u2, v1, v2, N
    <3>1. r \in Int /\ B = t * r
      BY <1>3
    <3>2. QED
      BY <2>1, <2>3, <2>5, <2>6, <2>7, <2>8, <3>1 DEF WeightStep
  <2> HIDE DEF P, cw, dw, c1, d1, l, y, u1, u2, v1, v2, N
  <2>11. o \in Int /\ t \in Int /\ B \in Int /\ N \in Int
    BY <1>0, <1>2, <1>3, <1>18
  <2>12. Weighed(N, B * P, o, t, c1, d1, B, u2, v2)
    BY <2>3, <2>4, <2>5, <2>6, <2>9, <2>10, <2>11, QuotientWeight
  <2>13. Weighed(N, Pow[jj + 1], o, t, c1, d1, B, u2, v2)
    BY <2>4, <2>12
  <2>14. QED
    BY <2>2, <2>13 DEF v2, c1, d1, u2
<1> DEFINE T == {jj \in Nat : jj <= k => Weight(jj)}
<1>22. T = Nat
  <2> HIDE DEF Weight
  <2>1. 0 \in T
    BY <1>20
  <2>2. ASSUME NEW jj \in T PROVE jj + 1 \in T
    <3>1. jj \in Nat /\ jj + 1 \in Nat /\ (jj + 1 <= k => jj < k /\ jj <= k)
      OBVIOUS
    <3>2. QED
      BY <1>21, <3>1
  <2>3. T \in SUBSET Nat
    OBVIOUS
  <2> HIDE DEF T
  <2>4. QED
    BY <2>1, <2>2, <2>3, InductionOnNat
<1>23. Weight(k)
  <2> HIDE DEF Weight
  <2>1. QED
    BY <1>22
<1> DEFINE h1 == tx[k + 1]
           cw == s[k].c
           dw == s[k].d
           gg == cw + dw - o + r * h1
<1>24. h1 \in Int /\ cw \in Int /\ dw \in Int
  <2>1. k + 1 \in Nat
    OBVIOUS
  <2>2. h1 \in Int
    BY <1>17, <2>1
  <2>3. QED
    BY <1>19, <2>2
<1>25. (o * t) * Q - (o * t) * Z = Pow[k] * (t * gg) /\ gg \in Int
  <2>1. N + (o * t) * (Pow[k] * 0) = Pow[k] * (t * (cw + dw - o) + B * h1)
    BY <1>16, <1>23 DEF Weighed
  <2> HIDE DEF h1, cw, dw
  <2>2. Pow[k] \in Int /\ Pow[k] * 0 = 0 /\ (o * t) * 0 = 0
    <3>1. Pow[k] \in Int
      <4>1. Pow[k] \in Nat
        BY PowPositive
      <4>2. QED
        BY <4>1
    <3>2. QED
      BY <1>2, <1>3, <3>1
  <2>3. (o * t) * (Pow[k] * 0) = 0
    BY <2>2
  <2>4. gg \in Int /\ t * gg = t * (cw + dw - o) + B * h1
    <3>1. gg \in Int
      BY <1>2, <1>3, <1>24
    <3>2. t * gg = t * (cw + dw - o) + t * (r * h1)
      BY <1>2, <1>3, <1>24
    <3>3. t * (r * h1) = (t * r) * h1
      BY <1>3, <1>24
    <3>4. QED
      BY <1>3, <3>1, <3>2, <3>3
  <2> HIDE DEF gg
  <2> DEFINE a1 == (o * t) * Q
             a2 == (o * t) * Z
             a3 == Pow[k] * (t * gg)
  <2>5. a3 = N
    <3>1. N + 0 = N
      BY <1>18
    <3> HIDE DEF N
    <3>2. QED
      BY <2>1, <2>3, <2>4, <3>1
  <2>6. a1 \in Int /\ a2 \in Int /\ X = a1 + R /\ N = X - R - a2 /\ X \in Int
    <3>1. a1 \in Int
      BY <1>2, <1>3
    <3>2. QED
      BY <1>18, <3>1
  <2> HIDE DEF a1, a2, a3, X, N
  <2>7. a1 - a2 = a3
    BY <2>5, <2>6
  <2>8. QED
    BY <2>4, <2>7 DEF a1, a2, a3
<1> HIDE DEF gg
<1>26. Z = Low(k, Q)
  <2>1. LastWeighed(k, o, t, Q, Z)
    BY <1>25 DEF LastWeighed
  <2>2. o \in Nat /\ o % 2 = 1 /\ t \in Nat /\ t >= 1 /\ Z \in Int /\ 0 <= Z /\ Z < Pow[k]
    BY <1>1, <1>3, <1>13
  <2>3. QED
    BY <2>1, <2>2, LastWeight
<1>27. QED
  BY <1>7, <1>26 DEF Z, zq, WordsIn

\* The quotient and the remainder.
LEMMA CdivRight ==
  ASSUME NEW k \in Nat, NEW x \in Seq(Digit), NEW g \in 1 .. (B - 1), NEW inplace \in BOOLEAN
  PROVE  <<Of(B, cdiv(k, x, g, inplace)[1]), cdiv(k, x, g, inplace)[2]>> = bignum_cdiv(k, Of(B, x), g)
<1> DEFINE X == Of(B, x)
           R == X % g
           Q == X \div g
           carry == g \div TwoTo[Ctz(g)] - R \div TwoTo[Ctz(g)]
<1>1. cmod(x, g) = R
  BY CmodRight
<1>2. X \in Int /\ B \in Nat /\ g \in Int /\ g > 0 /\ g < B /\ g \in Nat
  BY OfBelow, BaseAssumption
<1> HIDE DEF X
<1>3. R \in Int /\ 0 <= R /\ R < g /\ Q \in Int /\ X = g * Q + R
  BY <1>2, DivMod
<1> HIDE DEF R, Q
<1>4. Of(B, x) = g * Q + R
  BY <1>3 DEF X
<1>5. carry = g \div TwoTo[Ctz(g)] - R \div TwoTo[Ctz(g)]
  OBVIOUS
<1> HIDE DEF carry
<1>6. Of(B, Quotients(k, x, g, carry, inplace)) = Low(k, Q)
  BY <1>2, <1>3, <1>4, <1>5, QuotientLoopRight
<1>7. cdiv(k, x, g, inplace) = <<Quotients(k, x, g, carry, inplace), R>>
  BY <1>1 DEF cdiv, carry
<1>8. bignum_cdiv(k, Of(B, x), g) = <<Low(k, Q), R>>
  BY DEF bignum_cdiv, Q, R, X
<1>9. QED
  BY <1>6, <1>7, <1>8

\* The exact quotient of a multiple.
LEMMA CdivExactRight ==
  ASSUME NEW k \in Nat, NEW x \in Seq(Digit), NEW g \in 1 .. (B - 1), NEW inplace \in BOOLEAN,
         Of(B, x) % g = 0
  PROVE  <<Of(B, cdiv_exact(k, x, g, inplace)[1]), cdiv_exact(k, x, g, inplace)[2]>>
           = bignum_cdiv_exact(k, Of(B, x), g)
<1> DEFINE X == Of(B, x)
           Q == X \div g
           carry == g \div TwoTo[Ctz(g)]
<1>1. X \in Int /\ B \in Nat /\ g \in Int /\ g > 0 /\ g < B /\ g \in Nat
  BY OfBelow, BaseAssumption
<1>2. X % g = 0
  OBVIOUS
<1> HIDE DEF X
<1>3. Q \in Int /\ X = g * Q + 0
  BY <1>1, <1>2, DivMod
<1> HIDE DEF Q
<1>4. Of(B, x) = g * Q + 0
  BY <1>3 DEF X
<1>5. carry = g \div TwoTo[Ctz(g)] - 0 \div TwoTo[Ctz(g)]
  <2> DEFINE e == Ctz(g)
             t == TwoTo[e]
  <2>1. e \in Nat /\ g = (g \div t) * t /\ g \div t \in Nat
    <3>1. e \in 0 .. (W - 1) /\ g = (g \div t) * t /\ g \div t \in Nat
      BY <1>1, CtzRight
    <3>2. W \in Nat
      BY WordBitsAssumption
    <3>3. QED
      BY <3>1, <3>2
  <2> HIDE DEF e
  <2>2. t \in Nat /\ t >= 1
    BY <2>1, TwoToFacts
  <2> HIDE DEF t
  <2>3. 0 \div t = 0
    <3>1. 0 \in 0 .. (t - 1) /\ t * 0 + 0 = 0 /\ 0 \in Int
      BY <2>2
    <3>2. (t * 0 + 0) \div t = 0
      BY <2>2, <3>1, DivUnique
    <3>3. QED
      BY <3>1, <3>2
  <2> DEFINE o == g \div t
  <2>4. o \in Nat
    BY <2>1
  <2> HIDE DEF o
  <2>5. o = o - 0 \div t
    BY <2>3, <2>4
  <2>6. QED
    BY <2>5 DEF o, t, e
<1> HIDE DEF carry
<1>6. 0 \in Int /\ 0 <= 0 /\ 0 < g
  BY <1>1
<1>7. Of(B, Quotients(k, x, g, carry, inplace)) = Low(k, Q)
  BY <1>1, <1>3, <1>4, <1>5, <1>6, QuotientLoopRight
<1>8. cdiv_exact(k, x, g, inplace) = <<Quotients(k, x, g, carry, inplace), NoWord>>
  BY DEF cdiv_exact, carry
<1>9. bignum_cdiv_exact(k, Of(B, x), g) = <<Low(k, Q), NoWord>>
  BY DEF bignum_cdiv_exact, Q, X
<1>10. QED
  BY <1>7, <1>8, <1>9

\* The reciprocal of the normalized word and the negated inverse of its odd part.
LEMMA WordsOfRight ==
  ASSUME NEW g \in 1 .. (B - 1)
  PROVE  /\ Recip(g * TwoTo[Clz(g)]) = word_recip(g * TwoTo[Clz(g)])
         /\ word_negmodinv(g \div TwoTo[Ctz(g)], WordNegmodinv(g \div TwoTo[Ctz(g)]))
<1>1. g \in Int /\ g > 0 /\ g < B /\ g \in Nat /\ W \in Nat
  BY BaseAssumption, WordBitsAssumption
<1>2. Recip(g * TwoTo[Clz(g)]) = word_recip(g * TwoTo[Clz(g)])
  <2> DEFINE e == Clz(g)
             f == g * TwoTo[e]
  <2>1. e \in Nat /\ f < B /\ B <= 2 * f
    BY <1>1, ClzRight
  <2> HIDE DEF e
  <2>2. f \in Int
    BY <1>1, <2>1, TwoToFacts
  <2> HIDE DEF f
  <2>3. Recip(f) = word_recip(f)
    BY <2>1, <2>2, ReciprocalIs
  <2>4. QED
    BY <2>3 DEF f, e
<1>3. word_negmodinv(g \div TwoTo[Ctz(g)], WordNegmodinv(g \div TwoTo[Ctz(g)]))
  <2> DEFINE o == g \div TwoTo[Ctz(g)]
  <2>1. o \in Nat /\ o % 2 = 1
    BY <1>1, CtzRight
  <2> HIDE DEF o
  <2>2. word_negmodinv(o, WordNegmodinv(o))
    BY <2>1, NegmodinvRight
  <2>3. QED
    BY <2>2 DEF o
<1>4. QED
  BY <1>2, <1>3

\* A fifth of a small number l by a multiplication with a fifth of b + 4.
LEMMA FifthByProduct ==
  ASSUME NEW b \in Nat, NEW g \in Nat, b + 4 = 5 * g, NEW l \in Nat, 4 * l < b
  PROVE  (l * g) \div b = l \div 5
<1> DEFINE q == l \div 5
           u == l % 5
           r == 4 * q + u * g
<1>1. q \in Int /\ u \in Int /\ l = 5 * q + u /\ 0 <= u /\ u < 5
  BY DivMod
<1> HIDE DEF q, u
<1>2. b > 0
  OBVIOUS
<1>3. l * g = b * q + r
  <2>1. (5 * q + u) * g = (5 * g) * q + u * g
    BY <1>1
  <2>2. (b + 4) * q = b * q + 4 * q
    BY <1>1
  <2> DEFINE y1 == l * g
             y2 == (5 * g) * q
             y3 == u * g
             y4 == b * q
  <2>3. y1 = y2 + y3 /\ y2 = y4 + 4 * q /\ y3 \in Int /\ y4 \in Int /\ r = 4 * q + y3
    BY <1>1, <2>1, <2>2
  <2> HIDE DEF y1, y2, y3, y4, r
  <2>4. y1 = y4 + r
    BY <1>1, <2>3
  <2>5. QED
    BY <2>4 DEF y1, y4
<1>4. r \in 0 .. (b - 1)
  <2> DEFINE y == u * g
  <2>1. y \in Int /\ y >= 0 /\ y <= 4 * g
    <3>1. u = 0 \/ u = 1 \/ u = 2 \/ u = 3 \/ u = 4
      BY <1>1
    <3>2. QED
      BY <3>1
  <2>2. 5 * y = u * b + 4 * u /\ u * b <= 4 * b
    <3>1. u = 0 \/ u = 1 \/ u = 2 \/ u = 3 \/ u = 4
      BY <1>1
    <3>2. QED
      BY <3>1
  <2> DEFINE zq == u * b
  <2>3. zq \in Int /\ zq <= 4 * b /\ 5 * y = zq + 4 * u
    BY <1>1, <2>2
  <2> HIDE DEF y, zq
  <2>4. 0 <= q
    BY <1>1
  <2>5. 4 * q + y \in Int /\ 0 <= 4 * q + y /\ 5 * (4 * q + y) < 5 * b
    BY <1>1, <2>1, <2>3, <2>4
  <2>6. 4 * q + y < b
    BY <1>1, <2>1, <2>5
  <2>7. QED
    BY <2>5, <2>6 DEF y
<1> HIDE DEF r
<1>5. (b * q + r) \div b = q
  BY <1>1, <1>2, <1>4, DivUnique
<1>6. QED
  BY <1>3, <1>5 DEF q

\* A number below 5 b, split at s: the sum of its parts stays small.
LEMMA SplitFifth ==
  ASSUME NEW s \in Nat, s > 0, NEW cw \in Nat, NEW v \in Nat, v < 5 * (s * cw)
  PROVE  /\ v \div s \in Int /\ v % s \in Int /\ 0 <= v \div s /\ 0 <= v % s
         /\ v = s * (v \div s) + (v % s) /\ (v \div s) + (v % s) < 5 * cw + s
<1> DEFINE hw == v \div s
           u == v % s
<1>1. hw \in Int /\ u \in Int /\ v = s * hw + u /\ 0 <= u /\ u < s
  BY DivMod
<1> HIDE DEF hw, u
<1>2. 0 <= hw
  <2>1. SUFFICES ASSUME hw <= 0 - 1 PROVE FALSE
    BY <1>1
  <2>2. s * hw <= s * (0 - 1) /\ s * (0 - 1) = 0 - s /\ s * hw \in Int
    BY <1>1, <2>1
  <2>3. QED
    BY <1>1, <2>2
<1>3. hw < 5 * cw
  <2>1. SUFFICES ASSUME hw >= 5 * cw PROVE FALSE
    BY <1>1
  <2>2. s * hw >= s * (5 * cw) /\ s * (5 * cw) = 5 * (s * cw) /\ s * hw \in Int
    BY <1>1, <2>1
  <2>3. QED
    BY <1>1, <2>2
<1>4. QED
  BY <1>1, <1>2, <1>3 DEF hw, u

\* A remainder of bignum_divmod10 and the next word: a tenth of them and what is left.
TenthLeaves(u, dw, r) ==
  /\ Tenth(u, dw) \in 0 .. (TwoTo[DecBits] - 1) /\ r \in 0 .. 9
  /\ TwoTo[DecBits] * u + dw = 10 * Tenth(u, dw) + r
  /\ (dw - 10 * Tenth(u, dw)) % TwoTo[DecBits] = r

\* The digit of the quotient is exact and so is the remainder.
LEMMA TenthRight ==
  ASSUME NEW u \in 0 .. 9, NEW dw \in 0 .. (TwoTo[DecBits] - 1)
  PROVE  \E r \in 0 .. 9 : TenthLeaves(u, dw, r)
<1> DEFINE b == TwoTo[DecBits]
           s == TwoTo[DecSplit]
           cw == b \div s
           y == b * u + dw
           v == y \div 2
           y0 == y % 2
           hw == v \div s
           vl == v % s
           l == (hw + vl) % b
           f == (s - 1) \div 5
           g == (b + 4) \div 5
<1>1. b \in Nat /\ s \in Nat /\ b >= 1 /\ s >= 1
  BY DecAssumption, TwoToFacts
<1>2. cw \in Int /\ b = s * cw /\ cw >= 1
  <2> DEFINE e == DecBits - DecSplit
             c0 == TwoTo[e]
  <2>1. e \in Nat /\ DecSplit + e = DecBits /\ DecSplit \in Nat
    BY DecAssumption
  <2> HIDE DEF e
  <2>2. c0 \in Nat /\ c0 >= 1 /\ TwoTo[DecSplit + e] = s * c0
    BY <2>1, TwoToFacts, TwoToAdds
  <2> HIDE DEF c0
  <2>3. b = s * c0 + 0 /\ 0 \in 0 .. (s - 1) /\ c0 \in Int
    BY <1>1, <2>1, <2>2
  <2> HIDE DEF s, b
  <2>4. (s * c0 + 0) \div s = c0
    BY <1>1, <2>3, DivUnique
  <2>5. b \div s = c0 /\ s * c0 = s * c0 + 0
    BY <1>1, <2>2, <2>3, <2>4
  <2>6. QED
    BY <2>2, <2>3, <2>5
<1>3. (s - 1) % 5 = 0 /\ (b + 4) % 5 = 0 /\ 4 * (5 * cw + s) < b
  BY DecAssumption
<1> HIDE DEF b, s, cw
<1>4. f \in Int /\ s - 1 = 5 * f /\ g \in Int /\ b + 4 = 5 * g
  <2>1. f \in Int /\ s - 1 = 5 * f + ((s - 1) % 5)
    BY <1>1, DivMod
  <2>2. g \in Int /\ b + 4 = 5 * g + ((b + 4) % 5)
    BY <1>1, DivMod
  <2> HIDE DEF f, g
  <2>3. QED
    BY <1>3, <2>1, <2>2
<1> HIDE DEF f, g
<1>5. f \in Nat /\ g \in Nat
  BY <1>1, <1>4
<1>6. u \in Int /\ 0 <= u /\ u <= 9 /\ dw \in Int /\ 0 <= dw /\ dw < b
  BY <1>1 DEF b
<1>7. y \in Int /\ 0 <= y /\ y < 10 * b
  <2>1. b * u \in Int /\ 0 <= b * u /\ b * u <= b * 9
    BY <1>1, <1>6
  <2>2. QED
    BY <1>1, <1>6, <2>1
<1> HIDE DEF y
<1>8. v \in Int /\ y0 \in Int /\ y = 2 * v + y0 /\ 0 <= y0 /\ y0 < 2
  BY <1>7, DivMod
<1> HIDE DEF v, y0
<1>9. v \in Nat /\ v < 5 * b
  BY <1>1, <1>7, <1>8
<1>10. /\ hw \in Int /\ vl \in Int /\ 0 <= hw /\ 0 <= vl
       /\ v = s * hw + vl /\ hw + vl < 5 * cw + s
  <2>1. s > 0 /\ cw \in Nat /\ v < 5 * (s * cw) /\ v \in Nat /\ s \in Nat
    BY <1>1, <1>2, <1>9
  <2>2. QED
    BY <2>1, SplitFifth
<1> HIDE DEF hw, vl
<1>11. l = hw + vl /\ l \in Nat /\ 4 * l < b
  <2>1. 4 * (hw + vl) < b
    BY <1>1, <1>2, <1>3, <1>10
  <2>2. hw + vl \in 0 .. (b - 1)
    BY <1>1, <1>10, <2>1
  <2> DEFINE l0 == hw + vl
  <2>3. l0 \in 0 .. (b - 1) /\ b > 0 /\ b \in Nat /\ b * 0 = 0 /\ 0 \in Int /\ l0 \in Nat
    BY <1>1, <1>10, <2>2
  <2> HIDE DEF l0
  <2>4. (b * 0 + l0) % b = l0
    BY <2>3, DivUnique
  <2>5. l0 % b = l0
    BY <2>3, <2>4
  <2>6. QED
    BY <2>1, <2>3, <2>5 DEF l0
<1>12. l * g \in Int /\ (l * g) \div b = l \div 5
  BY <1>1, <1>4, <1>5, <1>11, FifthByProduct
<1> HIDE DEF l
<1> DEFINE lq == l \div 5
           lr == l % 5
           q == hw * f + lq
           r == 2 * lr + y0
<1>13. lq \in Int /\ lr \in Int /\ l = 5 * lq + lr /\ 0 <= lr /\ lr < 5
  BY <1>11, DivMod
<1> HIDE DEF lq, lr
<1>14. v = 5 * q + lr /\ q \in Int
  <2>1. s * hw = 5 * (hw * f) + hw
    <3>1. (5 * f + 1) * hw = 5 * (hw * f) + hw
      BY <1>4, <1>10
    <3>2. s = 5 * f + 1
      BY <1>1, <1>4
    <3>3. QED
      BY <3>1, <3>2
  <2> DEFINE zq == hw * f
             z1 == s * hw
  <2>2. zq \in Int /\ z1 = 5 * zq + hw /\ v = z1 + vl /\ l = hw + vl
    BY <1>4, <1>10, <1>11, <2>1
  <2> HIDE DEF zq, z1
  <2>3. v = 5 * (zq + lq) + lr /\ zq + lq \in Int
    BY <1>10, <1>13, <2>2
  <2>4. QED
    BY <2>3 DEF zq
<1> HIDE DEF q
<1>15. q \in 0 .. (b - 1)
  BY <1>1, <1>9, <1>13, <1>14
<1>16. y = 10 * q + r /\ r \in 0 .. 9
  BY <1>8, <1>13, <1>14
<1>17. q % b = q
  <2>1. b > 0 /\ b * 0 = 0 /\ 0 \in Int /\ b * 0 + q = q
    BY <1>1, <1>14
  <2>2. (b * 0 + q) % b = q
    BY <1>1, <1>15, <2>1, DivUnique
  <2>3. QED
    BY <2>1, <2>2
<1>18. Tenth(u, dw) = q
  <2>1. Tenth(u, dw) = (hw * f + (l * g) \div b) % b
    BY DEF Tenth, hw, f, l, g, b, s, v, y, vl
  <2>2. Tenth(u, dw) = (hw * f + lq) % b
    BY <1>12, <2>1 DEF lq
  <2>3. QED
    BY <1>17, <2>2 DEF q
<1> HIDE DEF r
<1>19. (dw - 10 * q) % b = r
  <2>1. dw - 10 * q = b * (0 - u) + r
    <3> DEFINE zq == b * u
    <3>1. zq \in Int /\ zq + dw = 10 * q + r /\ b * (0 - u) = 0 - zq
      BY <1>1, <1>6, <1>16 DEF y
    <3> HIDE DEF zq
    <3>2. dw - 10 * q = (0 - zq) + r
      BY <1>6, <1>14, <1>16, <3>1
    <3>3. QED
      BY <3>1, <3>2
  <2>2. b > 9
    BY <1>1, <1>2, <1>3
  <2>3. r \in 0 .. (b - 1) /\ 0 - u \in Int /\ b > 0 /\ b \in Nat
    BY <1>1, <1>6, <1>16, <2>2
  <2> DEFINE mu == 0 - u
  <2> HIDE DEF mu
  <2>4. (b * mu + r) % b = r
    BY <2>3, DivUnique DEF mu
  <2>5. QED
    BY <2>1, <2>4 DEF mu
<1>20. QED
  <2>1. TenthLeaves(u, dw, r)
    BY <1>15, <1>16, <1>18, <1>19 DEF TenthLeaves, b, y
  <2>2. QED
    BY <1>16, <2>1

\* The remainders of bignum_divmod10 from the highest word down.
Remainders(r, zq) ==
  /\ r \in [Nat -> 0 .. 9] /\ r[0] = 0
  /\ \A jj \in Nat : TenthLeaves(r[jj], WordOf(zq, Len(zq) - jj), r[jj + 1])

\* The words of the quotient they give.
Tenths(r, zq) == [jj \in 1 .. Len(zq) |-> Tenth(r[Len(zq) - jj], zq[jj])]

\* The recursion that defines the remainders.
LEMMA Divmod10Is ==
  ASSUME NEW zq \in Seq(0 .. (TwoTo[DecBits] - 1))
  PROVE  \E r : Remainders(r, zq) /\ divmod10(zq) = <<Tenths(r, zq), r[Len(zq)]>>
<1> DEFINE dw(jj) == WordOf(zq, Len(zq) - jj)
           st(u, jj) == (dw(jj) - 10 * Tenth(u, dw(jj))) % TwoTo[DecBits]
           S == 0 .. 9
           h1(jj) == [u \in S |-> st(u, jj)]
           hh == [jj \in Nat |-> h1(jj)]
           body(v) == [jj \in Nat |-> IF jj = 0 THEN 0
                         ELSE (WordOf(zq, Len(zq) - (jj - 1)) - 10 * Tenth(v[jj - 1], WordOf(zq, Len(zq) - (jj - 1))))
                                % TwoTo[DecBits]]
           V == CHOOSE v : v = body(v)
<1>0. Len(zq) \in Nat /\ TwoTo[DecBits] \in Nat /\ TwoTo[DecBits] > 0
  <2>1. TwoTo[DecBits] \in Nat /\ TwoTo[DecBits] >= 1
    BY DecAssumption, TwoToFacts
  <2>2. QED
    BY <2>1
<1>1. ASSUME NEW jj \in Nat PROVE dw(jj) \in 0 .. (TwoTo[DecBits] - 1)
  <2>1. Len(zq) - jj \in Int
    BY <1>0
  <2>2. QED
    BY <1>0, <2>1, WordOfType
<1> HIDE DEF dw
<1>2. ASSUME NEW u \in S, NEW jj \in Nat PROVE TenthLeaves(u, dw(jj), st(u, jj)) /\ st(u, jj) \in S
  <2> DEFINE dj == dw(jj)
  <2>1. dj \in 0 .. (TwoTo[DecBits] - 1) /\ u \in 0 .. 9
    BY <1>1
  <2> HIDE DEF dj
  <2>2. PICK r \in 0 .. 9 : TenthLeaves(u, dj, r)
    BY <2>1, TenthRight
  <2>3. (dj - 10 * Tenth(u, dj)) % TwoTo[DecBits] = r
    BY <2>2 DEF TenthLeaves
  <2>4. QED
    BY <2>2, <2>3 DEF dj
<1> HIDE DEF S, st
<1>3. hh \in [Nat -> [S -> S]] /\ 0 \in S
  <2>1. \A jj \in Nat : h1(jj) \in [S -> S]
    BY <1>2
  <2> HIDE DEF h1
  <2>2. hh \in [Nat -> [S -> S]]
    BY <2>1
  <2>3. 0 \in S
    BY DEF S
  <2>4. QED
    BY <2>2, <2>3
<1>4. PICK f : Follows(f, 0, hh, S)
  <2> HIDE DEF hh
  <2>1. QED
    BY <1>3, RecExistsIn
<1>5. f \in [Nat -> S] /\ f[0] = 0 /\ \A jj \in Nat : f[jj + 1] = hh[jj][f[jj]]
  <2> HIDE DEF hh
  <2>1. QED
    BY <1>4 DEF Follows
<1>6. ASSUME NEW jj \in Nat PROVE f[jj + 1] = st(f[jj], jj)
  <2>1. hh[jj] = h1(jj) /\ f[jj] \in S
    BY <1>5
  <2>2. f[jj + 1] = hh[jj][f[jj]]
    BY <1>5
  <2> HIDE DEF hh
  <2>3. QED
    BY <2>1, <2>2
<1>7. f = body(f)
  <2>1. ASSUME NEW jj \in Nat PROVE f[jj] = body(f)[jj]
    <3>1. CASE jj = 0
      BY <1>5, <3>1
    <3>2. CASE jj # 0
      <4>1. jj - 1 \in Nat /\ (jj - 1) + 1 = jj
        BY <3>2
      <4>2. f[(jj - 1) + 1] = st(f[jj - 1], jj - 1)
        BY <1>6, <4>1
      <4>3. QED
        BY <3>2, <4>1, <4>2 DEF st, dw
    <3>3. QED
      BY <3>1, <3>2
  <2>2. f = [jj \in Nat |-> f[jj]]
    BY <1>5
  <2>3. body(f) = [jj \in Nat |-> body(f)[jj]]
    OBVIOUS
  <2> HIDE DEF body
  <2>4. QED
    BY <2>1, <2>2, <2>3
<1>8. V = body(V)
  <2> HIDE DEF body
  <2>1. QED
    BY <1>7
<1>9. divmod10(zq) = <<Tenths(V, zq), V[Len(zq)]>>
  BY DEF divmod10, Tenths
<1>10. V[0] = 0 /\ \A jj \in Nat : V[jj + 1] = st(V[jj], jj)
  <2> HIDE DEF V
  <2>1. V[0] = 0
    BY <1>8
  <2>2. ASSUME NEW jj \in Nat PROVE V[jj + 1] = st(V[jj], jj)
    <3>1. jj + 1 \in Nat /\ jj + 1 # 0 /\ (jj + 1) - 1 = jj
      OBVIOUS
    <3>2. V[jj + 1] = (WordOf(zq, Len(zq) - ((jj + 1) - 1))
                        - 10 * Tenth(V[(jj + 1) - 1], WordOf(zq, Len(zq) - ((jj + 1) - 1)))) % TwoTo[DecBits]
      BY <1>8, <3>1
    <3>3. QED
      BY <3>1, <3>2 DEF st, dw
  <2>3. QED
    BY <2>1, <2>2
<1>11. \A jj \in Nat : V[jj] \in S
  <2> DEFINE T == {jj \in Nat : V[jj] \in S}
  <2> HIDE DEF V
  <2>1. 0 \in T
    BY <1>3, <1>10
  <2>2. ASSUME NEW jj \in T PROVE jj + 1 \in T
    <3>1. jj \in Nat /\ V[jj] \in S /\ jj + 1 \in Nat
      OBVIOUS
    <3>2. st(V[jj], jj) \in S
      BY <1>2, <3>1
    <3>3. V[jj + 1] = st(V[jj], jj)
      BY <1>10, <3>1
    <3>4. QED
      BY <3>1, <3>2, <3>3
  <2>3. T = Nat
    <3>1. T \in SUBSET Nat
      OBVIOUS
    <3> HIDE DEF T
    <3>2. QED
      BY <2>1, <2>2, <3>1, InductionOnNat
  <2>4. QED
    BY <2>3
<1>12. V \in [Nat -> S]
  <2>1. body(V) = [jj \in Nat |-> body(V)[jj]]
    OBVIOUS
  <2>2. V = [jj \in Nat |-> V[jj]]
    <3> HIDE DEF body
    <3>1. QED
      BY <1>8, <2>1
  <2> HIDE DEF V
  <2>3. QED
    BY <1>11, <2>2
<1> HIDE DEF V
<1>13. Remainders(V, zq)
  <2>1. \A jj \in Nat : TenthLeaves(V[jj], dw(jj), V[jj + 1])
    BY <1>2, <1>10, <1>11
  <2>2. QED
    BY <1>10, <1>12, <2>1 DEF Remainders, S, dw
<1>14. QED
  BY <1>9, <1>13

\* The word by word quotient by ten and its last remainder.
LEMMA Divmod10Right ==
  ASSUME NEW zq \in Seq(0 .. (TwoTo[DecBits] - 1))
  PROVE  <<Of(TwoTo[DecBits], divmod10(zq)[1]), divmod10(zq)[2]>> = bignum_divmod10(Of(TwoTo[DecBits], zq))
<1> DEFINE b == TwoTo[DecBits]
<1>0. b \in Nat /\ b > 0 /\ Len(zq) \in Nat
  <2>1. b \in Nat /\ b >= 1
    BY DecAssumption, TwoToFacts
  <2>2. QED
    BY <2>1
<1>1. PICK r : Remainders(r, zq) /\ divmod10(zq) = <<Tenths(r, zq), r[Len(zq)]>>
  BY Divmod10Is
<1> DEFINE q == Tenths(r, zq)
           len == Len(zq)
<1>2. r \in [Nat -> 0 .. 9] /\ r[0] = 0 /\ \A jj \in Nat : TenthLeaves(r[jj], WordOf(zq, len - jj), r[jj + 1])
  BY <1>1 DEF Remainders
<1>3. ASSUME NEW jj \in Nat
      PROVE  /\ Tenth(r[jj], WordOf(zq, len - jj)) \in 0 .. (b - 1)
             /\ b * r[jj] + WordOf(zq, len - jj) = 10 * Tenth(r[jj], WordOf(zq, len - jj)) + r[jj + 1]
  BY <1>2 DEF TenthLeaves
<1>4. q \in [1 .. len -> 0 .. (b - 1)]
  <2>1. ASSUME NEW jj \in 1 .. len PROVE Tenth(r[len - jj], zq[jj]) \in 0 .. (b - 1)
    <3> DEFINE y == len - jj
    <3>1. y \in Nat /\ len - y = jj
      BY <1>0
    <3> HIDE DEF y
    <3>2. WordOf(zq, len - y) = zq[jj]
      BY <3>1 DEF WordOf
    <3>3. Tenth(r[y], WordOf(zq, len - y)) \in 0 .. (b - 1)
      BY <1>3, <3>1
    <3>4. QED
      BY <3>2, <3>3 DEF y
  <2> HIDE DEF b
  <2>2. QED
    BY <2>1 DEF Tenths
<1>5. q \in Seq(0 .. (b - 1)) /\ Len(q) = len
  <2> HIDE DEF q, b
  <2>1. len \in Nat
    BY <1>0
  <2> HIDE DEF len
  <2>2. q = [jj \in 1 .. len |-> q[jj]] /\ \A jj \in 1 .. len : q[jj] \in 0 .. (b - 1)
    BY <1>4
  <2>3. [jj \in 1 .. len |-> q[jj]] \in Seq(0 .. (b - 1)) /\ Len([jj \in 1 .. len |-> q[jj]]) = len
    <3> DEFINE S == 0 .. (b - 1)
    <3>1. \A jj \in 1 .. len : q[jj] \in S
      BY <2>2
    <3> HIDE DEF S
    <3>2. [jj \in 1 .. len |-> q[jj]] \in Seq(S) /\ Len([jj \in 1 .. len |-> q[jj]]) = len
      BY <2>1, <3>1
    <3>3. QED
      BY <3>2 DEF S
  <2>4. QED
    BY <2>2, <2>3
<1>6. PICK u : Horner(u, zq, b) /\ Of(b, zq) = u[len]
  BY <1>0, OfIs
<1>7. PICK v : Horner(v, q, b) /\ Of(b, q) = v[len]
  <2>1. \E v : Horner(v, q, b) /\ Of(b, q) = v[Len(q)]
    <3> HIDE DEF q
    <3>1. QED
      BY <1>0, <1>5, OfIs
  <2>2. QED
    BY <1>5, <2>1
<1>8. /\ u \in [Nat -> Int] /\ u[0] = 0
      /\ \A jj \in Nat : u[jj + 1] = WordOf(zq, len - jj) + b * u[jj]
  BY <1>6 DEF Horner
<1>9. /\ v \in [Nat -> Int] /\ v[0] = 0
      /\ \A jj \in Nat : v[jj + 1] = WordOf(q, len - jj) + b * v[jj]
  <2> HIDE DEF q
  <2>1. QED
    BY <1>5, <1>7 DEF Horner
<1> DEFINE T == {jj \in Nat : jj <= len => u[jj] = 10 * v[jj] + r[jj]}
<1>10. 0 \in T
  <2>1. u[0] = 10 * v[0] + r[0]
    BY <1>2, <1>8, <1>9
  <2>2. QED
    BY <2>1
<1>11. ASSUME NEW jj \in T PROVE jj + 1 \in T
  <2>1. jj \in Nat /\ jj + 1 \in Nat /\ (jj <= len => u[jj] = 10 * v[jj] + r[jj])
    OBVIOUS
  <2>2. ASSUME jj + 1 <= len PROVE u[jj + 1] = 10 * v[jj + 1] + r[jj + 1]
    <3> DEFINE dw == WordOf(zq, len - jj)
               t == Tenth(r[jj], dw)
               u0 == u[jj]
               u1 == u[jj + 1]
               v0 == v[jj]
               v1 == v[jj + 1]
               r0 == r[jj]
               r1 == r[jj + 1]
    <3>1. len - jj \in 1 .. len /\ len - (len - jj) = jj /\ jj <= len
      BY <1>0, <2>1, <2>2
    <3>2. WordOf(q, len - jj) = t
      <4>1. WordOf(q, len - jj) = q[len - jj]
        <5> HIDE DEF q
        <5>1. QED
          BY <1>5, <3>1 DEF WordOf
      <4>2. q[len - jj] = Tenth(r[len - (len - jj)], zq[len - jj])
        BY <3>1 DEF Tenths
      <4>3. zq[len - jj] = dw
        BY <3>1 DEF WordOf
      <4> HIDE DEF q, dw
      <4>4. QED
        BY <3>1, <4>1, <4>2, <4>3
    <3>3. u1 = dw + b * u0 /\ u0 \in Int /\ u1 \in Int /\ u0 = 10 * v0 + r0
      BY <1>8, <2>1, <3>1
    <3>4. v1 = t + b * v0 /\ v0 \in Int /\ v1 \in Int
      <4> HIDE DEF q, t
      <4>1. QED
        BY <1>9, <2>1, <3>2
    <3>5. t \in Int /\ b * r0 + dw = 10 * t + r1
      <4>1. t \in 0 .. (b - 1) /\ b * r0 + dw = 10 * t + r1
        BY <1>3, <2>1
      <4>2. QED
        BY <1>0, <4>1
    <3>6. r0 \in Int /\ r1 \in Int
      <4>1. r[jj] \in 0 .. 9 /\ r[jj + 1] \in 0 .. 9
        BY <1>2, <2>1
      <4>2. QED
        BY <4>1
    <3>7. dw \in Int
      <4>1. len - jj \in Int
        BY <1>0, <2>1
      <4> HIDE DEF b, len
      <4>2. QED
        BY <1>0, <4>1, WordOfType DEF b
    <3> HIDE DEF dw, t, u0, u1, v0, v1, r0, r1, b
    <3>8. b * u0 = 10 * (b * v0) + b * r0
      <4>1. b * (10 * v0 + r0) = 10 * (b * v0) + b * r0
        BY <1>0, <3>4, <3>6
      <4>2. QED
        BY <3>3, <4>1
    <3>9. b * v0 \in Int /\ b * r0 \in Int
      BY <1>0, <3>4, <3>6
    <3> DEFINE pz == b * u0
               p1 == b * v0
               p2 == b * r0
    <3>10. /\ u1 = dw + pz /\ v1 = t + p1 /\ p2 + dw = 10 * t + r1 /\ pz = 10 * p1 + p2
           /\ p1 \in Int /\ p2 \in Int
      BY <3>3, <3>4, <3>5, <3>8, <3>9
    <3> HIDE DEF pz, p1, p2
    <3>11. u1 = 10 * v1 + r1
      BY <3>3, <3>4, <3>5, <3>6, <3>7, <3>10
    <3>12. QED
      BY <3>11 DEF u1, v1, r1
  <2>3. QED
    BY <2>1, <2>2
<1>12. T = Nat
  <2>1. T \in SUBSET Nat
    OBVIOUS
  <2> HIDE DEF T
  <2>2. QED
    BY <1>10, <1>11, <2>1, InductionOnNat
<1>13. Of(b, zq) = 10 * Of(b, q) + r[len]
  <2>1. len \in T /\ len <= len
    BY <1>0, <1>12
  <2>2. u[len] = 10 * v[len] + r[len]
    BY <2>1
  <2>3. QED
    BY <1>6, <1>7, <2>2
<1>14. Of(b, q) \in Int /\ r[len] \in 0 .. (10 - 1)
  BY <1>0, <1>2, <1>7, <1>9
<1> DEFINE Z == Of(b, zq)
           Q == Of(b, q)
           R == r[len]
<1> HIDE DEF q, b, len, Z, Q, R
<1>15. Z = 10 * Q + R /\ Q \in Int /\ R \in 0 .. (10 - 1)
  BY <1>13, <1>14 DEF Z, Q, R
<1>16. Z \div 10 = Q /\ Z % 10 = R
  <2>1. (10 * Q + R) \div 10 = Q /\ (10 * Q + R) % 10 = R
    BY <1>15, DivUnique
  <2>2. QED
    BY <1>15, <2>1
<1>17. bignum_divmod10(Z) = <<Q, R>>
  BY <1>16 DEF bignum_divmod10
<1>18. QED
  BY <1>1, <1>17 DEF Z, Q, R, q, len, b

-----------------------------------------------------------------------------
(* Division: the calls.                                                     *)

\* The call is one of those allowed, and its answer is right.
DivisionInv == dividing \in Divisions /\ QuotientsRight

\* A remainder of an allowed call is right.
LEMMA CmodKeeps ==
  ASSUME dividing \in Divisions, dividing' = dividing, Cmod
  PROVE  QuotientsRight'
<1>1. dividing.op = "cmod" /\ divided' = <<<<>>, cmod(dividing.x, dividing.m)>>
  BY DEF Cmod
<1>2. dividing.m \in 1 .. (B - 1) /\ dividing.x \in Seq(Digit)
  BY <1>1, DivisionsAssumption DEF GoodDivision
<1>3. cmod(dividing.x, dividing.m) = bignum_cmod(Of(B, dividing.x), dividing.m)
  BY <1>2, CmodRight DEF bignum_cmod
<1>4. divided'[2] = bignum_cmod(Of(B, dividing.x), dividing.m)
  BY <1>1, <1>3
<1>5. QED
  BY <1>1, <1>4 DEF QuotientsRight

\* A quotient of an allowed call is right.
LEMMA CdivKeeps ==
  ASSUME dividing \in Divisions, dividing' = dividing, Cdiv
  PROVE  QuotientsRight'
<1> DEFINE cw == dividing
<1>1. cw.op = "cdiv" /\ divided' = cdiv(cw.k, cw.x, cw.m, cw.inplace)
  BY DEF Cdiv
<1>2. cw.m \in 1 .. (B - 1) /\ cw.x \in Seq(Digit) /\ cw.k \in Nat /\ cw.inplace \in BOOLEAN
  BY <1>1, DivisionsAssumption DEF GoodDivision
<1>3. <<Of(B, divided'[1]), divided'[2]>> = bignum_cdiv(cw.k, Of(B, cw.x), cw.m)
  BY <1>1, <1>2, CdivRight
<1>4. QED
  BY <1>1, <1>3 DEF QuotientsRight

\* An exact quotient of an allowed call is right.
LEMMA CdivExactKeeps ==
  ASSUME dividing \in Divisions, dividing' = dividing, CdivExact
  PROVE  QuotientsRight'
<1> DEFINE cw == dividing
<1>1. cw.op = "cdiv_exact" /\ divided' = cdiv_exact(cw.k, cw.x, cw.m, cw.inplace)
  BY DEF CdivExact
<1>2. /\ cw.m \in 1 .. (B - 1) /\ cw.x \in Seq(Digit) /\ cw.k \in Nat /\ cw.inplace \in BOOLEAN
      /\ Of(B, cw.x) % cw.m = 0
  BY <1>1, DivisionsAssumption DEF GoodDivision
<1>3. <<Of(B, divided'[1]), divided'[2]>> = bignum_cdiv_exact(cw.k, Of(B, cw.x), cw.m)
  BY <1>1, <1>2, CdivExactRight
<1>4. QED
  BY <1>1, <1>3 DEF QuotientsRight

\* A division by ten is right.
LEMMA Divmod10Keeps ==
  ASSUME dividing \in Divisions, dividing' = dividing, Divmod10
  PROVE  QuotientsRight'
<1> DEFINE cw == dividing
<1>1. cw.op = "divmod10" /\ divided' = divmod10(cw.x)
  BY DEF Divmod10
<1>2. cw.x \in Seq(0 .. (TwoTo[DecBits] - 1))
  BY <1>1, DivisionsAssumption DEF GoodDivision
<1>3. <<Of(TwoTo[DecBits], divided'[1]), divided'[2]>> = bignum_divmod10(Of(TwoTo[DecBits], cw.x))
  BY <1>1, <1>2, Divmod10Right
<1>4. QED
  BY <1>1, <1>3 DEF QuotientsRight

\* The reciprocal and the inverse of a word are right.
LEMMA WordsOfKeeps ==
  ASSUME dividing \in Divisions, dividing' = dividing, WordsOf
  PROVE  QuotientsRight'
<1> DEFINE cw == dividing
<1>1. cw.op = "words" /\ divided' = <<Recip(cw.m * TwoTo[Clz(cw.m)]), WordNegmodinv(cw.m \div TwoTo[Ctz(cw.m)])>>
  BY DEF WordsOf
<1>2. cw.m \in 1 .. (B - 1)
  BY <1>1, DivisionsAssumption DEF GoodDivision
<1>3. /\ divided'[1] = word_recip(cw.m * TwoTo[Clz(cw.m)])
      /\ word_negmodinv(cw.m \div TwoTo[Ctz(cw.m)], divided'[2])
  BY <1>1, <1>2, WordsOfRight
<1>4. QED
  BY <1>1, <1>3 DEF QuotientsRight

\* The remainder and the quotient are exact for every dividend and every
\* nonzero divisor, whatever the base, the length of the quotient and the
\* storage it takes: no estimate is further off than the corrections reach, no
\* carry of an estimate is lost, and the words of a quotient in place are
\* written only after they are read.
THEOREM QuotientsExact == DivSpec => []QuotientsRight
<1>1. DivInit => DivisionInv
  BY DEF DivInit, DivisionInv, QuotientsRight
<1>2. DivisionInv /\ [DivNext \/ Divided]_divVars => DivisionInv'
  <2> SUFFICES ASSUME DivisionInv, [DivNext \/ Divided]_divVars PROVE DivisionInv'
    OBVIOUS
  <2>0. dividing \in Divisions /\ QuotientsRight
    BY DEF DivisionInv
  <2>1. CASE DivNext
    <3>1. dividing' = dividing
      BY <2>1 DEF DivNext
    <3>2. QuotientsRight'
      <4>1. Cmod \/ Cdiv \/ CdivExact \/ Divmod10 \/ WordsOf
        BY <2>1 DEF DivNext
      <4>2. QED
        BY <2>0, <3>1, <4>1, CmodKeeps, CdivKeeps, CdivExactKeeps, Divmod10Keeps, WordsOfKeeps
    <3>3. QED
      BY <2>0, <3>1, <3>2 DEF DivisionInv
  <2>2. CASE Divided \/ UNCHANGED divVars
    <3>1. dividing' = dividing /\ divided' = divided
      BY <2>2 DEF Divided, divVars
    <3>2. QED
      BY <2>0, <3>1 DEF DivisionInv, QuotientsRight
  <2>3. QED
    BY <2>1, <2>2
<1>3. DivisionInv => QuotientsRight
  BY DEF DivisionInv
<1>4. QED
  BY <1>1, <1>2, <1>3, PTL DEF DivSpec
=============================================================================

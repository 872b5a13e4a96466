---------------------------- MODULE FieldProofs ----------------------------
(***************************************************************************)
(* The reductions of ModReduce return the remainder for every word base    *)
(* and every modulus that lies in its range as ShapeAssumption says, and   *)
(* for inputs of any length.  The work is in the four estimates of the     *)
(* quotient: whatever the new word, b * old + d - q * p stays in -p .. p-1 *)
(* and one masked addition of p finishes.                                  *)
(*                                                                         *)
(* The field functions of FieldOps return what the interface promises, for *)
(* every word base, number of words and modulus of the shape that          *)
(* CurveAssumption describes.  Products and triples rest on the same       *)
(* estimates; Montgomery form is multiplication by Size modulo p, one word *)
(* a step, and each row back divides by one word exactly.                  *)
(***************************************************************************)
EXTENDS ModReduce, FieldOps, ArithmeticFacts

\* q is the quotient of v by p, or one more.
Close(v, q, p) == -p <= v - q * p /\ v - q * p < p

-----------------------------------------------------------------------------
(* Products and quotients.                                                  *)

\* Products grow with a factor.
LEMMA TimesMonotone ==
  ASSUME NEW a \in Int, NEW b \in Int, NEW w \in Nat, a <= b
  PROVE  a * w <= b * w
OBVIOUS

\* A positive factor can be cancelled from an inequality.
LEMMA CancelFactor ==
  ASSUME NEW a \in Int, NEW b \in Int, NEW w \in Nat, w > 0, a * w <= b * w
  PROVE  a <= b
OBVIOUS

\* Products of naturals are naturals.
LEMMA ProductType ==
  ASSUME NEW a \in Nat, NEW b \in Nat
  PROVE  a * b \in Nat
OBVIOUS

\* A quotient of numbers of either sign, as the multiple it stands for.
LEMMA DivBounds ==
  ASSUME NEW a \in Nat, NEW w \in Nat, w > 0
  PROVE  /\ a \div w \in Nat
         /\ (a \div w) * w <= a /\ a < (a \div w) * w + w
<1>1. a \div w \in Int /\ a = w * (a \div w) + (a % w) /\ 0 <= a % w /\ a % w < w
  BY DivMod
<1> DEFINE q == a \div w
           s == a % w
<1> HIDE DEF q, s
<1>2. q \in Int /\ s \in Int /\ a = w * q + s /\ 0 <= s /\ s < w
  BY <1>1 DEF q, s
<1>3. q >= 0
  <2>1. CASE q <= -1
    <3>1. w * q <= -w
      BY <2>1, <1>2
    <3>2. QED
      BY <3>1, <1>2
  <2>2. QED
    BY <2>1, <1>2
<1>4. q * w = w * q
  BY <1>2
<1>5. QED
  BY <1>2, <1>3, <1>4 DEF q, s

\* Which quotient it is, from the multiples around it.
LEMMA DivIs ==
  ASSUME NEW a \in Nat, NEW w \in Nat, w > 0, NEW q \in Nat, q * w <= a, a < q * w + w
  PROVE  a \div w = q
<1>1. w * q \in Int /\ q * w = w * q
  OBVIOUS
<1>2. a - w * q \in 0..(w - 1)
  BY <1>1
<1>3. (w * q + (a - w * q)) \div w = q
  BY <1>2, DivUnique
<1>4. QED
  BY <1>1, <1>3

-----------------------------------------------------------------------------
(* What the correction makes of a close quotient.                           *)

\* A residue that is already in range.
LEMMA InRange ==
  ASSUME NEW p \in Nat, p > 0, NEW x \in 0..(p - 1), NEW v \in Int, NEW q \in Int,
         v = x + p * q
  PROVE  v % p = x
<1>1. (p * q + x) % p = x
  BY DivUnique
<1>2. p * q \in Int /\ v = p * q + x
  OBVIOUS
<1>3. QED
  BY <1>1, <1>2

\* From a close quotient the remainder is one correction away.
LEMMA CloseRemainder ==
  ASSUME NEW v \in Nat, NEW q \in Nat, NEW p \in Nat, p > 0, Close(v, q, p)
  PROVE  v % p = IF v - q * p >= 0 THEN v - q * p ELSE v - q * p + p
<1> DEFINE t == v - q * p
<1>1. /\ t \in Int /\ v \in Int /\ q \in Int /\ -p <= t /\ t < p
      /\ v = t + p * q /\ v = (t + p) + p * (q - 1) /\ q - 1 \in Int
  BY DEF Close
<1> HIDE DEF t
<1>2. CASE t >= 0
  <2>1. t \in 0..(p - 1)
    BY <1>1, <1>2
  <2>2. v % p = t
    BY <1>1, <2>1, InRange, Zenon
  <2>3. QED
    BY <2>2, <1>2 DEF t
<1>3. CASE t < 0
  <2>1. t + p \in 0..(p - 1)
    BY <1>1, <1>3
  <2>2. v % p = t + p
    BY <1>1, <2>1, InRange, Zenon
  <2>3. t + p = v - q * p + p /\ ~(v - q * p >= 0)
    BY <1>1, <1>3 DEF t
  <2>4. QED
    BY <2>2, <2>3
<1>4. QED
  BY <1>1, <1>2, <1>3

\* The mask that the top word of n + 1 words is, and the addition in n words.
LEMMA MaskedCorrection ==
  ASSUME NEW r, NEW v \in Nat, NEW q \in Nat,
         r.p \in Nat, r.p > 0, r.b \in Nat, r.b >= 2, Size(r) \in Nat, r.p < Size(r),
         Close(v, q, r.p)
  PROVE  Corrected(r, v, q) = v % r.p
<1> DEFINE p == r.p
           S == Size(r)
           t == v - q * p
           L == r.b * S
           D == t % L
<1>1. p \in Nat /\ p > 0 /\ S \in Nat /\ p < S /\ t \in Int /\ L \in Nat /\ L >= 2 * S /\ q * p \in Nat
  BY ProductType
<1>2. -p <= t /\ t < p
  BY DEF Close
<1>3. Corrected(r, v, q) = (D + (IF D \div S # 0 THEN p ELSE 0)) % S
  BY DEF Corrected, Difference, Lo, Hi, Under
<1>4. v % p = IF t >= 0 THEN t ELSE t + p
  BY CloseRemainder
<1> HIDE DEF t, L, S, p, D
<1>0. D = t % L
  BY DEF D
<1>5. CASE t >= 0
  <2>1. t \in 0..(L - 1) /\ t \in 0..(S - 1)
    BY <1>1, <1>2, <1>5
  <2>2. (L * 0 + t) % L = t /\ (S * 0 + t) \div S = 0 /\ (S * 0 + t) % S = t
    BY <2>1, <1>1, DivUnique
  <2>3. L * 0 = 0 /\ S * 0 = 0
    BY <1>1
  <2>4. D = t /\ t \div S = 0 /\ t % S = t
    BY <1>0, <1>1, <2>2, <2>3
  <2>5. Corrected(r, v, q) = (D + 0) % S
    BY <1>3, <2>4
  <2>6. QED
    BY <1>1, <1>4, <1>5, <2>4, <2>5 DEF p
<1>6. CASE t < 0
  <2>1. L + t \in 0..(L - 1) /\ L + t >= S /\ t + p \in 0..(S - 1)
    BY <1>1, <1>2, <1>6
  <2>2. (L * (-1) + (L + t)) % L = L + t
    BY <2>1, <1>1, DivUnique
  <2>3. L * (-1) = -L
    BY <1>1
  <2>4. D = L + t
    BY <1>0, <1>1, <2>2, <2>3
  <2>5. D \div S # 0
    <3>1. (D \div S) * S <= D /\ D < (D \div S) * S + S /\ D \div S \in Nat
      BY <2>1, <2>4, <1>1, DivBounds
    <3>2. QED
      BY <3>1, <2>1, <2>4, <1>1
  <2>6. ((L + t) + p) % S = (t + p) % S
    <3>1. (L + t) + p = (t + p) + S * r.b /\ r.b \in Int
      BY <1>1 DEF L
    <3>2. (L + t) + p \in Int /\ t + p \in Int /\ S > 0
      BY <1>1
    <3>3. QED
      BY <3>1, <3>2, <1>1, ModShift, Zenon
  <2>7. (t + p) % S = t + p
    <3>1. (S * 0 + (t + p)) % S = t + p
      BY <2>1, <1>1, DivUnique
    <3>2. QED
      BY <3>1, <1>1
  <2>8. QED
    BY <1>1, <1>3, <1>4, <1>6, <2>4, <2>5, <2>6, <2>7 DEF p
<1>7. QED
  BY <1>1, <1>5, <1>6

-----------------------------------------------------------------------------
(* The estimates.                                                           *)

\* Cutting an estimate off at the largest word is harmless: the remainder
\* before the new word was reduced.
LEMMA SaturatedClose ==
  ASSUME NEW v \in Nat, NEW q \in Nat, NEW b \in Nat, NEW p \in Nat,
         q <= b - 1, v < b * p, q * p <= v + p,
         q < b - 1 => v < q * p + p
  PROVE  Close(v, q, p)
<1>1. q * p \in Nat /\ b * p \in Nat /\ (b - 1) * p = b * p - p
  OBVIOUS
<1>2. v < q * p + p
  <2>1. CASE q < b - 1
    BY <2>1
  <2>2. CASE q = b - 1
    BY <1>1, <2>2
  <2>3. QED
    BY <2>1, <2>2
<1>3. QED
  BY <1>1, <1>2 DEF Close

\* p384, n384: one more than the top word.
LEMMA FoldingClose ==
  ASSUME NEW v \in Nat, NEW h \in Nat, NEW q \in Nat, NEW b \in Nat, NEW p \in Nat,
         NEW S \in Nat, b > 0, p > 0, p < S, v < b * p,
         h * S <= v, v < h * S + S, (b - 1) * (S - p) <= p,
         q = IF h + 1 >= b THEN b - 1 ELSE h + 1
  PROVE  Close(v, q, p)
<1> DEFINE e == S - p
<1>1. e \in Nat /\ S = p + e /\ h * S = h * p + h * e
      /\ h * p \in Nat /\ h * e \in Nat /\ (h + 1) * p = h * p + p
  OBVIOUS
<1>2. q <= b - 1 /\ q <= h + 1
  OBVIOUS
<1>3. q * p <= v + p
  <2>1. q * p <= (h + 1) * p
    BY <1>2, TimesMonotone
  <2>2. q * p \in Int
    OBVIOUS
  <2>3. QED
    BY <1>1, <2>1, <2>2
<1>4. ASSUME q < b - 1 PROVE v < q * p + p
  <2>1. q = h + 1 /\ h + 1 <= b - 1
    BY <1>4
  <2>2. (h + 1) * e <= (b - 1) * e
    BY <1>1, <2>1, TimesMonotone
  <2>3. (h + 1) * e = h * e + e
    BY <1>1
  <2>4. h * e + e <= p
    BY <2>2, <2>3
  <2>5. QED
    BY <1>1, <2>1, <2>4
<1>5. QED
  BY <1>2, <1>3, <1>4, SaturatedClose

\* p256, n256: hl is the number of the two top words and g its quotient by h;
\* W is the value of a unit of hl.  A quotient that passes by less than b the
\* sum the estimate is formed from is not too large.
LEMMA FillingLower ==
  ASSUME NEW v \in Nat, NEW hl \in Nat, NEW g \in Nat, NEW y \in Nat,
         NEW h \in Nat, NEW b \in Nat, NEW W \in Nat, NEW p \in Nat, NEW off \in Int,
         h >= 4, b = h * h, W > 0, p > 0, hl < b * b,
         hl * W <= v, g * h <= hl,
         p = W * (b - h + 1) + off, off * b <= W,
         y < b, y * b <= hl + g + 1 - b
  PROVE  y * p <= v
<1> DEFINE f == b - h + 1
           u == h * b
\* u times a multiple of f: f cancels the half word that hl + g carries.
<1>1. f \in Int /\ f > 0 /\ u \in Nat /\ u > 0 /\ (h + 1) * f = u + 1
  <2>1. h * h >= 4 * h
    OBVIOUS
  <2>2. (h + 1) * (h * h - h + 1) = h * (h * h) + 1
    OBVIOUS
  <2>3. h * b >= 4 * b
    OBVIOUS
  <2>4. QED
    BY <2>1, <2>2, <2>3
<1>2. \A x \in Int : p * x = W * (x * f) + x * off
  OBVIOUS
<1> HIDE DEF f, u
<1>3. u * (y * f) <= u * hl + hl - (h * (b - 1)) * f
  <2>1. h * (y * b) <= (h + 1) * hl - h * (b - 1)
    <3>1. h * (y * b) <= h * (hl + g + 1 - b)
      OBVIOUS
    <3>2. h * (hl + g + 1 - b) = h * hl + g * h + h - h * b
      OBVIOUS
    <3>3. (h + 1) * hl = h * hl + hl /\ h * (b - 1) = h * b - h
      OBVIOUS
    <3>4. QED
      BY <3>1, <3>2, <3>3
  <2>2. (h * (y * b)) * f <= ((h + 1) * hl - h * (b - 1)) * f
    BY <1>1, <2>1, TimesMonotone
  <2>3. (h * (y * b)) * f = u * (y * f)
    BY <1>1 DEF u
  <2>4. ((h + 1) * hl - h * (b - 1)) * f = ((h + 1) * f) * hl - (h * (b - 1)) * f
    BY <1>1
  <2>5. (u + 1) * hl = u * hl + hl
    BY <1>1
  <2>6. QED
    BY <1>1, <2>2, <2>3, <2>4, <2>5
<1>4. hl < (h * (b - 1)) * f
  <2>1. h * f = h * b - b + h
    BY DEF f
  <2>2. h * b >= 4 * b /\ b >= 16 /\ b * b >= b
    OBVIOUS
  <2>3. h * f >= b + 2 /\ h * f \in Int
    BY <2>1, <2>2
  <2>4. (h * f) * (b - 1) >= (b + 2) * (b - 1)
    BY <2>2, <2>3
  <2>5. (b + 2) * (b - 1) = b * b + b - 2 /\ (h * f) * (b - 1) = (h * (b - 1)) * f
    BY <1>1
  <2>6. (h * f) * (b - 1) >= b * b + b - 2
    BY <2>4, <2>5
  <2>7. (h * f) * (b - 1) > hl
    BY <2>2, <2>3, <2>6
  <2>8. QED
    BY <2>5, <2>7
<1>5. y * f <= hl - 1
  <2>1. (y * f) * u < hl * u
    BY <1>1, <1>3, <1>4
  <2>2. y * f \in Int
    BY <1>1
  <2>3. QED
    BY <1>1, <2>1, <2>2
<1>6. y * off <= W
  OBVIOUS
<1>7. W * (y * f) <= W * (hl - 1)
  BY <1>1, <1>5
<1>8. p * y = W * (y * f) + y * off /\ W * (hl - 1) = hl * W - W /\ y * p = p * y
  BY <1>2
<1>9. p * y \in Int /\ W * (y * f) \in Int /\ y * off \in Int /\ hl * W \in Int
  BY <1>1
<1>10. QED
  BY <1>6, <1>7, <1>8, <1>9

\* p256: a quotient formed from the top words plus their upper part is close.
LEMMA FillingClose ==
  ASSUME NEW v \in Nat, NEW hl \in Nat, NEW g \in Nat, NEW raw \in Nat, NEW q \in Nat,
         NEW h \in Nat, NEW b \in Nat, NEW W \in Nat, NEW p \in Nat, NEW off \in Int,
         h >= 4, b = h * h, W > 0, p > 0, v < b * p, hl < b * b,
         hl * W <= v, v < hl * W + W,
         g * h <= hl, hl < g * h + h,
         raw * b <= hl + g + 1, hl + g + 1 < raw * b + b,
         p = W * (b - h + 1) + off, off * b <= W, -off * b <= W,
         q = IF raw >= b THEN b - 1 ELSE raw
  PROVE  Close(v, q, p)
<1> DEFINE f == b - h + 1
           u == h * b
<1>1. f \in Int /\ f > 0 /\ u \in Nat /\ u > 0 /\ (h + 1) * f = u + 1
  <2>1. h * h >= 4 * h
    OBVIOUS
  <2>2. (h + 1) * (h * h - h + 1) = h * (h * h) + 1
    OBVIOUS
  <2>3. h * b >= 4 * b
    OBVIOUS
  <2>4. QED
    BY <2>1, <2>2, <2>3
<1>2. \A x \in Int : p * x = W * (x * f) + x * off
  OBVIOUS
<1> HIDE DEF f, u
<1>3. q <= b - 1 /\ q <= raw
  OBVIOUS
<1>4. q * p <= v + p
  <2> DEFINE y == q - 1
  <2>1. CASE q = 0
    BY <2>1
  <2>2. CASE q >= 1
    <3>1. y \in Nat /\ y < b /\ y * b <= hl + g + 1 - b
      <4>1. q * b <= raw * b
        BY <1>3, TimesMonotone
      <4>2. y * b = q * b - b
        OBVIOUS
      <4>3. QED
        BY <1>3, <2>2, <4>1, <4>2
    <3>2. q * p = y * p + p
      OBVIOUS
    <3> HIDE DEF y
    <3>3. y * p <= v /\ y * p \in Int
      BY <3>1, FillingLower
    <3>4. QED
      BY <3>2, <3>3
  <2>3. QED
    BY <2>1, <2>2
<1>5. ASSUME q < b - 1 PROVE v < q * p + p
  <2> DEFINE x == q + 1
  <2>1. q = raw /\ x \in Nat /\ x <= b /\ x * b >= hl + g + 2
    BY <1>3, <1>5
  <2> HIDE DEF x
  <2>2. (x * f) * u >= (hl + 1) * u + (hl + 1)
    <3>1. h * (x * b) >= h * (hl + g + 2)
      BY <2>1
    <3>2. h * (hl + g + 2) >= (hl + 1) * (h + 1)
      <4>1. h * (hl + g + 2) = h * hl + g * h + 2 * h /\ (hl + 1) * (h + 1) = h * hl + hl + h + 1
        OBVIOUS
      <4>2. QED
        BY <4>1
    <3>3. h * (x * b) \in Int /\ (hl + 1) * (h + 1) \in Int /\ h * (x * b) >= (hl + 1) * (h + 1)
      BY <2>1, <3>1, <3>2
    <3>4. ((hl + 1) * (h + 1)) * f <= (h * (x * b)) * f
      BY <1>1, <3>3, TimesMonotone
    <3>5. (h * (x * b)) * f = (x * f) * u
      BY <1>1, <2>1 DEF u
    <3>6. ((hl + 1) * (h + 1)) * f = (hl + 1) * ((h + 1) * f)
      BY <1>1
    <3>7. (hl + 1) * (u + 1) = (hl + 1) * u + (hl + 1)
      BY <1>1
    <3>8. QED
      BY <1>1, <3>4, <3>5, <3>6, <3>7
  <2>3. x * f >= hl + 2
    <3>1. (hl + 1) * u < (x * f) * u
      BY <1>1, <2>1, <2>2
    <3>2. x * f \in Int
      BY <1>1, <2>1
    <3>3. QED
      BY <1>1, <3>1, <3>2
  <2>4. x * off >= -W
    BY <2>1
  <2>5. W * (x * f) >= W * (hl + 2)
    BY <1>1, <2>1, <2>3
  <2>6. p * x = W * (x * f) + x * off
    BY <1>2, <2>1
  <2>7. p * x = q * p + p /\ W * (hl + 2) = hl * W + 2 * W
    BY <2>1 DEF x
  <2>8. /\ p * x \in Int /\ W * (x * f) \in Int /\ x * off \in Int /\ hl * W \in Int
        /\ q * p \in Int
    BY <1>1, <2>1
  <2>9. QED
    BY <2>4, <2>5, <2>6, <2>7, <2>8
<1>6. QED
  BY <1>3, <1>4, <1>5, SaturatedClose

\* sm2, nsm2: hi and lo are the two top words; inverting a quotient that has
\* wrapped to zero makes it the largest word.
LEMMA FillingSm2Close ==
  ASSUME NEW v \in Nat, NEW hi \in Nat, NEW lo \in Nat, NEW raw \in Nat, NEW q \in Nat,
         NEW h \in Nat, NEW b \in Nat, NEW W \in Nat, NEW p \in Nat, NEW off \in Nat,
         h >= 4, b = h * h, W > 0, v < b * p, lo < b, hi <= b - h - 1,
         (hi * b + lo) * W <= v, v < (hi * b + lo) * W + W,
         raw * b <= hi * b + hi * h + hi + lo + b,
         hi * b + hi * h + hi + lo + b < raw * b + b,
         p = W * (b - h) - off, off * h <= W * (h - 3),
         q = IF raw >= b THEN b - 1 ELSE raw
  PROVE  Close(v, q, p)
<1> DEFINE f == b - h
           hl == hi * b + lo
           N == hl + hi * h + hi + b
<1>1. /\ hl \in Nat /\ N \in Nat /\ f \in Nat /\ f > 0 /\ h * f = b * (h - 1)
      /\ raw * b <= N /\ N < raw * b + b
  <2>1. h * h >= 4 * h
    OBVIOUS
  <2>2. h * (h * h - h) = (h * h) * (h - 1)
    OBVIOUS
  <2>3. hi * b \in Nat /\ hi * h \in Nat
    OBVIOUS
  <2>4. QED
    BY <2>1, <2>2, <2>3
\* The part of N above b, times h - 1: hl comes back but for hi + lo.
<1>2. (N - b) * (h - 1) = h * hl - hi - lo
  <2>1. (hi * b + lo + hi * h + hi) * (h - 1) = h * (hi * b + lo) - hi - lo
    OBVIOUS
  <2>2. QED
    BY <2>1
<1>3. \A x \in Int : p * x = W * (x * f) - x * off
  OBVIOUS
<1> HIDE DEF f, hl, N
<1>4. q <= b - 1 /\ q <= raw
  OBVIOUS
<1>5. q * p <= v + p
  <2> DEFINE y == q - 1
  <2>1. CASE q = 0
    BY <2>1
  <2>2. CASE q >= 1
    <3>1. y \in Nat /\ y * b <= N - b
      <4>1. q * b <= raw * b
        BY <1>4, TimesMonotone
      <4>2. y * b = q * b - b
        OBVIOUS
      <4>3. QED
        BY <1>1, <2>2, <4>1, <4>2
    <3> HIDE DEF y
    <3>2. y * f <= hl
      <4>1. (y * b) * (h - 1) <= (N - b) * (h - 1)
        BY <1>1, <3>1, TimesMonotone
      <4>2. (y * b) * (h - 1) = (y * f) * h
        BY <1>1, <3>1
      <4>3. (y * f) * h <= hl * h
        BY <1>1, <1>2, <3>1, <4>1, <4>2
      <4>4. y * f \in Int
        BY <1>1, <3>1
      <4>5. QED
        BY <1>1, <4>3, <4>4, CancelFactor
    <3>3. W * (y * f) <= W * hl /\ y * off >= 0
      BY <1>1, <3>1, <3>2
    <3>4. p * y = W * (y * f) - y * off
      BY <1>3, <3>1
    <3>5. q * p = p * y + p /\ W * hl <= v
      BY <3>1 DEF y, hl
    <3>6. p * y \in Int /\ W * (y * f) \in Int /\ y * off \in Int /\ W * hl \in Int
      BY <1>1, <3>1
    <3>7. QED
      BY <3>3, <3>4, <3>5, <3>6
  <2>3. QED
    BY <2>1, <2>2
<1>6. ASSUME q < b - 1 PROVE v < q * p + p
  <2> DEFINE x == q + 1
  <2>1. q = raw /\ x \in Nat /\ x <= b /\ x * b >= N + 1
    BY <1>1, <1>4, <1>6
  <2> HIDE DEF x
  <2>2. (x * f) * h >= h * hl + h + b * (h - 3)
    <3>1. (N + 1) * (h - 1) <= (x * b) * (h - 1)
      BY <1>1, <2>1, TimesMonotone
    <3>2. (x * b) * (h - 1) = (x * f) * h
      BY <1>1, <2>1
    <3>3. (N + 1) * (h - 1) = (N - b) * (h - 1) + (b + 1) * (h - 1)
      BY <1>1
    <3>4. (b + 1) * (h - 1) = b * (h - 3) + 2 * b + h - 1
      OBVIOUS
    <3> DEFINE k1 == b * (h - 3)
               k2 == h * hl
    <3>5. k1 \in Int /\ k2 \in Int /\ (x * f) * h \in Int
      BY <1>1, <2>1
    <3>6. (x * f) * h >= k2 - hi - lo + k1 + 2 * b + h - 1
      BY <1>2, <3>1, <3>2, <3>3, <3>4, <3>5
    <3> HIDE DEF k1, k2
    <3>7. (x * f) * h >= k2 + h + k1
      BY <3>5, <3>6
    <3>8. QED
      BY <3>7 DEF k1, k2
  <2>3. (W * (x * f)) * h >= W * (h * hl + h) + W * (b * (h - 3))
    <3>1. W * ((x * f) * h) >= W * (h * hl + h + b * (h - 3))
      BY <1>1, <2>1, <2>2
    <3>2. W * ((x * f) * h) = (W * (x * f)) * h
      BY <1>1, <2>1
    <3>3. W * (h * hl + h + b * (h - 3)) = W * (h * hl + h) + W * (b * (h - 3))
      BY <1>1
    <3>4. QED
      BY <3>1, <3>2, <3>3
  <2>4. (x * off) * h <= W * (b * (h - 3))
    <3>1. (x * off) * h = x * (off * h)
      BY <2>1
    <3>2. x * (off * h) <= b * (off * h)
      BY <2>1, TimesMonotone, ProductType
    <3>3. b * (off * h) <= b * (W * (h - 3))
      OBVIOUS
    <3>4. b * (W * (h - 3)) = W * (b * (h - 3))
      OBVIOUS
    <3>5. x * (off * h) \in Int /\ b * (off * h) \in Int /\ W * (b * (h - 3)) \in Int
      BY <2>1
    <3>6. QED
      BY <3>1, <3>2, <3>3, <3>4, <3>5
  <2>5. p * x = W * (x * f) - x * off
    BY <1>3, <2>1
  <2>6. (p * x) * h >= (W * hl + W) * h
    <3>1. (p * x) * h = (W * (x * f)) * h - (x * off) * h
      BY <1>1, <2>1, <2>5
    <3>2. W * (h * hl + h) = (W * hl + W) * h
      BY <1>1
    <3>3. /\ (W * (x * f)) * h \in Int /\ (x * off) * h \in Int
          /\ W * (b * (h - 3)) \in Int /\ (W * hl + W) * h \in Int
      BY <1>1, <2>1
    <3>4. QED
      BY <2>3, <2>4, <3>1, <3>2, <3>3
  <2>7. p * x >= W * hl + W
    <3>1. p * x \in Int /\ W * hl + W \in Int
      BY <1>1, <2>1
    <3>2. QED
      BY <2>6, <3>1, CancelFactor
  <2>8. q * p + p = p * x /\ v < W * hl + W
    BY <2>1 DEF x, hl
  <2>9. QED
    BY <1>1, <2>1, <2>7, <2>8
<1>7. QED
  BY <1>4, <1>5, <1>6, SaturatedClose

-----------------------------------------------------------------------------
(* The words that the estimates are formed from.                            *)

\* The two top words of a number of n + 1 words, and what they bound.
LEMMA TopWords ==
  ASSUME NEW v \in Nat, NEW W \in Nat, NEW b \in Nat, NEW p \in Nat, NEW S \in Nat,
         W > 0, b >= 2, S = b * W, p < S, v < b * p
  PROVE  LET hi == v \div S
             lo == (v \div W) % b
         IN  /\ hi \in Nat /\ hi < b /\ lo \in Nat /\ lo < b
             /\ v \div W = hi * b + lo
             /\ (hi * b + lo) * W <= v /\ v < (hi * b + lo) * W + W
             /\ hi * S <= v /\ v < hi * S + S
<1> DEFINE hi == v \div S
           lo == (v \div W) % b
<1>1. S \in Nat /\ S > 0 /\ S = b * W
  OBVIOUS
<1>2. /\ hi \in Nat /\ hi * S <= v /\ v < hi * S + S
      /\ v \div W \in Nat /\ (v \div W) * W <= v /\ v < (v \div W) * W + W
  BY <1>1, DivBounds
<1>3. lo \in Nat /\ lo < b
  BY <1>2, DivMod
<1>4. v \div W = b * hi + lo
  <2>1. v \in Int /\ b > 0
    OBVIOUS
  <2>2. QED
    BY <1>1, <2>1, Bitfields, Zenon
<1>5. hi < b
  <2>1. v < b * S
    <3>1. b * p <= b * S
      BY <1>1
    <3>2. b * p \in Int /\ b * S \in Int
      BY <1>1
    <3>3. QED
      BY <3>1, <3>2
  <2> HIDE DEF hi
  <2>2. CASE hi >= b
    <3>1. hi * S >= b * S
      BY <1>1, <1>2, <2>2
    <3>2. hi * S \in Int /\ b * S \in Int
      BY <1>1, <1>2
    <3>3. QED
      BY <1>2, <2>1, <3>1, <3>2
  <2>3. QED
    BY <1>2, <2>2
<1> HIDE DEF hi, lo
<1>6. b * hi = hi * b
  BY <1>2
<1>7. v \div W = hi * b + lo
  BY <1>4, <1>6
<1>8. QED
  BY <1>2, <1>3, <1>5, <1>7 DEF hi, lo

\* The shifts and the carry of the p256 estimate divide hl + g + 1 by b.
LEMMA Raw256Quotient ==
  ASSUME NEW r, NEW hi \in Nat, NEW lo \in Nat, r.h \in Nat, r.b \in Nat, r.h >= 4,
         r.b = r.h * r.h, lo < r.b
  PROVE  LET hl  == hi * r.b + lo
             g   == hl \div r.h
             raw == Raw256(r, hi, lo)
         IN  /\ g \in Nat /\ raw \in Nat
             /\ g * r.h <= hl /\ hl < g * r.h + r.h
             /\ raw * r.b <= hl + g + 1 /\ hl + g + 1 < raw * r.b + r.b
<1> DEFINE h == r.h
           b == r.b
           hl == hi * b + lo
           g == hl \div h
           w == hi \div h
           s == lo + (g % b) + 1
           raw == Raw256(r, hi, lo)
<1>1. h \in Nat /\ h >= 4 /\ b \in Nat /\ b = h * h /\ b > 0 /\ hl \in Nat /\ lo < b
  OBVIOUS
<1>2. raw = hi + w + (IF s >= b THEN 1 ELSE 0)
  BY DEF Raw256, Under
<1>3. g \in Nat /\ g * h <= hl /\ hl < g * h + h /\ w \in Nat /\ w * h <= hi /\ hi < w * h + h
  BY <1>1, DivBounds
<1> HIDE DEF g, w, h, b, hl
<1>4. w * b <= g /\ g < w * b + b
  <2>1. hl = (hi * h) * h + lo
    BY <1>1 DEF hl
  <2>2. (w * h) * h <= hi * h
    BY <1>1, <1>3
  <2>3. (w * h) * h = w * b
    BY <1>1, <1>3
  <2>4. w * b <= g
    <3>1. (w * b) * h < (g + 1) * h
      <4>1. (w * b) * h <= (hi * h) * h
        BY <1>1, <1>3, <2>2, <2>3
      <4>2. (g + 1) * h = g * h + h
        BY <1>1, <1>3
      <4>3. (w * b) * h \in Int /\ (hi * h) * h \in Int /\ g * h \in Int
        BY <1>1, <1>3
      <4>4. QED
        BY <1>1, <1>3, <2>1, <4>1, <4>2, <4>3
    <3>2. w * b \in Int
      BY <1>1, <1>3
    <3>3. QED
      BY <1>1, <1>3, <3>1, <3>2
  <2>5. g < w * b + b
    <3>1. g * h < (w * b + b) * h
      <4>1. hi + 1 <= w * h + h
        BY <1>1, <1>3
      <4>2. (hi + 1) * b <= (w * h + h) * b
        BY <1>1, <1>3, <4>1
      <4>3. (w * h + h) * b = (w * b + b) * h /\ (hi + 1) * b = hi * b + b
        BY <1>1, <1>3
      <4>4. hl < (hi + 1) * b
        BY <1>1, <4>3 DEF hl
      <4>5. (w * b + b) * h \in Int /\ g * h \in Int /\ (hi + 1) * b \in Int
        BY <1>1, <1>3
      <4>6. QED
        BY <1>1, <1>3, <4>2, <4>3, <4>4, <4>5
    <3>2. w * b + b \in Int
      BY <1>1, <1>3
    <3>3. QED
      BY <1>1, <1>3, <3>1, <3>2
  <2>6. QED
    BY <2>4, <2>5
<1>5. g % b = g - w * b
  <2> DEFINE x == g - w * b
  <2>1. x \in 0..(b - 1) /\ g = x + b * w /\ g \in Int /\ w \in Int /\ b \in Nat /\ b > 0
    BY <1>1, <1>3, <1>4
  <2> HIDE DEF x
  <2>2. g % b = x
    BY <2>1, InRange, Zenon
  <2>3. QED
    BY <2>2 DEF x
<1>6. w * b \in Nat /\ (hi + w) * b = hi * b + w * b /\ hi * b \in Nat
      /\ (hi + w + 1) * b = hi * b + w * b + b
  BY <1>1, <1>3
<1>7. hl + g + 1 = (hi + w) * b + s /\ s >= 0 /\ s < 2 * b
  BY <1>1, <1>3, <1>4, <1>5, <1>6 DEF hl
<1>8. raw \in Nat /\ raw * b <= hl + g + 1 /\ hl + g + 1 < raw * b + b
  <2>1. CASE s >= b
    <3>1. raw = hi + w + 1
      BY <1>2, <2>1
    <3>2. QED
      BY <1>1, <1>3, <1>5, <1>6, <1>7, <2>1, <3>1
  <2>2. CASE s < b
    <3>1. raw = hi + w
      BY <1>1, <1>2, <1>3, <1>5, <1>6, <2>2
    <3>2. QED
      BY <1>1, <1>3, <1>5, <1>6, <1>7, <2>2, <3>1
  <2>3. QED
    BY <1>1, <1>3, <1>5, <1>6, <2>1, <2>2
<1>9. QED
  BY <1>3, <1>8 DEF g, h, b, hl

\* The sums and carries of the sm2 estimate divide by b, without overflow.
LEMMA RawSm2Quotient ==
  ASSUME NEW r, NEW hi \in Nat, NEW lo \in Nat, r.h \in Nat, r.b \in Nat, r.h >= 4,
         r.b = r.h * r.h, lo < r.b, hi <= r.b - r.h - 1
  PROVE  LET raw == RawSm2(r, hi, lo)
             N   == hi * r.b + hi * r.h + hi + lo + r.b
         IN  raw \in Nat /\ raw * r.b <= N /\ N < raw * r.b + r.b
<1> DEFINE h == r.h
           b == r.b
           s == lo + hi
           cf == s \div b
           low == s % b
           g == low \div h
           u == hi + g
           w == u \div h
           raw == RawSm2(r, hi, lo)
<1>1. h \in Nat /\ h >= 4 /\ b \in Nat /\ b = h * h /\ b >= 4 * h /\ lo < b
      /\ hi <= b - h - 1 /\ s \in Nat /\ s < 2 * b
  OBVIOUS
<1>2. raw = ((hi + 1 + cf) % b) + (u % b) \div h
  BY DEF RawSm2
<1>3. cf \in Nat /\ low \in Nat /\ low < b /\ s = b * cf + low
  <2>1. s \in Int /\ b > 0
    BY <1>1
  <2>2. cf \in Nat
    BY <1>1, <2>1, DivBounds
  <2>3. low \in Int /\ s = b * cf + low /\ 0 <= low /\ low < b
    BY <1>1, <2>1, DivMod, Zenon
  <2>4. QED
    BY <2>2, <2>3
<1>4. cf <= 1
  <2>1. CASE cf >= 2
    <3> HIDE DEF cf, s, low, b
    <3>1. 2 * b <= cf * b
      BY <1>1, <1>3, <2>1
    <3>2. b * cf \in Int /\ b * cf = cf * b
      BY <1>1, <1>3
    <3>3. QED
      BY <1>1, <1>3, <3>1, <3>2
  <2>2. QED
    BY <1>3, <2>1
<1> HIDE DEF cf, low
<1>5. g \in Nat /\ g * h <= low /\ low < g * h + h
  BY <1>1, <1>3, DivBounds
<1> HIDE DEF g
<1>6. g < h
  <2>1. CASE g >= h
    <3>1. g * h >= h * h
      BY <1>1, <1>5, <2>1
    <3>2. QED
      BY <1>1, <1>3, <1>5, <3>1
  <2>2. QED
    BY <1>1, <1>5, <2>1
<1>7. (hi + 1 + cf) % b = hi + 1 + cf /\ u % b = u /\ u \in Nat
  <2>1. hi + 1 + cf \in 0..(b - 1) /\ u \in 0..(b - 1) /\ b \in Nat /\ b > 0
    BY <1>1, <1>3, <1>4, <1>5, <1>6
  <2>2. \A x \in 0..(b - 1) : x % b = x
    <3>1. SUFFICES ASSUME NEW x \in 0..(b - 1) PROVE x % b = x
      OBVIOUS
    <3>2. x = x + b * 0 /\ x \in Int /\ 0 \in Int
      BY <2>1
    <3>3. QED
      BY <2>1, <3>2, InRange, Zenon
  <2>3. QED
    BY <2>1, <2>2
<1>8. w \in Nat /\ w * h <= u /\ u < w * h + h
  BY <1>1, <1>7, DivBounds
<1> HIDE DEF w, u, s, h, b
<1>9. raw = hi + 1 + cf + w
  BY <1>2, <1>7 DEF w
<1>10. w * b <= hi * h + low /\ hi * h + low < w * b + b
  <2>1. (w * h) * h <= u * h
    BY <1>1, <1>7, <1>8
  <2>2. u * h = hi * h + g * h
    BY <1>1, <1>5 DEF u
  <2>3. (w * h) * h = w * b
    BY <1>1, <1>8
  <2>4. (u + 1) * h <= (w * h + h) * h
    BY <1>1, <1>7, <1>8
  <2>5. (u + 1) * h = u * h + h /\ (w * h + h) * h = w * b + b
    BY <1>1, <1>7, <1>8
  <2>6. w * b \in Int /\ u * h \in Int /\ hi * h \in Int /\ g * h \in Int
    BY <1>1, <1>5, <1>7, <1>8
  <2>7. w * b <= u * h /\ u * h + h <= w * b + b
    BY <1>1, <2>1, <2>3, <2>4, <2>5
  <2>8. QED
    BY <1>1, <1>3, <1>5, <2>2, <2>6, <2>7
<1>11. /\ raw * b = hi * b + b + b * cf + w * b /\ raw \in Nat
       /\ hi * b \in Int /\ b * cf \in Int /\ w * b \in Int /\ hi * h \in Int
  BY <1>1, <1>3, <1>8, <1>9
<1>12. hi * b + hi * h + hi + lo + b = hi * b + b + b * cf + (hi * h + low)
  BY <1>1, <1>3, <1>11 DEF s
<1>13. raw * b <= hi * b + hi * h + hi + lo + b /\ hi * b + hi * h + hi + lo + b < raw * b + b
  BY <1>1, <1>3, <1>10, <1>11, <1>12
<1>14. QED
  BY <1>11, <1>13 DEF h, b

\* n25519, m25519: the quotient by the power of two M below p = M + e.
LEMMA FlooredClose ==
  ASSUME NEW old \in Nat, NEW d \in Nat, NEW b \in Nat, NEW M \in Nat, NEW e \in Nat,
         b >= 2, d < b, old < M + e, e > 0, b * e <= M
  PROVE  LET v == b * old + d
             q == (((v \div M) % b) - old \div M) % b
         IN  q \in Nat /\ Close(v, q, M + e)
<1> DEFINE v == b * old + d
           V == v \div M
           q == ((V % b) - old \div M) % b
<1>1. v \in Nat /\ M > 0 /\ e <= M /\ b * e \in Nat /\ b * M \in Nat
      /\ v < b * (M + e) /\ b * (M + e) = b * M + b * e
  <2>1. b * (old + 1) <= b * (M + e) /\ b * (old + 1) = b * old + b
    OBVIOUS
  <2>2. b * e >= e
    OBVIOUS
  <2>3. b * old \in Nat /\ b * M \in Nat /\ b * e \in Nat /\ b * (M + e) = b * M + b * e
    OBVIOUS
  <2>4. QED
    BY <2>1, <2>2, <2>3
<1>2. V \in Nat /\ V * M <= v /\ v < V * M + M
  BY <1>1, DivBounds
<1>3. CASE old < M
  <2>1. b * (old + 1) <= b * M /\ b * (old + 1) = b * old + b
    BY <1>3
  <2>2. v < b * M
    BY <1>1, <2>1
  <2> HIDE DEF v, V
  <2>3. V < b
    <3>1. V * M < b * M /\ V * M \in Int
      BY <1>1, <1>2, <2>2
    <3>2. QED
      BY <1>1, <1>2, <3>1
  <2>4. old \div M = 0
    BY <1>1, <1>3, DivIs
  <2>5. \A x \in 0..(b - 1) : x % b = x
    <3>1. SUFFICES ASSUME NEW x \in 0..(b - 1) PROVE x % b = x
      OBVIOUS
    <3>2. x = x + b * 0 /\ x \in Int /\ 0 \in Int /\ b > 0
      OBVIOUS
    <3>3. QED
      BY <3>2, InRange, Zenon
  <2>6. V % b = V
    BY <1>2, <2>3, <2>5
  <2>7. q = V
    BY <1>2, <2>3, <2>4, <2>5, <2>6
  <2> HIDE DEF q
  <2>8. V * (M + e) = V * M + V * e /\ V * M \in Nat /\ V * e \in Nat
    BY <1>2
  <2>9. V * e <= b * e
    BY <1>2, <2>3, TimesMonotone
  <2>10. QED
    BY <1>1, <1>2, <2>7, <2>8, <2>9 DEF Close, v, q, V
<1>4. CASE old >= M
  <2>1. b * old >= b * M /\ b * old \in Int
    BY <1>4
  <2>2. v >= b * M
    BY <2>1
  <2> HIDE DEF v
  <2>3. V = b
    BY <1>1, <2>2, DivIs
  <2>4. old \div M = 1
    BY <1>1, <1>4, DivIs
  <2>5. b % b = 0 /\ (-1) % b = b - 1
    <3>1. (b * 1 + 0) % b = 0 /\ (b * (-1) + (b - 1)) % b = b - 1
      BY DivUnique
    <3>2. QED
      BY <3>1
  <2>6. q = b - 1
    <3>1. (V % b) - old \div M = -1
      BY <2>3, <2>4, <2>5
    <3>2. QED
      BY <2>5, <3>1
  <2> HIDE DEF q
  <2>7. (b - 1) * (M + e) = b * (M + e) - (M + e)
    OBVIOUS
  <2>8. (b - 1) * (M + e) <= v
    BY <1>1, <2>2, <2>7
  <2>9. q * (M + e) = (b - 1) * (M + e) /\ (b - 1) * (M + e) \in Int
    BY <2>6
  <2>10. Close(v, q, M + e)
    BY <1>1, <2>7, <2>8, <2>9 DEF Close
  <2>11. q \in Nat
    BY <2>6
  <2>12. QED
    BY <2>10, <2>11 DEF v, q, V
<1>5. QED
  BY <1>3, <1>4

-----------------------------------------------------------------------------
(* One word more.                                                           *)

\* What the moduli of ModReduce have in common.
LEMMA RecordFacts ==
  ASSUME NEW r \in Moduli
  PROVE  /\ r.b \in Nat /\ r.h \in Nat /\ r.h >= 4 /\ r.b = r.h * r.h /\ r.b >= 16
         /\ r.p \in Nat /\ r.p > 0 /\ r.m \in Nat /\ r.m > 0 /\ r.e \in Int /\ r.n \in Nat
         /\ TopUnit(r) \in Nat /\ TopUnit(r) > 0
         /\ Size(r) \in Nat /\ Size(r) = r.b * TopUnit(r) /\ r.p < Size(r)
<1>1. /\ r.b \in Nat /\ r.h \in Nat /\ r.h >= 4 /\ r.b = r.h * r.h
      /\ r.p \in Nat /\ r.p > 0 /\ r.m \in Nat /\ r.m > 0 /\ r.e \in Int /\ r.n \in Nat
      /\ TopUnit(r) \in Nat /\ TopUnit(r) > 0 /\ Size(r) = r.b * TopUnit(r) /\ r.p < Size(r)
  BY RecordAssumption
<1>2. r.h * r.h >= 16
  BY <1>1
<1>3. r.b * TopUnit(r) \in Nat
  BY <1>1, ProductType
<1>4. QED
  BY <1>1, <1>2, <1>3

\* A remainder with a new word below it stays below b * p.
LEMMA AppendedRange ==
  ASSUME NEW b \in Nat, NEW p \in Nat, b > 0, NEW old \in 0..(p - 1), NEW d \in 0..(b - 1)
  PROVE  b * old + d \in Nat /\ b * old + d < b * p
<1>1. b * (old + 1) <= b * p /\ b * (old + 1) = b * old + b
  OBVIOUS
<1>2. b * old \in Nat /\ b * p \in Nat
  OBVIOUS
<1>3. QED
  BY <1>1, <1>2

\* The modulus and the words that hold it; the estimates of p256 and sm2 split
\* words in halves.
InWords(r) ==
  /\ r.b \in Nat /\ r.b >= 2 /\ r.p \in Nat /\ r.p > 0
  /\ TopUnit(r) \in Nat /\ TopUnit(r) > 0
  /\ Size(r) \in Nat /\ Size(r) = r.b * TopUnit(r) /\ r.p < Size(r)
Halved(r) == r.h \in Nat /\ r.h >= 4 /\ r.b = r.h * r.h

\* An estimate q, cut off at the largest word, is close; it needs no cutting
\* when v is below b - 1 times the modulus.
Estimates(r, v, q) ==
  /\ q \in Nat
  /\ Close(v, IF q >= r.b THEN r.b - 1 ELSE q, r.p)
  /\ v < (r.b - 1) * r.p => q < r.b

\* The words that the estimates take from n + 1.
LEMMA TopSecond ==
  ASSUME NEW r, InWords(r), NEW v \in Nat, v < r.b * r.p
  PROVE  LET hi == Top(r, v)
             lo == Second(r, v)
         IN  /\ hi \in Nat /\ hi < r.b /\ lo \in Nat /\ lo < r.b
             /\ (hi * r.b + lo) * TopUnit(r) <= v /\ v < (hi * r.b + lo) * TopUnit(r) + TopUnit(r)
             /\ hi * Size(r) <= v /\ v < hi * Size(r) + Size(r)
<1>1. Top(r, v) = v \div Size(r) /\ Second(r, v) = (v \div TopUnit(r)) % r.b
  BY DEF Top, Hi, Second, Word, TopUnit
<1>2. /\ TopUnit(r) \in Nat /\ r.b \in Nat /\ r.p \in Nat /\ Size(r) \in Nat
      /\ TopUnit(r) > 0 /\ r.b >= 2 /\ Size(r) = r.b * TopUnit(r) /\ r.p < Size(r)
  BY DEF InWords
<1> DEFINE W == TopUnit(r)
           S == Size(r)
           b == r.b
           p == r.p
<1>3. /\ v \in Nat /\ W \in Nat /\ b \in Nat /\ p \in Nat /\ S \in Nat
      /\ W > 0 /\ b >= 2 /\ S = b * W /\ p < S /\ v < b * p
  BY <1>2
<1> HIDE DEF W, S, b, p
<1>4. LET hi == v \div S
          lo == (v \div W) % b
      IN  /\ hi \in Nat /\ hi < b /\ lo \in Nat /\ lo < b
          /\ (hi * b + lo) * W <= v /\ v < (hi * b + lo) * W + W
          /\ hi * S <= v /\ v < hi * S + S
  BY <1>3, TopWords, Zenon
<1>5. QED
  BY <1>1, <1>4 DEF W, S, b, p

\* p384: the top word plus one is a good estimate.
LEMMA Estimates384 ==
  ASSUME NEW r, InWords(r), NEW v \in Nat, v < r.b * r.p,
         (r.b - 1) * (Size(r) - r.p) <= r.p
  PROVE  Estimates(r, v, Top(r, v) + 1)
<1> DEFINE b == r.b
           p == r.p
           S == Size(r)
           hi == Top(r, v)
           q == IF hi + 1 >= b THEN b - 1 ELSE hi + 1
<1>1. b \in Nat /\ b >= 2 /\ b > 0 /\ p \in Nat /\ p > 0 /\ S \in Nat /\ p < S /\ v < b * p
      /\ (b - 1) * (S - p) <= p
  BY DEF InWords
<1>2. hi \in Nat /\ hi < b /\ hi * S <= v /\ v < hi * S + S
  BY TopSecond
<1> HIDE DEF b, p, S, hi
<1>3. q \in Nat
  BY <1>1, <1>2
<1> HIDE DEF q
<1>4. q = IF hi + 1 >= b THEN b - 1 ELSE hi + 1
  BY DEF q
<1>5. Close(v, q, p)
  BY <1>1, <1>2, <1>3, <1>4, FoldingClose, Zenon
<1>6. ASSUME v < (b - 1) * p PROVE hi + 1 < b
  <2>1. hi * S < (b - 1) * p /\ (b - 1) * p <= (b - 1) * S
    BY <1>1, <1>2, <1>6
  <2>2. hi * S \in Int /\ (b - 1) * p \in Int /\ (b - 1) * S \in Int
    BY <1>1, <1>2
  <2>3. hi * S < (b - 1) * S
    BY <2>1, <2>2
  <2>4. CASE hi >= b - 1
    <3>1. (b - 1) * S <= hi * S
      BY <1>1, <1>2, <2>4
    <3>2. QED
      BY <2>2, <2>3, <3>1
  <2>5. QED
    BY <1>1, <1>2, <2>4
<1>7. QED
  BY <1>2, <1>4, <1>5, <1>6 DEF Estimates, b, p, hi

\* p256: the raw estimate, once saturated, is close.
LEMMA Estimates256 ==
  ASSUME NEW r, InWords(r), Halved(r), NEW v \in Nat, v < r.b * r.p,
         NEW off \in Int, off = r.p - TopUnit(r) * (r.b - r.h + 1),
         off * r.b <= TopUnit(r), -off * r.b <= TopUnit(r)
  PROVE  Estimates(r, v, Raw256(r, Top(r, v), Second(r, v)))
<1> DEFINE b == r.b
           h == r.h
           p == r.p
           W == TopUnit(r)
           hi == Top(r, v)
           lo == Second(r, v)
           hl == hi * b + lo
           g == hl \div h
           raw == Raw256(r, hi, lo)
           q == IF raw >= b THEN b - 1 ELSE raw
<1>1. /\ b \in Nat /\ h \in Nat /\ h >= 4 /\ b = h * h /\ b >= 2 /\ p \in Nat /\ p > 0
      /\ W \in Nat /\ W > 0 /\ v < b * p
  BY DEF InWords, Halved
<1>2. /\ hi \in Nat /\ hi < b /\ lo \in Nat /\ lo < b
      /\ hl * W <= v /\ v < hl * W + W
  BY TopSecond
<1>3. /\ g \in Nat /\ raw \in Nat /\ g * h <= hl /\ hl < g * h + h
      /\ raw * b <= hl + g + 1 /\ hl + g + 1 < raw * b + b
  BY <1>1, <1>2, Raw256Quotient DEF b, h
<1>4. off * b <= W /\ -off * b <= W /\ p = W * (b - h + 1) + off
  <2>1. W * (b - h + 1) \in Int
    BY <1>1
  <2>2. QED
    BY <1>1, <2>1
<1> HIDE DEF b, h, p, W, hi, lo
<1>5. hl \in Nat /\ hl < b * b
  <2>1. (hi + 1) * b <= b * b /\ (hi + 1) * b = hi * b + b /\ hi * b \in Nat /\ b * b \in Nat
    BY <1>1, <1>2
  <2>2. QED
    BY <1>1, <1>2, <2>1
<1>6. q \in Nat
  BY <1>1, <1>3
<1> HIDE DEF hl, g, raw
<1>7. Close(v, q, p)
  <2> HIDE DEF q
  <2>1. q = IF raw >= b THEN b - 1 ELSE raw
    BY DEF q
  <2>2. QED
    BY <1>1, <1>2, <1>3, <1>4, <1>5, <1>6, <2>1, FillingClose
<1>8. ASSUME v < (b - 1) * p PROVE raw < b
  <2> DEFINE y == b - 1
  <2>1. SUFFICES ASSUME raw >= b PROVE FALSE
    BY <1>1, <1>3
  <2>2. y \in Nat /\ y < b /\ y * b <= hl + g + 1 - b
    <3>1. b * b <= raw * b /\ y * b = b * b - b /\ raw * b \in Int /\ b * b \in Int
      BY <1>1, <1>3, <2>1
    <3>2. QED
      BY <1>1, <1>3, <1>5, <3>1
  <2> HIDE DEF y
  <2>3. y * p <= v
    BY <1>1, <1>2, <1>3, <1>4, <1>5, <2>2, FillingLower
  <2>4. y * p = (b - 1) * p /\ (b - 1) * p \in Int
    BY <1>1 DEF y
  <2>5. QED
    BY <1>8, <2>3, <2>4
<1>9. QED
  BY <1>3, <1>7, <1>8 DEF Estimates, b, p, raw, hi, lo

\* sm2: the raw estimate, once saturated, is close, and passes the word by
\* at most one.
LEMMA EstimatesSm2 ==
  ASSUME NEW r, InWords(r), Halved(r), NEW v \in Nat, v < r.b * r.p,
         NEW off \in Int, off = TopUnit(r) * (r.b - r.h) - r.p,
         off >= 0, off * r.h <= TopUnit(r) * (r.h - 3)
  PROVE  /\ Estimates(r, v, RawSm2(r, Top(r, v), Second(r, v)))
         /\ RawSm2(r, Top(r, v), Second(r, v)) <= r.b
<1> DEFINE b == r.b
           h == r.h
           p == r.p
           W == TopUnit(r)
           S == Size(r)
           hi == Top(r, v)
           lo == Second(r, v)
           raw == RawSm2(r, hi, lo)
           q == IF raw >= b THEN b - 1 ELSE raw
<1>1. /\ b \in Nat /\ h \in Nat /\ h >= 4 /\ b = h * h /\ b >= 2 /\ p \in Nat /\ p > 0
      /\ W \in Nat /\ W > 0 /\ S \in Nat /\ S = b * W /\ v < b * p
  BY DEF InWords, Halved
<1>2. /\ hi \in Nat /\ hi < b /\ lo \in Nat /\ lo < b
      /\ (hi * b + lo) * W <= v /\ v < (hi * b + lo) * W + W
      /\ hi * S <= v /\ v < hi * S + S
  BY TopSecond
<1>3. off \in Nat /\ off * h <= W * (h - 3) /\ p = W * (b - h) - off
  <2>1. W * (b - h) \in Int
    BY <1>1
  <2>2. QED
    BY <1>1, <2>1
<1> HIDE DEF b, h, p, W, S, hi, lo
<1>4. hi <= b - h - 1
  <2>1. hi * S < b * (W * (b - h))
    <3>1. b * p <= b * (W * (b - h))
      BY <1>1, <1>3
    <3>2. hi * S \in Int /\ b * p \in Int /\ b * (W * (b - h)) \in Int
      BY <1>1, <1>2
    <3>3. QED
      BY <1>1, <1>2, <3>1, <3>2
  <2>2. b * (W * (b - h)) = (b - h) * S
    BY <1>1
  <2>3. hi < b - h
    BY <1>1, <1>2, <2>1, <2>2
  <2>4. QED
    BY <1>1, <1>2, <2>3
<1>5. /\ raw \in Nat /\ raw * b <= hi * b + hi * h + hi + lo + b
      /\ hi * b + hi * h + hi + lo + b < raw * b + b
  BY <1>1, <1>2, <1>4, RawSm2Quotient DEF b, h
<1> HIDE DEF raw
<1>6. raw <= b
  <2>1. hi * (b + h + 1) <= (b - h - 1) * (b + h + 1)
    BY <1>1, <1>2, <1>4
  <2>2. (b - h - 1) * (b + h + 1) = b * b - b - 2 * h - 1
    BY <1>1
  <2>3. hi * (b + h + 1) = hi * b + hi * h + hi
    BY <1>1, <1>2
  <2>4. raw * b < (b + 1) * b
    <3>1. hi * b + hi * h + hi \in Int /\ b * b \in Int /\ raw * b \in Int
      BY <1>1, <1>2, <1>5
    <3>2. (b + 1) * b = b * b + b
      BY <1>1
    <3>3. QED
      BY <1>1, <1>2, <1>5, <2>1, <2>2, <2>3, <3>1, <3>2
  <2>5. QED
    BY <1>1, <1>5, <2>4
<1>7. q \in Nat
  BY <1>1, <1>5
<1>8. Close(v, q, p)
  <2> HIDE DEF q
  <2>1. q = IF raw >= b THEN b - 1 ELSE raw
    BY DEF q
  <2>2. /\ v \in Nat /\ hi \in Nat /\ lo \in Nat /\ raw \in Nat /\ q \in Nat
        /\ h \in Nat /\ b \in Nat /\ W \in Nat /\ p \in Nat /\ off \in Nat
        /\ h >= 4 /\ b = h * h /\ W > 0 /\ v < b * p /\ lo < b /\ hi <= b - h - 1
        /\ (hi * b + lo) * W <= v /\ v < (hi * b + lo) * W + W
        /\ raw * b <= hi * b + hi * h + hi + lo + b
        /\ hi * b + hi * h + hi + lo + b < raw * b + b
        /\ p = W * (b - h) - off /\ off * h <= W * (h - 3)
    BY <1>1, <1>2, <1>3, <1>4, <1>5, <1>7
  <2>3. QED
    BY <2>1, <2>2, FillingSm2Close, Zenon
<1>9. ASSUME v < (b - 1) * p PROVE raw < b
  <2>1. SUFFICES ASSUME raw = b PROVE FALSE
    BY <1>1, <1>5, <1>6
\* An estimate of b is one that b - 1 does not replace: b - 1 times p fits.
  <2>2. (b - 1) * (b - h) <= hi * b + lo
    <3> DEFINE N == hi * b + hi * h + hi + lo + b
               x == hi * b + lo
    <3>1. (b * b - b) * (h - 1) <= (N - b) * (h - 1)
      <4>1. b * b \in Int /\ b * b - b <= N - b /\ N - b \in Int
        BY <1>1, <1>2, <1>5, <2>1
      <4>2. QED
        BY <1>1, <4>1, TimesMonotone
    <3>2. (N - b) * (h - 1) = h * x - hi - lo
      BY <1>1, <1>2
    <3>3. (b * b - b) * (h - 1) = ((b - 1) * (b - h)) * h
      BY <1>1
    <3>4. ((b - 1) * (b - h)) * h <= x * h
      <4>1. x * h = h * x /\ x * h \in Int /\ ((b - 1) * (b - h)) * h \in Int
        BY <1>1, <1>2
      <4>2. QED
        BY <1>2, <3>1, <3>2, <3>3, <4>1
    <3>5. (b - 1) * (b - h) \in Int /\ x \in Int
      BY <1>1, <1>2
    <3>6. QED
      BY <1>1, <3>4, <3>5, CancelFactor
  <2>3. ((b - 1) * (b - h)) * W <= v
    <3>1. ((b - 1) * (b - h)) * W <= (hi * b + lo) * W
      BY <1>1, <1>2, <2>2, TimesMonotone
    <3>2. ((b - 1) * (b - h)) * W \in Int /\ (hi * b + lo) * W \in Int
      BY <1>1, <1>2
    <3>3. QED
      BY <1>2, <3>1, <3>2
  <2>4. (b - 1) * p <= ((b - 1) * (b - h)) * W
    <3>1. (b - 1) * p <= (b - 1) * (W * (b - h))
      BY <1>1, <1>3
    <3>2. (b - 1) * (W * (b - h)) = ((b - 1) * (b - h)) * W
      BY <1>1
    <3>3. QED
      BY <3>1, <3>2
  <2>5. (b - 1) * p \in Int /\ ((b - 1) * (b - h)) * W \in Int
    BY <1>1
  <2>6. QED
    BY <1>9, <2>3, <2>4, <2>5
<1>10. QED
  BY <1>5, <1>6, <1>8, <1>9 DEF Estimates, b, p, raw, hi, lo

\* What the code of sm2 does with the largest estimate.
LEMMA SaturatedSm2 ==
  ASSUME NEW r, r.b \in Nat, r.b >= 2, NEW hi, NEW lo,
         RawSm2(r, hi, lo) \in Nat, RawSm2(r, hi, lo) <= r.b
  PROVE  EstimateSm2(r, hi, lo)
           = IF RawSm2(r, hi, lo) >= r.b THEN r.b - 1 ELSE RawSm2(r, hi, lo)
<1>1. (r.b * 1 + 0) % r.b = 0 /\ r.b * 1 + 0 = r.b
  BY DivUnique
<1>2. QED
  BY <1>1 DEF EstimateSm2

\* The estimate of every family that saturates is close.
LEMMA EstimateClose ==
  ASSUME NEW r \in Moduli, r.name \notin Floored,
         NEW v \in Nat, v < r.b * r.p
  PROVE  Estimate(r, v) \in Nat /\ Close(v, Estimate(r, v), r.p)
<1>1. InWords(r) /\ Halved(r) /\ r.b \in Nat /\ r.b >= 2
  BY RecordFacts DEF InWords, Halved
<1>2. r.name \in Folding \cup Filling \cup FillingSm2
  BY RecordAssumption
<1> DEFINE Cut(q) == IF q >= r.b THEN r.b - 1 ELSE q
<1>3. ASSUME NEW q, Estimates(r, v, q), Estimate(r, v) = Cut(q)
      PROVE  Estimate(r, v) \in Nat /\ Close(v, Estimate(r, v), r.p)
  BY <1>1, <1>3 DEF Estimates
<1>4. CASE r.name \in Folding
  <2>1. Estimate(r, v) = Cut(Top(r, v) + 1)
    BY <1>4 DEF Estimate, Estimate384, Saturated, Folding, Filling, FillingSm2
  <2>2. Estimates(r, v, Top(r, v) + 1)
    BY <1>1, <1>4, ShapeAssumption, Estimates384
  <2>3. QED
    BY <1>3, <2>1, <2>2
<1>5. CASE r.name \in Filling
  <2>1. Estimate(r, v) = Cut(Raw256(r, Top(r, v), Second(r, v)))
    BY <1>5 DEF Estimate, Estimate256, Saturated, Folding, Filling, FillingSm2
  <2> DEFINE off == r.p - TopUnit(r) * (r.b - r.h + 1)
  <2>2. off \in Int /\ off * r.b <= TopUnit(r) /\ -off * r.b <= TopUnit(r)
    BY <1>5, RecordFacts, ShapeAssumption
  <2>3. Estimates(r, v, Raw256(r, Top(r, v), Second(r, v)))
    BY <1>1, <2>2, Estimates256
  <2>4. QED
    BY <1>3, <2>1, <2>3
<1>6. CASE r.name \in FillingSm2
  <2> DEFINE off == TopUnit(r) * (r.b - r.h) - r.p
             raw == RawSm2(r, Top(r, v), Second(r, v))
  <2>1. off \in Int /\ off >= 0 /\ off * r.h <= TopUnit(r) * (r.h - 3)
    BY <1>6, RecordFacts, ShapeAssumption
  <2>2. Estimates(r, v, raw) /\ raw <= r.b
    BY <1>1, <2>1, EstimatesSm2
  <2>3. raw \in Nat
    BY <2>2 DEF Estimates
  <2>4. Estimate(r, v) = Cut(raw)
    <3>1. Estimate(r, v) = EstimateSm2(r, Top(r, v), Second(r, v))
      BY <1>6 DEF Estimate, Folding, Filling, FillingSm2
    <3>2. QED
      BY <1>1, <2>2, <2>3, <3>1, SaturatedSm2
  <2>5. QED
    BY <1>3, <2>2, <2>4
<1>7. QED
  BY <1>2, <1>4, <1>5, <1>6

\* A remainder fits its n words.
LEMMA ReducedInWords ==
  ASSUME NEW r \in Moduli, NEW t \in 0..(r.p - 1)
  PROVE  Lo(r, t) = t
<1>1. /\ t \in 0..(Size(r) - 1) /\ Size(r) \in Nat /\ Size(r) > 0 /\ t \in Int
      /\ t = t + Size(r) * 0 /\ 0 \in Int
  BY RecordFacts
<1>2. t % Size(r) = t
  BY <1>1, InRange, Zenon
<1>3. QED
  BY <1>2 DEF Lo

\* One pass of the loop: the remainder of b * old + d, whatever the family.
LEMMA AppendedWord ==
  ASSUME NEW r \in Moduli, NEW old \in 0..(r.p - 1), NEW d \in 0..(r.b - 1)
  PROVE  Appended(r, old, d) = (r.b * old + d) % r.p
<1> DEFINE v == r.b * old + d
<1>1. v \in Nat /\ v < r.b * r.p
  BY RecordFacts, AppendedRange
<1>2. CASE r.name \in Floored
  <2> DEFINE q == Floor(r, old, v)
             t == v - q * r.m - q * r.e
  <2>1. /\ old \in Nat /\ d \in Nat /\ r.b \in Nat /\ r.m \in Nat /\ r.e \in Nat /\ r.b >= 2
        /\ d < r.b /\ old < r.m + r.e /\ r.e > 0 /\ r.b * r.e <= r.m /\ r.p = r.m + r.e
        /\ r.p \in Nat /\ r.p > 0
    BY <1>2, RecordFacts, ShapeAssumption
  <2>2. q \in Nat /\ Close(v, q, r.p)
    <3>1. q \in Nat /\ Close(v, q, r.m + r.e)
      BY <2>1, FlooredClose DEF Floor
    <3>2. QED
      BY <2>1, <3>1
  <2>3. Appended(r, old, d) = Lo(r, t + (IF t < 0 THEN r.p ELSE 0))
    BY <1>2 DEF Appended, Under
  <2> HIDE DEF v, q
  <2>4. t = v - q * r.p /\ t \in Int
    BY <1>1, <2>1, <2>2
  <2> HIDE DEF t
  <2>5. v % r.p = IF t >= 0 THEN t ELSE t + r.p
    <3>1. v \in Nat /\ q \in Nat /\ r.p \in Nat /\ r.p > 0 /\ Close(v, q, r.p)
      BY <1>1, <2>1, <2>2
    <3>2. v % r.p = IF v - q * r.p >= 0 THEN v - q * r.p ELSE v - q * r.p + r.p
      BY <3>1, CloseRemainder, Zenon
    <3>3. QED
      BY <2>4, <3>2, Zenon
  <2>6. t + (IF t < 0 THEN r.p ELSE 0) = v % r.p
    BY <2>1, <2>4, <2>5
  <2>7. v % r.p \in 0..(r.p - 1)
    BY <1>1, <2>1, DivMod
  <2>8. QED
    BY <2>3, <2>6, <2>7, ReducedInWords DEF v
<1>3. CASE r.name \notin Floored
  <2> DEFINE q == Estimate(r, v)
  <2>1. Appended(r, old, d) = Corrected(r, v, q)
    BY <1>3 DEF Appended
  <2>2. q \in Nat /\ Close(v, q, r.p)
    BY <1>1, <1>3, EstimateClose
  <2> HIDE DEF v, q
  <2>3. /\ r.p \in Nat /\ r.p > 0 /\ r.b \in Nat /\ r.b >= 2
        /\ Size(r) \in Nat /\ r.p < Size(r)
    BY RecordFacts
  <2>4. Corrected(r, v, q) = v % r.p
    BY <1>1, <2>2, <2>3, MaskedCorrection
  <2>5. QED
    BY <2>1, <2>4 DEF v
<1>4. QED
  BY <1>2, <1>3

\* The first n words.
LEMMA HeadReduced ==
  ASSUME NEW r \in Moduli, NEW x \in 0..(Size(r) - 1)
  PROVE  Head(r, x) = x % r.p
<1> DEFINE p == r.p
<1>1. p \in Nat /\ p > 0 /\ x \in Nat /\ x \in Int /\ Size(r) \in Nat
  BY RecordFacts
<1>2. CASE r.name = "n25519"
  <2> DEFINE M == r.m
             e == r.e
             Q == x \div M
             t == (x % M) - Q * e
  <2>1. /\ M \in Nat /\ M > 0 /\ e \in Nat /\ e > 0 /\ p = M + e /\ r.b \in Nat
        /\ r.b * e <= M /\ Size(r) <= r.b * M
    BY <1>2, RecordFacts, ShapeAssumption DEF Floored
  <2>2. Head(r, x) = Lo(r, t + (IF t < 0 THEN p ELSE 0))
    BY <1>2 DEF Head, mod_n25519_4, Under
  <2>3. Q \in Nat /\ x % M \in Int /\ x = M * Q + (x % M) /\ 0 <= x % M /\ x % M < M
        /\ Q * M <= x
    BY <1>1, <2>1, DivMod, DivBounds
  <2> HIDE DEF Q, p, M, e
  <2> DEFINE s == x % M
  <2> HIDE DEF s
  <2>4. s \in Int /\ x = M * Q + s /\ 0 <= s /\ s < M /\ t = s - Q * e
    BY <2>3 DEF s
  <2> HIDE DEF t
  <2>5. Q < r.b
    <3>1. Q * M < r.b * M /\ Q * M \in Int /\ r.b * M \in Int
      BY <1>1, <2>1, <2>3
    <3>2. QED
      BY <2>1, <2>3, <3>1
  <2>6. Q * e <= r.b * e /\ Q * e \in Nat /\ Q * p = M * Q + Q * e
    BY <2>1, <2>3, <2>5, TimesMonotone
  <2>7. t = x - Q * p /\ t \in Int /\ Close(x, Q, p)
    BY <1>1, <2>1, <2>3, <2>4, <2>6 DEF Close
  <2>8. x % p = IF t >= 0 THEN t ELSE t + p
    BY <1>1, <2>3, <2>7, CloseRemainder
  <2>9. t + (IF t < 0 THEN p ELSE 0) = x % p
    BY <1>1, <2>7, <2>8
  <2>10. x % p \in 0..(p - 1)
    BY <1>1, DivMod
  <2>11. QED
    BY <2>2, <2>9, <2>10, ReducedInWords DEF p
<1>3. CASE r.name # "n25519"
  <2>1. Size(r) <= 2 * p
    BY <1>3, ShapeAssumption
  <2>2. Head(r, x) = IF x < p THEN Lo(r, x) ELSE Lo(r, x - p)
    BY <1>3 DEF Head, Subtracted
  <2>3. CASE x < p
    <3>1. x \in 0..(p - 1) /\ x = x + p * 0 /\ 0 \in Int
      BY <1>1, <2>3
    <3>2. x % p = x
      BY <1>1, <3>1, InRange, Zenon
    <3>3. QED
      BY <2>2, <2>3, <3>1, <3>2, ReducedInWords
  <2>4. CASE x >= p
    <3> DEFINE y == x - p
    <3>1. y \in 0..(p - 1) /\ x = y + p * 1 /\ 1 \in Int
      BY <1>1, <2>1, <2>4
    <3> HIDE DEF y, p
    <3>2. x % p = y
      BY <1>1, <3>1, InRange, Zenon
    <3>3. ~(x < p)
      BY <1>1, <2>4
    <3>4. QED
      BY <2>2, <3>1, <3>2, <3>3, ReducedInWords DEF y, p
  <2>5. QED
    BY <1>1, <2>3, <2>4
<1>4. QED
  BY <1>2, <1>3

-----------------------------------------------------------------------------
(* The program.                                                             *)

Inv ==
  /\ c \in Moduli /\ k \in Nat /\ seen \in Nat
  /\ Remainder

\* At every stage of every one of the reductions the number held is the
\* remainder of the words read so far, so the one written back is the
\* remainder of the input.
THEOREM Reduction == Spec => []Remainder
<1>1. Init => Inv
  <2>1. SUFFICES ASSUME Init PROVE Inv
    OBVIOUS
  <2>2. c \in Moduli /\ k \in Nat /\ seen = 0 /\ m = 0
    BY <2>1, WordsAssumption DEF Init
  <2>3. 0 % c.p = 0
    <3>1. 0 \in 0..(c.p - 1) /\ 0 = 0 + c.p * 0 /\ 0 \in Int /\ c.p \in Nat /\ c.p > 0
      BY <2>2, RecordFacts
    <3>2. QED
      BY <3>1, InRange, Zenon
  <2>4. QED
    BY <2>2, <2>3 DEF Inv, Remainder
<1>2. Inv /\ [Next \/ Returned]_vars => Inv'
  <2> SUFFICES ASSUME Inv, [Next \/ Returned]_vars PROVE Inv'
    OBVIOUS
  <2>1. c \in Moduli /\ k \in Nat /\ seen \in Nat /\ m = seen % c.p
    BY DEF Inv, Remainder
  <2>2. c.p \in Nat /\ c.p > 0 /\ c.b \in Nat /\ c.b > 0 /\ c.n \in Nat
    BY <2>1, RecordFacts
  <2>3. CASE Short
    <3>1. PICK x \in 0..(c.b ^ k - 1) : seen' = x /\ m' = x
      BY <2>3 DEF Short
    <3>2. k \in 0..(c.n - 1) /\ c' = c /\ k' = 0
      BY <2>1, <2>2, <2>3 DEF Short
    <3>3. c.b ^ k \in Nat /\ c.b ^ k <= c.p
      BY <2>1, <3>2, RecordAssumption
    <3>4. x \in 0..(c.p - 1) /\ x = x + c.p * 0 /\ 0 \in Int /\ x \in Int
      BY <2>2, <3>1, <3>3
    <3>5. x % c.p = x
      BY <2>2, <3>4, InRange, Zenon
    <3>6. QED
      BY <2>1, <3>1, <3>2, <3>4, <3>5 DEF Inv, Remainder
  <2>4. CASE Initial
    <3>1. PICK x \in 0..(Size(c) - 1) : seen' = x /\ m' = Head(c, x)
      BY <2>4 DEF Initial
    <3>2. c' = c /\ k' \in Nat
      BY <2>1, <2>2, <2>4 DEF Initial
    <3>3. Head(c, x) = x % c.p /\ x \in Nat
      BY <2>1, HeadReduced
    <3>4. QED
      BY <2>1, <3>1, <3>2, <3>3 DEF Inv, Remainder
  <2>5. CASE Loop
    <3>1. PICK d \in 0..(c.b - 1) : seen' = c.b * seen + d /\ m' = Appended(c, m, d)
      BY <2>5 DEF Loop
    <3>2. c' = c /\ k' \in Nat
      BY <2>1, <2>5 DEF Loop
    <3>3. m \in 0..(c.p - 1)
      BY <2>1, <2>2, DivMod
    <3>4. Appended(c, m, d) = (c.b * m + d) % c.p
      BY <2>1, <3>3, AppendedWord
    <3>5. c.b * m \in Int /\ c.b * seen \in Nat /\ d \in Int /\ d \in Nat
      BY <2>1, <2>2, <3>3
    <3>6. (c.b * m) % c.p = (c.b * seen) % c.p
      <4>1. seen \in Int /\ c.b \in Int
        BY <2>1, <2>2
      <4>2. QED
        BY <2>1, <2>2, <4>1, ModTimes, Zenon
    <3>7. (c.b * m + d) % c.p = (c.b * seen + d) % c.p
      <4>1. c.b * seen \in Int
        BY <3>5
      <4>2. /\ (((c.b * m) % c.p) + (d % c.p)) % c.p = (c.b * m + d) % c.p
            /\ (((c.b * seen) % c.p) + (d % c.p)) % c.p = (c.b * seen + d) % c.p
        BY <2>2, <3>5, <4>1, ModPlus, Zenon
      <4>3. QED
        BY <3>6, <4>2
    <3>8. seen' \in Nat
      BY <3>1, <3>5
    <3>9. QED
      BY <2>1, <3>1, <3>2, <3>4, <3>7, <3>8 DEF Inv, Remainder
  <2>6. CASE Writeback
    BY <2>1, <2>6 DEF Writeback, Inv, Remainder
  <2>7. CASE Returned
    BY <2>1, <2>7 DEF Returned, vars, Inv, Remainder
  <2>8. CASE UNCHANGED vars
    BY <2>1, <2>8 DEF vars, Inv, Remainder
  <2>9. QED
    BY <2>3, <2>4, <2>5, <2>6, <2>7, <2>8 DEF Next
<1>3. Inv => Remainder
  BY DEF Inv
<1>4. QED
  BY <1>1, <1>2, <1>3, PTL DEF Spec

-----------------------------------------------------------------------------
(* Curves in words; the linear functions of p256, sm2 and p384.             *)

-----------------------------------------------------------------------------
(* The field functions: what n words hold.                                  *)

\* The powers of the word base up to the size of n words.
LEMMA WordPowers ==
  ASSUME NEW r, WordShape(r)
  PROVE  /\ r.b \in Nat /\ r.b >= 4 /\ r.n \in Nat /\ r.n > 0
         /\ \A i \in 0..r.n : r.b ^ i \in Nat /\ r.b ^ i > 0
         /\ \A i \in 0..(r.n - 1) : r.b ^ (i + 1) = r.b * r.b ^ i
<1>1. /\ r.h \in Nat /\ r.h >= 2 /\ r.b = r.h * r.h /\ r.n \in Nat /\ r.n > 0 /\ r.b ^ 0 = 1
      /\ \A i \in 0..(r.n - 1) : r.b ^ (i + 1) = r.b * r.b ^ i
  BY DEF WordShape
<1>2. r.b \in Nat /\ r.b >= 4
  <2> DEFINE h == r.h
  <2>1. h \in Nat /\ h >= 2 /\ r.b = h * h
    BY <1>1
  <2> HIDE DEF h
  <2>2. QED
    BY <2>1
<1> DEFINE T == {i \in Nat : i <= r.n => r.b ^ i \in Nat /\ r.b ^ i > 0}
<1>3. 0 \in T
  BY <1>1
<1>4. ASSUME NEW i \in T PROVE i + 1 \in T
  <2>1. SUFFICES ASSUME i + 1 <= r.n PROVE r.b ^ (i + 1) \in Nat /\ r.b ^ (i + 1) > 0
    OBVIOUS
  <2>2. i \in 0..(r.n - 1) /\ r.b ^ i \in Nat /\ r.b ^ i > 0
    BY <1>1, <2>1
  <2>3. r.b ^ (i + 1) = r.b * r.b ^ i
    BY <1>1, <2>2
  <2> DEFINE u == r.b ^ i
  <2>4. u \in Nat /\ u > 0
    BY <2>2
  <2> HIDE DEF u
  <2>5. r.b * u \in Nat /\ r.b * u > 0
    BY <1>2, <2>4
  <2>6. QED
    BY <2>3, <2>5 DEF u
<1>5. T \in SUBSET Nat
  OBVIOUS
<1>6. T = Nat
  <2> HIDE DEF T
  <2>1. QED
    BY <1>3, <1>4, <1>5, InductionOnNat
<1>7. ASSUME NEW i \in 0..r.n PROVE r.b ^ i \in Nat /\ r.b ^ i > 0
  <2>1. i \in Nat /\ i <= r.n
    BY <1>1
  <2>2. i \in T
    BY <1>6, <2>1
  <2>3. QED
    BY <2>1, <2>2
<1>8. QED
  BY <1>1, <1>2, <1>7

\* A curve of word shape: p is odd and fits the words, whose top one weighs
\* Size / b.
LEMMA ShapeFacts ==
  ASSUME NEW r, WordShape(r)
  PROVE  /\ r.p \in Nat /\ r.p > 2 /\ r.p % 2 = 1 /\ Size(r) \in Nat /\ r.p < Size(r)
         /\ r.b \in Nat /\ r.b >= 4 /\ TopUnit(r) \in Nat /\ TopUnit(r) > 0
         /\ Size(r) = r.b * TopUnit(r)
<1>1. r.p \in Nat /\ r.p > 2 /\ r.p % 2 = 1 /\ r.p < Size(r)
  BY DEF WordShape
<1>2. Size(r) \in Nat /\ r.b \in Nat /\ r.b >= 4 /\ r.n \in Nat /\ r.n > 0
  BY WordPowers DEF Size
<1>3. r.n - 1 \in 0..(r.n - 1) /\ r.n - 1 \in 0..r.n /\ (r.n - 1) + 1 = r.n
  BY <1>2
<1>4. TopUnit(r) \in Nat /\ TopUnit(r) > 0
  BY <1>3, WordPowers DEF TopUnit
<1>5. Size(r) = r.b * TopUnit(r)
  <2>1. r.b ^ ((r.n - 1) + 1) = r.b * r.b ^ (r.n - 1)
    BY <1>3, WordPowers
  <2>2. QED
    BY <1>3, <2>1 DEF Size, TopUnit
<1>6. QED
  BY <1>1, <1>2, <1>4, <1>5

\* Residues of numbers not far from the range.
LEMMA ResidueNear ==
  ASSUME NEW p \in Nat, p > 0, NEW v \in Int
  PROVE  /\ 0 <= v /\ v < p => v % p = v /\ v \div p = 0
         /\ p <= v /\ v < 2 * p => v % p = v - p /\ v \div p = 1
         /\ -p <= v /\ v < 0 => v % p = v + p /\ v \div p = -1
<1>1. \A q \in Int, x \in 0..(p - 1) : (p * q + x) % p = x /\ (p * q + x) \div p = q
  BY DivUnique
<1>2. ASSUME 0 <= v, v < p PROVE v % p = v /\ v \div p = 0
  <2>1. v \in 0..(p - 1) /\ p * 0 + v = v
    BY <1>2
  <2>2. (p * 0 + v) % p = v /\ (p * 0 + v) \div p = 0
    BY <1>1, <2>1
  <2>3. QED
    BY <2>1, <2>2
<1>3. ASSUME p <= v, v < 2 * p PROVE v % p = v - p /\ v \div p = 1
  <2>1. v - p \in 0..(p - 1) /\ p * 1 + (v - p) = v
    BY <1>3
  <2>2. (p * 1 + (v - p)) % p = v - p /\ (p * 1 + (v - p)) \div p = 1
    BY <1>1, <2>1
  <2>3. QED
    BY <2>1, <2>2
<1>4. ASSUME -p <= v, v < 0 PROVE v % p = v + p /\ v \div p = -1
  <2>1. v + p \in 0..(p - 1) /\ p * (-1) + (v + p) = v
    BY <1>4
  <2>2. (p * (-1) + (v + p)) % p = v + p /\ (p * (-1) + (v + p)) \div p = -1
    BY <1>1, <2>1
  <2>3. QED
    BY <2>1, <2>2
<1>5. QED
  BY <1>2, <1>3, <1>4

\* What the registers make of a number that does not fit, or is negative.
LEMMA LoNear ==
  ASSUME NEW r, WordShape(r), NEW v \in Int
  PROVE  /\ 0 <= v /\ v < Size(r) => Lo(r, v) = v /\ Hi(r, v) = 0
         /\ Size(r) <= v /\ v < 2 * Size(r) => Lo(r, v) = v - Size(r) /\ Hi(r, v) = 1
         /\ -Size(r) <= v /\ v < 0 => Lo(r, v) = v + Size(r) /\ Hi(r, v) = -1
<1>1. Size(r) \in Nat /\ Size(r) > 0
  BY ShapeFacts
<1>2. QED
  BY <1>1, ResidueNear DEF Lo, Hi

\* A residue modulo an odd number halved.
LEMMA OddHalf ==
  ASSUME NEW p \in Nat, p % 2 = 1, NEW x \in 0..(p - 1)
  PROVE  /\ x % 2 \in {0, 1} /\ x \div 2 \in Int /\ x = 2 * (x \div 2) + (x % 2)
         /\ p \div 2 \in Nat /\ p = 2 * (p \div 2) + 1
OBVIOUS

-----------------------------------------------------------------------------
(* p256, sm2, p384: moduli that fill their words.                           *)

\* One comparison and one subtraction reduce what is below 2 * p.
LEMMA SubtractedResidue ==
  ASSUME NEW r, WordShape(r), NEW v \in 0..(2 * r.p - 1)
  PROVE  Subtracted(r, v) = v % r.p
<1>1. v \in Int /\ r.p \in Nat /\ r.p > 0 /\ r.p < Size(r) /\ Size(r) \in Nat
  BY ShapeFacts
<1>2. CASE v < r.p
  <2>1. Subtracted(r, v) = v
    BY <1>1, <1>2, LoNear DEF Subtracted
  <2>2. QED
    BY <1>1, <1>2, <2>1, ResidueNear
<1>3. CASE ~ (v < r.p)
  <2>1. v - r.p \in Int /\ 0 <= v - r.p /\ v - r.p < Size(r)
    BY <1>1, <1>3
  <2>2. Subtracted(r, v) = v - r.p
    BY <1>3, <2>1, LoNear DEF Subtracted
  <2>3. QED
    BY <1>1, <1>3, <2>2, ResidueNear
<1>4. QED
  BY <1>2, <1>3

\* Sums and doubles: bignum_add and bignum_double of the full-word moduli.
LEMMA AddFilled ==
  ASSUME NEW r, WordShape(r), NEW x \in 0..(r.p - 1), NEW y \in 0..(r.p - 1)
  PROVE  bignum_add_p(r, add_p256(r, x, y), x, y) /\ bignum_double_p(r, add_p256(r, x, x), x)
<1>1. r.p \in Nat
  BY ShapeFacts
<1>2. x + y \in 0..(2 * r.p - 1) /\ x + x \in 0..(2 * r.p - 1) /\ 2 * x = x + x
  BY <1>1
<1>3. QED
  BY <1>2, SubtractedResidue DEF bignum_add_p, bignum_double_p, add_p256

\* Differences: p is added back exactly after a borrow.
LEMMA SubFilled ==
  ASSUME NEW r, WordShape(r), NEW x \in 0..(r.p - 1), NEW y \in 0..(r.p - 1)
  PROVE  bignum_sub_p(r, sub_p256(r, x, y), x, y)
<1>1. r.p \in Nat /\ r.p > 0 /\ r.p < Size(r) /\ Size(r) \in Nat /\ x \in Int /\ y \in Int
  BY ShapeFacts
<1> DEFINE v == (x - y) + Under(x < y, r.p)
<1>2. v = (x - y) % r.p /\ v \in Int /\ 0 <= v /\ v < Size(r)
  BY <1>1, ResidueNear DEF Under
<1> HIDE DEF v
<1>3. Lo(r, v) = v
  BY <1>2, LoNear
<1>4. QED
  BY <1>2, <1>3 DEF bignum_sub_p, sub_p256, v

\* Negation, which leaves zero alone.
LEMMA NegFilled ==
  ASSUME NEW r, WordShape(r), NEW x \in 0..(r.p - 1)
  PROVE  bignum_neg_p(r, neg_p256(r, x), x)
<1>1. r.p \in Nat /\ r.p > 0 /\ r.p < Size(r) /\ Size(r) \in Nat /\ x \in Int
  BY ShapeFacts
<1> DEFINE v == Under(x # 0, r.p) - x
<1>2. v = (-x) % r.p /\ v \in Int /\ 0 <= v /\ v < Size(r)
  BY <1>1, ResidueNear DEF Under
<1> HIDE DEF v
<1>3. Lo(r, v) = v
  BY <1>2, LoNear
<1>4. QED
  BY <1>2, <1>3 DEF bignum_neg_p, neg_p256, v

\* Negation on condition, which leaves zero alone whatever the condition.
LEMMA OptnegFilled ==
  ASSUME NEW r, WordShape(r), NEW x \in 0..(r.p - 1), NEW q \in Nat
  PROVE  bignum_optneg_p(r, optneg_p256(r, q, x), q, x)
<1>1. r.p \in Nat /\ r.p > 0 /\ x \in Int
  BY ShapeFacts
<1>2. (-x) % r.p = IF x = 0 THEN 0 ELSE r.p - x
  BY <1>1, ResidueNear
<1>3. QED
  BY <1>1, <1>2 DEF bignum_optneg_p, optneg_p256, Under

\* Twice the half is the operand, which an addition of the odd modulus made even.
LEMMA HalfFilled ==
  ASSUME NEW r, WordShape(r), NEW x \in 0..(r.p - 1)
  PROVE  bignum_half_p(r, half_p256(r, x), x)
<1> DEFINE v == half_p256(r, x)
<1>1. r.p \in Nat /\ r.p > 0 /\ r.p % 2 = 1 /\ x \in Int
  BY ShapeFacts
<1>2. v = IF x % 2 = 1 THEN (x + r.p) \div 2 ELSE x \div 2
  BY <1>1 DEF half_p256, Under
<1> HIDE DEF v
<1>3. CASE x % 2 = 1
  <2>1. 2 * v = x + r.p /\ v \in Nat
    BY <1>1, <1>2, <1>3
  <2>2. v \in 0..(r.p - 1) /\ (x + r.p) % r.p = x
    BY <1>1, <2>1, ResidueNear
  <2>3. QED
    BY <2>1, <2>2 DEF bignum_half_p, Residue, v
<1>4. CASE x % 2 # 1
  <2>1. 2 * v = x /\ v \in Nat
    BY <1>1, <1>2, <1>4
  <2>2. v \in 0..(r.p - 1) /\ x % r.p = x
    BY <1>1, <2>1, ResidueNear
  <2>3. QED
    BY <2>1, <2>2 DEF bignum_half_p, Residue, v
<1>5. QED
  BY <1>3, <1>4

\* One subtraction reduces any number of n words when Size <= 2 * p.
LEMMA ModFilled ==
  ASSUME NEW r, WordShape(r), Size(r) <= 2 * r.p, NEW x \in 0..(Size(r) - 1)
  PROVE  bignum_mod_p(r, mod_p256_4(r, x), x)
<1>1. x \in 0..(2 * r.p - 1)
  BY ShapeFacts
<1>2. QED
  BY <1>1, SubtractedResidue DEF bignum_mod_p, mod_p256_4

-----------------------------------------------------------------------------
(* Their triples and products by a word.                                    *)

\* The curves lie in words as the moduli of ModReduce do.
LEMMA ShapeInWords ==
  ASSUME NEW r, WordShape(r)
  PROVE  InWords(r)
BY ShapeFacts DEF InWords

\* The top word of n + 1 and the n below it.
LEMMA HiLo ==
  ASSUME NEW r, WordShape(r), NEW v \in Nat
  PROVE  /\ Top(r, v) = Hi(r, v) /\ Hi(r, v) \in Nat /\ Lo(r, v) \in Nat /\ Lo(r, v) < Size(r)
         /\ v = Size(r) * Hi(r, v) + Lo(r, v)
         /\ Hi(r, v) * Size(r) \in Nat /\ Hi(r, v) * Size(r) = Size(r) * Hi(r, v)
         /\ Hi(r, v) * Size(r) <= v /\ v < Hi(r, v) * Size(r) + Size(r)
<1> DEFINE S == Size(r)
           H == Hi(r, v)
           L == Lo(r, v)
<1>1. S \in Nat /\ S > 0 /\ v \in Int
  BY ShapeFacts
<1>2. H = v \div S /\ L = v % S
  BY DEF Hi, Lo
<1>3. H \in Nat /\ L \in Nat /\ L < S /\ v = S * H + L
  BY <1>1, <1>2, DivMod, DivBounds
<1>4. Top(r, v) = H
  BY DEF Top
<1> HIDE DEF S, H, L
<1>5. H * S = S * H /\ S * H \in Nat
  BY <1>1, <1>3
<1>6. QED
  BY <1>1, <1>3, <1>4, <1>5 DEF S, H, L

\* The estimate Top + 1 as an addition in n words.
LEMMA FoldedResidue ==
  ASSUME NEW r, WordShape(r), NEW v \in Nat, Close(v, Top(r, v) + 1, r.p)
  PROVE  Folded(r, v) = v % r.p
<1> DEFINE p == r.p
           S == Size(r)
           H == Top(r, v)
           q == H + 1
           t == v - q * p
           s == Lo(r, v) + q * (S - p)
<1>1. p \in Nat /\ p > 0 /\ S \in Nat /\ p < S
  BY ShapeFacts
<1>2. H \in Nat /\ Lo(r, v) \in Nat /\ v = S * H + Lo(r, v) /\ S * H \in Nat
  BY HiLo
<1>3. -p <= t /\ t < p
  BY DEF Close
<1>4. v % p = IF t >= 0 THEN t ELSE t + p
  <2>1. q \in Nat
    BY <1>2
  <2>2. QED
    BY <1>1, <2>1, CloseRemainder
<1> DEFINE u == s + (IF s < S THEN p ELSE 0)
<1>5. Folded(r, v) = Lo(r, u)
  BY DEF Folded, Under
<1> HIDE DEF p, S, H
<1>6. s = S + t /\ t \in Int
  <2>1. q * (S - p) = S * H + S - q * p /\ q * p \in Int
    BY <1>1, <1>2
  <2>2. QED
    BY <1>1, <1>2, <2>1
<1> HIDE DEF t, s
<1>7. u = S + (v % p) /\ v % p \in Int /\ 0 <= v % p /\ v % p < S
  BY <1>1, <1>3, <1>4, <1>6
<1> HIDE DEF u
<1>8. Lo(r, u) = v % p
  <2>1. u \in Int /\ S <= u /\ u < 2 * S
    BY <1>1, <1>7
  <2>2. Lo(r, u) = u - S
    BY <2>1, LoNear DEF S
  <2>3. QED
    BY <1>1, <1>7, <2>2
<1>9. QED
  BY <1>5, <1>8 DEF p

\* A quotient by Size(r) and one more, for three times a residue.
LEMMA TripleClose ==
  ASSUME NEW r, WordShape(r), Size(r) <= 2 * r.p, NEW x \in 0..(r.p - 1)
  PROVE  3 * x \in Nat /\ Close(3 * x, Top(r, 3 * x) + 1, r.p)
<1> DEFINE p == r.p
           S == Size(r)
           v == 3 * x
           H == Top(r, v)
<1>1. p \in Nat /\ p > 0 /\ S \in Nat /\ p < S /\ S <= 2 * p /\ v \in Nat /\ v < 3 * p
  BY ShapeFacts
<1>2. H \in Nat /\ H * S <= v /\ v < H * S + S
  BY <1>1, HiLo
<1> HIDE DEF p, S, H, v
<1>3. H * p <= H * S /\ H * p \in Int /\ H * S \in Int /\ (H + 1) * p = H * p + p
  BY <1>1, <1>2
<1>4. v < (H + 1) * p + p
  <2>1. CASE H = 0
    BY <1>1, <1>2, <2>1
  <2>2. CASE H >= 1
    <3>1. H * p >= p
      BY <1>1, <1>2, <2>2
    <3>2. QED
      BY <1>1, <1>3, <3>1
  <2>3. QED
    BY <1>2, <2>1, <2>2
<1>5. QED
  BY <1>1, <1>2, <1>3, <1>4 DEF Close, v, H, p

\* Triples, corrected from a quotient or folded.
LEMMA TripleFilled ==
  ASSUME NEW r, WordShape(r), Size(r) <= 2 * r.p, NEW x \in 0..(r.p - 1)
  PROVE  /\ bignum_triple_p(r, triple_p256(r, x), x)
         /\ bignum_triple_p(r, triple_p384(r, x), x)
<1> DEFINE v == 3 * x
           q == Top(r, v) + 1
<1>1. v \in Nat /\ Close(v, q, r.p)
  BY TripleClose
<1>2. q \in Nat
  BY <1>1, HiLo
<1>3. /\ r.p \in Nat /\ r.p > 0 /\ r.b \in Nat /\ r.b >= 2
      /\ Size(r) \in Nat /\ r.p < Size(r)
  BY ShapeFacts
<1> HIDE DEF v
<1>4. Folded(r, v) = v % r.p
  BY <1>1, FoldedResidue
<1> HIDE DEF q
<1>5. Corrected(r, v, q) = v % r.p
  BY <1>1, <1>2, <1>3, MaskedCorrection
<1>6. QED
  BY <1>4, <1>5 DEF bignum_triple_p, triple_p256, triple_p384, v, q

-----------------------------------------------------------------------------
(* Products with a word.                                                    *)

\* The product of a word and a reduced number.
LEMMA WordProduct ==
  ASSUME NEW r, WordShape(r), NEW x \in 0..(r.p - 1), NEW w \in 0..(r.b - 1)
  PROVE  w * x \in Nat /\ w * x < (r.b - 1) * r.p /\ w * x < r.b * r.p
<1> DEFINE p == r.p
           b == r.b
<1>1. p \in Nat /\ p > 2 /\ b \in Nat /\ b >= 4 /\ x \in 0..(p - 1) /\ w \in 0..(b - 1)
  BY ShapeFacts
<1> HIDE DEF p, b
<1>2. w * x <= (b - 1) * x /\ (b - 1) * x < (b - 1) * p /\ (b - 1) * p < b * p /\ w * x \in Nat
  <2>1. w * x <= (b - 1) * x /\ w * x \in Nat
    BY <1>1
  <2>2. (b - 1) * x <= (b - 1) * (p - 1) /\ (b - 1) * (p - 1) = (b - 1) * p - (b - 1)
    BY <1>1
  <2>3. b * p = (b - 1) * p + p /\ (b - 1) * p \in Int /\ (b - 1) * x \in Int
    BY <1>1
  <2>4. QED
    BY <1>1, <2>1, <2>2, <2>3
<1>3. (b - 1) * x \in Int /\ (b - 1) * p \in Int /\ b * p \in Int
  BY <1>1
<1>4. QED
  BY <1>2, <1>3 DEF p, b

\* An estimate of a product with a word is used as it is.
LEMMA EstimatedProduct ==
  ASSUME NEW r, WordShape(r), NEW x \in 0..(r.p - 1), NEW w \in 0..(r.b - 1),
         NEW q, Estimates(r, w * x, q)
  PROVE  /\ q \in Nat /\ q < r.b /\ q % r.b = q /\ Close(w * x, q, r.p)
         /\ Corrected(r, w * x, q) = (w * x) % r.p
<1> DEFINE v == w * x
<1>1. v \in Nat /\ v < (r.b - 1) * r.p
  BY WordProduct
<1>2. /\ r.p \in Nat /\ r.p > 0 /\ r.b \in Nat /\ r.b >= 2
      /\ Size(r) \in Nat /\ r.p < Size(r)
  BY ShapeFacts
<1> HIDE DEF v
<1>3. Estimates(r, v, q)
  BY DEF v
<1>4. q \in Nat /\ q < r.b /\ Close(v, q, r.p)
  BY <1>1, <1>2, <1>3 DEF Estimates
<1>5. Corrected(r, v, q) = v % r.p
  BY <1>1, <1>2, <1>4, MaskedCorrection
<1>6. q % r.b = q
  <2>1. q \in Int /\ 0 <= q /\ r.b > 0
    BY <1>2, <1>4
  <2>2. QED
    BY <1>2, <1>4, <2>1, ResidueNear
<1>7. QED
  BY <1>4, <1>5, <1>6 DEF v

\* What the estimates need to know of the curve's modulus, family by family.
Margin256(r) == LET W   == TopUnit(r)
                    off == r.p - W * (r.b - r.h + 1)
                IN  r.h >= 4 /\ off * r.b <= W /\ -off * r.b <= W
MarginSm2(r) == LET W   == TopUnit(r)
                    off == W * (r.b - r.h) - r.p
                IN  r.h >= 4 /\ off >= 0 /\ off * r.h <= W * (r.h - 3)
Margin384(r) == (r.b - 1) * (Size(r) - r.p) <= r.p

\* The estimates on curves of these shapes.
LEMMA CurveEstimates ==
  ASSUME NEW r, WordShape(r), NEW v \in Nat, v < r.b * r.p
  PROVE  /\ Margin256(r) => Estimates(r, v, Raw256(r, Top(r, v), Second(r, v)))
         /\ MarginSm2(r) => /\ Estimates(r, v, RawSm2(r, Top(r, v), Second(r, v)))
                            /\ RawSm2(r, Top(r, v), Second(r, v)) <= r.b
         /\ Margin384(r) => Estimates(r, v, Top(r, v) + 1)
<1>1. InWords(r)
  BY ShapeInWords
<1>2. r.h \in Nat /\ r.b = r.h * r.h /\ r.b \in Nat /\ TopUnit(r) \in Nat /\ r.p \in Nat
  BY ShapeFacts DEF WordShape
<1>3. ASSUME Margin256(r) PROVE Estimates(r, v, Raw256(r, Top(r, v), Second(r, v)))
  <2> DEFINE off == r.p - TopUnit(r) * (r.b - r.h + 1)
  <2>1. Halved(r) /\ off \in Int /\ off * r.b <= TopUnit(r) /\ -off * r.b <= TopUnit(r)
    BY <1>2, <1>3 DEF Margin256, Halved
  <2>2. QED
    BY <1>1, <2>1, Estimates256
<1>4. ASSUME MarginSm2(r)
      PROVE  /\ Estimates(r, v, RawSm2(r, Top(r, v), Second(r, v)))
             /\ RawSm2(r, Top(r, v), Second(r, v)) <= r.b
  <2> DEFINE off == TopUnit(r) * (r.b - r.h) - r.p
  <2>1. Halved(r) /\ off \in Int /\ off >= 0 /\ off * r.h <= TopUnit(r) * (r.h - 3)
    BY <1>2, <1>4 DEF MarginSm2, Halved
  <2>2. QED
    BY <1>1, <2>1, EstimatesSm2
<1>5. ASSUME Margin384(r) PROVE Estimates(r, v, Top(r, v) + 1)
  BY <1>1, <1>5, Estimates384 DEF Margin384
<1>6. QED
  BY <1>3, <1>4, <1>5

\* Products by a word: the estimate is close enough for one correction.
LEMMA CmulFilled ==
  ASSUME NEW r, WordShape(r), NEW x \in 0..(r.p - 1), NEW w \in 0..(r.b - 1)
  PROVE  /\ Margin256(r) => bignum_cmul_p(r, cmul_p256(r, w, x), w, x)
         /\ MarginSm2(r) => bignum_cmul_p(r, cmul_sm2(r, w, x), w, x)
         /\ Margin384(r) => bignum_cmul_p(r, cmul_p384(r, w, x), w, x)
<1> DEFINE v == w * x
<1>1. v \in Nat /\ v < r.b * r.p
  BY WordProduct
<1>2. ASSUME Margin256(r) PROVE bignum_cmul_p(r, cmul_p256(r, w, x), w, x)
  <2> DEFINE q == Raw256(r, Top(r, v), Second(r, v))
  <2>1. Estimates(r, v, q)
    BY <1>1, <1>2, CurveEstimates
  <2> HIDE DEF q
  <2>2. q % r.b = q /\ Corrected(r, v, q) = v % r.p
    BY <2>1, EstimatedProduct
  <2>3. cmul_p256(r, w, x) = Corrected(r, v, q % r.b)
    BY DEF cmul_p256, q
  <2>4. QED
    BY <2>2, <2>3 DEF bignum_cmul_p
<1>3. ASSUME MarginSm2(r) PROVE bignum_cmul_p(r, cmul_sm2(r, w, x), w, x)
  <2> DEFINE q == RawSm2(r, Top(r, v), Second(r, v))
  <2>1. Estimates(r, v, q)
    BY <1>1, <1>3, CurveEstimates
  <2> HIDE DEF q
  <2>2. q % r.b = q /\ Corrected(r, v, q) = v % r.p
    BY <2>1, EstimatedProduct
  <2>3. cmul_sm2(r, w, x) = Corrected(r, v, q % r.b)
    BY DEF cmul_sm2, q
  <2>4. QED
    BY <2>2, <2>3 DEF bignum_cmul_p
<1>4. ASSUME Margin384(r) PROVE bignum_cmul_p(r, cmul_p384(r, w, x), w, x)
  <2>1. Estimates(r, v, Top(r, v) + 1)
    BY <1>1, <1>4, CurveEstimates
  <2>2. Close(v, Top(r, v) + 1, r.p)
    BY <2>1, EstimatedProduct
  <2>3. Folded(r, v) = v % r.p
    BY <1>1, <2>2, FoldedResidue
  <2>4. QED
    BY <2>3 DEF cmul_p384, bignum_cmul_p
<1>5. QED
  BY <1>2, <1>3, <1>4

-----------------------------------------------------------------------------
(* Into Montgomery form: modsteps.                                          *)

\* An equation that a recursive definition over 0..n states has a solution.
LEMMA RecEquation ==
  ASSUME NEW n \in Nat, NEW a \in Int, NEW h \in [Nat -> [Int -> Int]]
  PROVE  \E g \in [0..n -> Int] :
           g = [i \in 0..n |-> IF i = 0 THEN a ELSE h[i - 1][g[i - 1]]]
<1>1. PICK g : IsRec(g, a, h, n, Int)
  BY RecExistsInt
<1>2. g \in [0..n -> Int] /\ g[0] = a /\ \A i \in 0..(n-1) : g[i + 1] = h[i][g[i]]
  BY <1>1 DEF IsRec
<1>3. ASSUME NEW i \in 0..n, i # 0 PROVE g[i] = h[i - 1][g[i - 1]]
  <2>1. i - 1 \in 0..(n - 1) /\ (i - 1) + 1 = i
    BY <1>3
  <2>2. QED
    BY <1>2, <2>1
<1>4. g = [i \in 0..n |-> IF i = 0 THEN a ELSE h[i - 1][g[i - 1]]]
  BY <1>2, <1>3
<1>5. QED
  BY <1>2, <1>4

\* The residues of x * b^i, of which each follows from the one before.
Residues(r, x) == [i \in 0..r.n |-> (x * r.b ^ i) % r.p]

\* The residues of x * b^i: each is b times the one before.
LEMMA ResidueSteps ==
  ASSUME NEW r, WordShape(r), NEW x \in Int
  PROVE  /\ \A i \in 0..r.n : Residues(r, x)[i] \in 0..(r.p - 1)
         /\ Residues(r, x)[0] = x % r.p
         /\ Residues(r, x)[r.n] = (x * Size(r)) % r.p
         /\ \A i \in 1..r.n : Residues(r, x)[i] = (r.b * Residues(r, x)[i - 1]) % r.p
<1> DEFINE p == r.p
           n == r.n
           b == r.b
           F == Residues(r, x)
<1>1. p \in Nat /\ p > 0 /\ b \in Nat /\ n \in Nat
  BY ShapeFacts, WordPowers
<1>2. \A i \in 0..n : b ^ i \in Nat
  BY WordPowers
<1>3. \A i \in 0..(n - 1) : b ^ (i + 1) = b * b ^ i
  BY WordPowers
<1>4. b ^ 0 = 1 /\ Size(r) = b ^ n
  BY DEF WordShape, Size
<1>5. \A i \in 0..n : F[i] = (x * b ^ i) % p
  BY DEF Residues
<1> HIDE DEF p, b, n, F
<1>6. ASSUME NEW i \in 0..n PROVE F[i] \in 0..(p - 1)
  <2> DEFINE y == x * b ^ i
  <2>1. y \in Int
    BY <1>2
  <2>2. F[i] = y % p
    BY <1>5
  <2> HIDE DEF y
  <2>3. QED
    BY <1>1, <2>1, <2>2
<1>7. F[0] = x % p /\ F[n] = (x * Size(r)) % p
  <2>1. 0 \in 0..n /\ n \in 0..n /\ x * 1 = x
    BY <1>1
  <2>2. QED
    BY <1>4, <1>5, <2>1
<1>8. ASSUME NEW i \in 1..n PROVE F[i] = (b * F[i - 1]) % p
  <2>1. i - 1 \in 0..(n - 1) /\ i - 1 \in 0..n /\ (i - 1) + 1 = i /\ i \in 0..n
    BY <1>1
  <2> DEFINE u == b ^ (i - 1)
             y == x * u
  <2>2. u \in Nat /\ b ^ i = b * u /\ F[i] = (x * b ^ i) % p /\ F[i - 1] = y % p
    BY <1>2, <1>3, <1>5, <2>1
  <2> HIDE DEF u
  <2>3. y \in Int /\ b * y = x * (b * u)
    BY <1>1, <2>2
  <2> HIDE DEF y
  <2>4. b \in Int
    BY <1>1
  <2>5. (b * (y % p)) % p = (b * y) % p
    BY <1>1, <2>3, <2>4, ModTimes, Zenon
  <2>6. QED
    BY <2>2, <2>3, <2>5
<1>9. QED
  BY <1>6, <1>7, <1>8 DEF p, b, n, F

\* A recursion that follows them computes them.
LEMMA FollowsResidues ==
  ASSUME NEW r, WordShape(r), NEW x \in Int, NEW t,
         t[0] = x % r.p,
         \A i \in 1..r.n : t[i - 1] \in 0..(r.p - 1) => t[i] = (r.b * t[i - 1]) % r.p
  PROVE  t[r.n] = (x * Size(r)) % r.p
<1> DEFINE p == r.p
           n == r.n
           F == Residues(r, x)
           T == {i \in Nat : i <= n => t[i] = F[i]}
<1>1. n \in Nat
  BY WordPowers
<1>2. /\ \A i \in 0..n : F[i] \in 0..(p - 1)
      /\ F[0] = x % p /\ F[n] = (x * Size(r)) % p
      /\ \A i \in 1..n : F[i] = (r.b * F[i - 1]) % p
  BY ResidueSteps
<1> HIDE DEF F
<1>3. 0 \in T
  BY <1>2
<1>4. ASSUME NEW i \in T PROVE i + 1 \in T
  <2>1. SUFFICES ASSUME i + 1 <= n PROVE t[i + 1] = F[i + 1]
    OBVIOUS
  <2>2. i + 1 \in 1..n /\ (i + 1) - 1 = i /\ i \in 0..n /\ t[i] = F[i]
    BY <1>1, <2>1
  <2>3. t[i] \in 0..(p - 1)
    BY <1>2, <2>2
  <2>4. QED
    BY <1>2, <2>2, <2>3
<1>5. T = Nat
  <2>1. T \in SUBSET Nat
    OBVIOUS
  <2> HIDE DEF T
  <2>2. QED
    BY <1>3, <1>4, <2>1, InductionOnNat
<1>6. QED
  BY <1>1, <1>2, <1>5

\* x * b^n mod p, which the interface computes one word at a time.
LEMMA TimesRadixIs ==
  ASSUME NEW r, WordShape(r), NEW x \in Int
  PROVE  TimesRadix(r, x) = (x * Size(r)) % r.p
<1> DEFINE p == r.p
           n == r.n
           b == r.b
           F == Residues(r, x)
           E(t) == t = [i \in 0..n |-> IF i = 0 THEN x % p ELSE (t[i - 1] * b) % p]
           t == CHOOSE t : E(t)
<1>1. p \in Nat /\ b \in Nat /\ n \in Nat
  BY ShapeFacts, WordPowers
<1>2. TimesRadix(r, x) = t[n]
  BY DEF TimesRadix
<1>3. F = [i \in 0..n |-> F[i]]
  BY DEF Residues
<1>4. /\ \A i \in 0..n : F[i] \in 0..(p - 1)
      /\ F[0] = x % p /\ \A i \in 1..n : F[i] = (b * F[i - 1]) % p
  BY ResidueSteps
<1> HIDE DEF F, b, n, p
<1>5. ASSUME NEW y \in 0..(p - 1) PROVE (y * b) % p = (b * y) % p
  <2>1. y * b = b * y
    BY <1>1
  <2>2. QED
    BY <2>1
<1>6. E(F)
  <2>1. ASSUME NEW i \in 0..n, i # 0 PROVE F[i] = (F[i - 1] * b) % p
    <3>1. i \in 1..n /\ i - 1 \in 0..n
      BY <1>1, <2>1
    <3>2. QED
      BY <1>4, <1>5, <3>1
  <2>2. QED
    BY <1>3, <1>4, <2>1
<1>7. E(t)
  BY <1>6
<1> HIDE DEF t
<1>8. t[0] = x % p
  BY <1>1, <1>7
<1>9. ASSUME NEW i \in 1..n, t[i - 1] \in 0..(p - 1) PROVE t[i] = (b * t[i - 1]) % p
  <2>1. i \in 0..n /\ i # 0
    BY <1>1
  <2>2. t[i] = (t[i - 1] * b) % p
    BY <1>7, <2>1
  <2>3. QED
    BY <1>5, <1>9, <2>2
<1>10. t[n] = (x * Size(r)) % p
  BY <1>8, <1>9, FollowsResidues DEF p, b, n
<1>11. QED
  BY <1>2, <1>10 DEF p

-----------------------------------------------------------------------------
(* Multiplication by b^n: n words are appended.                             *)

\* The estimate is one that Corrected mends.
GoodEstimate(r) ==
  \A v \in Nat : v < r.b * r.p =>
    ModstepEstimate(r, v) \in Nat /\ Close(v, ModstepEstimate(r, v), r.p)

\* The estimate of each family is good enough for a modstep.
LEMMA ModstepGood ==
  ASSUME NEW r, WordShape(r),
         \/ r.family = "p256" /\ Margin256(r)
         \/ r.family = "sm2" /\ MarginSm2(r)
         \/ r.family = "p384" /\ Margin384(r)
  PROVE  GoodEstimate(r)
<1> SUFFICES ASSUME NEW v \in Nat, v < r.b * r.p
             PROVE  /\ ModstepEstimate(r, v) \in Nat
                    /\ Close(v, ModstepEstimate(r, v), r.p)
  BY DEF GoodEstimate
<1> DEFINE Cut(q) == IF q >= r.b THEN r.b - 1 ELSE q
<1>1. r.b \in Nat /\ r.b >= 2
  BY ShapeFacts
<1>2. ASSUME NEW q, Estimates(r, v, q), ModstepEstimate(r, v) = Cut(q)
      PROVE  ModstepEstimate(r, v) \in Nat /\ Close(v, ModstepEstimate(r, v), r.p)
  BY <1>1, <1>2 DEF Estimates
<1>3. CASE r.family = "p256" /\ Margin256(r)
  <2>1. ModstepEstimate(r, v) = Cut(Raw256(r, Top(r, v), Second(r, v)))
    BY <1>3 DEF ModstepEstimate, Estimate256, Saturated
  <2>2. QED
    BY <1>2, <1>3, <2>1, CurveEstimates
<1>4. CASE r.family = "sm2" /\ MarginSm2(r)
  <2> DEFINE raw == RawSm2(r, Top(r, v), Second(r, v))
  <2>1. Estimates(r, v, raw) /\ raw <= r.b
    BY <1>4, CurveEstimates
  <2>2. raw \in Nat
    BY <2>1 DEF Estimates
  <2>3. ModstepEstimate(r, v) = Cut(raw)
    <3>1. ModstepEstimate(r, v) = EstimateSm2(r, Top(r, v), Second(r, v))
      BY <1>4 DEF ModstepEstimate
    <3>2. QED
      BY <1>1, <2>1, <2>2, <3>1, SaturatedSm2
  <2>4. QED
    BY <1>2, <2>1, <2>3
<1>5. CASE r.family = "p384" /\ Margin384(r)
  <2>1. ModstepEstimate(r, v) = Cut(Top(r, v) + 1)
    BY <1>5 DEF ModstepEstimate, Estimate384, Saturated
  <2>2. QED
    BY <1>2, <1>5, <2>1, CurveEstimates
<1>6. QED
  BY <1>3, <1>4, <1>5

\* n modsteps take a number to Montgomery form.
LEMMA ModstepsIs ==
  ASSUME NEW r, WordShape(r), GoodEstimate(r), Size(r) <= 2 * r.p,
         NEW x \in 0..(Size(r) - 1)
  PROVE  bignum_tomont_p(r, Modsteps(r, x), x)
<1> DEFINE p == r.p
           n == r.n
           b == r.b
           a == mod_p256_4(r, x)
           F == Residues(r, x)
           step(y) == Corrected(r, b * y, ModstepEstimate(r, b * y))
           E(t) == t = [i \in 0..n |-> IF i = 0 THEN a ELSE step(t[i - 1])]
           t == CHOOSE t : E(t)
<1>1. p \in Nat /\ p > 0 /\ b \in Nat /\ b >= 2 /\ n \in Nat /\ x \in Int /\ Size(r) \in Nat /\ p < Size(r)
  BY ShapeFacts, WordPowers
<1>2. Modsteps(r, x) = t[n]
  BY DEF Modsteps
<1>3. a = x % p
  BY ModFilled DEF bignum_mod_p
<1>4. ASSUME NEW y \in 0..(p - 1) PROVE step(y) = (b * y) % p
  <2> DEFINE v == b * y
             q == ModstepEstimate(r, v)
  <2>1. v \in Nat /\ v < b * p
    <3>1. b * (y + 1) <= b * p /\ b * (y + 1) = b * y + b /\ b * y \in Nat /\ b * p \in Nat
      BY <1>1
    <3>2. QED
      BY <1>1, <3>1
  <2>2. q \in Nat /\ Close(v, q, p)
    BY <2>1 DEF GoodEstimate
  <2> HIDE DEF v, q
  <2>3. Corrected(r, v, q) = v % p
    BY <1>1, <2>1, <2>2, MaskedCorrection
  <2>4. QED
    BY <2>3 DEF v, q
<1>5. F = [i \in 0..n |-> F[i]]
  BY DEF Residues
<1>6. /\ \A i \in 0..n : F[i] \in 0..(p - 1)
      /\ F[0] = x % p /\ \A i \in 1..n : F[i] = (b * F[i - 1]) % p
  BY <1>1, ResidueSteps
<1> HIDE DEF F, b, n, p, a, step
<1>7. E(F)
  <2>1. ASSUME NEW i \in 0..n, i # 0 PROVE F[i] = step(F[i - 1])
    <3>1. i \in 1..n /\ i - 1 \in 0..n
      BY <1>1, <2>1
    <3>2. QED
      BY <1>4, <1>6, <3>1
  <2>2. QED
    BY <1>3, <1>5, <1>6, <2>1
<1>8. E(t)
  BY <1>7
<1> HIDE DEF t
<1>9. t[0] = x % p
  BY <1>1, <1>3, <1>8
<1>10. ASSUME NEW i \in 1..n, t[i - 1] \in 0..(p - 1) PROVE t[i] = (b * t[i - 1]) % p
  <2>1. i \in 0..n /\ i # 0
    BY <1>1
  <2>2. t[i] = step(t[i - 1])
    BY <1>8, <2>1
  <2>3. QED
    BY <1>4, <1>10, <2>2
<1>11. t[n] = (x * Size(r)) % p
  BY <1>1, <1>9, <1>10, FollowsResidues DEF p, b, n
<1>12. TimesRadix(r, x) = (x * Size(r)) % p
  BY <1>1, TimesRadixIs DEF p
<1>13. QED
  BY <1>2, <1>11, <1>12 DEF bignum_tomont_p

-----------------------------------------------------------------------------
(* Out of Montgomery form: rows.                                            *)

\* The multiplier makes the lowest word vanish.
Cancels(r) ==
  \A v \in Nat : LET w == Multiplier(r, v % r.b)
                 IN  w \in 0..(r.b - 1) /\ \E s \in Int : v + w * r.p = r.b * s

\* The multiplier of a row makes the low word of the sum zero.
LEMMA MultiplierCancels ==
  ASSUME NEW r, WordShape(r),
         r.p % r.b = IF r.family = "p384" THEN r.h - 1 ELSE r.b - 1
  PROVE  Cancels(r)
<1> SUFFICES ASSUME NEW v \in Nat
             PROVE  LET w == Multiplier(r, v % r.b)
                    IN  w \in 0..(r.b - 1) /\ \E s \in Int : v + w * r.p = r.b * s
  BY DEF Cancels
<1> DEFINE b == r.b
           h == r.h
           p == r.p
           d == v % b
           w == Multiplier(r, d)
           a == v \div b
           f == p \div b
           g == p % b
<1>1. b \in Nat /\ b >= 4 /\ h \in Nat /\ b = h * h /\ p \in Nat
      /\ b > 0 /\ v \in Int /\ p \in Int
  BY ShapeFacts DEF WordShape
<1>2. a \in Int /\ d \in Int /\ v = b * a + d /\ 0 <= d /\ d < b
  BY <1>1, DivMod, Zenon
<1>3. f \in Int /\ g \in Int /\ p = b * f + g
  BY <1>1, DivMod, Zenon
<1>4. g = IF r.family = "p384" THEN h - 1 ELSE b - 1
  OBVIOUS
<1>5. w = IF r.family = "p384" THEN (d + d * h) % b ELSE d
  BY DEF Multiplier
<1> HIDE DEF b, h, p, d, w, a, f, g
<1>6. CASE r.family # "p384"
  <2> DEFINE s == a + d * f + d
  <2>1. v + w * p = b * s /\ s \in Int
    <3>1. d * p = b * (d * f) + d * (b - 1)
      BY <1>1, <1>2, <1>3, <1>4, <1>6
    <3>2. b * s = b * a + b * (d * f) + b * d /\ s \in Int
      BY <1>1, <1>2, <1>3
    <3>3. d * (b - 1) = b * d - d /\ b * d \in Int /\ b * a \in Int /\ b * (d * f) \in Int
      BY <1>1, <1>2, <1>3
    <3> HIDE DEF s
    <3>4. QED
      BY <1>2, <1>5, <1>6, <3>1, <3>2, <3>3
  <2>2. w \in 0..(b - 1)
    BY <1>1, <1>2, <1>5, <1>6
  <2>3. QED
    BY <2>1, <2>2 DEF w, b, p, d
<1>7. CASE r.family = "p384"
  <2> DEFINE u == d + d * h
             j == u \div b
             s == a + w * f + d - j * (h - 1)
  <2>1. u \in Int
    BY <1>1, <1>2
  <2>2. j \in Int /\ w \in Int /\ u = b * j + w /\ 0 <= w /\ w < b
    <3>1. w = u % b
      BY <1>5, <1>7
    <3> HIDE DEF u
    <3>2. QED
      BY <1>1, <2>1, <3>1, DivMod, Zenon
  <2>3. u * (h - 1) = d * b - d
    BY <1>1, <1>2
  <2> HIDE DEF j, u
  <2>4. v + w * p = b * s /\ s \in Int
    <3>1. w * p = b * (w * f) + w * (h - 1)
      BY <1>1, <1>3, <1>4, <1>7, <2>2
    <3>2. w * (h - 1) = u * (h - 1) - b * (j * (h - 1))
      <4>1. w = u - b * j
        BY <1>1, <2>1, <2>2
      <4>2. (u - b * j) * (h - 1) = u * (h - 1) - b * (j * (h - 1))
        BY <1>1, <2>1, <2>2
      <4>3. QED
        BY <4>1, <4>2
    <3>3. b * s = b * a + b * (w * f) + b * d - b * (j * (h - 1)) /\ s \in Int
      BY <1>1, <1>2, <1>3, <2>2
    <3>4. /\ b * a \in Int /\ b * (w * f) \in Int /\ b * d \in Int /\ d * b = b * d
          /\ b * (j * (h - 1)) \in Int
      BY <1>1, <1>2, <1>3, <2>2
    <3> HIDE DEF s
    <3>5. QED
      BY <1>2, <2>3, <3>1, <3>2, <3>3, <3>4
  <2>5. w \in 0..(b - 1)
    BY <1>1, <2>2
  <2>6. QED
    BY <2>4, <2>5 DEF w, b, p, d
<1>8. QED
  BY <1>6, <1>7

\* A multiple of p below Size(r) * p has been added to x and n words cut off.
Reduces(r, x, y) == y \in Nat /\ \E q \in 0..(Size(r) - 1) : Size(r) * y = x + q * r.p

\* n rows divide by Size modulo p, with a quotient of n words.
LEMMA MontredsReduces ==
  ASSUME NEW r, WordShape(r), Cancels(r), NEW x \in Nat
  PROVE  Reduces(r, x, Montreds(r, x))
<1> DEFINE p == r.p
           n == r.n
           b == r.b
           step(y) == (y + Multiplier(r, y % b) * p) \div b
           E(t) == t = [i \in 0..n |-> IF i = 0 THEN x ELSE step(t[i - 1])]
           t == CHOOSE t : E(t)
           g == [i \in Nat |-> [y \in Int |-> step(y)]]
<1>1. p \in Nat /\ b \in Nat /\ b >= 4 /\ n \in Nat /\ r.h \in Nat
  BY ShapeFacts, WordPowers DEF WordShape
<1>2. Montreds(r, x) = t[n]
  BY DEF Montreds
<1>3. \A i \in 0..n : b ^ i \in Nat /\ b ^ i > 0
  BY WordPowers
<1>4. \A i \in 0..(n - 1) : b ^ (i + 1) = b * b ^ i
  BY WordPowers
<1>5. b ^ 0 = 1 /\ Size(r) = b ^ n
  BY DEF WordShape, Size
<1>6. \A y \in Int : step(y) \in Int
  <2> SUFFICES ASSUME NEW y \in Int PROVE step(y) \in Int
    OBVIOUS
  <2>1. y % b \in Int
    BY <1>1
  <2>2. Multiplier(r, y % b) \in Int
    BY <1>1, <2>1 DEF Multiplier
  <2> DEFINE s == y + Multiplier(r, y % b) * p
  <2>3. s \in Int
    BY <1>1, <2>2
  <2> HIDE DEF s
  <2>4. s \div b \in Int
    BY <1>1, <2>3
  <2>5. QED
    BY <2>4 DEF s
<1>7. ASSUME NEW y \in Nat
      PROVE  step(y) \in Nat /\ \E w \in 0..(b - 1) : b * step(y) = y + w * p
  <2> DEFINE w == Multiplier(r, y % b)
  <2>1. w \in 0..(b - 1) /\ \E s \in Int : y + w * p = b * s
    BY DEF Cancels
  <2> HIDE DEF w
  <2>2. PICK s \in Int : y + w * p = b * s
    BY <2>1
  <2>3. w * p \in Nat
    BY <1>1, <2>1
  <2>4. b * s >= 0
    BY <2>2, <2>3
  <2>5. s >= 0
    <3>1. CASE s <= -1
      <4>1. b * s <= -b
        BY <1>1, <3>1
      <4>2. QED
        BY <1>1, <2>4, <4>1
    <3>2. QED
      BY <3>1
  <2>6. (b * s + 0) \div b = s
    BY <1>1, DivUnique
  <2>7. step(y) = s
    <3>1. b * s + 0 = y + w * p
      BY <2>2, <2>3
    <3>2. QED
      BY <2>6, <3>1 DEF w
  <2> HIDE DEF step
  <2>8. QED
    BY <2>1, <2>2, <2>5, <2>7
<1> HIDE DEF p, b, n, step
<1>8. E(t)
  <2>1. g \in [Nat -> [Int -> Int]]
    BY <1>6
  <2>2. PICK F \in [0..n -> Int] : F = [i \in 0..n |-> IF i = 0 THEN x ELSE g[i - 1][F[i - 1]]]
    <3> HIDE DEF g
    <3>1. x \in Int /\ n \in Nat
      BY <1>1
    <3>2. QED
      BY ONLY <2>1, <3>1, RecEquation, ZenonT(60)
  <2>3. ASSUME NEW i \in 0..n, i # 0 PROVE g[i - 1][F[i - 1]] = step(F[i - 1])
    <3>1. i - 1 \in 0..n /\ i - 1 \in Nat
      BY <1>1, <2>3
    <3>2. F[i - 1] \in Int
      BY <2>2, <3>1
    <3>3. QED
      BY <3>1, <3>2
  <2> HIDE DEF g
  <2>4. E(F)
    BY <2>2, <2>3
  <2>5. QED
    BY <2>4
<1> HIDE DEF t, g
<1> DEFINE Good(i) == t[i] \in Nat /\ \E q \in 0..(b ^ i - 1) : b ^ i * t[i] = x + q * p
           T == {i \in Nat : i <= n => Good(i)}
<1>9. 0 \in T
  <2>1. t[0] = x
    BY <1>1, <1>8
  <2>2. 0 \in 0..(1 - 1) /\ 1 * x = x + 0 * p
    BY <1>1
  <2>3. QED
    BY <1>5, <2>1, <2>2
<1>10. ASSUME NEW i \in T PROVE i + 1 \in T
  <2>1. SUFFICES ASSUME i + 1 <= n PROVE Good(i + 1)
    OBVIOUS
  <2>2. i \in 0..(n - 1) /\ i \in 0..n /\ i + 1 \in 0..n /\ i + 1 # 0 /\ (i + 1) - 1 = i
    BY <1>1, <2>1
  <2>3. t[i + 1] = step(t[i]) /\ t[i] \in Nat
    BY <1>1, <1>8, <2>1, <2>2
  <2> DEFINE u == b ^ i
             y == t[i]
             z1 == t[i + 1]
  <2>4. u \in Nat /\ u > 0 /\ b ^ (i + 1) = b * u
    BY <1>3, <1>4, <2>2
  <2>5. PICK q \in 0..(u - 1) : u * y = x + q * p
    <3>1. Good(i)
      BY <2>1, <2>2
    <3>2. QED
      BY <3>1
  <2>6. PICK w \in 0..(b - 1) : b * z1 = y + w * p
    BY <1>7, <2>3
  <2>7. z1 \in Nat
    BY <1>7, <2>3
  <2> DEFINE s == q + u * w
  <2> HIDE DEF u, y, z1
  <2>8. s \in 0..(b * u - 1)
    <3>1. u * w <= u * (b - 1) /\ u * (b - 1) = b * u - u /\ u * w \in Nat /\ b * u \in Nat
      BY <1>1, <2>4
    <3>2. QED
      BY <2>4, <3>1
  <2>9. (b * u) * z1 = x + s * p
    <3>1. (b * u) * z1 = u * (b * z1)
      BY <1>1, <2>4, <2>7
    <3>2. u * (y + w * p) = u * y + (u * w) * p /\ s * p = q * p + (u * w) * p
      BY <1>1, <2>3, <2>4 DEF y
    <3>3. q * p \in Int /\ (u * w) * p \in Int
      BY <1>1, <2>4
    <3> HIDE DEF s
    <3>4. QED
      BY <2>5, <2>6, <3>1, <3>2, <3>3
  <2> HIDE DEF s
  <2>10. QED
    BY <2>4, <2>7, <2>8, <2>9 DEF z1
<1>11. T = Nat
  <2>1. T \in SUBSET Nat
    OBVIOUS
  <2> HIDE DEF T
  <2>2. QED
    BY <1>9, <1>10, <2>1, InductionOnNat
<1>12. Good(n)
  <2>1. n \in T
    BY <1>1, <1>11
  <2>2. QED
    BY <1>1, <2>1
<1>13. QED
  BY <1>2, <1>5, <1>12 DEF Reduces, p

\* Multiplied by the size of n words, a number congruent to x * Size(r)^-1 is x.
LEMMA RadixIs ==
  ASSUME NEW r, WordShape(r), NEW x \in Int, NEW y \in Int, NEW q \in Int,
         Size(r) * y = x + q * r.p
  PROVE  TimesRadix(r, y % r.p) = x % r.p
<1> DEFINE p == r.p
           S == Size(r)
           s == S * y
<1>1. p \in Nat /\ p > 0 /\ S \in Nat
  BY ShapeFacts
<1>2. y % p \in Int
  BY <1>1
<1>3. TimesRadix(r, y % p) = ((y % p) * S) % p
  BY <1>2, TimesRadixIs
<1> HIDE DEF p, S
<1>4. S \in Int /\ s \in Int /\ s = x + p * q /\ (y % p) * S = S * (y % p)
  BY <1>1, <1>2 DEF p, S
<1>5. (S * (y % p)) % p = s % p
  BY <1>1, <1>4, ModTimes, Zenon
<1> HIDE DEF s
<1>6. s % p = x % p
  BY <1>1, <1>4, ModShift, Zenon
<1>7. QED
  BY <1>3, <1>4, <1>5, <1>6 DEF p

\* How large the result of n rows is, and that it is the right residue.
LEMMA ReducesFacts ==
  ASSUME NEW r, WordShape(r), NEW x \in Nat, NEW y, Reduces(r, x, y)
  PROVE  /\ y \in Nat
         /\ x < r.p => y < r.p
         /\ x < Size(r) => y <= r.p
         /\ x <= Size(r) * r.p => y < 2 * r.p
         /\ TimesRadix(r, y % r.p) = x % r.p
<1> DEFINE p == r.p
           S == Size(r)
<1>1. p \in Nat /\ p > 2 /\ S \in Nat /\ S > 0
  BY ShapeFacts
<1>2. y \in Nat
  BY DEF Reduces
<1>3. PICK q \in 0..(S - 1) : S * y = x + q * p
  BY DEF Reduces
<1>4. TimesRadix(r, y % p) = x % p
  <2>1. x \in Int /\ y \in Int /\ q \in Int
    BY <1>1, <1>2
  <2>2. QED
    BY <1>3, <2>1, RadixIs
<1> HIDE DEF p, S
<1>5. q * p <= (S - 1) * p /\ (S - 1) * p = S * p - p /\ q * p \in Nat /\ S * p \in Nat
  BY <1>1
<1>6. S * y <= x + S * p - p /\ S * y \in Int
  BY <1>1, <1>2, <1>3, <1>5
<1>7. ASSUME NEW v \in Nat, S * y < S * v PROVE y < v
  BY <1>1, <1>2, <1>7
<1>8. x < p => y < p
  BY <1>1, <1>5, <1>6, <1>7
<1>9. x < S => y <= p
  <2>1. S * (p + 1) = S * p + S /\ p + 1 \in Nat
    BY <1>1
  <2>2. x < S => y < p + 1
    BY <1>1, <1>5, <1>6, <1>7, <2>1
  <2>3. QED
    BY <1>1, <1>2, <2>2
<1>10. x <= S * p => y < 2 * p
  <2>1. S * (2 * p) = S * p + S * p /\ 2 * p \in Nat
    BY <1>1
  <2>2. QED
    BY <1>1, <1>5, <1>6, <1>7, <2>1
<1>11. QED
  BY <1>2, <1>4, <1>8, <1>9, <1>10 DEF p, S

\* A residue as the result.
LEMMA ResidueIn ==
  ASSUME NEW r, WordShape(r), NEW y \in Int
  PROVE  /\ y % r.p \in 0..(r.p - 1) /\ y % r.p \in Int
         /\ 0 <= y /\ y < r.p => y % r.p = y
<1>1. r.p \in Nat /\ r.p > 0
  BY ShapeFacts
<1>2. QED
  BY <1>1, ResidueNear

\* Out of Montgomery form, for a reduced number: no correction is needed.
LEMMA DemontFilled ==
  ASSUME NEW r, WordShape(r), Cancels(r), NEW x \in 0..(r.p - 1)
  PROVE  bignum_demont_p(r, Montreds(r, x), x)
<1> DEFINE y == Montreds(r, x)
<1>1. r.p \in Nat /\ x \in Nat /\ x < r.p
  BY ShapeFacts
<1>2. Reduces(r, x, y)
  BY <1>1, MontredsReduces
<1> HIDE DEF y
<1>3. y \in Nat /\ y < r.p /\ TimesRadix(r, y % r.p) = x % r.p
  BY <1>1, <1>2, ReducesFacts
<1>4. x \in Int /\ y \in Int
  BY <1>1, <1>3
<1>5. y % r.p = y /\ x % r.p = x
  BY <1>1, <1>3, <1>4, ResidueIn
<1>6. y \in 0..(r.p - 1)
  BY <1>1, <1>3
<1>7. QED
  BY <1>3, <1>5, <1>6 DEF bignum_demont_p, Residue, y

\* The same for any number of n words: one subtraction is needed.
LEMMA DeamontFilled ==
  ASSUME NEW r, WordShape(r), Cancels(r), NEW x \in 0..(Size(r) - 1)
  PROVE  bignum_deamont_p(r, Subtracted(r, Montreds(r, x)), x)
<1> DEFINE y == Montreds(r, x)
<1>1. r.p \in Nat /\ r.p > 2 /\ x \in Nat /\ x < Size(r) /\ Size(r) \in Nat
  BY ShapeFacts
<1>2. Reduces(r, x, y)
  BY <1>1, MontredsReduces
<1> HIDE DEF y
<1>3. y \in Nat /\ y <= r.p /\ TimesRadix(r, y % r.p) = x % r.p
  BY <1>1, <1>2, ReducesFacts
<1>4. y \in 0..(2 * r.p - 1) /\ y \in Int
  BY <1>1, <1>3
<1>5. Subtracted(r, y) = y % r.p /\ y % r.p \in 0..(r.p - 1)
  BY <1>4, SubtractedResidue, ResidueIn
<1>6. QED
  BY <1>3, <1>5 DEF bignum_deamont_p, Residue, y

\* The reduction of the low half of a product, added to the high half.
LEMMA ProductReduces ==
  ASSUME NEW r, WordShape(r), NEW v \in Nat, NEW y, Reduces(r, Lo(r, v), y)
  PROVE  Reduces(r, v, y + Hi(r, v))
<1> DEFINE S == Size(r)
           H == Hi(r, v)
           L == Lo(r, v)
<1>1. S \in Nat /\ r.p \in Nat
  BY ShapeFacts
<1>2. H \in Nat /\ L \in Nat /\ v = S * H + L /\ S * H \in Nat
  BY HiLo
<1>3. y \in Nat /\ \E q \in 0..(S - 1) : S * y = L + q * r.p
  BY DEF Reduces
<1>4. PICK q \in 0..(S - 1) : S * y = L + q * r.p
  BY <1>3
<1> HIDE DEF S, H, L
<1>5. S * (y + H) = S * y + S * H /\ q * r.p \in Int
  BY <1>1, <1>2, <1>3
<1>6. S * (y + H) = v + q * r.p /\ y + H \in Nat
  BY <1>2, <1>3, <1>4, <1>5
<1>7. QED
  BY <1>6 DEF Reduces, S, H

\* Montgomery products: one subtraction corrects whenever x * y <= Size * p.
LEMMA MontmulFilled ==
  ASSUME NEW r, WordShape(r), Cancels(r), NEW x \in Nat, NEW y \in Nat,
         x * y <= Size(r) * r.p
  PROVE  /\ bignum_montmul_p(r, montmul_p256(r, x, y), x, y)
         /\ bignum_montmul_p(r, montmul_p384(r, x, y), x, y)
<1> DEFINE v == x * y
           u == Montreds(r, Lo(r, v)) + Hi(r, v)
<1>1. r.p \in Nat /\ r.p > 0 /\ v \in Nat /\ v <= Size(r) * r.p
  BY ShapeFacts
<1>2. montmul_p256(r, x, y) = Subtracted(r, u) /\ montmul_p384(r, x, y) = Subtracted(r, u)
  BY DEF montmul_p256, montmul_p384
<1> HIDE DEF v
<1>3. Reduces(r, v, u)
  <2>1. Lo(r, v) \in Nat
    BY <1>1, HiLo
  <2>2. Reduces(r, Lo(r, v), Montreds(r, Lo(r, v)))
    BY <2>1, MontredsReduces
  <2>3. QED
    BY <1>1, <2>2, ProductReduces
<1> HIDE DEF u
<1>4. u \in Nat /\ u < 2 * r.p /\ TimesRadix(r, u % r.p) = v % r.p
  BY <1>1, <1>3, ReducesFacts
<1>5. u \in 0..(2 * r.p - 1) /\ u \in Int
  BY <1>1, <1>4
<1>6. Subtracted(r, u) = u % r.p /\ u % r.p \in 0..(r.p - 1)
  BY <1>5, SubtractedResidue, ResidueIn
<1>7. QED
  BY <1>2, <1>4, <1>6 DEF bignum_montmul_p, Residue, v

-----------------------------------------------------------------------------
(* 2^255 - 19.                                                              *)

-----------------------------------------------------------------------------
(* p25519 = m - e, one bit short of its words.                              *)

\* The shape of 2^255 - 19: a bit short of its words.
Short25519(r) == /\ WordShape(r) /\ r.m \in Nat /\ r.e \in Nat /\ r.e > 0
                 /\ Size(r) = 2 * r.m /\ r.p = r.m - r.e

\* Remainders modulo p, m and Size of what is within one modulus of them.
LEMMA ShortFacts ==
  ASSUME NEW r, Short25519(r)
  PROVE  /\ r.p \in Nat /\ r.p > 2 /\ r.m \in Nat /\ r.m > 0 /\ r.e \in Nat /\ r.e > 0
         /\ r.p = r.m - r.e /\ Size(r) = 2 * r.m
         /\ \A v \in Int : /\ 0 <= v /\ v < r.p => v % r.p = v
                           /\ r.p <= v /\ v < 2 * r.p => v % r.p = v - r.p
                           /\ -r.p <= v /\ v < 0 => v % r.p = v + r.p
         /\ \A v \in Int : /\ 0 <= v /\ v < r.m => v % r.m = v
                           /\ r.m <= v /\ v < 2 * r.m => v % r.m = v - r.m
                           /\ -r.m <= v /\ v < 0 => v % r.m = v + r.m
         /\ \A v \in Int :
              /\ 0 <= v /\ v < 2 * r.m => Lo(r, v) = v
              /\ 2 * r.m <= v /\ v < 4 * r.m => Lo(r, v) = v - 2 * r.m
              /\ -(2 * r.m) <= v /\ v < 0 => Lo(r, v) = v + 2 * r.m
<1>1. /\ r.p \in Nat /\ r.p > 2 /\ r.m \in Nat /\ r.m > 0 /\ r.e \in Nat /\ r.e > 0
      /\ r.p = r.m - r.e /\ Size(r) = 2 * r.m
  BY ShapeFacts DEF Short25519
<1>2. WordShape(r)
  BY DEF Short25519
<1>3. \A v \in Int :
        /\ 0 <= v /\ v < 2 * r.m => Lo(r, v) = v
        /\ 2 * r.m <= v /\ v < 4 * r.m => Lo(r, v) = v - 2 * r.m
        /\ -(2 * r.m) <= v /\ v < 0 => Lo(r, v) = v + 2 * r.m
  BY <1>1, <1>2, LoNear
<1>4. \A v \in Int : /\ 0 <= v /\ v < r.p => v % r.p = v
                     /\ r.p <= v /\ v < 2 * r.p => v % r.p = v - r.p
                     /\ -r.p <= v /\ v < 0 => v % r.p = v + r.p
  <2>1. r.p \in Nat /\ r.p > 0
    BY <1>1
  <2>2. QED
    BY <2>1, ResidueNear
<1>5. \A v \in Int : /\ 0 <= v /\ v < r.m => v % r.m = v
                     /\ r.m <= v /\ v < 2 * r.m => v % r.m = v - r.m
                     /\ -r.m <= v /\ v < 0 => v % r.m = v + r.m
  BY <1>1, ResidueNear
<1>6. QED
  BY <1>1, <1>3, <1>4, <1>5

\* Sums, differences and negations modulo 2^255 - 19.
LEMMA Linear25519 ==
  ASSUME NEW r, Short25519(r), NEW x \in 0..(r.p - 1), NEW y \in 0..(r.p - 1), NEW q \in Nat
  PROVE  /\ bignum_add_p(r, add_p25519(r, x, y), x, y)
         /\ bignum_double_p(r, add_p25519(r, x, x), x)
         /\ bignum_sub_p(r, sub_p25519(r, x, y), x, y)
         /\ bignum_neg_p(r, neg_p25519(r, x), x)
         /\ bignum_optneg_p(r, optneg_p25519(r, q, x), q, x)
<1>1. x \in Int /\ y \in Int /\ 0 <= x /\ 0 <= y /\ x < r.p /\ y < r.p
  BY ShortFacts
<1>2. ASSUME NEW a \in 0..(r.p - 1), NEW b \in 0..(r.p - 1)
      PROVE  add_p25519(r, a, b) = (a + b) % r.p
  <2>1. /\ a + b \in Int /\ 0 <= a + b /\ a + b < 2 * r.p /\ r.p \in Int
        /\ r.p = r.m - r.e /\ r.m \in Nat /\ r.e \in Nat /\ Size(r) = 2 * r.m
    BY ShortFacts
  <2> DEFINE w == a + b
             s == w + r.e + r.m
  <2>2. add_p25519(r, a, b) = IF s < Size(r) THEN w ELSE Lo(r, s)
    BY DEF add_p25519
  <2>6. w \in Int /\ 0 <= w /\ w < 2 * r.p
    BY <2>1
  <2> HIDE DEF w
  <2>3. CASE w < r.p
    <3>1. w % r.p = w
      BY <2>6, <2>3, ShortFacts
    <3>2. s < Size(r)
      BY <2>1, <2>3, <2>6
    <3>3. QED
      BY <2>2, <3>1, <3>2 DEF w
  <2>4. CASE ~(w < r.p)
    <3>1. w % r.p = w - r.p
      <4>1. r.p <= w
        BY <2>1, <2>4, <2>6
      <4>2. QED
        BY <4>1, <2>6, ShortFacts
    <3>2. s \in Int /\ 2 * r.m <= s /\ s < 4 * r.m /\ s - 2 * r.m = w - r.p
      BY <2>1, <2>4, <2>6
    <3>3. Lo(r, s) = s - 2 * r.m
      <4> HIDE DEF s
      <4>1. QED
        BY <3>2, ShortFacts
    <3>4. ~(s < Size(r))
      BY <2>1, <3>2
    <3>5. QED
      BY <2>2, <3>1, <3>2, <3>3, <3>4 DEF w
  <2>5. QED
    BY <2>3, <2>4
<1>3. 2 * x = x + x
  BY <1>1
<1>4. bignum_sub_p(r, sub_p25519(r, x, y), x, y)
  <2>1. CASE x < y
    <3> DEFINE d == x - y
    <3>1. d \in Int /\ -r.p < d /\ d < 0
      BY <1>1, <2>1, ShortFacts
    <3>2. sub_p25519(r, x, y) = Lo(r, d - r.e) % r.m
      BY <2>1 DEF sub_p25519, Under
    <3> HIDE DEF d
    <3>3. Lo(r, d - r.e) = d - r.e + 2 * r.m
      <4>1. d - r.e \in Int /\ -(2 * r.m) <= d - r.e /\ d - r.e < 0
        BY <3>1, ShortFacts
      <4>2. QED
        BY <4>1, ShortFacts
    <3>4. (d - r.e + 2 * r.m) % r.m = d - r.e + r.m
      <4>1. /\ d - r.e + 2 * r.m \in Int
            /\ r.m <= d - r.e + 2 * r.m /\ d - r.e + 2 * r.m < 2 * r.m
        BY <3>1, ShortFacts
      <4>2. (d - r.e + 2 * r.m) % r.m = (d - r.e + 2 * r.m) - r.m
        BY <4>1, ShortFacts
      <4>3. QED
        BY <3>1, <4>2, ShortFacts
    <3>5. d % r.p = d + r.p
      BY <3>1, ShortFacts
    <3>6. d - r.e + r.m = d + r.p
      BY <3>1, ShortFacts
    <3>7. QED
      BY <3>2, <3>3, <3>4, <3>5, <3>6 DEF bignum_sub_p, d
  <2>2. CASE ~(x < y)
    <3> DEFINE d == x - y
    <3>1. d \in Int /\ 0 <= d /\ d < r.p /\ d < r.m /\ d < 2 * r.m
      BY <1>1, <2>2, ShortFacts
    <3>2. sub_p25519(r, x, y) = Lo(r, d - 0) % r.m /\ d - 0 = d
      BY <1>1, <2>2 DEF sub_p25519, Under
    <3> HIDE DEF d
    <3>3. Lo(r, d) = d /\ d % r.m = d /\ d % r.p = d
      BY <3>1, ShortFacts
    <3>4. QED
      BY <3>2, <3>3 DEF bignum_sub_p, d
  <2>3. QED
    BY <2>1, <2>2
<1>5. (-x) % r.p = IF x = 0 THEN 0 ELSE r.p - x
  <2>1. -x \in Int /\ r.p \in Nat /\ r.p > 0
    BY <1>1, ShortFacts
  <2>2. QED
    BY <1>1, <2>1, ResidueNear
<1>6. x # 0 => Lo(r, r.p - x) = r.p - x
  BY <1>1, ShortFacts
<1>7. bignum_neg_p(r, neg_p25519(r, x), x)
  BY <1>5, <1>6 DEF bignum_neg_p, neg_p25519, Under
<1>8. bignum_optneg_p(r, optneg_p25519(r, q, x), q, x)
  BY <1>5, <1>6 DEF bignum_optneg_p, optneg_p25519
<1>9. QED
  <2>1. add_p25519(r, x, y) = (x + y) % r.p /\ add_p25519(r, x, x) = (2 * x) % r.p
    BY <1>2, <1>3
  <2>2. QED
    BY <1>4, <1>7, <1>8, <2>1 DEF bignum_add_p, bignum_double_p

\* One more than the quotient by m, estimated before carried is added.
LEMMA Fold25519Residue ==
  ASSUME NEW r, Short25519(r), NEW v \in Nat, NEW a \in Nat,
         (v \div r.m + 1) * r.e + a <= r.p
  PROVE  Fold25519(r, v, a) = (v + a) % r.p
<1> DEFINE p == r.p
           M == r.m
           e == r.e
           Q == v \div M
           d == v % M
           q == Q + 1
           t == (v + a) - q * p
           s == d + M + (e * q) + a
           u == s - (IF s < Size(r) THEN e ELSE 0)
<1>1. /\ p \in Nat /\ p > 2 /\ M \in Nat /\ M > 0 /\ e \in Nat /\ e > 0
      /\ p = M - e /\ Size(r) = 2 * M /\ q * e + a <= p /\ v \in Int
  BY ShortFacts
<1>2. Q \in Nat /\ d \in Int /\ v = M * Q + d /\ 0 <= d /\ d < M
  <2>1. Q \in Nat
    BY <1>1, DivBounds
  <2>2. QED
    BY <1>1, <2>1, DivMod, Zenon
<1>3. Fold25519(r, v, a) = Lo(r, u) % M
  BY DEF Fold25519, Under
<1> HIDE DEF p, M, e, Q, d
<1>4. q \in Nat /\ q >= 1 /\ q * e \in Nat /\ q * e >= e /\ q * p \in Int
  BY <1>1, <1>2
<1>5. t = d - M + q * e + a /\ s = 2 * M + t /\ t \in Int
  <2>1. q * p = M * Q + M - q * e /\ M * Q \in Int /\ e * q = q * e
    BY <1>1, <1>2
  <2>2. QED
    BY <1>1, <1>2, <1>4, <2>1
<1>6. -p <= t /\ t < p
  BY <1>1, <1>2, <1>4, <1>5
<1> HIDE DEF t, s, q
<1>7. (v + a) % p = IF t >= 0 THEN t ELSE t + p
  <2>1. v + a \in Nat /\ q \in Nat /\ t = (v + a) - q * p
    BY <1>1, <1>4 DEF t
  <2>2. Close(v + a, q, p)
    BY <1>6, <2>1 DEF Close
  <2>3. QED
    BY <1>1, <2>1, <2>2, CloseRemainder
<1>8. CASE t >= 0
  <2>1. u = 2 * M + t /\ u \in Int /\ 2 * M <= u /\ u < 4 * M
    BY <1>1, <1>5, <1>6, <1>8
  <2> HIDE DEF u
  <2>2. Lo(r, u) = t
    <3>1. Lo(r, u) = u - 2 * M
      BY <2>1, ShortFacts DEF M
    <3>2. QED
      BY <1>1, <1>5, <2>1, <3>1
  <2>3. t % M = t
    <3>1. 0 <= t /\ t < M
      BY <1>1, <1>5, <1>6, <1>8
    <3>2. QED
      BY <1>5, <3>1, ShortFacts DEF M
  <2>4. QED
    BY <1>3, <1>7, <1>8, <2>2, <2>3 DEF p
<1>9. CASE t < 0
  <2>1. u = M + (t + p) /\ u \in Int /\ M <= u /\ u < 2 * M /\ 0 <= u
    BY <1>1, <1>5, <1>6, <1>9
  <2> HIDE DEF u
  <2>2. Lo(r, u) = u /\ u % M = u - M
    BY <2>1, ShortFacts DEF M
  <2>3. u - M = t + p /\ ~(t >= 0)
    BY <1>1, <1>5, <1>9, <2>1
  <2>4. QED
    BY <1>3, <1>7, <2>2, <2>3 DEF p
<1>10. QED
  BY <1>5, <1>8, <1>9

\* Products by a word and reduction of n words: one fold.
LEMMA Cmul25519 ==
  ASSUME NEW r, Short25519(r), r.b * r.e <= r.p
  PROVE  /\ \A x \in 0..(r.p - 1), w \in 0..(r.b - 1) :
              bignum_cmul_p(r, cmul_p25519(r, w, x), w, x)
         /\ \A x \in 0..(Size(r) - 1) : bignum_mod_p(r, mod_p25519_4(r, x), x)
<1> DEFINE M == r.m
           e == r.e
           p == r.p
           b == r.b
<1>1. /\ M \in Nat /\ M > 0 /\ e \in Nat /\ e > 0 /\ b \in Nat /\ b >= 4 /\ p = M - e
      /\ b * e <= p /\ Size(r) = 2 * M /\ p \in Nat
  BY ShapeFacts, ShortFacts DEF Short25519
<1>2. ASSUME NEW v \in Nat, v < (b - 1) * M PROVE Fold25519(r, v, 0) = v % p
  <2> DEFINE Q == v \div M
  <2>1. Q \in Nat /\ Q * M <= v
    BY <1>1, DivBounds
  <2> HIDE DEF Q, M, e, p, b
  <2>2. Q < b - 1
    <3>1. Q * M < (b - 1) * M /\ Q * M \in Int /\ (b - 1) * M \in Int
      BY <1>1, <1>2, <2>1
    <3>2. CASE Q >= b - 1
      <4>1. (b - 1) * M <= Q * M
        BY <1>1, <2>1, <3>2
      <4>2. QED
        BY <3>1, <4>1
    <3>3. QED
      BY <1>1, <2>1, <3>2
  <2>3. (Q + 1) * e <= b * e /\ (Q + 1) * e \in Int /\ b * e \in Int
    BY <1>1, <2>1, <2>2
  <2>4. (Q + 1) * e + 0 <= p /\ v + 0 = v
    BY <1>1, <2>3
  <2>5. QED
    BY <2>4, Fold25519Residue DEF Q, M, e, p
<1>3. ASSUME NEW x \in 0..(p - 1), NEW w \in 0..(b - 1)
      PROVE  bignum_cmul_p(r, cmul_p25519(r, w, x), w, x)
  <2> DEFINE v == w * x
  <2>1. v \in Nat /\ v < (b - 1) * p
    BY WordProduct DEF Short25519
  <2> HIDE DEF v
  <2>2. (b - 1) * p <= (b - 1) * M /\ (b - 1) * p \in Int /\ (b - 1) * M \in Int
    <3> HIDE DEF b, p, M, e
    <3>1. QED
      BY <1>1
  <2>3. v < (b - 1) * M
    BY <2>1, <2>2
  <2>4. Fold25519(r, v, 0) = v % p
    BY <1>2, <2>1, <2>3
  <2>5. QED
    BY <2>4 DEF bignum_cmul_p, cmul_p25519, v
<1>4. ASSUME NEW x \in 0..(Size(r) - 1) PROVE bignum_mod_p(r, mod_p25519_4(r, x), x)
  <2>1. x \in Nat /\ x < (b - 1) * M
    <3>1. x \in Nat /\ x < 2 * M
      BY <1>1
    <3> HIDE DEF b, M
    <3>2. 3 * M <= (b - 1) * M /\ (b - 1) * M \in Int
      BY <1>1
    <3>3. QED
      BY <1>1, <3>1, <3>2
  <2>2. QED
    BY <1>2, <2>1 DEF bignum_mod_p, mod_p25519_4
<1>5. QED
  BY <1>3, <1>4

\* A quotient of a quotient, and a remainder with one more word.
LEMMA WordOfQuotient ==
  ASSUME NEW x \in Int, NEW P \in Nat, P > 0, NEW s \in Nat, s > 0
  PROVE  /\ (x \div P) \div s = x \div (s * P)
         /\ x % (s * P) = (x % P) + ((x \div P) % s) * P
<1> DEFINE a == x \div P
           f == x % P
           g == a % s
           q == x \div (s * P)
<1>1. a = s * q + g
  BY Bitfields
<1>2. s * P \in Nat /\ s * P > 0
  OBVIOUS
<1>3. a \in Int /\ f \in Int /\ x = P * a + f /\ 0 <= f /\ f < P
  BY DivMod, Zenon
<1>4. q \in Int
  BY <1>2, DivMod, Zenon
<1> HIDE DEF a
<1>5. g \in Int /\ 0 <= g /\ g < s
  BY <1>3, DivMod, Zenon
<1>6. a \div s = q
  <2> HIDE DEF q, g
  <2>1. g \in 0..(s - 1)
    BY <1>5
  <2>2. QED
    BY <1>1, <1>4, <2>1, DivUnique
<1> HIDE DEF f, g, q
<1>7. x % (s * P) = f + g * P
  <2> DEFINE d == f + g * P
             w == s * P
  <2>1. d \in 0..(w - 1)
    <3>1. g * P <= (s - 1) * P /\ (s - 1) * P = s * P - P /\ g * P >= 0 /\ g * P \in Int
      BY <1>5
    <3>2. QED
      BY <1>2, <1>3, <3>1
  <2>2. x = w * q + d
    <3>1. P * (s * q + g) = (s * P) * q + g * P
      BY <1>4, <1>5
    <3>2. (s * P) * q \in Int /\ g * P \in Int
      BY <1>4, <1>5
    <3>3. QED
      BY <1>1, <1>3, <3>1, <3>2
  <2>3. w \in Nat /\ w > 0
    BY <1>2
  <2> HIDE DEF d, w
  <2>4. (w * q + d) % w = d
    BY <1>4, <2>1, <2>3, DivUnique
  <2>5. QED
    BY <2>2, <2>4 DEF d, w
<1>8. QED
  BY <1>6, <1>7 DEF a, f, g, q

\* The sums that a recursive definition over 0..n states.
LEMMA SumEquation ==
  ASSUME NEW n \in Nat, NEW t \in [Nat -> Int]
  PROVE  \E f \in [0..n -> Int] : f = [i \in 0..n |-> IF i = 0 THEN 0 ELSE f[i - 1] + t[i - 1]]
<1> DEFINE h == [i \in Nat |-> [y \in Int |-> y + t[i]]]
<1>1. h \in [Nat -> [Int -> Int]]
  OBVIOUS
<1>2. PICK f \in [0..n -> Int] : f = [i \in 0..n |-> IF i = 0 THEN 0 ELSE h[i - 1][f[i - 1]]]
  <2> HIDE DEF h
  <2>1. ASSUME NEW a \in Int
        PROVE  \E f \in [0..n -> Int] : f = [i \in 0..n |-> IF i = 0 THEN a ELSE h[i - 1][f[i - 1]]]
    <3>1. n \in Nat /\ a \in Int
      OBVIOUS
    <3>2. QED
      BY ONLY <1>1, <3>1, RecEquation, ZenonT(60)
  <2>2. 0 \in Int
    OBVIOUS
  <2>3. QED
    BY <2>1, <2>2
<1>3. ASSUME NEW i \in 0..n, i # 0 PROVE h[i - 1][f[i - 1]] = f[i - 1] + t[i - 1]
  <2>1. i - 1 \in Nat /\ i - 1 \in 0..n
    BY <1>3
  <2>2. f[i - 1] \in Int
    BY <2>1
  <2>3. QED
    BY <2>1, <2>2
<1> HIDE DEF h
<1>4. QED
  BY <1>2, <1>3

\* The words of the high half of a product.
LEMMA HighWord ==
  ASSUME NEW r, WordShape(r), NEW v \in Nat, NEW i \in 0..(r.n - 1)
  PROVE  /\ Word(r, v, r.n + i) \in 0..(r.b - 1)
         /\ Hi(r, v) % r.b ^ (i + 1) =
              (Hi(r, v) % r.b ^ i) + Word(r, v, r.n + i) * r.b ^ i
<1> DEFINE S == Size(r)
           b == r.b
           u == b ^ i
           H == Hi(r, v)
           W == Word(r, v, r.n + i)
<1>1. i \in 0..r.n /\ r.n \in Nat
  BY WordPowers
<1>2. b \in Nat /\ b > 0 /\ u \in Nat /\ u > 0 /\ S \in Nat /\ S > 0 /\ v \in Int
  BY <1>1, WordPowers, ShapeFacts
<1>3. b ^ (r.n + i) = S * u
  BY <1>1 DEF WordShape
<1>4. b ^ (i + 1) = b * u
  BY WordPowers
<1>5. H = v \div S
  BY DEF Hi
<1>6. H \in Nat
  BY HiLo
<1>7. W = (v \div (S * u)) % b
  BY <1>3 DEF Word
<1> HIDE DEF S, b, u, H, W
<1>8. (v \div S) \div u = v \div (u * S)
  BY <1>2, WordOfQuotient
<1>9. u * S = S * u
  BY <1>2
<1>10. W = (H \div u) % b
  BY <1>5, <1>7, <1>8, <1>9
<1>11. H \in Int
  BY <1>6
<1>12. H % (b * u) = (H % u) + ((H \div u) % b) * u
  BY <1>2, <1>11, WordOfQuotient
<1>13. W \in 0..(b - 1)
  <2> DEFINE d == H \div u
  <2>1. d \in Int
    BY <1>2, <1>6, DivBounds
  <2> HIDE DEF d
  <2>2. d % b \in 0..(b - 1)
    BY <1>2, <2>1
  <2>3. QED
    BY <1>10, <2>2 DEF d
<1>14. QED
  BY <1>4, <1>10, <1>12, <1>13 DEF b, u, H, W

\* The low and the high halves of the products of the words of the high half
\* with 2 * e, each in its place.
LEMMA HalvesSum ==
  ASSUME NEW r, WordShape(r), NEW v \in Nat, NEW e \in Nat, NEW low, NEW high,
         low[0] = 0, high[0] = 0,
         \A i \in 0..(r.n - 1) :
           LET d == 2 * e * Word(r, v, r.n + i)
           IN  /\ low[i + 1] = low[i] + (d % r.b) * r.b ^ i
               /\ high[i + 1] = high[i] + (d \div r.b) * r.b ^ (i + 1)
  PROVE  \A i \in 0..r.n :
           /\ low[i] \in Nat /\ high[i] \in Nat
           /\ low[i] + high[i] = (2 * e) * (Hi(r, v) % r.b ^ i)
           /\ i < r.n => high[i] <= high[i + 1]
<1> DEFINE n == r.n
           b == r.b
           H == Hi(r, v)
<1>1. n \in Nat /\ n > 0 /\ b \in Nat /\ b > 0
  BY WordPowers
<1>2. H \in Nat
  BY HiLo
<1>3. b ^ 0 = 1
  BY DEF WordShape
<1>4. ASSUME NEW i \in 0..(n - 1), low[i] \in Nat, high[i] \in Nat,
             low[i] + high[i] = (2 * e) * (H % b ^ i)
      PROVE  /\ low[i + 1] \in Nat /\ high[i + 1] \in Nat /\ high[i] <= high[i + 1]
             /\ low[i + 1] + high[i + 1] = (2 * e) * (H % b ^ (i + 1))
  <2> DEFINE W == Word(r, v, n + i)
             d == 2 * e * W
             u == b ^ i
             k1 == d % b
             k2 == d \div b
             f == H % u
  <2>1. i \in 0..n
    BY <1>1
  <2>2. u \in Nat /\ u > 0 /\ b ^ (i + 1) = b * u
    BY <2>1, WordPowers
  <2>3. W \in 0..(b - 1) /\ H % b ^ (i + 1) = f + W * u
    BY HighWord
  <2>4. low[i + 1] = low[i] + k1 * u /\ high[i + 1] = high[i] + k2 * (b * u)
    BY <2>2
  <2>5. f \in Int /\ H \in Int
    BY <1>2, <2>2
  <2> HIDE DEF n, b, H, W, u, f
  <2>6. d \in Nat
    BY <2>3
  <2> HIDE DEF d
  <2>7. k1 \in Nat /\ k2 \in Nat /\ d = b * k2 + k1
    <3>1. d \in Int
      BY <2>6
    <3>2. k1 \in Int /\ k2 \in Int /\ d = b * k2 + k1 /\ 0 <= k1
      BY <1>1, <3>1, DivMod, Zenon
    <3>3. k2 \in Nat
      BY <1>1, <2>6, DivBounds
    <3>4. QED
      BY <3>2, <3>3
  <2> HIDE DEF k1, k2
  <2>8. k1 * u \in Nat /\ k2 * (b * u) \in Nat
    BY <1>1, <2>2, <2>7
  <2>9. k1 * u + k2 * (b * u) = d * u
    BY <1>1, <2>2, <2>7
  <2>10. (2 * e) * (f + W * u) = (2 * e) * f + d * u
    BY <2>2, <2>3, <2>5 DEF d
  <2>11. (2 * e) * f \in Int /\ d * u \in Int
    BY <2>2, <2>5, <2>6
  <2>12. QED
    BY <1>4, <2>3, <2>4, <2>8, <2>9, <2>10, <2>11 DEF b, H, f, u
<1> DEFINE Good(i) == low[i] \in Nat /\ high[i] \in Nat /\ low[i] + high[i] = (2 * e) * (H % b ^ i)
           T == {i \in Nat : i <= n => Good(i)}
<1>5. 0 \in T
  <2> HIDE DEF H
  <2>1. H % 1 = 0 /\ (2 * e) * 0 = 0
    BY <1>2
  <2>2. Good(0)
    <3>1. (2 * e) * (H % b ^ 0) = 0
      BY <1>3, <2>1
    <3>2. QED
      BY <3>1
  <2>3. QED
    BY <2>2
<1>6. ASSUME NEW i \in T PROVE i + 1 \in T
  <2>1. SUFFICES ASSUME i + 1 <= n PROVE Good(i + 1)
    OBVIOUS
  <2>2. i \in 0..(n - 1) /\ Good(i)
    BY <1>1, <2>1
  <2> HIDE DEF n, b, H
  <2>3. QED
    BY <1>4, <2>2
<1>7. T = Nat
  <2>1. T \in SUBSET Nat
    OBVIOUS
  <2> HIDE DEF T
  <2>2. QED
    BY <1>5, <1>6, <2>1, InductionOnNat
<1>8. ASSUME NEW i \in 0..n PROVE Good(i) /\ (i < n => high[i] <= high[i + 1])
  <2>1. i \in T /\ i <= n
    BY <1>1, <1>7
  <2>2. Good(i)
    BY <2>1
  <2>3. ASSUME i < n PROVE high[i] <= high[i + 1]
    <3>1. i \in 0..(n - 1)
      BY <1>1, <2>3
    <3> HIDE DEF n, b, H
    <3>2. QED
      BY <1>4, <2>2, <3>1
  <2>4. QED
    BY <2>2, <2>3
<1>9. QED
  BY <1>8

\* The product: the low halves are folded in before the quotient is estimated,
\* the high halves but the last after it, and one correction still mends it.
LEMMA Mul25519 ==
  ASSUME NEW r, Short25519(r), r.n >= 2,
         (4 * r.e + 2) * r.e + (2 * r.e) * r.b ^ (r.n - 1) <= r.p,
         NEW x \in 0..(Size(r) - 1), NEW y \in 0..(Size(r) - 1)
  PROVE  bignum_mul_p(r, mul_p25519(r, x, y), x, y)
<1> DEFINE X == x * y
           n == r.n
           b == r.b
           e == r.e
           part(i) == 2 * r.e * Word(r, x * y, r.n + i)
           E1(f) == f = [i \in 0..r.n |->
             IF i = 0 THEN 0 ELSE f[i - 1] + (part(i - 1) % r.b) * r.b ^ (i - 1)]
           E2(f) == f = [i \in 0..r.n |->
             IF i = 0 THEN 0 ELSE f[i - 1] + (part(i - 1) \div r.b) * r.b ^ i]
           low == CHOOSE f : E1(f)
           high == CHOOSE f : E2(f)
           a == high[n - 2]
           v == Lo(r, X) + low[n] + (high[n] - a)
<1>1. mul_p25519(r, x, y) = Fold25519(r, v, a)
  BY DEF mul_p25519
<1>2. WordShape(r)
  BY DEF Short25519
<1>3. /\ Size(r) \in Nat /\ Size(r) = 2 * r.m /\ r.m \in Nat /\ r.m > 0 /\ e \in Nat /\ e > 0
      /\ r.p \in Nat /\ r.p = r.m - e /\ n \in Nat /\ n >= 2 /\ b \in Nat /\ b > 0
  BY <1>2, ShapeFacts, ShortFacts, WordPowers
<1>4. X \in Nat /\ X \in Int
  BY <1>3
<1>5. \A i \in 0..(n - 1) : part(i) \in Nat
  <2> SUFFICES ASSUME NEW i \in 0..(n - 1) PROVE part(i) \in Nat
    OBVIOUS
  <2>1. Word(r, X, n + i) \in Nat
    BY <1>2, <1>4, HighWord
  <2>2. QED
    BY <1>3, <2>1
<1>6. \A i \in 0..n : b ^ i \in Nat /\ b ^ i > 0
  BY <1>2, WordPowers
<1>7. E1(low)
  <2> DEFINE t == [i \in Nat |-> IF i < n THEN (part(i) % b) * b ^ i ELSE 0]
  <2>1. t \in [Nat -> Int]
    <3>1. ASSUME NEW i \in Nat, i < n PROVE (part(i) % b) * b ^ i \in Int
      <4>1. part(i) \in Nat /\ b ^ i \in Int
        BY <1>3, <1>5, <1>6, <3>1
      <4> HIDE DEF part
      <4>2. part(i) % b \in Int
        BY <1>3, <4>1
      <4>3. QED
        BY <4>1, <4>2
    <3>2. QED
      BY <3>1
  <2>2. \A i \in 0..n : i # 0 => t[i - 1] = (part(i - 1) % b) * b ^ (i - 1)
    BY <1>3
  <2> HIDE DEF t
  <2>3. PICK f \in [0..n -> Int] : f = [i \in 0..n |-> IF i = 0 THEN 0 ELSE f[i - 1] + t[i - 1]]
    BY <1>3, <2>1, SumEquation
  <2>4. E1(f)
    BY <2>2, <2>3
  <2>5. QED
    BY <2>4
<1>8. E2(high)
  <2> DEFINE t == [i \in Nat |-> IF i < n THEN (part(i) \div b) * b ^ (i + 1) ELSE 0]
  <2>1. t \in [Nat -> Int]
    <3>1. ASSUME NEW i \in Nat, i < n PROVE (part(i) \div b) * b ^ (i + 1) \in Int
      <4>1. part(i) \in Nat /\ b ^ (i + 1) \in Int
        BY <1>3, <1>5, <1>6, <3>1
      <4> HIDE DEF part
      <4>2. part(i) \div b \in Int
        BY <1>3, <4>1
      <4>3. QED
        BY <4>1, <4>2
    <3>2. QED
      BY <3>1
  <2>2. \A i \in 0..n : i # 0 => t[i - 1] = (part(i - 1) \div b) * b ^ i
    BY <1>3
  <2> HIDE DEF t
  <2>3. PICK f \in [0..n -> Int] : f = [i \in 0..n |-> IF i = 0 THEN 0 ELSE f[i - 1] + t[i - 1]]
    BY <1>3, <2>1, SumEquation
  <2>4. E2(f)
    BY <2>2, <2>3
  <2>5. QED
    BY <2>4
<1> HIDE DEF low, high
<1>9. /\ low[0] = 0 /\ high[0] = 0
      /\ \A i \in 0..(n - 1) :
           /\ low[i + 1] = low[i] + (part(i) % b) * b ^ i
           /\ high[i + 1] = high[i] + (part(i) \div b) * b ^ (i + 1)
  <2>1. low[0] = 0 /\ high[0] = 0
    BY <1>3, <1>7, <1>8
  <2>2. ASSUME NEW i \in 0..(n - 1)
        PROVE  /\ low[i + 1] = low[i] + (part(i) % b) * b ^ i
               /\ high[i + 1] = high[i] + (part(i) \div b) * b ^ (i + 1)
    <3>1. i + 1 \in 0..n /\ i + 1 # 0 /\ (i + 1) - 1 = i
      BY <1>3
    <3> HIDE DEF part
    <3>2. QED
      BY <1>7, <1>8, <3>1
  <2>3. QED
    BY <2>1, <2>2
<1> DEFINE H == Hi(r, X)
<1>10. \A i \in 0..n : /\ low[i] \in Nat /\ high[i] \in Nat
                       /\ low[i] + high[i] = (2 * e) * (H % b ^ i)
                       /\ i < n => high[i] <= high[i + 1]
  <2>1. \A i \in 0..(r.n - 1) :
          LET d == 2 * e * Word(r, X, r.n + i)
          IN  /\ low[i + 1] = low[i] + (d % r.b) * r.b ^ i
              /\ high[i + 1] = high[i] + (d \div r.b) * r.b ^ (i + 1)
    BY <1>9
  <2> HIDE DEF X, e
  <2>2. QED
    BY <1>2, <1>3, <1>4, <1>9, <2>1, HalvesSum
<1>11. H \in Nat /\ Lo(r, X) \in Nat /\ Lo(r, X) < Size(r) /\ X = Size(r) * H + Lo(r, X)
  BY <1>2, <1>4, HiLo
<1>12. H < Size(r)
  <2>1. Size(r) * H <= X /\ X < Size(r) * Size(r)
    <3>1. Size(r) * H \in Int
      BY <1>3, <1>11
    <3>2. x * y <= x * Size(r) /\ x * Size(r) < Size(r) * Size(r)
          /\ x * Size(r) \in Int /\ Size(r) * Size(r) \in Int
      <4> DEFINE S == Size(r)
      <4>1. S \in Nat /\ x \in 0..(S - 1) /\ y \in 0..(S - 1) /\ S > 0
        BY <1>3
      <4> HIDE DEF S
      <4>2. x * y <= x * S /\ x * S < S * S /\ x * S \in Int /\ S * S \in Int
        <5>1. x * y <= x * S
          BY <4>1
        <5>2. x * S <= (S - 1) * S /\ (S - 1) * S = S * S - S /\ x * S \in Int /\ S * S \in Int
          BY <4>1
        <5>3. QED
          BY <4>1, <5>1, <5>2
      <4>3. QED
        BY <4>2 DEF S
    <3>3. QED
      BY <1>3, <1>11, <3>1, <3>2
  <2> HIDE DEF X, H
  <2>2. CASE H >= Size(r)
    <3>1. Size(r) * Size(r) <= Size(r) * H
      BY <1>3, <1>11, <2>2
    <3>2. Size(r) * H \in Int /\ Size(r) * Size(r) \in Int
      BY <1>3, <1>11
    <3>3. QED
      BY <1>3, <1>4, <2>1, <3>1, <3>2
  <2>3. QED
    BY <1>3, <1>11, <2>2
<1>13. low[n] + high[n] = (2 * e) * H
  <2>1. H % b ^ n = H
    <3>1. b ^ n = Size(r) /\ Size(r) > 0
      BY <1>3 DEF Size
    <3> HIDE DEF H
    <3>2. H \in Int
      BY <1>11
    <3>3. QED
      BY <1>3, <1>11, <1>12, <3>1, <3>2, ResidueNear
  <2>2. n \in 0..n
    BY <1>3
  <2>3. QED
    BY <1>10, <2>1, <2>2
<1>14. /\ a \in Nat /\ high[n] \in Nat /\ low[n] \in Nat /\ a <= high[n]
       /\ a <= (2 * e) * b ^ (n - 1)
  <2>1. /\ n - 2 \in 0..n /\ n - 1 \in 0..n /\ n \in 0..n /\ (n - 2) + 1 = n - 1
        /\ (n - 1) + 1 = n /\ n - 2 < n /\ n - 1 < n
    <3>1. n \in Nat /\ n >= 2
      BY <1>3
    <3> HIDE DEF n
    <3>2. QED
      BY <3>1
  <2>2. a \in Nat /\ high[n - 1] \in Nat /\ high[n] \in Nat /\ low[n] \in Nat
        /\ a <= high[n - 1] /\ high[n - 1] <= high[n]
    <3>1. high[n - 2] <= high[(n - 2) + 1] /\ high[n - 1] <= high[(n - 1) + 1]
      BY <1>10, <2>1
    <3>2. QED
      BY <1>10, <2>1, <3>1
  <2>3. low[n - 1] \in Nat /\ low[n - 1] + high[n - 1] = (2 * e) * (H % b ^ (n - 1))
    BY <1>10, <2>1
  <2> DEFINE u == b ^ (n - 1)
             f == H % u
  <2>4. u \in Nat /\ u > 0
    BY <1>6, <2>1
  <2> HIDE DEF u, H, a
  <2>5. f \in Int /\ 0 <= f /\ f <= u
    BY <1>11, <2>4
  <2> HIDE DEF f
  <2>6. (2 * e) * f <= (2 * e) * u /\ (2 * e) * f \in Int /\ (2 * e) * u \in Int
    <3> HIDE DEF e
    <3>1. QED
      BY <1>3, <2>4, <2>5
  <2>7. high[n - 1] <= (2 * e) * u
    BY <2>2, <2>3, <2>6 DEF u, f
  <2>8. QED
    BY <2>2, <2>6, <2>7 DEF u
<1> HIDE DEF a, H, X, low, high, e, n, b
<1> DEFINE D == (2 * e) * H
<1>15. D \in Nat /\ v \in Nat /\ v + a = Lo(r, X) + D /\ v <= Lo(r, X) + D
  <2>1. D \in Nat
    BY <1>3, <1>11
  <2> HIDE DEF D
  <2>2. low[n] + high[n] = D
    BY <1>13 DEF D
  <2>3. QED
    BY <1>11, <1>14, <2>1, <2>2
<1>16. v < (4 * e + 2) * r.m
  <2>1. D <= (2 * e) * Size(r) /\ (2 * e) * Size(r) \in Int
    BY <1>3, <1>11, <1>12
  <2>2. (2 * e) * (2 * r.m) + 2 * r.m = (4 * e + 2) * r.m
    BY <1>3
  <2> HIDE DEF D, v
  <2>3. QED
    BY <1>3, <1>11, <1>15, <2>1, <2>2
<1> HIDE DEF D, v
<1>17. (v \div r.m + 1) * e + a <= r.p
  <2> DEFINE Q == v \div r.m
             k1 == 4 * e + 2
  <2>1. Q \in Nat /\ Q * r.m <= v
    BY <1>3, <1>15, DivBounds
  <2>2. k1 \in Nat
    BY <1>3
  <2> HIDE DEF Q, k1
  <2>3. Q < k1
    <3>1. Q * r.m \in Int /\ k1 * r.m \in Int /\ Q * r.m < k1 * r.m
      BY <1>3, <1>15, <1>16, <2>1, <2>2 DEF k1
    <3>2. CASE Q >= k1
      <4>1. k1 * r.m <= Q * r.m
        BY <1>3, <2>1, <2>2, <3>2
      <4>2. QED
        BY <3>1, <4>1
    <3>3. QED
      BY <2>1, <2>2, <3>2
  <2>4. (Q + 1) * e <= k1 * e /\ (Q + 1) * e \in Int /\ k1 * e \in Int
    BY <1>3, <2>1, <2>2, <2>3
  <2>5. k1 * e + (2 * e) * b ^ (n - 1) <= r.p
    BY DEF k1, e, n, b
  <2> DEFINE w == (2 * e) * b ^ (n - 1)
  <2>6. w \in Int
    <3>1. n - 1 \in 0..n
      BY <1>3 DEF n
    <3>2. QED
      BY <1>3, <1>6, <3>1
  <2>7. a <= w /\ k1 * e + w <= r.p
    BY <1>14, <2>5
  <2> HIDE DEF w
  <2>8. QED
    BY <1>3, <1>14, <2>4, <2>6, <2>7 DEF Q
<1>18. Fold25519(r, v, a) = (v + a) % r.p
  BY <1>14, <1>15, <1>17, Fold25519Residue DEF e
<1>19. (v + a) % r.p = X % r.p
  <2> DEFINE q == 2 * H
  <2>1. X = (v + a) + r.p * q
    <3>1. X = (2 * r.m) * H + Lo(r, X)
      BY <1>3, <1>11
    <3>2. (2 * r.m) * H = r.p * q + D
      <4>1. r.p * q = (r.m - e) * (2 * H)
        BY <1>3
      <4>2. (r.m - e) * (2 * H) = (2 * r.m) * H - (2 * e) * H
        <5> DEFINE M == r.m
        <5>1. M \in Int /\ e \in Int /\ H \in Int
          BY <1>3, <1>11
        <5> HIDE DEF M
        <5>2. (M - e) * (2 * H) = (2 * M) * H - (2 * e) * H
          BY <5>1
        <5>3. QED
          BY <5>2 DEF M
      <4>3. (2 * r.m) * H \in Int /\ (2 * e) * H \in Int
        BY <1>3, <1>11
      <4> HIDE DEF q
      <4>4. QED
        BY <4>1, <4>2, <4>3 DEF D
    <3>3. r.p * q \in Int
      BY <1>3, <1>11
    <3> HIDE DEF q
    <3>4. QED
      BY <1>11, <1>15, <3>1, <3>2, <3>3
  <2>2. q \in Int /\ v + a \in Int /\ r.p > 0 /\ X \in Int
    BY <1>2, <1>4, <1>11, <1>14, <1>15, ShapeFacts
  <2> HIDE DEF q
  <2>3. X % r.p = (v + a) % r.p
    BY <1>3, <2>1, <2>2, ModShift
  <2>4. QED
    BY <2>3
<1>20. QED
  BY <1>1, <1>18, <1>19 DEF bignum_mul_p, X

-----------------------------------------------------------------------------
(* 2^256 - e: the carry through a conjunction of words, sums and folds.     *)

-----------------------------------------------------------------------------
(* A carry that runs through all words.                                     *)

\* The words from n - k on are all ones, when the quotient that they spell is.
LEMMA OnesAbove ==
  ASSUME NEW r, WordShape(r), NEW v \in 0..(Size(r) - 1)
  PROVE  \A k1 \in 0..(r.n - 1) :
           /\ r.b ^ (r.n - k1) \in Nat /\ r.b ^ (r.n - k1) > 0
           /\ (\A i \in (r.n - k1)..(r.n - 1) : Word(r, v, i) = r.b - 1)
                <=> v \div r.b ^ (r.n - k1) = r.b ^ k1 - 1
<1> DEFINE n == r.n
           b == r.b
           Ones(k1) == \A i \in (n - k1)..(n - 1) : Word(r, v, i) = b - 1
           Good(k1) == Ones(k1) <=> v \div b ^ (n - k1) = b ^ k1 - 1
           T == {k1 \in Nat : k1 <= n - 1 => Good(k1)}
<1>1. n \in Nat /\ n > 0 /\ b \in Nat /\ b > 0
  BY WordPowers
<1>2. \A i \in 0..n : b ^ i \in Nat /\ b ^ i > 0
  BY WordPowers
<1>3. \A i \in 0..(n - 1) : b ^ (i + 1) = b * b ^ i
  BY WordPowers
<1>4. b ^ 0 = 1 /\ Size(r) = b ^ n
  BY DEF WordShape, Size
<1>5. v \in Int /\ v \in Nat /\ v < b ^ n
  <2>1. Size(r) \in Nat
    BY ShapeFacts
  <2>2. QED
    BY <1>4, <2>1
<1>6. \A i \in Nat : Word(r, v, i) = (v \div b ^ i) % b
  BY DEF Word
<1> HIDE DEF n, b
<1>7. 0 \in T
  <2>1. n - 0 = n /\ n \in 0..n /\ b ^ n \in Nat /\ b ^ n > 0
    BY <1>1, <1>2
  <2>2. v \div b ^ n = 0
    <3> DEFINE S == b ^ n
    <3>1. S \in Nat /\ S > 0 /\ v < S
      BY <1>5, <2>1
    <3> HIDE DEF S
    <3>2. v \div S = 0
      BY <1>5, <3>1, ResidueNear
    <3>3. QED
      BY <3>2 DEF S
  <2>3. Ones(0)
    BY <1>1
  <2>4. QED
    BY <1>4, <2>1, <2>2, <2>3
<1>8. ASSUME NEW k1 \in T PROVE k1 + 1 \in T
  <2>1. SUFFICES ASSUME k1 + 1 <= n - 1 PROVE Good(k1 + 1)
    OBVIOUS
  <2> DEFINE j == n - (k1 + 1)
             u == b ^ j
             W == Word(r, v, j)
             q == v \div (b * u)
             g == b ^ k1
  <2>2. /\ k1 \in Nat /\ j \in 0..(n - 1) /\ j \in 0..n /\ j \in Nat /\ j + 1 = n - k1
        /\ k1 \in 0..n /\ k1 \in 0..(n - 1)
    BY <1>1, <2>1
  <2>3. u \in Nat /\ u > 0 /\ b ^ (n - k1) = b * u
    BY <1>2, <1>3, <2>2
  <2>4. g \in Nat /\ g > 0 /\ b ^ (k1 + 1) = b * g
    BY <1>2, <1>3, <2>2
  <2>5. W = (v \div u) % b
    BY <1>6, <2>2
  <2>6. Ones(k1) <=> q = g - 1
    <3>1. k1 <= n - 1
      BY <1>1, <2>1, <2>2
    <3>2. Good(k1)
      BY <3>1
    <3> HIDE DEF Ones
    <3>3. QED
      BY <2>3, <3>2
  <2>7. Ones(k1 + 1) <=> W = b - 1 /\ Ones(k1)
    <3>1. \A i \in j..(n - 1) : i = j \/ i \in (n - k1)..(n - 1)
      BY <1>1, <2>2
    <3>2. \A i \in (n - k1)..(n - 1) : i \in j..(n - 1)
      BY <1>1, <2>2
    <3>3. j \in j..(n - 1)
      BY <1>1, <2>2
    <3>4. QED
      BY <3>1, <3>2, <3>3
  <2> HIDE DEF j, u, g
  <2>8. v \div u = b * q + ((v \div u) % b)
    BY <1>1, <1>5, <2>3, Bitfields
  <2>9. q \in Int
    <3> DEFINE w == b * u
    <3>1. w \in Nat /\ w > 0
      BY <1>1, <2>3
    <3> HIDE DEF w
    <3>2. v \div w \in Int
      BY <1>5, <3>1
    <3>3. QED
      BY <3>2 DEF w
  <2>10. W \in Int /\ 0 <= W /\ W < b
    <3> DEFINE f == v \div u
    <3>1. f \in Int
      BY <1>5, <2>3
    <3> HIDE DEF f
    <3>2. f % b \in 0..(b - 1)
      BY <1>1, <3>1
    <3>3. QED
      BY <1>1, <2>5, <3>2 DEF f
  <2> HIDE DEF q, W
  <2>11. v \div u = b * q + W
    BY <2>5, <2>8
  <2>12. b * q + W = b * g - 1 <=> W = b - 1 /\ q = g - 1
    <3>1. ASSUME W = b - 1, q = g - 1 PROVE b * q + W = b * g - 1
      <4>1. b * (g - 1) = b * g - b /\ b * g \in Int
        BY <1>1, <2>4
      <4>2. QED
        BY <1>1, <3>1, <4>1
    <3>2. ASSUME b * q + W = b * g - 1 PROVE W = b - 1 /\ q = g - 1
      <4>1. b * g = b * (g - 1) + b /\ b * (g - 1) \in Int /\ b * q \in Int
        BY <1>1, <2>4, <2>9
      <4>2. b * q + W = b * (g - 1) + (b - 1)
        BY <1>1, <2>10, <3>2, <4>1
      <4> DEFINE f == g - 1
                 c1 == b - 1
      <4>3. f \in Int /\ c1 \in 0..(b - 1) /\ W \in 0..(b - 1)
        BY <1>1, <2>4, <2>10
      <4>4. b * q + W = b * f + c1
        BY <4>2
      <4> HIDE DEF f, c1
      <4>5. (b * q + W) \div b = q /\ (b * q + W) % b = W
        BY <1>1, <2>9, <4>3, DivUnique
      <4>6. (b * f + c1) \div b = f /\ (b * f + c1) % b = c1
        BY <1>1, <4>3, DivUnique
      <4>7. QED
        BY <4>4, <4>5, <4>6 DEF f, c1
    <3>3. QED
      BY <3>1, <3>2
  <2>13. Ones(k1 + 1) <=> v \div u = b * g - 1
    BY <2>6, <2>7, <2>11, <2>12
  <2>14. QED
    BY <2>4, <2>13 DEF u, j
<1>9. T = Nat
  <2>1. T \in SUBSET Nat
    OBVIOUS
  <2> HIDE DEF T
  <2>2. QED
    BY <1>7, <1>8, <2>1, InductionOnNat
<1>10. ASSUME NEW k1 \in 0..(n - 1)
       PROVE  b ^ (n - k1) \in Nat /\ b ^ (n - k1) > 0 /\ Good(k1)
  <2>1. k1 \in Nat /\ k1 <= n - 1 /\ n - k1 \in 0..n
    BY <1>1
  <2>2. k1 \in T
    BY <1>9, <2>1
  <2>3. QED
    BY <1>2, <2>1, <2>2
<1>11. QED
  BY <1>10 DEF n, b

\* The carry of an addition of at most b comes through all words.
LEMMA CarryIs ==
  ASSUME NEW r, WordShape(r), NEW v \in 0..(Size(r) - 1), NEW w \in 0..r.b
  PROVE  CarryThrough(r, v, w) <=> v + w >= Size(r)
<1> DEFINE b == r.b
           n == r.n
           t == TopUnit(r)
           q == v \div b
           d == v % b
<1>1. b \in Nat /\ b >= 4 /\ b > 0 /\ n \in Nat /\ n > 0 /\ t \in Nat /\ t > 0 /\ Size(r) = b * t
  BY ShapeFacts, WordPowers
<1>2. v \in Nat /\ v \in Int /\ v < b * t
  BY <1>1
<1>3. b ^ 0 = 1 /\ b ^ 1 = b
  <2>1. b ^ 0 = 1
    BY DEF WordShape
  <2>2. 0 \in 0..(n - 1) /\ 0 + 1 = 1
    BY <1>1
  <2>3. b ^ 1 = b * b ^ 0
    BY <2>2, WordPowers
  <2>4. QED
    BY <1>1, <2>1, <2>3
<1>4. Word(r, v, 0) = d
  <2>1. v \div 1 = v
    BY <1>2
  <2>2. QED
    BY <1>3, <2>1 DEF Word
<1>5. (\A i \in 1..(n - 1) : Word(r, v, i) = b - 1) <=> q = t - 1
  <2>1. n - 1 \in 0..(n - 1) /\ n - (n - 1) = 1
    BY <1>1
  <2>2. (\A i \in (n - (n - 1))..(n - 1) : Word(r, v, i) = b - 1)
           <=> v \div b ^ (n - (n - 1)) = b ^ (n - 1) - 1
    BY <2>1, OnesAbove
  <2>3. QED
    BY <1>3, <2>1, <2>2 DEF TopUnit
<1>6. CarryThrough(r, v, w) <=> d + w >= b /\ q = t - 1
  BY <1>4, <1>5 DEF CarryThrough
<1>7. q \in Nat /\ d \in Int /\ v = b * q + d /\ 0 <= d /\ d < b
  <2>1. q \in Nat
    BY <1>1, <1>2, DivBounds
  <2>2. QED
    BY <1>1, <1>2, <2>1, DivMod, Zenon
<1> HIDE DEF b, t, q, d, n
<1>8. q <= t - 1
  <2>1. CASE q >= t
    <3>1. b * t <= b * q /\ b * t \in Int /\ b * q \in Int
      BY <1>1, <1>7, <2>1
    <3>2. QED
      BY <1>2, <1>7, <3>1
  <2>2. QED
    BY <1>1, <1>7, <2>1
<1>9. CASE q = t - 1
  <2>1. b * q = b * t - b /\ b * t \in Int
    BY <1>1, <1>9
  <2>2. w \in Int
    OBVIOUS
  <2>3. QED
    BY <1>1, <1>6, <1>7, <1>9, <2>1, <2>2
<1>10. CASE q <= t - 2
  <2>1. b * q <= b * (t - 2) /\ b * (t - 2) = b * t - 2 * b /\ b * t \in Int /\ b * q \in Int
    BY <1>1, <1>7, <1>10
  <2>2. w \in Int /\ w <= b
    BY <1>1 DEF b
  <2>3. v + w < b * t
    BY <1>1, <1>7, <2>1, <2>2
  <2>4. q # t - 1
    BY <1>1, <1>7, <1>10
  <2>5. ~(v + w >= Size(r))
    BY <1>1, <1>7, <2>1, <2>2, <2>3
  <2>6. QED
    BY <1>6, <2>4, <2>5
<1>11. QED
  BY <1>1, <1>7, <1>8, <1>9, <1>10

-----------------------------------------------------------------------------
(* p256k1: one word below the size.                                         *)

\* The shape of 2^256 - e with e of one word.
Shape256k1(r) ==
  /\ WordShape(r) /\ r.e \in Nat /\ r.e > 0 /\ r.e % 2 = 1
  /\ Size(r) = r.p + r.e /\ r.e < r.b /\ r.b * r.e <= r.p
  /\ \E w \in 0..(r.b - 1) : (w * r.e) % r.b = 1

\* How p, e, b and Size compare.
LEMMA Facts256k1 ==
  ASSUME NEW r, Shape256k1(r)
  PROVE  /\ WordShape(r) /\ r.p \in Nat /\ r.p > 2 /\ r.e \in Nat /\ r.e > 0 /\ r.e < r.b
         /\ Size(r) = r.p + r.e /\ Size(r) \in Nat /\ r.b \in Nat /\ r.b >= 4 /\ 4 * r.e <= r.p
         /\ r.b * r.e <= r.p
<1>1. /\ WordShape(r) /\ r.p \in Nat /\ r.p > 2 /\ r.e \in Nat /\ r.e > 0 /\ r.e < r.b
      /\ Size(r) = r.p + r.e /\ Size(r) \in Nat /\ r.b \in Nat /\ r.b >= 4 /\ r.b * r.e <= r.p
  BY ShapeFacts DEF Shape256k1
<1>2. 4 * r.e <= r.b * r.e /\ r.b * r.e \in Int
  BY <1>1
<1>3. QED
  BY <1>1, <1>2

\* The comparison with the modulus is right for sums.
LEMMA AboveIs ==
  ASSUME NEW r, Shape256k1(r), NEW s \in 0..(2 * r.p - 1)
  PROVE  Above256k1(r, s) <=> s >= r.p
<1>1. /\ WordShape(r) /\ r.p \in Nat /\ r.p > 2 /\ r.e \in Nat /\ r.e > 0 /\ r.e < r.b
      /\ Size(r) = r.p + r.e /\ Size(r) \in Nat /\ r.b \in Nat /\ 4 * r.e <= r.p
  BY Facts256k1
<1>2. s \in Int /\ 0 <= s /\ s < 2 * Size(r)
  BY <1>1
<1>3. CASE s < Size(r)
  <2>1. Lo(r, s) = s /\ Hi(r, s) = 0
    BY <1>1, <1>2, <1>3, LoNear
  <2>2. s \in 0..(Size(r) - 1) /\ r.e \in 0..r.b
    BY <1>1, <1>2, <1>3
  <2>3. CarryThrough(r, s, r.e) <=> s + r.e >= Size(r)
    BY <1>1, <2>2, CarryIs
  <2>4. Above256k1(r, s) <=> CarryThrough(r, s, r.e)
    BY <2>1 DEF Above256k1, Under
  <2>5. QED
    BY <1>1, <1>2, <2>3, <2>4
<1>4. CASE ~(s < Size(r))
  <2>1. Hi(r, s) = 1
    BY <1>1, <1>2, <1>4, LoNear
  <2>2. Above256k1(r, s)
    BY <2>1 DEF Above256k1, Under
  <2>3. QED
    BY <1>1, <1>2, <1>4, <2>2
<1>5. QED
  BY <1>3, <1>4

\* A sum below 2 * p is reduced when the carry through the words says so.
LEMMA Sum256k1 ==
  ASSUME NEW r, Shape256k1(r), NEW x \in Nat, NEW y \in Nat, x + y < 2 * r.p
  PROVE  add_p256k1(r, x, y) = (x + y) % r.p
<1> DEFINE s == x + y
           v == Lo(r, s) + Under(Above256k1(r, s), r.e)
<1>1. /\ WordShape(r) /\ r.p \in Nat /\ r.p > 2 /\ r.e \in Nat /\ r.e > 0 /\ r.p > 0
      /\ Size(r) = r.p + r.e /\ Size(r) \in Nat /\ 4 * r.e <= r.p
  BY Facts256k1
<1>2. s \in 0..(2 * r.p - 1) /\ s \in Int
  BY <1>1
<1>3. add_p256k1(r, x, y) = Lo(r, v)
  BY DEF add_p256k1
<1> HIDE DEF s
<1>4. Above256k1(r, s) <=> s >= r.p
  BY <1>2, AboveIs
<1>5. CASE s < r.p
  <2>1. Lo(r, s) = s
    BY <1>1, <1>2, <1>5, LoNear
  <2>2. ~(s >= r.p)
    BY <1>1, <1>2, <1>5
  <2>3. v = s
    BY <1>2, <1>4, <2>1, <2>2 DEF Under
  <2>4. s % r.p = s
    BY <1>1, <1>2, <1>5, ResidueNear
  <2>5. QED
    BY <1>3, <2>1, <2>3, <2>4 DEF s
<1>6. CASE r.p <= s
  <2>1. s % r.p = s - r.p
    BY <1>1, <1>2, <1>6, ResidueNear
  <2>2. v = Lo(r, s) + r.e
    BY <1>4, <1>6 DEF Under
  <2> HIDE DEF v
  <2>3. CASE s < Size(r)
    <3>1. v = s + r.e
      BY <1>1, <1>2, <2>2, <2>3, LoNear
    <3>2. v \in Int /\ Size(r) <= v /\ v < 2 * Size(r) /\ v - Size(r) = s - r.p
      BY <1>1, <1>2, <1>6, <2>3, <3>1
    <3>3. Lo(r, v) = v - Size(r)
      BY <1>1, <3>2, LoNear
    <3>4. QED
      BY <1>3, <2>1, <3>2, <3>3 DEF s
  <2>4. CASE ~(s < Size(r))
    <3>1. Lo(r, s) = s - Size(r)
      <4>1. Size(r) <= s /\ s < 2 * Size(r)
        BY <1>1, <1>2, <2>4
      <4>2. QED
        BY <1>1, <1>2, <4>1, LoNear
    <3>2. v = s - r.p /\ v \in Int /\ 0 <= v /\ v < Size(r)
      BY <1>1, <1>2, <2>2, <2>4, <3>1
    <3>3. Lo(r, v) = v
      BY <1>1, <3>2, LoNear
    <3>4. QED
      BY <1>3, <2>1, <3>2, <3>3 DEF s
  <2>5. QED
    BY <2>3, <2>4
<1>7. QED
  BY <1>1, <1>2, <1>5, <1>6

\* Sums, differences and negations modulo 2^256 - e.
LEMMA Linear256k1 ==
  ASSUME NEW r, Shape256k1(r), NEW x \in 0..(r.p - 1), NEW y \in 0..(r.p - 1), NEW q \in Nat
  PROVE  /\ bignum_add_p(r, add_p256k1(r, x, y), x, y)
         /\ bignum_double_p(r, add_p256k1(r, x, x), x)
         /\ bignum_sub_p(r, sub_p256k1(r, x, y), x, y)
         /\ bignum_neg_p(r, neg_p256k1(r, x), x)
         /\ bignum_optneg_p(r, optneg_p256k1(r, q, x), q, x)
<1>1. /\ WordShape(r) /\ r.p \in Nat /\ r.p > 2 /\ r.e \in Nat /\ r.e > 0 /\ r.p > 0
      /\ Size(r) = r.p + r.e /\ Size(r) \in Nat /\ 4 * r.e <= r.p
  BY Facts256k1
<1>2. x \in Nat /\ y \in Nat /\ x < r.p /\ y < r.p
  BY <1>1
<1>3. bignum_add_p(r, add_p256k1(r, x, y), x, y)
  BY <1>1, <1>2, Sum256k1 DEF bignum_add_p
<1>4. bignum_double_p(r, add_p256k1(r, x, x), x)
  <2>1. add_p256k1(r, x, x) = (x + x) % r.p /\ x + x = 2 * x
    BY <1>1, <1>2, Sum256k1
  <2>2. QED
    BY <2>1 DEF bignum_double_p
<1>5. bignum_sub_p(r, sub_p256k1(r, x, y), x, y)
  <2> DEFINE d == x - y
             v == d - Under(x < y, r.e)
  <2>1. sub_p256k1(r, x, y) = Lo(r, v)
    BY DEF sub_p256k1
  <2>2. CASE x < y
    <3>1. v = d - r.e
      BY <2>2 DEF Under
    <3>2. d \in Int /\ -r.p <= d /\ d < 0
      BY <1>1, <1>2, <2>2
    <3> HIDE DEF d, v
    <3>3. v \in Int /\ -Size(r) <= v /\ v < 0 /\ v + Size(r) = d + r.p
      BY <1>1, <3>1, <3>2
    <3>4. Lo(r, v) = v + Size(r)
      BY <1>1, <3>3, LoNear
    <3>5. d % r.p = d + r.p
      BY <1>1, <3>2, ResidueNear
    <3>6. QED
      BY <2>1, <3>3, <3>4, <3>5 DEF bignum_sub_p, d
  <2>3. CASE ~(x < y)
    <3>1. v = d - 0
      BY <2>3 DEF Under
    <3>2. d \in Int /\ 0 <= d /\ d < r.p
      BY <1>1, <1>2, <2>3
    <3> HIDE DEF d, v
    <3>3. v = d /\ d < Size(r)
      BY <1>1, <3>1, <3>2
    <3>4. Lo(r, d) = d
      BY <1>1, <3>2, <3>3, LoNear
    <3>5. d % r.p = d
      BY <1>1, <3>2, ResidueNear
    <3>6. QED
      BY <2>1, <3>3, <3>4, <3>5 DEF bignum_sub_p, d
  <2>4. QED
    BY <2>2, <2>3
<1>6. neg_p256k1(r, x) = neg_p256(r, x)
  BY DEF neg_p256k1, neg_p256
<1>7. bignum_neg_p(r, neg_p256k1(r, x), x)
  BY <1>1, <1>6, NegFilled
<1>8. bignum_optneg_p(r, optneg_p256k1(r, q, x), q, x)
  <2>1. (-x) % r.p = IF x = 0 THEN 0 ELSE r.p - x
    <3>1. -x \in Int
      BY <1>2
    <3>2. QED
      BY <1>1, <1>2, <3>1, ResidueNear
  <2>2. CASE q # 0 /\ x # 0
    <3>1. optneg_p256k1(r, q, x) = Lo(r, (Size(r) - 1 - x) - (r.e - 1))
      BY <2>2 DEF optneg_p256k1, Under
    <3>2. (Size(r) - 1 - x) - (r.e - 1) = r.p - x /\ r.p - x \in Int
          /\ 0 <= r.p - x /\ r.p - x < Size(r)
      BY <1>1, <1>2
    <3>3. Lo(r, r.p - x) = r.p - x
      BY <1>1, <3>2, LoNear
    <3>4. QED
      BY <2>1, <2>2, <3>1, <3>2, <3>3 DEF bignum_optneg_p
  <2>3. CASE ~(q # 0 /\ x # 0)
    <3>1. optneg_p256k1(r, q, x) = Lo(r, x - 0)
      BY <2>3 DEF optneg_p256k1, Under
    <3>2. x - 0 = x /\ x \in Int /\ 0 <= x /\ x < Size(r)
      BY <1>1, <1>2
    <3>3. Lo(r, x) = x
      BY <1>1, <3>2, LoNear
    <3>4. QED
      BY <2>1, <2>3, <3>1, <3>2, <3>3 DEF bignum_optneg_p
  <2>4. QED
    BY <2>2, <2>3
<1>9. QED
  BY <1>3, <1>4, <1>5, <1>7, <1>8

\* The odd e is taken off instead of adding the modulus, and the borrow returns
\* as the top bit.
LEMMA Half256k1 ==
  ASSUME NEW r, Shape256k1(r), NEW x \in 0..(r.p - 1)
  PROVE  bignum_half_p(r, half_p256k1(r, x), x)
<1> DEFINE w == Under(x % 2 = 1, r.e)
           f == w - Under(x < w, 1)
           v == half_p256k1(r, x)
           S == Size(r)
<1>1. /\ WordShape(r) /\ r.p \in Nat /\ r.p > 2 /\ r.p % 2 = 1 /\ r.e \in Nat /\ r.e > 0
      /\ r.e % 2 = 1 /\ S = r.p + r.e /\ S \in Nat /\ 4 * r.e <= r.p
  BY Facts256k1, ShapeFacts DEF Shape256k1
<1>2. x \in Int /\ 0 <= x /\ x < r.p /\ x < S
  BY <1>1
<1>3. v = Lo(r, x - w) \div 2 + (f % 2) * (S \div 2)
  BY DEF half_p256k1
<1>4. S \div 2 \in Nat /\ S = 2 * (S \div 2)
  BY <1>1
<1> HIDE DEF v, S
<1>5. CASE x % 2 = 1
  <2>1. w = r.e
    BY <1>5 DEF Under
  <2>2. 2 * v = x + r.p /\ v \in Nat
    <3>1. CASE x < r.e
      <4>1. f = r.e - 1
        BY <2>1, <3>1 DEF Under
      <4>2. f % 2 = 0
        BY <1>1, <4>1
      <4>3. Lo(r, x - r.e) = x - r.e + S
        <5>1. x - r.e \in Int /\ -S <= x - r.e /\ x - r.e < 0
          BY <1>1, <1>2, <3>1
        <5>2. QED
          BY <1>1, <5>1, LoNear DEF S
      <4>4. x - r.e + S = x + r.p
        BY <1>1, <1>2
      <4>5. v = (x + r.p) \div 2 + 0 * (S \div 2)
        BY <1>3, <2>1, <4>2, <4>3, <4>4
      <4>6. QED
        BY <1>1, <1>2, <1>4, <1>5, <4>5
    <3>2. CASE ~(x < r.e)
      <4>1. f = r.e - 0
        BY <2>1, <3>2 DEF Under
      <4>2. f % 2 = 1
        BY <1>1, <4>1
      <4>3. Lo(r, x - r.e) = x - r.e
        <5>1. x - r.e \in Int /\ 0 <= x - r.e /\ x - r.e < S
          BY <1>1, <1>2, <3>2
        <5>2. QED
          BY <1>1, <5>1, LoNear DEF S
      <4>4. v = (x - r.e) \div 2 + 1 * (S \div 2)
        BY <1>3, <2>1, <4>2, <4>3
      <4>5. QED
        BY <1>1, <1>2, <1>4, <1>5, <4>4, <3>2
    <3>3. QED
      BY <3>1, <3>2
  <2>3. v \in 0..(r.p - 1) /\ (x + r.p) % r.p = x
    BY <1>1, <1>2, <2>2, ResidueNear
  <2>4. QED
    BY <2>2, <2>3 DEF bignum_half_p, Residue, v
<1>6. CASE x % 2 # 1
  <2>1. w = 0
    BY <1>6 DEF Under
  <2>2. f = 0 - 0
    BY <1>2, <2>1 DEF Under
  <2>3. f % 2 = 0
    BY <2>2
  <2>4. Lo(r, x - 0) = x
    <3>1. x - 0 = x
      BY <1>2
    <3>2. QED
      BY <1>1, <1>2, <3>1, LoNear DEF S
  <2>5. v = x \div 2 + 0 * (S \div 2)
    BY <1>3, <2>1, <2>3, <2>4
  <2>6. 2 * v = x /\ v \in Nat
    BY <1>1, <1>2, <1>4, <1>6, <2>5
  <2>7. v \in 0..(r.p - 1) /\ x % r.p = x
    BY <1>1, <1>2, <2>6, ResidueNear
  <2>8. QED
    BY <2>6, <2>7 DEF bignum_half_p, Residue, v
<1>7. QED
  BY <1>5, <1>6

\* A number of k1 times n words has a quotient below k1.
LEMMA HiBelow ==
  ASSUME NEW r, WordShape(r), NEW v \in Nat, NEW k1 \in Nat, v < k1 * Size(r)
  PROVE  Hi(r, v) \in Nat /\ Hi(r, v) < k1
<1> DEFINE S == Size(r)
           H == Hi(r, v)
<1>1. S \in Nat /\ S > 0 /\ H \in Nat /\ H * S <= v
  BY HiLo, ShapeFacts
<1> HIDE DEF S, H
<1>2. v < k1 * S
  BY DEF S
<1>3. CASE H >= k1
  <2>1. k1 * S <= H * S /\ k1 * S \in Int /\ H * S \in Int
    BY <1>1, <1>3
  <2>2. QED
    BY <1>1, <1>2, <2>1
<1>4. QED
  BY <1>1, <1>3 DEF H

\* Adding e for each multiple of Size, and one more, reduces v.
LEMMA Fold256k1Residue ==
  ASSUME NEW r, Shape256k1(r), NEW v \in Nat, (Hi(r, v) + 1) * r.e <= r.p
  PROVE  Fold256k1(r, v) = v % r.p
<1> DEFINE p == r.p
           S == Size(r)
           e == r.e
           H == Hi(r, v)
           L == Lo(r, v)
           q == H + 1
           t == v - q * p
           s == L + q * e
           u == s - Under(s < S, e)
<1>1. WordShape(r) /\ p \in Nat /\ p > 0 /\ S \in Nat /\ S = p + e /\ e \in Nat /\ e > 0
      /\ q * e <= p
  BY Facts256k1
<1>2. H \in Nat /\ L \in Nat /\ L < S /\ v = S * H + L /\ S * H \in Nat /\ Top(r, v) = H
  BY <1>1, HiLo
<1>3. Fold256k1(r, v) = Lo(r, u)
  BY <1>2 DEF Fold256k1
<1> HIDE DEF p, S, e, H, L
<1>4. q \in Nat /\ q * e \in Nat /\ q * p \in Nat /\ H * e \in Nat /\ q * e = H * e + e
  BY <1>1, <1>2
<1>5. S * H = q * p + H * e - p
  BY <1>1, <1>2
<1>6. t = L + H * e - p /\ s = S + t /\ t \in Int
  BY <1>1, <1>2, <1>4, <1>5
<1>7. -p <= t /\ t < p
  BY <1>1, <1>2, <1>4, <1>6
<1>8. v % p = IF t >= 0 THEN t ELSE t + p
  <2>1. Close(v, q, p)
    BY <1>7 DEF Close
  <2>2. QED
    BY <1>1, <1>4, <2>1, CloseRemainder
<1> HIDE DEF t, s
<1>9. CASE t >= 0
  <2>1. ~(s < S)
    BY <1>1, <1>6, <1>9
  <2>2. u = s - 0
    BY <2>1 DEF Under
  <2>3. u \in Int /\ S <= u /\ u < 2 * S /\ u - S = t
    BY <1>1, <1>6, <1>7, <1>9, <2>2
  <2> HIDE DEF u
  <2>4. Lo(r, u) = u - S
    BY <1>1, <2>3, LoNear DEF S
  <2>5. QED
    BY <1>3, <1>8, <1>9, <2>3, <2>4 DEF p
<1>10. CASE ~(t >= 0)
  <2>1. s < S
    BY <1>1, <1>6, <1>10
  <2>2. u = s - e
    BY <2>1 DEF Under
  <2>3. u \in Int /\ 0 <= u /\ u < S /\ u = t + p
    BY <1>1, <1>6, <1>7, <1>10, <2>2
  <2> HIDE DEF u
  <2>4. Lo(r, u) = u
    BY <1>1, <2>3, LoNear DEF S
  <2>5. QED
    BY <1>3, <1>8, <1>10, <2>3, <2>4 DEF p
<1>11. QED
  BY <1>9, <1>10

\* Numbers of n words and one.
LEMMA FoldsWord ==
  ASSUME NEW r, Shape256k1(r), NEW v \in Nat, NEW k1 \in Nat, k1 <= r.b, v < k1 * Size(r)
  PROVE  Fold256k1(r, v) = v % r.p
<1> DEFINE H == Hi(r, v)
           e == r.e
           b == r.b
<1>1. WordShape(r) /\ b \in Nat /\ e \in Nat /\ b * e <= r.p /\ r.p \in Nat
  BY Facts256k1
<1>2. H \in Nat /\ H < k1
  BY <1>1, HiBelow
<1> HIDE DEF H, e, b
<1>3. (H + 1) * e <= b * e /\ (H + 1) * e \in Int /\ b * e \in Int
  BY <1>1, <1>2 DEF b
<1>4. (H + 1) * e <= r.p
  BY <1>1, <1>3
<1>5. QED
  BY <1>4, Fold256k1Residue DEF H, e

\* Triples, products by a word, Montgomery form and products, all by folds.
LEMMA Products256k1 ==
  ASSUME NEW r, Shape256k1(r)
  PROVE  /\ \A x \in 0..(r.p - 1) : bignum_triple_p(r, triple_p256k1(r, x), x)
         /\ \A x \in 0..(r.p - 1), w \in 0..(r.b - 1) :
              bignum_cmul_p(r, cmul_p256k1(r, w, x), w, x)
         /\ \A x \in 0..(Size(r) - 1) : bignum_tomont_p(r, tomont_p256k1(r, x), x)
         /\ \A x, y \in 0..(Size(r) - 1) : bignum_mul_p(r, mul_p256k1(r, x, y), x, y)
<1> DEFINE p == r.p
           S == Size(r)
           e == r.e
           b == r.b
<1>1. WordShape(r) /\ p \in Nat /\ p > 2 /\ S \in Nat /\ S = p + e /\ e \in Nat /\ e > 0 /\ e < b
      /\ b \in Nat /\ b >= 4 /\ 4 * e <= p
  BY Facts256k1
<1>2. ASSUME NEW v \in Nat, NEW k1 \in Nat, k1 <= b, v < k1 * S PROVE Fold256k1(r, v) = v % p
  BY <1>2, FoldsWord
<1>3. ASSUME NEW x \in 0..(p - 1) PROVE bignum_triple_p(r, triple_p256k1(r, x), x)
  <2>1. 3 * x \in Nat /\ 3 * x < 3 * S /\ 3 \in Nat /\ 3 <= b
    BY <1>1
  <2>2. Fold256k1(r, 3 * x) = (3 * x) % p
    BY <1>2, <2>1
  <2>3. QED
    BY <2>2 DEF bignum_triple_p, triple_p256k1
<1>4. ASSUME NEW x \in 0..(p - 1), NEW w \in 0..(b - 1)
      PROVE  bignum_cmul_p(r, cmul_p256k1(r, w, x), w, x)
  <2> DEFINE v == w * x
  <2>1. v \in Nat /\ v < b * p
    BY <1>1, WordProduct
  <2> HIDE DEF v
  <2>2. v < b * S
    <3> HIDE DEF b, S, p, e
    <3>1. b * p <= b * S /\ b * p \in Int /\ b * S \in Int
      BY <1>1
    <3>2. QED
      BY <2>1, <3>1
  <2>3. Fold256k1(r, v) = v % p
    BY <1>1, <1>2, <2>1, <2>2
  <2>4. QED
    BY <2>3 DEF bignum_cmul_p, cmul_p256k1, v
<1>5. ASSUME NEW x \in 0..(S - 1) PROVE bignum_tomont_p(r, tomont_p256k1(r, x), x)
  <2> DEFINE v == e * x
             g == x * S
  <2>1. x \in Int /\ x \in Nat /\ x < S
    BY <1>1
  <2>2. TimesRadix(r, x) = g % p
    BY <1>1, <2>1, TimesRadixIs
  <2> HIDE DEF S, e
  <2>3. v \in Nat /\ v < e * S
    BY <1>1, <2>1
  <2>4. g = v + p * x /\ v \in Int /\ g \in Int /\ p > 0
    BY <1>1, <2>1
  <2> HIDE DEF v, g
  <2>5. g % p = v % p
    BY <1>1, <2>1, <2>4, ModShift
  <2>6. e \in Nat /\ e <= b
    BY <1>1
  <2>7. Fold256k1(r, v) = v % p
    BY <1>2, <2>3, <2>6
  <2>8. QED
    BY <2>2, <2>5, <2>7 DEF bignum_tomont_p, tomont_p256k1, v, e
<1>6. ASSUME NEW x \in 0..(S - 1), NEW y \in 0..(S - 1)
      PROVE  bignum_mul_p(r, mul_p256k1(r, x, y), x, y)
  <2> DEFINE g == x * y
             H == Hi(r, g)
             L == Lo(r, g)
             v == L + e * H
  <2>1. g \in Nat
    BY <1>1
  <2>2. H \in Nat /\ L \in Nat /\ L < S /\ g = S * H + L
    BY <1>1, <2>1, HiLo
  <2>3. H < S
    <3>1. g < S * S
      <4> HIDE DEF S
      <4>1. x * y <= x * S
        BY <1>1
      <4>2. x * S <= (S - 1) * S /\ (S - 1) * S = S * S - S /\ x * S \in Int /\ S * S \in Int
        BY <1>1
      <4>3. QED
        BY <1>1, <4>1, <4>2
    <3> HIDE DEF g
    <3>2. QED
      BY <1>1, <2>1, <3>1, HiBelow
  <2> HIDE DEF g, H, L, S, e, p
  <2>4. v \in Nat /\ v < (e + 1) * S /\ e + 1 \in Nat /\ e + 1 <= b
    <3>1. e * H <= e * S /\ e * H \in Nat /\ e * S \in Nat /\ (e + 1) * S = e * S + S
      BY <1>1, <2>2, <2>3
    <3>2. QED
      BY <1>1, <2>2, <3>1
  <2>5. Fold256k1(r, v) = v % p
    BY <1>2, <2>4
  <2>6. g % p = v % p
    <3>1. g = v + p * H
      <4>1. S * H = p * H + e * H /\ p * H \in Int /\ e * H \in Int
        BY <1>1, <2>2
      <4>2. QED
        BY <2>2, <4>1
    <3>2. g \in Int /\ v \in Int /\ H \in Int /\ p > 0
      BY <1>1, <2>1, <2>2, <2>4
    <3> HIDE DEF v
    <3>3. QED
      BY <1>1, <3>1, <3>2, ModShift
  <2>7. QED
    BY <2>5, <2>6 DEF bignum_mul_p, mul_p256k1, g, H, L, e, p
<1>7. QED
  BY <1>3, <1>4, <1>5, <1>6

\* The word that the carry leaves is all that remains of a number above the modulus.
LEMMA Mod256k1 ==
  ASSUME NEW r, Shape256k1(r), NEW x \in 0..(Size(r) - 1)
  PROVE  /\ bignum_mod_p(r, mod_p256k1_4(r, x), x)
         /\ x >= r.p => (Word(r, x, 0) + r.e) % r.b = x - r.p
<1> DEFINE b == r.b
           e == r.e
           p == r.p
           t == TopUnit(r)
<1>1. WordShape(r) /\ p \in Nat /\ p > 2 /\ p > 0 /\ Size(r) = p + e /\ e \in Nat /\ e > 0 /\ e < b
      /\ b \in Nat /\ b > 0 /\ 4 * e <= p /\ t \in Nat /\ Size(r) = b * t
  BY Facts256k1, ShapeFacts
<1>2. x \in Int /\ 0 <= x /\ x < p + e /\ e \in 0..b
  BY <1>1
<1>3. CarryThrough(r, x, e) <=> x + e >= Size(r)
  BY <1>1, <1>2, CarryIs
<1>4. CarryThrough(r, x, e) <=> x >= p
  BY <1>1, <1>2, <1>3
<1>5. Word(r, x, 0) = x % b
  <2>1. b ^ 0 = 1 /\ x \div 1 = x
    BY <1>1, <1>2 DEF WordShape
  <2>2. QED
    BY <2>1 DEF Word
<1> HIDE DEF b, e, p, t
<1>6. ASSUME x >= p PROVE (Word(r, x, 0) + e) % b = x - p /\ x % p = x - p
  <2>1. e % b = e
    BY <1>1
  <2>2. ((x % b) + (e % b)) % b = (x + e) % b
    <3>1. e \in Int /\ x \in Int
      BY <1>1, <1>2
    <3>2. QED
      BY <1>1, <3>1, ModPlus, Zenon
  <2>3. x + e = b * t + (x - p) /\ x - p \in 0..(b - 1)
    BY <1>1, <1>2, <1>6
  <2>4. (b * t + (x - p)) % b = x - p
    <3> DEFINE d == x - p
    <3>1. d \in 0..(b - 1) /\ t \in Int
      BY <1>1, <2>3
    <3> HIDE DEF d
    <3>2. (b * t + d) % b = d
      BY <1>1, <3>1, DivUnique
    <3>3. QED
      BY <3>2 DEF d
  <2>5. x % p = x - p
    BY <1>1, <1>2, <1>6, ResidueNear
  <2>6. QED
    BY <1>5, <2>1, <2>2, <2>3, <2>4, <2>5
<1>7. ASSUME ~(x >= p) PROVE x % p = x
  BY <1>1, <1>2, <1>7, ResidueNear
<1>8. bignum_mod_p(r, mod_p256k1_4(r, x), x)
  BY <1>4, <1>6, <1>7 DEF bignum_mod_p, mod_p256k1_4, p, e, b
<1>9. QED
  BY <1>6, <1>8 DEF p, e, b

-----------------------------------------------------------------------------
(* 2^256 - e: the rows of a Montgomery reduction.                           *)

\* A word of the number, and the number up to it.
LEMMA LowWord ==
  ASSUME NEW r, WordShape(r), NEW x \in Nat, NEW i \in 0..(r.n - 1)
  PROVE  /\ Word(r, x, i) \in 0..(r.b - 1)
         /\ x % r.b ^ (i + 1) = (x % r.b ^ i) + Word(r, x, i) * r.b ^ i
<1> DEFINE b == r.b
           u == b ^ i
           d == x \div u
<1>1. i \in 0..r.n /\ r.n \in Nat
  BY WordPowers
<1>2. b \in Nat /\ b > 0 /\ u \in Nat /\ u > 0 /\ b ^ (i + 1) = b * u
  BY <1>1, WordPowers
<1>3. Word(r, x, i) = d % b
  BY DEF Word
<1> HIDE DEF b, u
<1>4. d \in Int /\ x \in Int
  BY <1>2
<1>5. x % (b * u) = (x % u) + (d % b) * u
  BY <1>2, <1>4, WordOfQuotient
<1> HIDE DEF d
<1>6. d % b \in 0..(b - 1)
  BY <1>2, <1>4
<1>7. QED
  BY <1>2, <1>3, <1>5, <1>6 DEF b, u

\* The multiplier of a row makes the product with e end in the word d, which may
\* be negative after a borrow.
NextOff(r, d) == (Row256k1(r, d) * r.e) \div r.b + Under(d < 0, 1)

\* One row: the multiplier cancels the word and its high half is the next borrow.
LEMMA RowIs ==
  ASSUME NEW r, Shape256k1(r), NEW d \in Int
  PROVE  /\ Row256k1(r, d) \in 0..(r.b - 1) /\ NextOff(r, d) \in Int
         /\ -r.b < d /\ d < r.b =>
              /\ NextOff(r, d) \in 0..r.e
              /\ r.b * NextOff(r, d) = Row256k1(r, d) * r.e - d
<1> DEFINE b == r.b
           e == r.e
           inv == WordInverse(r)
           g == inv * d
           w == g % b
           v == w * e
           off == NextOff(r, d)
<1>1. b \in Nat /\ b > 0 /\ e \in Nat /\ e > 0
  BY Facts256k1
<1>2. inv \in 0..(b - 1) /\ (inv * e) % b = 1
  BY DEF Shape256k1, WordInverse
<1>3. Row256k1(r, d) = w /\ off = v \div b + Under(d < 0, 1)
  BY DEF Row256k1, NextOff
<1> HIDE DEF b, e, inv, off
<1>4. g \in Int /\ inv \in Int
  BY <1>1, <1>2
<1> HIDE DEF g
<1>5. w \in Int /\ 0 <= w /\ w < b
  BY <1>1, <1>4, DivMod, Zenon
<1>6. PICK j \in Int : g = b * j + w
  <2>1. g \div b \in Int /\ g = b * (g \div b) + w
    BY <1>1, <1>4, DivMod, Zenon
  <2>2. QED
    BY <2>1
<1>7. PICK l \in Int : inv * e = b * l + 1
  <2> DEFINE f == inv * e
  <2>1. f \in Int
    BY <1>1, <1>4
  <2>2. f % b = 1
    BY <1>2
  <2> HIDE DEF f
  <2>3. f \div b \in Int /\ f = b * (f \div b) + 1
    BY <1>1, <2>1, <2>2, DivMod, Zenon
  <2>4. QED
    BY <2>3 DEF f
<1> HIDE DEF w
<1> DEFINE s == l * d - j * e
<1>8. s \in Int /\ v = b * s + d
  <2>1. g * e = (inv * e) * d
    BY <1>1, <1>4 DEF g
  <2>2. (b * j + w) * e = b * (j * e) + w * e
    BY <1>1, <1>5
  <2>3. (b * l + 1) * d = b * (l * d) + d
    BY <1>1
  <2>4. b * s = b * (l * d) - b * (j * e) /\ s \in Int
    BY <1>1
  <2>5. b * (l * d) \in Int /\ b * (j * e) \in Int /\ w * e \in Int
    BY <1>1, <1>5
  <2> HIDE DEF s
  <2>6. QED
    BY <1>6, <1>7, <2>1, <2>2, <2>3, <2>4, <2>5
<1>9. v \in Nat /\ v <= (b - 1) * e /\ (b - 1) * e \in Int /\ (b - 1) * e = b * e - e /\ b * e \in Int
  <2>1. w * e <= (b - 1) * e
    BY <1>1, <1>5
  <2>2. QED
    BY <1>1, <1>5, <2>1
<1> HIDE DEF s, v
<1>10. v \div b \in Nat
  BY <1>1, <1>9, DivBounds
<1>11. off \in Int
  BY <1>3, <1>10 DEF Under
<1>12. ASSUME -b < d, d < b PROVE off \in 0..e /\ b * off = v - d
  <2>1. off = s
    <3>1. CASE d >= 0
      <4>1. d \in 0..(b - 1)
        BY <1>1, <1>12, <3>1
      <4>2. (b * s + d) \div b = s
        BY <1>1, <1>8, <4>1, DivUnique
      <4>3. off = s + 0
        BY <1>3, <1>8, <3>1, <4>2 DEF Under
      <4>4. QED
        BY <1>8, <4>3
    <3>2. CASE d < 0
      <4> DEFINE f == d + b
                 c1 == s - 1
      <4>1. f \in 0..(b - 1) /\ c1 \in Int
        BY <1>1, <1>8, <1>12, <3>2
      <4>2. v = b * c1 + f
        <5>1. b * (s - 1) = b * s - b /\ b * s \in Int
          BY <1>1, <1>8
        <5>2. QED
          BY <1>1, <1>8, <5>1
      <4> HIDE DEF f, c1
      <4>3. (b * c1 + f) \div b = c1
        BY <1>1, <4>1, DivUnique
      <4>4. off = c1 + 1
        BY <1>3, <3>2, <4>2, <4>3 DEF Under
      <4>5. QED
        BY <1>8, <4>4 DEF c1
    <3>3. QED
      BY <3>1, <3>2
  <2>2. b * off = v - d /\ b * off \in Int
    BY <1>1, <1>8, <2>1
  <2>3. off >= 0
    <3>1. CASE d >= 0
      BY <1>3, <1>10, <3>1 DEF Under
    <3>2. CASE d < 0
      BY <1>3, <1>10, <3>2 DEF Under
    <3>3. QED
      BY <3>1, <3>2
  <2>4. off <= e
    <3>1. b * off < b * e + b
      BY <1>1, <1>9, <1>12, <2>2
    <3>2. CASE off >= e + 1
      <4>1. b * (e + 1) <= b * off /\ b * (e + 1) = b * e + b
        BY <1>1, <1>11, <3>2
      <4>2. QED
        BY <1>1, <1>9, <2>2, <3>1, <4>1
    <3>3. QED
      BY <1>1, <1>11, <3>2
  <2>5. QED
    BY <1>1, <1>11, <2>2, <2>3, <2>4
<1>13. QED
  BY <1>1, <1>3, <1>5, <1>11, <1>12 DEF b, e, off, v

\* The multipliers of all rows, with the borrow that is left: e * m is x modulo
\* Size.
LEMMA RowsAre ==
  ASSUME NEW r, Shape256k1(r), NEW x \in 0..(Size(r) - 1)
  PROVE  /\ Rows256k1(r, x).m \in 0..(Size(r) - 1) /\ Rows256k1(r, x).off \in 0..r.e
         /\ r.e * Rows256k1(r, x).m = x + Rows256k1(r, x).off * Size(r)
<1> DEFINE n == r.n
           b == r.b
           e == r.e
           E1(f) == f = [i \in 0..r.n |->
             IF i = 0 THEN 0
             ELSE LET d == Word(r, x, i - 1) - f[i - 1]
                  IN  (Row256k1(r, d) * r.e) \div r.b + Under(d < 0, 1)]
           off == CHOOSE f : E1(f)
           E2(f) == f = [i \in 0..r.n |->
             IF i = 0 THEN 0
             ELSE f[i - 1] + Row256k1(r, Word(r, x, i - 1) - off[i - 1]) * r.b ^ (i - 1)]
           m1 == CHOOSE f : E2(f)
<1>1. Rows256k1(r, x) = [m |-> m1[n], off |-> off[n]]
  BY DEF Rows256k1
<1>2. WordShape(r) /\ n \in Nat /\ n > 0 /\ b \in Nat /\ b >= 4 /\ e \in Nat /\ e > 0 /\ e < b
      /\ Size(r) \in Nat
  BY Facts256k1, WordPowers
<1>3. \A i \in 0..n : b ^ i \in Nat /\ b ^ i > 0
  BY <1>2, WordPowers
<1>4. \A i \in 0..(n - 1) : b ^ (i + 1) = b * b ^ i
  BY <1>2, WordPowers
<1>5. b ^ 0 = 1 /\ Size(r) = b ^ n
  BY <1>2 DEF WordShape, Size
<1>6. \A i \in 0..(n - 1) : Word(r, x, i) \in 0..(b - 1)
  BY <1>2, LowWord
<1>7. E1(off)
  <2> DEFINE h == [i \in Nat |-> [y \in Int |->
                    IF i < n THEN NextOff(r, Word(r, x, i) - y) ELSE 0]]
  <2>1. h \in [Nat -> [Int -> Int]]
    <3>1. ASSUME NEW i \in Nat, NEW y \in Int, i < n PROVE NextOff(r, Word(r, x, i) - y) \in Int
      <4>1. i \in 0..(n - 1)
        BY <1>2, <3>1
      <4>2. Word(r, x, i) - y \in Int
        BY <1>2, <1>6, <4>1
      <4>3. QED
        BY <4>2, RowIs
    <3>2. QED
      BY <3>1
  <2>2. \E f \in [0..n -> Int] : f = [i \in 0..n |-> IF i = 0 THEN 0 ELSE h[i - 1][f[i - 1]]]
    <3> HIDE DEF h, n
    <3>1. ASSUME NEW a \in Int
          PROVE  \E f \in [0..n -> Int] : f = [i \in 0..n |-> IF i = 0 THEN a ELSE h[i - 1][f[i - 1]]]
      <4>1. n \in Nat /\ a \in Int
        BY <1>2
      <4>2. QED
        BY ONLY <2>1, <4>1, RecEquation, ZenonT(60)
    <3>2. 0 \in Int
      OBVIOUS
    <3>3. QED
      BY <3>1, <3>2
  <2>3. PICK f \in [0..n -> Int] : f = [i \in 0..n |-> IF i = 0 THEN 0 ELSE h[i - 1][f[i - 1]]]
    BY <2>2
  <2>4. ASSUME NEW i \in 0..n, i # 0
        PROVE  h[i - 1][f[i - 1]] = NextOff(r, Word(r, x, i - 1) - f[i - 1])
    <3>1. i - 1 \in 0..n /\ i - 1 \in Nat /\ i - 1 < n
      BY <1>2, <2>4
    <3>2. f[i - 1] \in Int
      BY <3>1
    <3>3. QED
      BY <3>1, <3>2
  <2> HIDE DEF h
  <2>5. f = [i \in 0..n |-> IF i = 0 THEN 0 ELSE NextOff(r, Word(r, x, i - 1) - f[i - 1])]
    BY <2>3, <2>4
  <2>6. E1(f)
    BY <2>5 DEF NextOff
  <2>7. QED
    BY <2>6
<1> HIDE DEF off
<1>8. /\ off[0] = 0
      /\ \A i \in 0..(n - 1) : off[i + 1] = NextOff(r, Word(r, x, i) - off[i])
  <2>1. off[0] = 0
    BY <1>2, <1>7
  <2>2. ASSUME NEW i \in 0..(n - 1) PROVE off[i + 1] = NextOff(r, Word(r, x, i) - off[i])
    <3>1. i + 1 \in 0..n /\ i + 1 # 0 /\ (i + 1) - 1 = i
      BY <1>2
    <3>2. QED
      BY <1>7, <3>1 DEF NextOff
  <2>3. QED
    BY <2>1, <2>2
<1> HIDE DEF n, b, e
<1>9. \A i \in 0..n : off[i] \in 0..e
  <2> DEFINE T == {i \in Nat : i <= n => off[i] \in 0..e}
  <2>1. 0 \in T
    BY <1>2, <1>8
  <2>2. ASSUME NEW i \in T PROVE i + 1 \in T
    <3>1. SUFFICES ASSUME i + 1 <= n PROVE off[i + 1] \in 0..e
      OBVIOUS
    <3> DEFINE d == Word(r, x, i) - off[i]
    <3>2. i \in 0..(n - 1) /\ off[i] \in 0..e
      BY <1>2, <3>1
    <3>3. d \in Int /\ -b < d /\ d < b
      BY <1>2, <1>6, <3>2
    <3>4. off[i + 1] = NextOff(r, d)
      BY <1>8, <3>2
    <3> HIDE DEF d
    <3>5. NextOff(r, d) \in 0..e
      BY <3>3, RowIs DEF b, e
    <3>6. QED
      BY <3>4, <3>5
  <2>3. T = Nat
    <3>1. T \in SUBSET Nat
      OBVIOUS
    <3> HIDE DEF T
    <3>2. QED
      BY <2>1, <2>2, <3>1, InductionOnNat
  <2>4. QED
    BY <1>2, <2>3
<1> DEFINE w(i) == Row256k1(r, Word(r, x, i) - off[i])
<1>10. ASSUME NEW i \in 0..(n - 1)
       PROVE  w(i) \in 0..(b - 1) /\ b * off[i + 1] = w(i) * e - (Word(r, x, i) - off[i])
  <2> DEFINE d == Word(r, x, i) - off[i]
  <2>1. off[i] \in 0..e /\ i \in 0..n
    BY <1>2, <1>9
  <2>2. d \in Int /\ -b < d /\ d < b
    BY <1>2, <1>6, <2>1
  <2>3. off[i + 1] = NextOff(r, d)
    BY <1>8
  <2> HIDE DEF d
  <2>4. Row256k1(r, d) \in 0..(b - 1) /\ b * NextOff(r, d) = Row256k1(r, d) * e - d
    BY <2>2, RowIs DEF b, e
  <2>5. QED
    BY <2>3, <2>4 DEF d
<1>11. E2(m1)
  <2> DEFINE t == [i \in Nat |-> IF i < n THEN w(i) * b ^ i ELSE 0]
  <2>1. t \in [Nat -> Int]
    <3>1. ASSUME NEW i \in Nat, i < n PROVE w(i) * b ^ i \in Int
      <4>1. i \in 0..(n - 1) /\ b ^ i \in Int
        BY <1>2, <1>3, <3>1
      <4>2. w(i) \in Int
        BY <1>2, <1>10, <4>1
      <4> HIDE DEF w
      <4>3. QED
        BY <4>1, <4>2
    <3>2. QED
      BY <3>1
  <2>2. \A i \in 0..n : i # 0 => t[i - 1] = w(i - 1) * b ^ (i - 1)
    BY <1>2
  <2> HIDE DEF t
  <2>3. PICK f \in [0..n -> Int] : f = [i \in 0..n |-> IF i = 0 THEN 0 ELSE f[i - 1] + t[i - 1]]
    BY <1>2, <2>1, SumEquation
  <2>4. f = [i \in 0..n |-> IF i = 0 THEN 0 ELSE f[i - 1] + w(i - 1) * b ^ (i - 1)]
    BY <2>2, <2>3
  <2>5. E2(f)
    BY <2>4 DEF n, b
  <2>6. QED
    BY <2>5
<1> HIDE DEF m1
<1>12. m1[0] = 0 /\ \A i \in 0..(n - 1) : m1[i + 1] = m1[i] + w(i) * b ^ i
  <2>1. m1 = [i \in 0..n |-> IF i = 0 THEN 0 ELSE m1[i - 1] + w(i - 1) * b ^ (i - 1)]
    BY <1>11 DEF n, b
  <2>2. m1[0] = 0
    BY <1>2, <2>1
  <2>3. ASSUME NEW i \in 0..(n - 1) PROVE m1[i + 1] = m1[i] + w(i) * b ^ i
    <3>1. i + 1 \in 0..n /\ i + 1 # 0 /\ (i + 1) - 1 = i
      BY <1>2
    <3> HIDE DEF w
    <3>2. QED
      BY <2>1, <3>1
  <2>4. QED
    BY <2>2, <2>3
<1> DEFINE Good(i) == m1[i] \in 0..(b ^ i - 1) /\ e * m1[i] = (x % b ^ i) + off[i] * b ^ i
           T == {i \in Nat : i <= n => Good(i)}
<1>13. 0 \in T
  <2>1. x % 1 = 0
    BY <1>2
  <2>2. e * 0 = 0 /\ 0 + 0 * 1 = 0 /\ 0 \in 0..(1 - 1)
    BY <1>2
  <2>3. Good(0)
    BY <1>5, <1>8, <1>12, <2>1, <2>2
  <2>4. QED
    BY <2>3
<1>14. ASSUME NEW i \in T PROVE i + 1 \in T
  <2>1. SUFFICES ASSUME i + 1 <= n PROVE Good(i + 1)
    OBVIOUS
  <2> DEFINE u == b ^ i
             W == Word(r, x, i)
             f == x % u
             g == w(i)
             o1 == off[i]
             o2 == off[i + 1]
             a1 == m1[i]
             a2 == m1[i + 1]
  <2>2. i \in 0..(n - 1) /\ i \in 0..n /\ i + 1 \in 0..n /\ Good(i)
    BY <1>2, <2>1
  <2>3. u \in Nat /\ u > 0 /\ b ^ (i + 1) = b * u
    BY <1>3, <1>4, <2>2
  <2>4. W \in 0..(b - 1) /\ x % b ^ (i + 1) = f + W * u
    <3>1. x \in Nat
      BY <1>2
    <3>2. QED
      BY <1>2, <2>2, <3>1, LowWord DEF n, b
  <2>5. g \in 0..(b - 1) /\ b * o2 = g * e - (W - o1) /\ a2 = a1 + g * u
    BY <1>10, <1>12, <2>2
  <2>6. o1 \in 0..e /\ o2 \in 0..e
    BY <1>9, <2>2
  <2>7. a1 \in 0..(u - 1) /\ e * a1 = f + o1 * u
    BY <2>2
  <2>8. f \in Int
    BY <1>2, <2>3
  <2> HIDE DEF u, W, f, g, o1, o2, a1, a2, w
  <2>9. a2 \in 0..(b * u - 1)
    <3>1. g * u <= (b - 1) * u /\ (b - 1) * u = b * u - u /\ g * u \in Nat /\ b * u \in Int
      BY <1>2, <2>3, <2>5
    <3>2. QED
      BY <1>2, <2>3, <2>5, <2>7, <3>1
  <2>10. e * a2 = (f + W * u) + o2 * (b * u)
    <3>1. e * (a1 + g * u) = e * a1 + (g * e) * u
      BY <1>2, <2>3, <2>5, <2>7
    <3>2. o2 * (b * u) = (b * o2) * u
      BY <1>2, <2>3, <2>6
    <3>3. (g * e - (W - o1)) * u = (g * e) * u - W * u + o1 * u
      BY <1>2, <2>3, <2>4, <2>5, <2>6
    <3>4. (g * e) * u \in Int /\ W * u \in Int /\ o1 * u \in Int
      BY <1>2, <2>3, <2>4, <2>5, <2>6
    <3>5. QED
      BY <2>5, <2>7, <2>8, <3>1, <3>2, <3>3, <3>4
  <2>11. QED
    BY <2>3, <2>4, <2>9, <2>10 DEF a2, o2
<1>15. T = Nat
  <2>1. T \in SUBSET Nat
    OBVIOUS
  <2> HIDE DEF T
  <2>2. QED
    BY <1>13, <1>14, <2>1, InductionOnNat
<1>16. Good(n) /\ off[n] \in 0..e
  BY <1>2, <1>9, <1>15
<1>17. x % Size(r) = x
  <2>1. x \in Int /\ Size(r) > 0 /\ 0 <= x /\ x < Size(r)
    BY <1>2
  <2>2. QED
    BY <1>2, <2>1, ResidueNear
<1>18. QED
  BY <1>1, <1>5, <1>16, <1>17 DEF e

\* Out of Montgomery form is a reduction by the number m of the multipliers.
LEMMA Demont256k1 ==
  ASSUME NEW r, Shape256k1(r), NEW x \in 0..(Size(r) - 1)
  PROVE  /\ Rows256k1(r, x).m \in 0..(Size(r) - 1) /\ demont_p256k1(r, x) \in Nat
         /\ Size(r) * demont_p256k1(r, x) = x + Rows256k1(r, x).m * r.p
         /\ Reduces(r, x, demont_p256k1(r, x))
<1> DEFINE S == Size(r)
           p == r.p
           e == r.e
           m1 == Rows256k1(r, x).m
           off == Rows256k1(r, x).off
           y == m1 - off
<1>1. /\ WordShape(r) /\ S \in Nat /\ p \in Nat /\ p > 2 /\ e \in Nat /\ e > 0 /\ S = p + e
      /\ x \in Nat
  BY Facts256k1
<1>2. m1 \in 0..(S - 1) /\ off \in 0..e /\ e * m1 = x + off * S
  BY RowsAre
<1>3. demont_p256k1(r, x) = Lo(r, y)
  BY DEF demont_p256k1
<1> HIDE DEF S, p, e, m1, off
<1>4. S * y = x + m1 * p /\ m1 * p \in Nat
  <2>1. S * y = S * m1 - S * off /\ off * S = S * off /\ S * m1 = m1 * p + e * m1
    BY <1>1, <1>2
  <2>2. S * off \in Int /\ m1 * p \in Nat /\ S * m1 \in Int
    BY <1>1, <1>2
  <2> HIDE DEF y
  <2>3. QED
    BY <1>1, <1>2, <2>1, <2>2
<1>5. y \in Int /\ y < S
  BY <1>1, <1>2
<1> HIDE DEF y
<1>6. y >= 0
  <2>1. CASE y <= -1
    <3>1. S * y <= -S
      BY <1>1, <1>5, <2>1
    <3>2. QED
      BY <1>1, <1>4, <3>1
  <2>2. QED
    BY <1>5, <2>1
<1>7. Lo(r, y) = y
  BY <1>1, <1>5, <1>6, LoNear DEF S
<1>8. Reduces(r, x, y)
  BY <1>2, <1>4, <1>5, <1>6 DEF Reduces, S, p
<1>9. QED
  BY <1>2, <1>3, <1>4, <1>5, <1>6, <1>7, <1>8 DEF S, p, m1

\* The Montgomery functions modulo 2^256 - e.
LEMMA Montgomery256k1 ==
  ASSUME NEW r, Shape256k1(r)
  PROVE  /\ \A x \in 0..(r.p - 1) : bignum_demont_p(r, demont_p256k1(r, x), x)
         /\ \A x \in 0..(Size(r) - 1) : bignum_deamont_p(r, deamont_p256k1(r, x), x)
         /\ \A x, y \in Nat :
              x * y <= Size(r) * r.p => bignum_montmul_p(r, montmul_p256k1(r, x, y), x, y)
<1> DEFINE S == Size(r)
           p == r.p
           e == r.e
<1>1. /\ WordShape(r) /\ S \in Nat /\ p \in Nat /\ p > 2 /\ e \in Nat /\ e > 0 /\ S = p + e
      /\ 4 * e <= p
  BY Facts256k1
<1>2. ASSUME NEW x \in 0..(p - 1) PROVE bignum_demont_p(r, demont_p256k1(r, x), x)
  <2> DEFINE y == demont_p256k1(r, x)
  <2>1. x \in 0..(S - 1) /\ x \in Nat /\ x < p
    BY <1>1
  <2>2. Reduces(r, x, y)
    BY <2>1, Demont256k1
  <2> HIDE DEF y
  <2>3. y \in Nat /\ y < p /\ TimesRadix(r, y % p) = x % p
    BY <1>1, <2>1, <2>2, ReducesFacts
  <2>4. y % p = y /\ x % p = x
    <3>1. x \in Int /\ y \in Int
      BY <2>1, <2>3
    <3>2. QED
      BY <1>1, <2>1, <2>3, <3>1, ResidueIn
  <2>5. y \in 0..(p - 1)
    BY <1>1, <2>3
  <2>6. QED
    BY <2>3, <2>4, <2>5 DEF bignum_demont_p, Residue, y
<1>3. ASSUME NEW x \in 0..(S - 1) PROVE bignum_deamont_p(r, deamont_p256k1(r, x), x)
  <2> DEFINE y == demont_p256k1(r, x)
             m1 == Rows256k1(r, x).m
             v == deamont_p256k1(r, x)
  <2>1. m1 \in 0..(S - 1) /\ y \in Nat /\ S * y = x + m1 * p /\ Reduces(r, x, y)
    BY Demont256k1
  <2>2. v = IF m1 = S - 1 THEN (e + Word(r, y, 0)) % r.b ELSE y
    BY DEF deamont_p256k1
  <2>3. y <= p /\ TimesRadix(r, y % p) = x % p
    <3> HIDE DEF y
    <3>1. x \in Nat /\ x < S
      BY <1>1
    <3>2. QED
      BY <1>1, <2>1, <3>1, ReducesFacts
  <2> HIDE DEF y, m1, v, S, e, p
  <2>4. m1 = S - 1 <=> y = p
    <3>1. ASSUME m1 = S - 1 PROVE y = p
      <4> DEFINE d == p - y
      <4>1. S * d = p - x
        <5>1. (S - 1) * p = S * p - p /\ S * (p - y) = S * p - S * y
              /\ S * p \in Int /\ S * y \in Int
          BY <1>1, <2>1
        <5>2. QED
          BY <1>1, <2>1, <3>1, <5>1
      <4>2. d \in Int
        BY <1>1, <2>1
      <4> HIDE DEF d
      <4>3. 0 - S < S * d /\ S * d < S /\ S > 0
        BY <1>1, <4>1
      <4>4. d = 0
        BY <1>1, <4>2, <4>3, NoMultipleBetween
      <4>5. QED
        BY <1>1, <2>1, <4>4 DEF d
    <3>2. ASSUME y = p PROVE m1 = S - 1
      <4> DEFINE d == S - m1
      <4>1. p * d = x
        <5>1. m1 * p = p * m1 /\ S * p = p * S /\ p * (S - m1) = p * S - p * m1
              /\ p * S \in Int /\ p * m1 \in Int
          BY <1>1, <2>1
        <5>2. QED
          BY <1>1, <2>1, <3>2, <5>1
      <4>2. d \in Int /\ d >= 1
        BY <1>1, <2>1
      <4> HIDE DEF d
      <4>3. ASSUME d >= 2 PROVE FALSE
        <5>1. p * 2 <= p * d /\ p * d \in Int
          BY <1>1, <4>2, <4>3
        <5>2. x < 2 * p
          BY <1>1
        <5>3. QED
          BY <1>1, <4>1, <5>1, <5>2
      <4>4. d = 1
        BY <4>2, <4>3
      <4>5. QED
        BY <1>1, <2>1, <4>4 DEF d
    <3>3. QED
      BY <3>1, <3>2
  <2>5. v = y % p
    <3>1. CASE y = p
      <4>1. p \in 0..(S - 1) /\ p >= p
        BY <1>1
      <4>2. (Word(r, p, 0) + e) % r.b = p - p
        BY <4>1, Mod256k1 DEF S, e, p
      <4>3. Word(r, p, 0) \in Int
        <5>1. 0 \in 0..(r.n - 1)
          BY <1>1, WordPowers
        <5>2. Word(r, p, 0) \in 0..(r.b - 1)
          BY <1>1, <5>1, LowWord
        <5>3. r.b \in Nat
          BY <1>1, WordPowers
        <5>4. QED
          BY <5>2, <5>3
      <4>4. e + Word(r, p, 0) = Word(r, p, 0) + e
        BY <1>1, <4>3
      <4>5. v = 0
        BY <1>1, <2>2, <2>4, <3>1, <4>2, <4>4
      <4>6. p % p = 0
        <5>1. p \in Int /\ p <= p /\ p < 2 * p /\ p > 0
          BY <1>1
        <5>2. p % p = p - p
          BY <1>1, <5>1, ResidueNear
        <5>3. QED
          BY <1>1, <5>2
      <4>7. QED
        BY <3>1, <4>5, <4>6
    <3>2. CASE y # p
      <4>1. v = y /\ y < p /\ y \in Int /\ 0 <= y
        BY <1>1, <2>1, <2>2, <2>3, <2>4, <3>2
      <4>2. y % p = y
        BY <1>1, <4>1, ResidueIn DEF p
      <4>3. QED
        BY <4>1, <4>2
    <3>3. QED
      BY <3>1, <3>2
  <2>6. v \in 0..(p - 1)
    <3>1. y \in Int
      BY <2>1
    <3>2. y % p \in 0..(p - 1)
      BY <1>1, <3>1, ResidueIn DEF p
    <3>3. QED
      BY <2>5, <3>2
  <2>7. QED
    BY <2>3, <2>5, <2>6 DEF bignum_deamont_p, Residue, v, p
<1>4. ASSUME NEW x \in Nat, NEW y \in Nat, x * y <= S * p
      PROVE  bignum_montmul_p(r, montmul_p256k1(r, x, y), x, y)
  <2> DEFINE v == x * y
             d == demont_p256k1(r, Lo(r, v))
             u == d + Hi(r, v)
  <2>1. v \in Nat /\ v <= S * p
    BY <1>4
  <2>2. montmul_p256k1(r, x, y) = add_p256k1(r, d, Hi(r, v))
    BY DEF montmul_p256k1
  <2> HIDE DEF v
  <2>3. Hi(r, v) \in Nat /\ Lo(r, v) \in Nat /\ Lo(r, v) < S
    BY <1>1, <2>1, HiLo
  <2>4. Lo(r, v) \in 0..(S - 1)
    BY <1>1, <2>3
  <2>5. d \in Nat /\ Reduces(r, Lo(r, v), d)
    BY <2>4, Demont256k1
  <2> HIDE DEF d
  <2>6. Reduces(r, v, u)
    BY <1>1, <2>1, <2>5, ProductReduces
  <2>7. u \in Nat /\ u < 2 * p /\ TimesRadix(r, u % p) = v % p
    <3> HIDE DEF u
    <3>1. QED
      BY <1>1, <2>1, <2>6, ReducesFacts
  <2>8. add_p256k1(r, d, Hi(r, v)) = u % p
    BY <2>3, <2>5, <2>7, Sum256k1
  <2>9. u % p \in 0..(p - 1)
    <3> HIDE DEF u
    <3>1. u \in Int
      BY <2>7
    <3>2. QED
      BY <1>1, <3>1, ResidueIn
  <2>10. QED
    BY <2>2, <2>7, <2>8, <2>9 DEF bignum_montmul_p, Residue, v
<1>5. QED
  BY <1>2, <1>3, <1>4

-----------------------------------------------------------------------------
(* 2^521 - 1.                                                               *)

-----------------------------------------------------------------------------
(* p521 = m - 1.                                                            *)

\* The shape of 2^521 - 1, whose rotation by 2^(64*9) is by less than half.
Shape521(r) == /\ WordShape(r) /\ r.m \in Nat /\ r.m > 0 /\ r.p = r.m - 1 /\ r.b <= r.p
               /\ Size(r) = Spin(r) * r.m /\ r.m = Spin(r) * (r.m \div Spin(r))
               /\ r.m \div Spin(r) >= 2

\* How p, m, Spin and Size compare.
LEMMA Facts521 ==
  ASSUME NEW r, Shape521(r)
  PROVE  /\ WordShape(r) /\ r.p \in Nat /\ r.p > 2 /\ r.m \in Nat /\ r.m > 0 /\ r.m = r.p + 1
         /\ r.b \in Nat /\ r.b >= 4 /\ r.b <= r.p /\ Size(r) \in Nat
         /\ Spin(r) \in Nat /\ Spin(r) > 0 /\ Size(r) = Spin(r) * r.m /\ r.m <= Size(r)
         /\ r.m \div Spin(r) \in Nat /\ r.m \div Spin(r) >= 2
         /\ r.m = Spin(r) * (r.m \div Spin(r)) /\ 2 * Spin(r) <= r.m
<1> DEFINE S == Size(r)
           K == Spin(r)
           g == r.m \div K
           M == r.m
<1>1. /\ WordShape(r) /\ r.p \in Nat /\ r.p > 2 /\ M \in Nat /\ M > 0 /\ M = r.p + 1 /\ r.p < S
      /\ r.b \in Nat /\ r.b >= 4 /\ r.b <= r.p /\ S \in Nat /\ S = K * M /\ M = K * g /\ g >= 2
  BY ShapeFacts DEF Shape521
<1>2. K = S \div M
  BY DEF Spin
<1>3. K \in Nat
  <2> HIDE DEF S, K, M
  <2>1. QED
    BY <1>1, <1>2, DivBounds
<1> HIDE DEF S, K, M
<1>4. K > 0
  <2>1. CASE K = 0
    <3>1. K * M = 0
      BY <1>1, <2>1
    <3>2. QED
      BY <1>1, <3>1
  <2>2. QED
    BY <1>3, <2>1
<1>5. g \in Nat
  BY <1>1, <1>3, <1>4, DivBounds DEF M
<1> HIDE DEF g
<1>6. K * 2 <= K * g /\ 1 * M <= K * M /\ K * M \in Int /\ K * g \in Int
  BY <1>1, <1>3, <1>4, <1>5
<1>7. QED
  BY <1>1, <1>3, <1>4, <1>5, <1>6 DEF S, K, g, M

\* A sum with one added is reduced when it reaches bit 521.
LEMMA OneOffIs ==
  ASSUME NEW r, Shape521(r), NEW v \in 0..(2 * r.p - 1)
  PROVE  OneOff(r, v + 1) = v % r.p
<1>1. r.p \in Nat /\ r.p > 0 /\ r.m = r.p + 1 /\ v \in Int /\ 0 <= v /\ v < 2 * r.p
  BY Facts521
<1>2. CASE v < r.p
  BY <1>1, <1>2, ResidueNear DEF OneOff
<1>3. CASE r.p <= v
  BY <1>1, <1>3, ResidueNear DEF OneOff
<1>4. QED
  BY <1>1, <1>2, <1>3

\* Sums, differences and negations modulo 2^521 - 1.
LEMMA Linear521 ==
  ASSUME NEW r, Shape521(r), NEW x \in 0..(r.p - 1), NEW y \in 0..(r.p - 1), NEW q \in Nat
  PROVE  /\ bignum_add_p(r, add_p521(r, x, y), x, y)
         /\ bignum_sub_p(r, sub_p521(r, x, y), x, y)
         /\ bignum_neg_p(r, neg_p521(r, x), x)
         /\ bignum_optneg_p(r, optneg_p521(r, q, x), q, x)
<1>1. /\ WordShape(r) /\ r.p \in Nat /\ r.p > 2 /\ r.p > 0 /\ r.m \in Nat /\ r.m > 0 /\ r.m = r.p + 1
      /\ Size(r) \in Nat /\ Spin(r) \in Nat /\ Spin(r) > 0
      /\ Size(r) = Spin(r) * r.m /\ r.m <= Size(r)
  BY Facts521
<1>2. x \in Int /\ y \in Int /\ 0 <= x /\ x < r.p /\ 0 <= y /\ y < r.p
  BY <1>1
<1>3. bignum_add_p(r, add_p521(r, x, y), x, y)
  <2> DEFINE v == x + y
  <2>1. v \in 0..(2 * r.p - 1) /\ add_p521(r, x, y) = OneOff(r, v + 1)
    BY <1>1, <1>2 DEF add_p521
  <2> HIDE DEF v
  <2>2. OneOff(r, v + 1) = v % r.p
    BY <2>1, OneOffIs
  <2>3. QED
    BY <2>1, <2>2 DEF bignum_add_p, v
<1>4. bignum_sub_p(r, sub_p521(r, x, y), x, y)
  <2> DEFINE d == x - y
             v == d - Under(x < y, 1)
  <2>1. sub_p521(r, x, y) = Lo(r, v) % r.m
    BY DEF sub_p521
  <2>2. CASE x < y
    <3>1. v = d - 1 /\ d \in Int /\ -r.p <= d /\ d < 0
      BY <1>1, <1>2, <2>2 DEF Under
    <3> HIDE DEF d, v
    <3>2. v \in Int /\ -Size(r) <= v /\ v < 0
      BY <1>1, <3>1
    <3>3. Lo(r, v) = v + Size(r)
      BY <1>1, <3>2, LoNear
    <3>4. d % r.p = d + r.p
      BY <1>1, <3>1, ResidueNear
    <3>5. (v + Size(r)) % r.m = d + r.p
      <4> DEFINE a == d + r.p
                 j == Spin(r) - 1
      <4>1. a \in 0..(r.m - 1) /\ j \in Int
        BY <1>1, <3>1
      <4>2. v + Size(r) = r.m * j + a
        <5>1. r.m * (Spin(r) - 1) = Spin(r) * r.m - r.m /\ Spin(r) * r.m \in Int
          BY <1>1
        <5>2. QED
          BY <1>1, <3>1, <5>1
      <4> HIDE DEF a, j
      <4>3. (r.m * j + a) % r.m = a
        BY <1>1, <4>1, DivUnique
      <4>4. QED
        BY <4>2, <4>3 DEF a
    <3>6. QED
      BY <2>1, <3>3, <3>4, <3>5 DEF bignum_sub_p, d
  <2>3. CASE ~(x < y)
    <3>1. v = d - 0 /\ d \in Int /\ 0 <= d /\ d < r.p
      BY <1>1, <1>2, <2>3 DEF Under
    <3> HIDE DEF d, v
    <3>2. v = d /\ d < Size(r) /\ d < r.m
      BY <1>1, <3>1
    <3>3. Lo(r, d) = d /\ d % r.m = d /\ d % r.p = d
      BY <1>1, <3>1, <3>2, LoNear, ResidueNear
    <3>4. QED
      BY <2>1, <3>2, <3>3 DEF bignum_sub_p, d
  <2>4. QED
    BY <2>2, <2>3
<1>5. (-x) % r.p = IF x = 0 THEN 0 ELSE r.p - x
  <2>1. -x \in Int
    BY <1>2
  <2>2. QED
    BY <1>1, <1>2, <2>1, ResidueNear
<1>6. r.m - 1 - x = r.p - x
  BY <1>1, <1>2
<1>7. QED
  BY <1>3, <1>4, <1>5, <1>6 DEF bignum_neg_p, neg_p521, bignum_optneg_p, optneg_p521

\* The top bit of the operand says whether its double passes the modulus.
LEMMA Shifted521 ==
  ASSUME NEW r, Shape521(r), NEW x \in 0..(r.p - 1)
  PROVE  /\ bignum_double_p(r, double_p521(r, x), x)
         /\ bignum_half_p(r, half_p521(r, x), x)
         /\ bignum_triple_p(r, triple_p521(r, x), x)
<1> DEFINE g == r.m \div 2
           p == r.p
<1>1. WordShape(r) /\ p \in Nat /\ p > 2 /\ p > 0 /\ p % 2 = 1 /\ r.m = p + 1 /\ r.m \in Nat
  BY Facts521, ShapeFacts
<1>2. g \in Nat /\ r.m = 2 * g /\ p = 2 * g - 1 /\ g >= 2
  BY <1>1
<1>3. x \in Int /\ 0 <= x /\ x < p
  BY <1>1
<1> HIDE DEF g, p
<1>4. (2 * x) % r.m = IF x >= g THEN 2 * x - r.m ELSE 2 * x
  <2>1. 2 * x \in Int /\ r.m > 0
    BY <1>1, <1>3
  <2>2. CASE x >= g
    <3>1. r.m <= 2 * x /\ 2 * x < 2 * r.m
      BY <1>1, <1>2, <1>3, <2>2
    <3>2. QED
      BY <1>1, <2>1, <2>2, <3>1, ResidueNear
  <2>3. CASE ~(x >= g)
    <3>1. 0 <= 2 * x /\ 2 * x < r.m
      BY <1>1, <1>2, <1>3, <2>3
    <3>2. QED
      BY <1>1, <2>1, <2>3, <3>1, ResidueNear
  <2>4. QED
    BY <2>2, <2>3
<1>5. bignum_double_p(r, double_p521(r, x), x)
  <2>1. double_p521(r, x) = (2 * x + Under(x >= g, 1)) % r.m
    BY DEF double_p521, g
  <2>2. CASE x >= g
    <3>1. /\ 2 * x + 1 \in Int /\ r.m <= 2 * x + 1 /\ 2 * x + 1 < 2 * r.m
          /\ (2 * x + 1) - r.m = 2 * x - p /\ r.m > 0
      BY <1>1, <1>2, <1>3, <2>2
    <3>2. (2 * x + 1) % r.m = (2 * x + 1) - r.m
      BY <1>1, <3>1, ResidueNear
    <3>3. 2 * x \in Int /\ p <= 2 * x /\ 2 * x < 2 * p
      BY <1>1, <1>2, <1>3, <2>2
    <3>4. (2 * x) % p = 2 * x - p
      BY <1>1, <3>3, ResidueNear
    <3>5. QED
      BY <2>1, <2>2, <3>1, <3>2, <3>4 DEF bignum_double_p, Under, p
  <2>3. CASE ~(x >= g)
    <3>1. 2 * x + 0 = 2 * x /\ 2 * x \in Int /\ 0 <= 2 * x /\ 2 * x < p
      BY <1>1, <1>2, <1>3, <2>3
    <3>2. (2 * x) % p = 2 * x
      BY <1>1, <3>1, ResidueNear
    <3>3. QED
      BY <1>4, <2>1, <2>3, <3>1, <3>2 DEF bignum_double_p, Under, p
  <2>4. QED
    BY <2>2, <2>3
<1>6. bignum_half_p(r, half_p521(r, x), x)
  <2> DEFINE v == half_p521(r, x)
  <2>1. v = x \div 2 + (x % 2) * g
    BY DEF half_p521, g
  <2> HIDE DEF v
  <2>2. CASE x % 2 = 1
    <3>1. v = x \div 2 + g
      BY <1>2, <2>1, <2>2
    <3>2. 2 * v = x + p /\ v \in Nat
      BY <1>1, <1>2, <1>3, <2>2, <3>1
    <3>3. v \in 0..(p - 1) /\ (x + p) % p = x
      BY <1>1, <1>3, <3>2, ResidueNear
    <3>4. QED
      BY <3>2, <3>3 DEF bignum_half_p, Residue, p, v
  <2>3. CASE x % 2 = 0
    <3>1. v = x \div 2 + 0
      BY <1>2, <2>1, <2>3
    <3>2. 2 * v = x /\ v \in Nat
      BY <1>3, <2>3, <3>1
    <3>3. v \in 0..(p - 1) /\ x % p = x
      BY <1>1, <1>3, <3>2, ResidueNear
    <3>4. QED
      BY <3>2, <3>3 DEF bignum_half_p, Residue, p, v
  <2>4. x % 2 = 0 \/ x % 2 = 1
    BY <1>3
  <2>5. QED
    BY <2>2, <2>3, <2>4
<1>7. bignum_triple_p(r, triple_p521(r, x), x)
  <2>1. triple_p521(r, x) = OneOff(r, x + ((2 * x) % r.m) + x \div g + 1)
    BY DEF triple_p521, g
  <2>2. CASE x >= g
    <3>1. x \div g = 1
      <4>1. g <= x /\ x < 2 * g /\ g > 0
        BY <1>2, <1>3, <2>2
      <4>2. QED
        BY <1>2, <1>3, <4>1, ResidueNear
    <3> DEFINE v == 3 * x - p
    <3>2. v \in 0..(2 * p - 1) /\ x + (2 * x - r.m) + 1 + 1 = v + 1 /\ 3 * x = v + p * 1 /\ v \in Int
      BY <1>1, <1>2, <1>3, <2>2
    <3>3. triple_p521(r, x) = OneOff(r, v + 1)
      BY <1>4, <2>1, <2>2, <3>1, <3>2
    <3>4. 3 * x \in Int /\ 1 \in Int
      BY <1>3
    <3> HIDE DEF v
    <3>5. OneOff(r, v + 1) = v % p
      BY <3>2, OneOffIs DEF p
    <3>6. (3 * x) % p = v % p
      BY <1>1, <3>2, <3>4, ModShift
    <3>7. QED
      BY <3>3, <3>5, <3>6 DEF bignum_triple_p, p
  <2>3. CASE ~(x >= g)
    <3>1. x \div g = 0
      <4>1. 0 <= x /\ x < g /\ g > 0
        BY <1>2, <1>3, <2>3
      <4>2. QED
        BY <1>2, <1>3, <4>1, ResidueNear
    <3> DEFINE v == 3 * x
    <3>2. v \in 0..(2 * p - 1) /\ x + (2 * x) + 0 + 1 = v + 1
      BY <1>1, <1>2, <1>3, <2>3
    <3>3. triple_p521(r, x) = OneOff(r, v + 1)
      BY <1>4, <2>1, <2>3, <3>1, <3>2
    <3> HIDE DEF v
    <3>4. OneOff(r, v + 1) = v % p
      BY <3>2, OneOffIs DEF p
    <3>5. QED
      BY <3>3, <3>4 DEF bignum_triple_p, p, v
  <2>4. QED
    BY <2>2, <2>3
<1>8. QED
  BY <1>5, <1>6, <1>7

\* The carry into bit 521 of the sum and one is the comparison with the modulus.
LEMMA Fold521Residue ==
  ASSUME NEW r, Shape521(r), NEW l \in 0..(r.m - 1), NEW h \in 0..(r.p - 1)
  PROVE  Fold521(r, l, h) = (l + h) % r.p
<1> DEFINE v == l + h
           u == v + Under(v + 1 >= r.m, 1)
<1>1. r.p \in Nat /\ r.p > 2 /\ r.p > 0 /\ r.m \in Nat /\ r.m > 0 /\ r.m = r.p + 1
  BY Facts521
<1>2. v \in Int /\ 0 <= v /\ v < 2 * r.p
  BY <1>1
<1>3. Fold521(r, l, h) = u % r.m
  BY DEF Fold521
<1> HIDE DEF v
<1>4. CASE v < r.p
  <2>1. u = v + 0
    BY <1>1, <1>2, <1>4 DEF Under
  <2>2. u = v /\ v < r.m
    BY <1>1, <1>2, <1>4, <2>1
  <2>3. v % r.m = v /\ v % r.p = v
    BY <1>1, <1>2, <1>4, <2>2, ResidueNear
  <2>4. QED
    BY <1>3, <2>2, <2>3 DEF v
<1>5. CASE r.p <= v
  <2>1. u = v + 1
    BY <1>1, <1>2, <1>5 DEF Under
  <2>2. u \in Int /\ r.m <= u /\ u < 2 * r.m /\ u - r.m = v - r.p
    BY <1>1, <1>2, <1>5, <2>1
  <2> HIDE DEF u
  <2>3. u % r.m = u - r.m /\ v % r.p = v - r.p
    BY <1>1, <1>2, <1>5, <2>2, ResidueNear
  <2>4. QED
    BY <1>3, <2>2, <2>3 DEF v
<1>6. QED
  BY <1>1, <1>2, <1>4, <1>5

\* A quotient by m is added to the remainder.
LEMMA FoldsAt521 ==
  ASSUME NEW r, Shape521(r), NEW v \in Nat, NEW k1 \in Nat, k1 <= r.p, v < k1 * r.m
  PROVE  /\ v % r.m \in 0..(r.m - 1) /\ v \div r.m \in 0..(k1 - 1) /\ v \div r.m \in 0..(r.p - 1)
         /\ Fold521(r, v % r.m, v \div r.m) = v % r.p
<1> DEFINE M == r.m
           p == r.p
           l == v % M
           h == v \div M
<1>1. p \in Nat /\ p > 0 /\ M \in Nat /\ M > 0 /\ M = p + 1 /\ v \in Int
  BY Facts521
<1>2. h \in Nat /\ h * M <= v
  BY <1>1, DivBounds
<1>3. l \in Int /\ v = M * h + l /\ 0 <= l /\ l < M
  BY <1>1, <1>2, DivMod, Zenon
<1>4. v < k1 * M
  OBVIOUS
<1> HIDE DEF M, l, h
<1>5. h < k1
  <2>1. ASSUME h >= k1 PROVE FALSE
    <3>1. k1 * M <= h * M /\ k1 * M \in Int /\ h * M \in Int
      BY <1>1, <1>2, <2>1
    <3>2. QED
      BY <1>1, <1>2, <1>4, <3>1
  <2>2. QED
    BY <1>2, <2>1
<1>6. l \in 0..(M - 1) /\ h \in 0..(k1 - 1) /\ h \in 0..(p - 1)
  BY <1>1, <1>2, <1>3, <1>5
<1>7. Fold521(r, l, h) = (l + h) % p
  BY <1>6, Fold521Residue DEF M
<1>8. v % p = (l + h) % p
  <2> DEFINE s == l + h
  <2>1. v = s + p * h /\ s \in Int /\ h \in Int
    <3>1. M * h = p * h + h /\ p * h \in Int
      BY <1>1, <1>2
    <3>2. QED
      BY <1>2, <1>3, <3>1
  <2> HIDE DEF s, p
  <2>2. v % p = s % p
    BY <1>1, <2>1, ModShift
  <2>3. QED
    BY <2>2 DEF s
<1>9. QED
  BY <1>6, <1>7, <1>8 DEF M, l, h

\* Products and reductions modulo 2^521 - 1 fold the bits above 521.
LEMMA Products521 ==
  ASSUME NEW r, Shape521(r)
  PROVE  /\ \A x \in 0..(r.p - 1), w \in 0..(r.b - 1) :
              bignum_cmul_p(r, cmul_p521(r, w, x), w, x)
         /\ \A x \in 0..(Size(r) - 1) : bignum_mod_p(r, mod_p521_9(r, x), x)
         /\ \A x, y \in 0..(r.p - 1) : bignum_mul_p(r, mul_p521(r, x, y), x, y)
<1> DEFINE M == r.m
           p == r.p
           b == r.b
           S == Size(r)
<1>1. /\ WordShape(r) /\ p \in Nat /\ p > 2 /\ M \in Nat /\ M > 0 /\ M = p + 1 /\ b \in Nat /\ b >= 4
      /\ b <= p /\ S \in Nat /\ Spin(r) \in Nat /\ S = Spin(r) * M /\ M <= S /\ 2 * Spin(r) <= M
  BY Facts521
<1>2. ASSUME NEW x \in 0..(p - 1), NEW w \in 0..(b - 1)
      PROVE  bignum_cmul_p(r, cmul_p521(r, w, x), w, x)
  <2> DEFINE v == w * x
             l == v % M
             h == v \div M
             ones == CarryThrough(r, l + (S - M), h + 1)
  <2>1. v \in Nat /\ v < b * p
    BY <1>1, WordProduct
  <2> HIDE DEF v
  <2>2. v < b * M
    <3> HIDE DEF b, M, p, S
    <3>1. b * p <= b * M /\ b * p \in Int /\ b * M \in Int
      BY <1>1
    <3>2. QED
      BY <2>1, <3>1
  <2>3. l \in 0..(M - 1) /\ h \in 0..(b - 1) /\ h \in 0..(p - 1) /\ Fold521(r, l, h) = v % p
    BY <1>1, <2>1, <2>2, FoldsAt521
  <2>4. cmul_p521(r, w, x) = (l + h + Under(ones, 1)) % M
    BY DEF cmul_p521, v
  <2> HIDE DEF l, h
  <2>5. ones <=> l + h + 1 >= M
    <3> DEFINE a == l + (S - M)
               c1 == h + 1
    <3>1. a \in 0..(S - 1) /\ c1 \in 0..b
      BY <1>1, <2>3
    <3>2. a + c1 >= S <=> l + h + 1 >= M
      BY <1>1, <2>3
    <3> HIDE DEF a, c1
    <3>3. CarryThrough(r, a, c1) <=> a + c1 >= S
      BY <1>1, <3>1, CarryIs
    <3>4. QED
      BY <3>2, <3>3 DEF a, c1
  <2>6. cmul_p521(r, w, x) = Fold521(r, l, h)
    BY <2>4, <2>5 DEF Fold521, Under
  <2>7. QED
    BY <2>3, <2>6 DEF bignum_cmul_p, v
<1>3. ASSUME NEW x \in 0..(S - 1) PROVE bignum_mod_p(r, mod_p521_9(r, x), x)
  <2>1. x \in Nat /\ x < Spin(r) * M /\ Spin(r) <= p
    BY <1>1
  <2>2. Fold521(r, x % M, x \div M) = x % p
    BY <1>1, <2>1, FoldsAt521
  <2>3. QED
    BY <2>2 DEF bignum_mod_p, mod_p521_9
<1>4. ASSUME NEW x \in 0..(p - 1), NEW y \in 0..(p - 1)
      PROVE  bignum_mul_p(r, mul_p521(r, x, y), x, y)
  <2> DEFINE v == x * y
  <2>1. v \in Nat /\ v < p * M
    <3> HIDE DEF p, M
    <3>1. x * y <= x * p /\ x * p <= (p - 1) * p /\ (p - 1) * p = p * p - p
          /\ p * M = p * p + p /\ p * p \in Int /\ x * p \in Int /\ x * y \in Nat
      <4>1. x * y <= x * p
        BY <1>1
      <4>2. x * p <= (p - 1) * p
        BY <1>1
      <4>3. (p - 1) * p = p * p - p /\ p * M = p * p + p /\ p * p \in Int
        BY <1>1
      <4>4. QED
        BY <1>1, <4>1, <4>2, <4>3
    <3> HIDE DEF v
    <3>2. x * y < p * M
      BY <1>1, <3>1
    <3>3. QED
      BY <3>1, <3>2 DEF v
  <2> HIDE DEF v
  <2>2. Fold521(r, v % M, v \div M) = v % p
    BY <1>1, <2>1, FoldsAt521
  <2>3. QED
    BY <2>2 DEF bignum_mul_p, mul_p521, v
<1>5. QED
  BY <1>2, <1>3, <1>4

\* The rotation by one turn less 521: a division by 2^(64*9) modulo p.
LEMMA RotatedIs ==
  ASSUME NEW r, Shape521(r), NEW x \in Nat, x < Size(r)
  PROVE  LET l == x \div Spin(r)
             h == (x % Spin(r)) * (r.m \div Spin(r))
         IN  /\ l \in 0..(r.m - 1) /\ h \in 0..(r.p - 1)
             /\ TimesRadix(r, (l + h) % r.p) = x % r.p
             /\ x < r.p => l + h < r.p
<1> DEFINE p == r.p
           M == r.m
           S == Size(r)
           K == Spin(r)
           g == M \div K
           l == x \div K
           d == x % K
           h == d * g
<1>1. /\ WordShape(r) /\ p \in Nat /\ p > 2 /\ M \in Nat /\ M > 0 /\ M = p + 1 /\ S \in Nat
      /\ K \in Nat /\ K > 0 /\ S = K * M /\ g \in Nat /\ g >= 2 /\ M = K * g
  BY Facts521
<1>2. x \in Int /\ x < K * M
  BY <1>1
<1>3. l \in Nat
  BY <1>1, DivBounds
<1>4. d \in Int /\ x = K * l + d /\ 0 <= d /\ d < K
  BY <1>1, <1>2, <1>3, DivMod, Zenon
<1> HIDE DEF p, M, S, K, g, l, d
<1>5. l < M
  <2>1. ASSUME l >= M PROVE FALSE
    <3>1. K * M <= K * l /\ K * M \in Int /\ K * l \in Int
      BY <1>1, <1>3, <2>1
    <3>2. QED
      BY <1>2, <1>4, <3>1
  <2>2. QED
    BY <1>1, <1>3, <2>1
<1>6. h \in Nat /\ h <= M - g
  <2>1. d * g <= (K - 1) * g /\ (K - 1) * g = K * g - g /\ d * g \in Nat /\ K * g \in Int
    BY <1>1, <1>4
  <2>2. QED
    BY <1>1, <2>1
<1>7. h \in 0..(p - 1) /\ l \in 0..(M - 1)
  BY <1>1, <1>3, <1>5, <1>6
<1>8. TimesRadix(r, (l + h) % p) = x % p
  <2> DEFINE y == l + h
             q == x + M * d
  <2>1. S * y = x + q * p /\ q \in Int /\ y \in Int
    <3>1. K * h = M * d
      BY <1>1, <1>4
    <3>2. K * y = K * l + K * h
      BY <1>1, <1>3, <1>6
    <3>3. M * d = p * d + d /\ p * d \in Int /\ K * l \in Int
      BY <1>1, <1>3, <1>4
    <3>4. K * y = x + p * d
      BY <1>2, <1>4, <3>1, <3>2, <3>3
    <3>5. y \in Int
      BY <1>3, <1>6
    <3> HIDE DEF y, h
    <3>6. S * y = M * (K * y)
      BY <1>1, <3>5
    <3>7. M * (x + p * d) = M * x + (M * d) * p /\ M * x = x + x * p
      <4>1. M * (x + p * d) = M * x + (M * d) * p
        BY <1>1, <1>2, <1>4
      <4>2. M * x = x + x * p
        <5>1. (p + 1) * x = x + x * p
          BY <1>1, <1>2
        <5>2. QED
          BY <1>1, <5>1
      <4>3. QED
        BY <4>1, <4>2
    <3>8. q * p = x * p + (M * d) * p /\ q \in Int
      BY <1>1, <1>2, <1>4
    <3>9. x * p \in Int /\ (M * d) * p \in Int
      BY <1>1, <1>2, <1>4
    <3> HIDE DEF q
    <3>10. QED
      BY <1>2, <3>4, <3>5, <3>6, <3>7, <3>8, <3>9
  <2> HIDE DEF y, q
  <2>2. TimesRadix(r, y % p) = x % p
    BY <1>1, <1>2, <2>1, RadixIs DEF S, p
  <2>3. QED
    BY <2>2 DEF y
<1>9. ASSUME x < p PROVE l + h < p
  <2>1. l <= g - 1
    <3>1. ASSUME l >= g PROVE FALSE
      <4>1. K * g <= K * l /\ K * g \in Int /\ K * l \in Int
        BY <1>1, <1>3, <3>1
      <4>2. QED
        BY <1>1, <1>2, <1>4, <1>9, <4>1
    <3>2. QED
      BY <1>1, <1>3, <3>1
  <2>2. l + h <= p
    BY <1>1, <1>3, <1>6, <2>1
  <2>3. ASSUME l + h = p PROVE FALSE
    <3>1. l = g - 1 /\ h = M - g
      BY <1>1, <1>3, <1>6, <2>1, <2>3
    <3>2. d = K - 1
      <4>1. ASSUME d <= K - 2 PROVE FALSE
        <5>1. d * g <= (K - 2) * g /\ (K - 2) * g = K * g - 2 * g /\ K * g \in Int /\ d * g \in Int
          BY <1>1, <1>4, <4>1
        <5>2. QED
          BY <1>1, <3>1, <5>1
      <4>2. QED
        BY <1>1, <1>4, <4>1
    <3>3. K * (g - 1) = K * g - K /\ K * g \in Int
      BY <1>1
    <3>4. x = p
      BY <1>1, <1>4, <3>1, <3>2, <3>3
    <3>5. QED
      BY <1>1, <1>9, <3>4
  <2>4. QED
    BY <1>1, <1>3, <1>6, <2>2, <2>3
<1>10. QED
  BY <1>7, <1>8, <1>9 DEF p, M, K, g, l, d

\* The Montgomery functions modulo 2^521 - 1 are rotations.
LEMMA Montgomery521 ==
  ASSUME NEW r, Shape521(r)
  PROVE  /\ \A x \in 0..(r.p - 1) : bignum_demont_p(r, demont_p521(r, x), x)
         /\ \A x \in 0..(Size(r) - 1) : bignum_deamont_p(r, deamont_p521(r, x), x)
         /\ \A x, y \in 0..(r.p - 1) : bignum_montmul_p(r, montmul_p521(r, x, y), x, y)
<1> DEFINE p == r.p
<1>1. /\ WordShape(r) /\ p \in Nat /\ p > 2 /\ Size(r) \in Nat /\ p < Size(r) /\ r.m = p + 1
  BY Facts521, ShapeFacts
<1>2. ASSUME NEW x \in 0..(p - 1)
      PROVE  RotateRight(r, x) \in 0..(p - 1) /\ TimesRadix(r, RotateRight(r, x)) = x
  <2> DEFINE l == x \div Spin(r)
             h == (x % Spin(r)) * (r.m \div Spin(r))
             y == l + h
  <2>1. x \in Nat /\ x < Size(r) /\ x < p /\ x \in Int
    BY <1>1
  <2>2. l \in 0..(r.m - 1) /\ h \in 0..(p - 1) /\ TimesRadix(r, (l + h) % p) = x % p /\ l + h < p
    BY <2>1, RotatedIs
  <2>3. RotateRight(r, x) = y
    BY DEF RotateRight
  <2> HIDE DEF l, h
  <2>4. y \in 0..(p - 1) /\ y \in Int /\ TimesRadix(r, y % p) = x % p
    BY <1>1, <2>2
  <2> HIDE DEF y
  <2>5. y % p = y /\ x % p = x
    BY <1>1, <2>1, <2>4, ResidueIn
  <2>6. QED
    BY <2>3, <2>4, <2>5
<1>3. ASSUME NEW x \in 0..(p - 1) PROVE bignum_demont_p(r, demont_p521(r, x), x)
  BY <1>2 DEF bignum_demont_p, Residue, demont_p521
<1>4. ASSUME NEW x \in 0..(Size(r) - 1) PROVE bignum_deamont_p(r, deamont_p521(r, x), x)
  <2> DEFINE l == x \div Spin(r)
             h == (x % Spin(r)) * (r.m \div Spin(r))
             y == l + h
  <2>1. x \in Nat /\ x < Size(r)
    BY <1>1
  <2>2. l \in 0..(r.m - 1) /\ h \in 0..(p - 1) /\ TimesRadix(r, (l + h) % p) = x % p
    BY <2>1, RotatedIs
  <2>3. deamont_p521(r, x) = Fold521(r, l, h)
    BY DEF deamont_p521
  <2> HIDE DEF l, h
  <2>4. Fold521(r, l, h) = y % p
    BY <2>2, Fold521Residue
  <2>5. y \in Int /\ TimesRadix(r, y % p) = x % p
    BY <1>1, <2>2
  <2> HIDE DEF y
  <2>6. y % p \in 0..(p - 1)
    BY <1>1, <2>5, ResidueIn
  <2>7. QED
    BY <2>3, <2>4, <2>5, <2>6 DEF bignum_deamont_p, Residue
<1>5. ASSUME NEW x \in 0..(p - 1), NEW y \in 0..(p - 1)
      PROVE  bignum_montmul_p(r, montmul_p521(r, x, y), x, y)
  <2> DEFINE v == x * y
             u == mul_p521(r, x, y)
  <2>1. u = v % p
    BY Products521 DEF bignum_mul_p
  <2>2. montmul_p521(r, x, y) = RotateRight(r, u)
    BY DEF montmul_p521
  <2>3. v \in Int
    BY <1>1
  <2> HIDE DEF u, v
  <2>4. u \in 0..(p - 1)
    BY <1>1, <2>1, <2>3, ResidueIn
  <2>5. QED
    BY <1>2, <2>1, <2>2, <2>4 DEF bignum_montmul_p, Residue, v
<1>6. QED
  BY <1>3, <1>4, <1>5

-----------------------------------------------------------------------------
(* Into Montgomery form modulo 2^521 - 1; the orders of the groups.         *)

\* The rotation the other way, which never reaches the modulus.
LEMMA Tomont521 ==
  ASSUME NEW r, Shape521(r), NEW x \in 0..(Size(r) - 1)
  PROVE  bignum_tomont_p(r, tomont_p521(r, x), x)
<1> DEFINE p == r.p
           M == r.m
           S == Size(r)
           K == Spin(r)
           g == M \div K
           v == x % p
           q == v \div g
           s == v % g
           w == v * K
           u == q + K * s
<1>1. /\ WordShape(r) /\ p \in Nat /\ p > 2 /\ p > 0 /\ M \in Nat /\ M > 0 /\ M = p + 1 /\ S \in Nat
      /\ K \in Nat /\ K > 0 /\ S = K * M /\ g \in Nat /\ g >= 2 /\ g > 0 /\ M = K * g
  BY Facts521
<1>2. v \in 0..(p - 1) /\ x \in Int /\ mod_p521_9(r, x) = v
  <2>1. x \in Int
    BY <1>1
  <2>2. QED
    BY <1>1, <2>1, Products521, ResidueIn DEF bignum_mod_p
<1>3. tomont_p521(r, x) = (w % M) + q
  BY <1>2 DEF tomont_p521
<1> HIDE DEF p, M, S, K, g, v
<1>4. q \in Nat
  BY <1>1, <1>2, DivBounds
<1>5. s \in Int /\ v = g * q + s /\ 0 <= s /\ s < g
  <2>1. v \in Int
    BY <1>1, <1>2
  <2>2. QED
    BY <1>1, <1>4, <2>1, DivMod, Zenon
<1> HIDE DEF q, s
<1>6. q <= K - 1
  <2>1. ASSUME q >= K PROVE FALSE
    <3>1. g * K <= g * q /\ g * K = K * g /\ g * K \in Int /\ g * q \in Int
      BY <1>1, <1>4, <2>1
    <3>2. QED
      BY <1>1, <1>2, <1>5, <3>1
  <2>2. QED
    BY <1>1, <1>4, <2>1
<1>7. K * s \in Nat /\ K * s <= M - K
  <2>1. K * s <= K * (g - 1) /\ K * (g - 1) = K * g - K /\ K * s \in Nat
    BY <1>1, <1>5
  <2>2. QED
    BY <1>1, <2>1
<1>8. w = M * q + K * s /\ w \in Int
  <2>1. (g * q + s) * K = (K * g) * q + K * s
    BY <1>1, <1>4, <1>5
  <2>2. QED
    BY <1>1, <1>2, <1>5, <2>1
<1>9. w % M = K * s
  <2> DEFINE d == K * s
  <2>1. d \in 0..(M - 1) /\ q \in Int
    BY <1>1, <1>4, <1>7
  <2>2. w = M * q + d
    BY <1>8
  <2> HIDE DEF d, w
  <2>3. (M * q + d) % M = d
    BY <1>1, <2>1, DivUnique
  <2>4. QED
    BY <2>2, <2>3 DEF d
<1>10. u \in 0..(p - 1)
  <2>1. u <= p
    BY <1>1, <1>4, <1>6, <1>7
  <2>2. ASSUME u = p PROVE FALSE
    <3>1. q = K - 1 /\ K * s = M - K
      BY <1>1, <1>4, <1>6, <1>7, <2>2
    <3>2. s = g - 1
      <4>1. ASSUME s <= g - 2 PROVE FALSE
        <5>1. K * s <= K * (g - 2) /\ K * (g - 2) = K * g - 2 * K /\ K * g \in Int
          BY <1>1, <1>5, <4>1
        <5>2. QED
          BY <1>1, <3>1, <5>1
      <4>2. QED
        BY <1>1, <1>5, <4>1
    <3>3. g * (K - 1) = K * g - g /\ K * g \in Int
      BY <1>1
    <3>4. v = p
      BY <1>1, <1>5, <3>1, <3>2, <3>3
    <3>5. QED
      BY <1>1, <1>2, <3>4
  <2>3. QED
    BY <1>1, <1>4, <1>7, <2>1, <2>2
<1>11. TimesRadix(r, x) = (x * S) % p
  BY <1>1, <1>2, TimesRadixIs DEF S, p
<1>12. (x * S) % p = w % p
  <2> DEFINE a == S * x
             c1 == S * v
  <2>1. S \in Int /\ x * S = a
    BY <1>1, <1>2
  <2>2. (S * (x % p)) % p = (S * x) % p
    BY <1>1, <1>2, <2>1, ModTimes, Zenon
  <2>3. c1 % p = a % p
    BY <2>2 DEF v
  <2>4. c1 = w + p * w /\ c1 \in Int
    <3>1. (K * M) * v = M * (v * K)
      BY <1>1, <1>2
    <3>2. (p + 1) * w = w + p * w
      BY <1>1, <1>8
    <3>3. c1 = M * w
      BY <1>1, <3>1
    <3> HIDE DEF c1, w
    <3>4. p * w \in Int
      BY <1>1, <1>8
    <3>5. QED
      BY <1>1, <1>8, <3>2, <3>3, <3>4
  <2> HIDE DEF a, c1, w
  <2>5. c1 % p = w % p
    BY <1>1, <1>8, <2>4, ModShift
  <2>6. QED
    BY <2>1, <2>3, <2>5
<1>13. w % p = u
  <2>1. w = u + p * q
    <3>1. M * q = p * q + q /\ p * q \in Int
      <4>1. (p + 1) * q = p * q + q /\ p * q \in Int
        BY <1>1, <1>4
      <4>2. QED
        BY <1>1, <4>1
    <3>2. QED
      BY <1>4, <1>7, <1>8, <3>1
  <2>2. q \in Int /\ w = p * q + u
    BY <1>1, <1>4, <1>7, <2>1
  <2> HIDE DEF u, w
  <2>3. (p * q + u) % p = u
    BY <1>1, <1>10, <2>2, DivUnique
  <2>4. QED
    BY <2>2, <2>3
<1>14. tomont_p521(r, x) = u
  BY <1>3, <1>4, <1>7, <1>9
<1>15. QED
  BY <1>11, <1>12, <1>13, <1>14 DEF bignum_tomont_p

-----------------------------------------------------------------------------
(* The orders of the groups of curve25519 and P-521.                        *)

\* Reduction modulo the order of the group of edwards25519.
LEMMA Order25519 ==
  ASSUME NEW r, WordShape(r), r.m \in Nat, r.m > 0, r.e \in Nat, r.e > 0, r.p = r.m + r.e,
         r.b * r.e <= r.m, Size(r) <= r.b * r.m, NEW x \in 0..(Size(r) - 1)
  PROVE  bignum_mod_p(r, mod_n25519_4(r, x), x)
<1> DEFINE p == r.p
           M == r.m
           e == r.e
           b == r.b
           S == Size(r)
           l == x % M
           q == x \div M
           d == l - q * e
           v == d + Under(d < 0, p)
<1>1. /\ p \in Nat /\ p > 2 /\ p > 0 /\ M \in Nat /\ M > 0 /\ e \in Nat /\ e > 0 /\ p = M + e
      /\ b \in Nat /\ b >= 4 /\ b * e <= M /\ S \in Nat /\ S <= b * M /\ p < S
  BY ShapeFacts
<1>2. x \in Nat /\ x \in Int /\ x < b * M
  <2>1. b * M \in Int
    BY <1>1
  <2>2. QED
    BY <1>1, <2>1
<1>3. mod_n25519_4(r, x) = Lo(r, v)
  BY DEF mod_n25519_4
<1> HIDE DEF p, M, e, b, S
<1>4. q \in Nat /\ q * M <= x
  BY <1>1, <1>2, DivBounds
<1>5. l \in Int /\ x = M * q + l /\ 0 <= l /\ l < M
  BY <1>1, <1>2, <1>4, DivMod, Zenon
<1> HIDE DEF l, q
<1>6. q < b
  <2>1. ASSUME q >= b PROVE FALSE
    <3>1. b * M <= q * M /\ b * M \in Int /\ q * M \in Int
      BY <1>1, <1>4, <2>1
    <3>2. QED
      BY <1>2, <1>4, <3>1
  <2>2. QED
    BY <1>1, <1>4, <2>1
<1>7. q * e \in Nat /\ q * e <= b * e /\ b * e \in Int
  BY <1>1, <1>4, <1>6
<1>8. d \in Int /\ -p <= d /\ d < p
  BY <1>1, <1>5, <1>7
<1>9. d = x - q * p
  <2>1. q * p = M * q + q * e /\ M * q \in Int
    BY <1>1, <1>4
  <2>2. QED
    BY <1>5, <1>7, <2>1
<1> HIDE DEF d
<1>10. x % p = IF d >= 0 THEN d ELSE d + p
  <2>1. Close(x, q, p)
    BY <1>8, <1>9 DEF Close
  <2>2. QED
    BY <1>1, <1>2, <1>4, <1>9, <2>1, CloseRemainder
<1>11. v = x % p /\ v \in Int /\ 0 <= v /\ v < S
  <2>1. v = IF d >= 0 THEN d + 0 ELSE d + p
    BY <1>8 DEF Under
  <2> HIDE DEF v
  <2>2. QED
    BY <1>1, <1>8, <1>10, <2>1
<1> HIDE DEF v
<1>12. Lo(r, v) = v
  BY <1>11, LoNear DEF S
<1>13. QED
  BY <1>3, <1>11, <1>12 DEF bignum_mod_p, p

\* Reduction modulo the order of the group of P-521.
LEMMA Order521 ==
  ASSUME NEW r, WordShape(r), r.m \in Nat, r.m > 0, r.e \in Nat, r.e > 0, r.p = r.m - r.e,
         Size(r) = Spin(r) * r.m, Spin(r) * r.e <= r.p, NEW x \in 0..(Size(r) - 1)
  PROVE  bignum_mod_p(r, mod_n521_9(r, x), x)
<1> DEFINE p == r.p
           M == r.m
           e == r.e
           K == Spin(r)
           S == Size(r)
           l == x % M
           q == x \div M
           t == x - (q + 1) * p
           s == (l + S - M) + (q + 1) * e
           u == s - Under(s < S, e)
<1>1. /\ p \in Nat /\ p > 2 /\ p > 0 /\ M \in Nat /\ M > 0 /\ e \in Nat /\ e > 0 /\ p = M - e
      /\ S \in Nat /\ S > 0 /\ S = K * M /\ K * e <= p /\ p < S
  BY ShapeFacts
<1>2. K \in Nat
  BY <1>1, DivBounds DEF Spin
<1>3. x \in Nat /\ x \in Int /\ x < K * M
  BY <1>1
<1>4. mod_n521_9(r, x) = Lo(r, u) % M
  BY DEF mod_n521_9
<1> HIDE DEF p, M, e, K, S
<1>5. K >= 1 /\ K * M = M * K /\ M <= S
  <2>1. K # 0
    <3>1. ASSUME K = 0 PROVE FALSE
      <4>1. K * M = 0
        BY <1>1, <3>1
      <4>2. QED
        BY <1>1, <4>1
    <3>2. QED
      BY <3>1
  <2>2. K >= 1
    BY <1>2, <2>1
  <2>3. 1 * M <= K * M /\ K * M = M * K /\ K * M \in Int
    BY <1>1, <1>2, <2>2
  <2>4. QED
    BY <1>1, <2>2, <2>3
<1>6. q \in Nat /\ q * M <= x
  BY <1>1, <1>3, DivBounds
<1>7. l \in Int /\ x = M * q + l /\ 0 <= l /\ l < M
  BY <1>1, <1>3, <1>6, DivMod, Zenon
<1> HIDE DEF l, q
<1>8. q <= K - 1
  <2>1. ASSUME q >= K PROVE FALSE
    <3>1. K * M <= q * M /\ K * M \in Int /\ q * M \in Int
      BY <1>1, <1>2, <1>6, <2>1
    <3>2. QED
      BY <1>3, <1>6, <3>1
  <2>2. QED
    BY <1>2, <1>6, <2>1
<1>9. (q + 1) * e \in Nat /\ (q + 1) * e <= p /\ (q + 1) * e >= e
  <2>1. (q + 1) * e <= K * e /\ K * e \in Int /\ (q + 1) * e \in Nat /\ (q + 1) * e >= 1 * e
    BY <1>1, <1>2, <1>6, <1>8
  <2>2. QED
    BY <1>1, <2>1
<1>10. t = l - M + (q + 1) * e /\ s = S + t /\ t \in Int
  <2>1. (q + 1) * p = M * q + M - (q + 1) * e /\ M * q \in Int
    BY <1>1, <1>6
  <2>2. QED
    BY <1>1, <1>7, <1>9, <2>1
<1>11. -p <= t /\ t < p
  BY <1>1, <1>7, <1>9, <1>10
<1>12. x % p = IF t >= 0 THEN t ELSE t + p
  <2>1. Close(x, q + 1, p) /\ q + 1 \in Nat
    BY <1>6, <1>11 DEF Close
  <2>2. QED
    BY <1>1, <1>3, <2>1, CloseRemainder
<1> HIDE DEF t, s
<1>13. CASE t >= 0
  <2>1. u = s - 0
    BY <1>1, <1>10, <1>13 DEF Under
  <2>2. u \in Int /\ S <= u /\ u < 2 * S /\ u - S = t
    BY <1>1, <1>10, <1>11, <1>13, <2>1
  <2> HIDE DEF u
  <2>3. Lo(r, u) = t
    <3>1. Lo(r, u) = u - S
      BY <2>2, LoNear DEF S
    <3>2. QED
      BY <2>2, <3>1
  <2>4. t % M = t
    <3>1. 0 <= t /\ t < M
      BY <1>1, <1>10, <1>11, <1>13
    <3>2. QED
      BY <1>1, <1>10, <3>1, ResidueNear
  <2>5. QED
    BY <1>4, <1>12, <1>13, <2>3, <2>4 DEF bignum_mod_p, p
<1>14. CASE ~(t >= 0)
  <2>1. s < S
    BY <1>1, <1>10, <1>14
  <2>2. u = s - e
    BY <2>1 DEF Under
  <2>3. u \in Int /\ 0 <= u /\ u < S
    BY <1>1, <1>5, <1>10, <1>11, <1>14, <2>2
  <2> DEFINE a == t + p
             j == K - 1
  <2>4. a \in 0..(M - 1) /\ j \in Int /\ u = M * j + a
    <3>1. M * (K - 1) = M * K - M /\ M * K \in Int
      BY <1>1, <1>2
    <3>2. QED
      BY <1>1, <1>2, <1>5, <1>10, <1>11, <1>14, <2>2, <3>1
  <2> HIDE DEF u, a, j
  <2>5. Lo(r, u) = u
    BY <2>3, LoNear DEF S
  <2>6. (M * j + a) % M = a
    BY <1>1, <2>4, DivUnique
  <2>7. QED
    BY <1>4, <1>12, <1>14, <2>4, <2>5, <2>6 DEF bignum_mod_p, p, a
<1>15. QED
  BY <1>10, <1>13, <1>14

-----------------------------------------------------------------------------
(* The calls.                                                               *)

-----------------------------------------------------------------------------
(* Every call.                                                              *)

\* What a call brings with it.
Accepts(r, d) ==
  /\ d.curve = r /\ d.op \in r.ops /\ d.x \in 0..(Size(r) - 1)
  /\ d.op \in {"double", "triple", "neg", "half", "demont", "add", "sub", "optneg", "cmul"} =>
       d.x \in 0..(r.p - 1)
  /\ d.op \in {"add", "sub"} => d.y \in 0..(r.p - 1)
  /\ d.op = "optneg" => d.y \in Nat
  /\ d.op = "cmul" => d.y \in 0..(r.b - 1)
  /\ d.op \in {"mul", "montmul"} =>
       /\ d.y \in 0..(Size(r) - 1)
       /\ r.family = "p521" => d.x \in 0..(r.p - 1) /\ d.y \in 0..(r.p - 1)
  /\ d.op = "montmul" => d.x * d.y <= Size(r) * r.p
  /\ d.op \in {"add", "double", "triple", "sub", "neg", "optneg", "half", "cmul",
               "mod", "mul", "tomont", "demont", "deamont", "montmul"}

\* What every call of the model satisfies.
LEMMA CallAccepts ==
  ASSUME NEW r \in Curves, NEW d \in Calls(r)
  PROVE  Accepts(r, d)
<1>1. /\ Single(r) \subseteq 0..(Size(r) - 1) /\ Pairs(r) \subseteq 0..(Size(r) - 1)
      /\ Factors(r) \subseteq 0..(Size(r) - 1) /\ Scalars(r) \subseteq 0..(r.b - 1)
  BY CurveAssumption
<1>2. Size(r) \in Nat /\ r.p \in Nat /\ r.p < Size(r)
  BY CurveAssumption, ShapeFacts
<1>3. \A xs \in SUBSET (0..(Size(r) - 1)) : Reduced(r, xs) \subseteq 0..(r.p - 1)
  <2>1. \A i \in 0..(Size(r) - 1) : i < r.p => i \in 0..(r.p - 1)
    BY <1>2
  <2>2. QED
    BY <2>1 DEF Reduced
<1>4. CASE d \in Of(r, {"double", "triple", "neg", "half", "demont"}, Reduced(r, Single(r)), {0})
  BY <1>1, <1>2, <1>3, <1>4 DEF Of, Accepts
<1>5. CASE d \in Of(r, {"add", "sub"}, Reduced(r, Pairs(r)), Reduced(r, Pairs(r)))
  BY <1>1, <1>2, <1>3, <1>5 DEF Of, Accepts
<1>6. CASE d \in Of(r, {"optneg"}, Reduced(r, Single(r)), {0, 1, 2})
  BY <1>1, <1>2, <1>3, <1>6 DEF Of, Accepts
<1>7. CASE d \in Of(r, {"cmul"}, Reduced(r, Single(r)), Scalars(r))
  BY <1>1, <1>2, <1>3, <1>7 DEF Of, Accepts
<1>8. CASE d \in Of(r, {"mod", "tomont", "deamont"}, Single(r), {0})
  BY <1>1, <1>2, <1>8 DEF Of, Accepts
<1>9. CASE d \in { f \in Of(r, {"montmul", "mul"}, Factors(r), Factors(r)) :
                     /\ f.op = "montmul" => f.x * f.y <= Size(r) * r.p
                     /\ r.family = "p521" => f.x < r.p /\ f.y < r.p }
  BY <1>1, <1>2, <1>9 DEF Of, Accepts
<1>10. QED
  BY <1>4, <1>5, <1>6, <1>7, <1>8, <1>9 DEF Calls

\* The families with moduli that fill their words.
LEMMA FilledAnswers ==
  ASSUME NEW r, WordShape(r), FilledShape(r), NEW d, Accepts(r, d), NEW v,
         r.family \in {"p256", "sm2", "p384"}
  PROVE  /\ d.op = "add" /\ v = add_p256(r, d.x, d.y) => Promised(r, d.op, v, d.x, d.y)
         /\ d.op = "double" /\ v = add_p256(r, d.x, d.x) => Promised(r, d.op, v, d.x, d.y)
         /\ d.op = "sub" /\ v = sub_p256(r, d.x, d.y) => Promised(r, d.op, v, d.x, d.y)
         /\ d.op = "neg" /\ v = neg_p256(r, d.x) => Promised(r, d.op, v, d.x, d.y)
         /\ d.op = "optneg" /\ v = optneg_p256(r, d.y, d.x) => Promised(r, d.op, v, d.x, d.y)
         /\ d.op = "half" /\ v = half_p256(r, d.x) => Promised(r, d.op, v, d.x, d.y)
         /\ d.op = "mod" /\ v = mod_p256_4(r, d.x) => Promised(r, d.op, v, d.x, d.y)
         /\ d.op = "triple" /\ v \in {triple_p256(r, d.x), triple_p384(r, d.x)} =>
              Promised(r, d.op, v, d.x, d.y)
         /\ d.op = "cmul" /\ v = (CASE r.family = "p256" -> cmul_p256(r, d.y, d.x)
                                    [] r.family = "sm2"  -> cmul_sm2(r, d.y, d.x)
                                    [] r.family = "p384" -> cmul_p384(r, d.y, d.x)) =>
              Promised(r, d.op, v, d.x, d.y)
         /\ d.op = "tomont" /\ v = Modsteps(r, d.x) => Promised(r, d.op, v, d.x, d.y)
         /\ d.op = "demont" /\ v = Montreds(r, d.x) => Promised(r, d.op, v, d.x, d.y)
         /\ d.op = "deamont" /\ v = Subtracted(r, Montreds(r, d.x)) =>
              Promised(r, d.op, v, d.x, d.y)
         /\ d.op = "montmul" /\ v \in {montmul_p256(r, d.x, d.y), montmul_p384(r, d.x, d.y)} =>
              Promised(r, d.op, v, d.x, d.y)
<1> DEFINE x == d.x
           y == d.y
<1>1. d.op \in {"triple", "mod", "tomont"} => Size(r) <= 2 * r.p
  <2>1. d.op \in r.ops
    BY DEF Accepts
  <2>2. r.ops \cap {"triple", "mod", "tomont"} # {} => Size(r) <= 2 * r.p
    BY DEF FilledShape
  <2>3. QED
    BY <2>1, <2>2
<1>2. d.op \in {"cmul", "tomont"} =>
        /\ r.family = "p256" => Margin256(r)
        /\ r.family = "sm2" => MarginSm2(r)
        /\ r.family = "p384" => Margin384(r)
  <2>1. d.op \in r.ops
    BY DEF Accepts
  <2>2. r.ops \cap {"cmul", "tomont"} # {} =>
          /\ r.family = "p256" => Margin256(r)
          /\ r.family = "sm2" => MarginSm2(r)
    BY DEF FilledShape, Margin256, MarginSm2, TopUnit
  <2>3. r.family = "p384" => Margin384(r)
    BY DEF FilledShape, Margin384
  <2>4. QED
    BY <2>1, <2>2, <2>3
<1>3. Cancels(r)
  <2>1. r.p % r.b = IF r.family = "p384" THEN r.h - 1 ELSE r.b - 1
    BY DEF FilledShape
  <2>2. QED
    BY <2>1, MultiplierCancels
<1>4. CASE d.op = "add"
  <2>1. x \in 0..(r.p - 1) /\ y \in 0..(r.p - 1)
    BY <1>4 DEF Accepts
  <2>2. QED
    BY <1>4, <2>1, AddFilled DEF Promised
<1>5. CASE d.op = "double"
  <2>1. x \in 0..(r.p - 1)
    BY <1>5 DEF Accepts
  <2>2. QED
    BY <1>5, <2>1, AddFilled DEF Promised
<1>6. CASE d.op = "sub"
  <2>1. x \in 0..(r.p - 1) /\ y \in 0..(r.p - 1)
    BY <1>6 DEF Accepts
  <2>2. QED
    BY <1>6, <2>1, SubFilled DEF Promised
<1>7. CASE d.op = "neg"
  <2>1. x \in 0..(r.p - 1)
    BY <1>7 DEF Accepts
  <2>2. QED
    BY <1>7, <2>1, NegFilled DEF Promised
<1>8. CASE d.op = "optneg"
  <2>1. x \in 0..(r.p - 1) /\ y \in Nat
    BY <1>8 DEF Accepts
  <2>2. QED
    BY <1>8, <2>1, OptnegFilled DEF Promised
<1>9. CASE d.op = "half"
  <2>1. x \in 0..(r.p - 1)
    BY <1>9 DEF Accepts
  <2>2. QED
    BY <1>9, <2>1, HalfFilled DEF Promised
<1>10. CASE d.op = "mod"
  <2>1. x \in 0..(Size(r) - 1)
    BY <1>10 DEF Accepts
  <2>2. bignum_mod_p(r, mod_p256_4(r, x), x)
    BY <1>1, <1>10, <2>1, ModFilled
  <2>3. QED
    BY <1>10, <2>2 DEF Promised
<1>11. CASE d.op = "triple"
  <2>1. x \in 0..(r.p - 1)
    BY <1>11 DEF Accepts
  <2>2. bignum_triple_p(r, triple_p256(r, x), x) /\ bignum_triple_p(r, triple_p384(r, x), x)
    BY <1>1, <1>11, <2>1, TripleFilled
  <2>3. QED
    BY <1>11, <2>2 DEF Promised
<1>12. CASE d.op = "cmul"
  <2>1. x \in 0..(r.p - 1) /\ y \in 0..(r.b - 1)
    BY <1>12 DEF Accepts
  <2>2. /\ Margin256(r) => bignum_cmul_p(r, cmul_p256(r, y, x), y, x)
        /\ MarginSm2(r) => bignum_cmul_p(r, cmul_sm2(r, y, x), y, x)
        /\ Margin384(r) => bignum_cmul_p(r, cmul_p384(r, y, x), y, x)
    BY <2>1, CmulFilled
  <2>3. QED
    BY <1>2, <1>12, <2>2 DEF Promised
<1>13. CASE d.op = "tomont"
  <2>1. x \in 0..(Size(r) - 1)
    BY <1>13 DEF Accepts
  <2>2. GoodEstimate(r)
    <3>1. \/ r.family = "p256" /\ Margin256(r)
          \/ r.family = "sm2" /\ MarginSm2(r)
          \/ r.family = "p384" /\ Margin384(r)
      BY <1>2, <1>13
    <3>2. QED
      BY <3>1, ModstepGood
  <2>3. bignum_tomont_p(r, Modsteps(r, x), x)
    BY <1>1, <1>13, <2>1, <2>2, ModstepsIs
  <2>4. QED
    BY <1>13, <2>3 DEF Promised
<1>14. CASE d.op = "demont"
  <2>1. x \in 0..(r.p - 1)
    BY <1>14 DEF Accepts
  <2>2. bignum_demont_p(r, Montreds(r, x), x)
    BY <1>3, <2>1, DemontFilled
  <2>3. QED
    BY <1>14, <2>2 DEF Promised
<1>15. CASE d.op = "deamont"
  <2>1. x \in 0..(Size(r) - 1)
    BY <1>15 DEF Accepts
  <2>2. bignum_deamont_p(r, Subtracted(r, Montreds(r, x)), x)
    BY <1>3, <2>1, DeamontFilled
  <2>3. QED
    BY <1>15, <2>2 DEF Promised
<1>16. CASE d.op = "montmul"
  <2>1. x \in Nat /\ y \in Nat /\ x * y <= Size(r) * r.p
    BY <1>16, ShapeFacts DEF Accepts
  <2>2. /\ bignum_montmul_p(r, montmul_p256(r, x, y), x, y)
        /\ bignum_montmul_p(r, montmul_p384(r, x, y), x, y)
    BY <1>3, <2>1, MontmulFilled
  <2>3. QED
    BY <1>16, <2>2 DEF Promised, bignum_montsqr_p
<1>17. QED
  BY <1>4, <1>5, <1>6, <1>7, <1>8, <1>9, <1>10, <1>11, <1>12, <1>13, <1>14, <1>15, <1>16

\* The shapes that the assumption gives to the families.
LEMMA ShapeOf ==
  ASSUME NEW r \in Curves
  PROVE  /\ WordShape(r)
         /\ r.family \in {"p256", "sm2", "p384"} => FilledShape(r)
         /\ r.family = "p25519" =>
              /\ Short25519(r) /\ r.b * r.e <= r.p /\ r.n >= 2
              /\ (4 * r.e + 2) * r.e + (2 * r.e) * r.b ^ (r.n - 1) <= r.p
         /\ r.family = "p256k1" => Shape256k1(r)
         /\ r.family = "p521" => Shape521(r)
         /\ r.family = "n25519" =>
              /\ r.m \in Nat /\ r.m > 0 /\ r.e \in Nat /\ r.e > 0 /\ r.p = r.m + r.e
              /\ r.b * r.e <= r.m /\ Size(r) <= r.b * r.m
         /\ r.family = "n521" =>
              /\ r.m \in Nat /\ r.m > 0 /\ r.e \in Nat /\ r.e > 0 /\ r.p = r.m - r.e
              /\ Size(r) = Spin(r) * r.m /\ Spin(r) * r.e <= r.p
<1>1. /\ WordShape(r)
      /\ IF r.family \in {"p256", "sm2", "p384"} THEN FilledShape(r) ELSE BelowShape(r)
  BY CurveAssumption
<1>2. r.family = "p25519" =>
        /\ Short25519(r) /\ r.b * r.e <= r.p /\ r.n >= 2
        /\ (4 * r.e + 2) * r.e + (2 * r.e) * r.b ^ (r.n - 1) <= r.p
  BY <1>1 DEF BelowShape, Short25519
<1>3. r.family = "p256k1" => Shape256k1(r)
  BY <1>1 DEF BelowShape, Shape256k1
<1>4. r.family = "p521" => Shape521(r)
  BY <1>1 DEF BelowShape, Shape521
<1>5. r.family = "n25519" =>
        /\ r.m \in Nat /\ r.m > 0 /\ r.e \in Nat /\ r.e > 0 /\ r.p = r.m + r.e
        /\ r.b * r.e <= r.m /\ Size(r) <= r.b * r.m
  BY <1>1 DEF BelowShape
<1>6. r.family = "n521" =>
        /\ r.m \in Nat /\ r.m > 0 /\ r.e \in Nat /\ r.e > 0 /\ r.p = r.m - r.e
        /\ Size(r) = Spin(r) * r.m /\ Spin(r) * r.e <= r.p
  BY <1>1 DEF BelowShape
<1>7. QED
  BY <1>1, <1>2, <1>3, <1>4, <1>5, <1>6

\* The functions of curve25519.
LEMMA P25519Meets ==
  ASSUME NEW r \in Curves, call \in Calls(r), P25519
  PROVE  MeetsInterface'
<1> DEFINE x == call.x
           y == call.y
<1>1. Accepts(r, call) /\ call.curve = r /\ call' = call
  BY CallAccepts DEF Accepts, P25519
<1>2. /\ Short25519(r) /\ r.b * r.e <= r.p /\ r.n >= 2
      /\ (4 * r.e + 2) * r.e + (2 * r.e) * r.b ^ (r.n - 1) <= r.p
  <2>1. r.family = "p25519"
    BY <1>1 DEF P25519, Offers
  <2>2. QED
    BY <2>1, ShapeOf
<1>3. SUFFICES Promised(r, call.op, z', x, y)
  BY <1>1 DEF MeetsInterface
<1>4. CASE call.op = "add"
  <2>1. z' = add_p25519(r, x, y)
    BY <1>1, <1>4 DEF P25519
  <2>2. x \in 0..(r.p - 1) /\ y \in 0..(r.p - 1)
    BY <1>1, <1>4 DEF Accepts
  <2>3. QED
    BY <1>1, <1>2, <1>4, <2>1, <2>2, Linear25519 DEF Promised
<1>5. CASE call.op = "double"
  <2>1. z' = add_p25519(r, x, x)
    BY <1>1, <1>5 DEF P25519
  <2>2. x \in 0..(r.p - 1)
    BY <1>1, <1>5 DEF Accepts
  <2>3. QED
    BY <1>1, <1>2, <1>5, <2>1, <2>2, Linear25519 DEF Promised
<1>6. CASE call.op = "sub"
  <2>1. z' = sub_p25519(r, x, y)
    BY <1>1, <1>6 DEF P25519
  <2>2. x \in 0..(r.p - 1) /\ y \in 0..(r.p - 1)
    BY <1>1, <1>6 DEF Accepts
  <2>3. QED
    BY <1>1, <1>2, <1>6, <2>1, <2>2, Linear25519 DEF Promised
<1>7. CASE call.op = "neg"
  <2>1. z' = neg_p25519(r, x)
    BY <1>1, <1>7 DEF P25519
  <2>2. x \in 0..(r.p - 1)
    BY <1>1, <1>7 DEF Accepts
  <2>3. QED
    BY <1>1, <1>2, <1>7, <2>1, <2>2, Linear25519 DEF Promised
<1>8. CASE call.op = "optneg"
  <2>1. z' = optneg_p25519(r, y, x)
    BY <1>1, <1>8 DEF P25519
  <2>2. x \in 0..(r.p - 1) /\ y \in Nat
    BY <1>1, <1>8 DEF Accepts
  <2>3. QED
    BY <1>1, <1>2, <1>8, <2>1, <2>2, Linear25519 DEF Promised
<1>9. CASE call.op = "cmul"
  <2>1. z' = cmul_p25519(r, y, x)
    BY <1>1, <1>9 DEF P25519
  <2>2. x \in 0..(r.p - 1) /\ y \in 0..(r.b - 1)
    BY <1>1, <1>9 DEF Accepts
  <2>3. QED
    BY <1>1, <1>2, <1>9, <2>1, <2>2, Cmul25519 DEF Promised
<1>10. CASE call.op = "mod"
  <2>1. z' = mod_p25519_4(r, x)
    BY <1>1, <1>10 DEF P25519
  <2>2. x \in 0..(Size(r) - 1)
    BY <1>1, <1>10 DEF Accepts
  <2>3. QED
    BY <1>1, <1>2, <1>10, <2>1, <2>2, Cmul25519 DEF Promised
<1>11. CASE call.op = "mul"
  <2>1. z' = mul_p25519(r, x, y)
    BY <1>1, <1>11 DEF P25519
  <2>2. x \in 0..(Size(r) - 1) /\ y \in 0..(Size(r) - 1)
    BY <1>1, <1>11 DEF Accepts
  <2>3. QED
    BY <1>1, <1>2, <1>11, <2>1, <2>2, Mul25519 DEF Promised, bignum_mul_p, bignum_sqr_p
<1>12. QED
  BY <1>1, <1>4, <1>5, <1>6, <1>7, <1>8, <1>9, <1>10, <1>11 DEF P25519, Accepts, Offers

\* The functions of secp256k1.
LEMMA P256k1Meets ==
  ASSUME NEW r \in Curves, call \in Calls(r), P256k1
  PROVE  MeetsInterface'
<1> DEFINE x == call.x
           y == call.y
<1>1. Accepts(r, call) /\ call.curve = r /\ call' = call
  BY CallAccepts DEF Accepts, P256k1
<1>2. Shape256k1(r)
  <2>1. r.family = "p256k1"
    BY <1>1 DEF P256k1
  <2>2. QED
    BY <2>1, ShapeOf
<1>3. SUFFICES Promised(r, call.op, z', x, y)
  BY <1>1 DEF MeetsInterface
<1>4. CASE call.op = "add"
  <2>1. z' = add_p256k1(r, x, y)
    BY <1>1, <1>4 DEF P256k1
  <2>2. x \in 0..(r.p - 1) /\ y \in 0..(r.p - 1)
    BY <1>1, <1>4 DEF Accepts
  <2>3. QED
    BY <1>1, <1>2, <1>4, <2>1, <2>2, Linear256k1 DEF Promised
<1>5. CASE call.op = "double"
  <2>1. z' = add_p256k1(r, x, x)
    BY <1>1, <1>5 DEF P256k1
  <2>2. x \in 0..(r.p - 1)
    BY <1>1, <1>5 DEF Accepts
  <2>3. QED
    BY <1>1, <1>2, <1>5, <2>1, <2>2, Linear256k1 DEF Promised
<1>6. CASE call.op = "triple"
  <2>1. z' = triple_p256k1(r, x)
    BY <1>1, <1>6 DEF P256k1
  <2>2. x \in 0..(r.p - 1)
    BY <1>1, <1>6 DEF Accepts
  <2>3. QED
    BY <1>1, <1>2, <1>6, <2>1, <2>2, Products256k1 DEF Promised
<1>7. CASE call.op = "sub"
  <2>1. z' = sub_p256k1(r, x, y)
    BY <1>1, <1>7 DEF P256k1
  <2>2. x \in 0..(r.p - 1) /\ y \in 0..(r.p - 1)
    BY <1>1, <1>7 DEF Accepts
  <2>3. QED
    BY <1>1, <1>2, <1>7, <2>1, <2>2, Linear256k1 DEF Promised
<1>8. CASE call.op = "neg"
  <2>1. z' = neg_p256k1(r, x)
    BY <1>1, <1>8 DEF P256k1
  <2>2. x \in 0..(r.p - 1)
    BY <1>1, <1>8 DEF Accepts
  <2>3. QED
    BY <1>1, <1>2, <1>8, <2>1, <2>2, Linear256k1 DEF Promised
<1>9. CASE call.op = "optneg"
  <2>1. z' = optneg_p256k1(r, y, x)
    BY <1>1, <1>9 DEF P256k1
  <2>2. x \in 0..(r.p - 1) /\ y \in Nat
    BY <1>1, <1>9 DEF Accepts
  <2>3. QED
    BY <1>1, <1>2, <1>9, <2>1, <2>2, Linear256k1 DEF Promised
<1>10. CASE call.op = "half"
  <2>1. z' = half_p256k1(r, x)
    BY <1>1, <1>10 DEF P256k1
  <2>2. x \in 0..(r.p - 1)
    BY <1>1, <1>10 DEF Accepts
  <2>3. QED
    BY <1>1, <1>2, <1>10, <2>1, <2>2, Half256k1 DEF Promised
<1>11. CASE call.op = "cmul"
  <2>1. z' = cmul_p256k1(r, y, x)
    BY <1>1, <1>11 DEF P256k1
  <2>2. x \in 0..(r.p - 1) /\ y \in 0..(r.b - 1)
    BY <1>1, <1>11 DEF Accepts
  <2>3. QED
    BY <1>1, <1>2, <1>11, <2>1, <2>2, Products256k1 DEF Promised
<1>12. CASE call.op = "mod"
  <2>1. z' = mod_p256k1_4(r, x)
    BY <1>1, <1>12 DEF P256k1
  <2>2. x \in 0..(Size(r) - 1)
    BY <1>1, <1>12 DEF Accepts
  <2>3. QED
    BY <1>1, <1>2, <1>12, <2>1, <2>2, Mod256k1 DEF Promised
<1>13. CASE call.op = "mul"
  <2>1. z' = mul_p256k1(r, x, y)
    BY <1>1, <1>13 DEF P256k1
  <2>2. x \in 0..(Size(r) - 1) /\ y \in 0..(Size(r) - 1)
    BY <1>1, <1>13 DEF Accepts
  <2>3. QED
    BY <1>1, <1>2, <1>13, <2>1, <2>2, Products256k1 DEF Promised, bignum_mul_p, bignum_sqr_p
<1>14. CASE call.op = "tomont"
  <2>1. z' = tomont_p256k1(r, x)
    BY <1>1, <1>14 DEF P256k1
  <2>2. x \in 0..(Size(r) - 1)
    BY <1>1, <1>14 DEF Accepts
  <2>3. QED
    BY <1>1, <1>2, <1>14, <2>1, <2>2, Products256k1 DEF Promised
<1>15. CASE call.op = "demont"
  <2>1. z' = demont_p256k1(r, x)
    BY <1>1, <1>15 DEF P256k1
  <2>2. x \in 0..(r.p - 1)
    BY <1>1, <1>15 DEF Accepts
  <2>3. QED
    BY <1>1, <1>2, <1>15, <2>1, <2>2, Montgomery256k1 DEF Promised
<1>16. CASE call.op = "deamont"
  <2>1. z' = deamont_p256k1(r, x)
    BY <1>1, <1>16 DEF P256k1
  <2>2. x \in 0..(Size(r) - 1)
    BY <1>1, <1>16 DEF Accepts
  <2>3. QED
    BY <1>1, <1>2, <1>16, <2>1, <2>2, Montgomery256k1 DEF Promised
<1>17. CASE call.op = "montmul"
  <2>1. z' = montmul_p256k1(r, x, y)
    BY <1>1, <1>17 DEF P256k1
  <2>2. x \in Nat /\ y \in Nat /\ x * y <= Size(r) * r.p
    BY <1>1, <1>17 DEF Accepts
  <2>3. QED
    BY <1>1, <1>2, <1>17, <2>1, <2>2, Montgomery256k1 DEF Promised, bignum_montsqr_p
<1>18. QED
  BY <1>1, <1>4, <1>5, <1>6, <1>7, <1>8, <1>9, <1>10, <1>11, <1>12, <1>13, <1>14, <1>15, <1>16, <1>17 DEF P256k1, Accepts, Offers

\* The functions of P-521.
LEMMA P521Meets ==
  ASSUME NEW r \in Curves, call \in Calls(r), P521
  PROVE  MeetsInterface'
<1> DEFINE x == call.x
           y == call.y
<1>1. Accepts(r, call) /\ call.curve = r /\ call' = call
  BY CallAccepts DEF Accepts, P521
<1>2. Shape521(r) /\ r.family = "p521"
  <2>1. r.family = "p521"
    BY <1>1 DEF P521
  <2>2. QED
    BY <2>1, ShapeOf
<1>3. SUFFICES Promised(r, call.op, z', x, y)
  BY <1>1 DEF MeetsInterface
<1>4. CASE call.op = "add"
  <2>1. z' = add_p521(r, x, y)
    BY <1>1, <1>4 DEF P521
  <2>2. x \in 0..(r.p - 1) /\ y \in 0..(r.p - 1)
    BY <1>1, <1>4 DEF Accepts
  <2>3. QED
    BY <1>1, <1>2, <1>4, <2>1, <2>2, Linear521 DEF Promised
<1>5. CASE call.op = "double"
  <2>1. z' = double_p521(r, x)
    BY <1>1, <1>5 DEF P521
  <2>2. x \in 0..(r.p - 1)
    BY <1>1, <1>5 DEF Accepts
  <2>3. QED
    BY <1>1, <1>2, <1>5, <2>1, <2>2, Shifted521 DEF Promised
<1>6. CASE call.op = "triple"
  <2>1. z' = triple_p521(r, x)
    BY <1>1, <1>6 DEF P521
  <2>2. x \in 0..(r.p - 1)
    BY <1>1, <1>6 DEF Accepts
  <2>3. QED
    BY <1>1, <1>2, <1>6, <2>1, <2>2, Shifted521 DEF Promised
<1>7. CASE call.op = "sub"
  <2>1. z' = sub_p521(r, x, y)
    BY <1>1, <1>7 DEF P521
  <2>2. x \in 0..(r.p - 1) /\ y \in 0..(r.p - 1)
    BY <1>1, <1>7 DEF Accepts
  <2>3. QED
    BY <1>1, <1>2, <1>7, <2>1, <2>2, Linear521 DEF Promised
<1>8. CASE call.op = "neg"
  <2>1. z' = neg_p521(r, x)
    BY <1>1, <1>8 DEF P521
  <2>2. x \in 0..(r.p - 1)
    BY <1>1, <1>8 DEF Accepts
  <2>3. QED
    BY <1>1, <1>2, <1>8, <2>1, <2>2, Linear521 DEF Promised
<1>9. CASE call.op = "optneg"
  <2>1. z' = optneg_p521(r, y, x)
    BY <1>1, <1>9 DEF P521
  <2>2. x \in 0..(r.p - 1) /\ y \in Nat
    BY <1>1, <1>9 DEF Accepts
  <2>3. QED
    BY <1>1, <1>2, <1>9, <2>1, <2>2, Linear521 DEF Promised
<1>10. CASE call.op = "half"
  <2>1. z' = half_p521(r, x)
    BY <1>1, <1>10 DEF P521
  <2>2. x \in 0..(r.p - 1)
    BY <1>1, <1>10 DEF Accepts
  <2>3. QED
    BY <1>1, <1>2, <1>10, <2>1, <2>2, Shifted521 DEF Promised
<1>11. CASE call.op = "cmul"
  <2>1. z' = cmul_p521(r, y, x)
    BY <1>1, <1>11 DEF P521
  <2>2. x \in 0..(r.p - 1) /\ y \in 0..(r.b - 1)
    BY <1>1, <1>11 DEF Accepts
  <2>3. QED
    BY <1>1, <1>2, <1>11, <2>1, <2>2, Products521 DEF Promised
<1>12. CASE call.op = "mod"
  <2>1. z' = mod_p521_9(r, x)
    BY <1>1, <1>12 DEF P521
  <2>2. x \in 0..(Size(r) - 1)
    BY <1>1, <1>12 DEF Accepts
  <2>3. QED
    BY <1>1, <1>2, <1>12, <2>1, <2>2, Products521 DEF Promised
<1>13. CASE call.op = "mul"
  <2>1. z' = mul_p521(r, x, y)
    BY <1>1, <1>13 DEF P521
  <2>2. x \in 0..(r.p - 1) /\ y \in 0..(r.p - 1)
    BY <1>1, <1>2, <1>13 DEF Accepts
  <2>3. QED
    BY <1>1, <1>2, <1>13, <2>1, <2>2, Products521 DEF Promised, bignum_mul_p, bignum_sqr_p
<1>14. CASE call.op = "tomont"
  <2>1. z' = tomont_p521(r, x)
    BY <1>1, <1>14 DEF P521
  <2>2. x \in 0..(Size(r) - 1)
    BY <1>1, <1>14 DEF Accepts
  <2>3. QED
    BY <1>1, <1>2, <1>14, <2>1, <2>2, Tomont521 DEF Promised
<1>15. CASE call.op = "demont"
  <2>1. z' = demont_p521(r, x)
    BY <1>1, <1>15 DEF P521
  <2>2. x \in 0..(r.p - 1)
    BY <1>1, <1>15 DEF Accepts
  <2>3. QED
    BY <1>1, <1>2, <1>15, <2>1, <2>2, Montgomery521 DEF Promised
<1>16. CASE call.op = "deamont"
  <2>1. z' = deamont_p521(r, x)
    BY <1>1, <1>16 DEF P521
  <2>2. x \in 0..(Size(r) - 1)
    BY <1>1, <1>16 DEF Accepts
  <2>3. QED
    BY <1>1, <1>2, <1>16, <2>1, <2>2, Montgomery521 DEF Promised
<1>17. CASE call.op = "montmul"
  <2>1. z' = montmul_p521(r, x, y)
    BY <1>1, <1>17 DEF P521
  <2>2. x \in 0..(r.p - 1) /\ y \in 0..(r.p - 1)
    BY <1>1, <1>2, <1>17 DEF Accepts
  <2>3. QED
    BY <1>1, <1>2, <1>17, <2>1, <2>2, Montgomery521 DEF Promised, bignum_montsqr_p
<1>18. QED
  BY <1>1, <1>4, <1>5, <1>6, <1>7, <1>8, <1>9, <1>10, <1>11, <1>12, <1>13, <1>14, <1>15, <1>16, <1>17 DEF P521, Accepts, Offers

\* The functions of p256, sm2 and p384.
LEMMA FilledMeets ==
  ASSUME NEW r \in Curves, call \in Calls(r), Filled \/ P256 \/ Sm2 \/ P384
  PROVE  MeetsInterface'
<1> DEFINE x == call.x
           y == call.y
           op == call.op
           ops == {"triple", "cmul", "tomont", "demont", "deamont", "montmul"}
<1>1. Accepts(r, call) /\ call.curve = r /\ call' = call
  BY CallAccepts DEF Accepts, Filled, P256, Sm2, P384
<1>2. r.family \in {"p256", "sm2", "p384"}
  BY <1>1 DEF Filled, P256, Sm2, P384, Offers
<1>3. WordShape(r) /\ FilledShape(r)
  BY <1>2, ShapeOf
<1>4. SUFFICES Promised(r, op, z', x, y)
  BY <1>1 DEF MeetsInterface
<1>5. CASE Filled
  <2>1. /\ op \in {"add", "double", "sub", "neg", "optneg", "half", "mod"}
        /\ z' = Linear256(r, x, y)
    BY <1>1, <1>5 DEF Filled, Offers
  <2>2. /\ op = "add" => z' = add_p256(r, x, y)
        /\ op = "double" => z' = add_p256(r, x, x)
        /\ op = "sub" => z' = sub_p256(r, x, y)
        /\ op = "neg" => z' = neg_p256(r, x)
        /\ op = "optneg" => z' = optneg_p256(r, y, x)
        /\ op = "half" => z' = half_p256(r, x)
        /\ op = "mod" => z' = mod_p256_4(r, x)
    BY <2>1 DEF Linear256
  <2>3. QED
    BY <1>1, <1>2, <1>3, <2>1, <2>2, FilledAnswers
<1>6. CASE P256
  <2>1. op \in ops /\ r.family = "p256"
    BY <1>1, <1>6 DEF P256, Offers
  <2>2. /\ op = "triple" => z' = triple_p256(r, x)
        /\ op = "cmul" => z' = cmul_p256(r, y, x)
        /\ op = "tomont" => z' = tomont_p256(r, x)
        /\ op = "demont" => z' = demont_p256(r, x)
        /\ op = "deamont" => z' = deamont_p256(r, x)
        /\ op = "montmul" => z' = montmul_p256(r, x, y)
    BY <1>1, <1>6 DEF P256
  <2>3. QED
    BY <1>1, <1>2, <1>3, <2>1, <2>2, FilledAnswers DEF tomont_p256, demont_p256, deamont_p256
<1>7. CASE Sm2
  <2>1. op \in ops /\ r.family = "sm2"
    BY <1>1, <1>7 DEF Sm2, Offers
  <2>2. /\ op = "triple" => z' = triple_p384(r, x)
        /\ op = "cmul" => z' = cmul_sm2(r, y, x)
        /\ op = "tomont" => z' = tomont_sm2(r, x)
        /\ op = "demont" => z' = demont_p256(r, x)
        /\ op = "deamont" => z' = deamont_p256(r, x)
        /\ op = "montmul" => z' = montmul_p256(r, x, y)
    BY <1>1, <1>7 DEF Sm2
  <2>3. QED
    BY <1>1, <1>2, <1>3, <2>1, <2>2, FilledAnswers DEF tomont_sm2, demont_p256, deamont_p256
<1>8. CASE P384
  <2>1. op \in ops /\ r.family = "p384"
    BY <1>1, <1>8 DEF P384, Offers
  <2>2. /\ op = "triple" => z' = triple_p384(r, x)
        /\ op = "cmul" => z' = cmul_p384(r, y, x)
        /\ op = "tomont" => z' = tomont_p384(r, x)
        /\ op = "demont" => z' = demont_p384(r, x)
        /\ op = "deamont" => z' = deamont_p384(r, x)
        /\ op = "montmul" => z' = montmul_p384(r, x, y)
    BY <1>1, <1>8 DEF P384
  <2>3. QED
    BY <1>1, <1>2, <1>3, <2>1, <2>2, FilledAnswers DEF tomont_p384, demont_p384, deamont_p384
<1>9. QED
  BY <1>5, <1>6, <1>7, <1>8

\* The orders of the groups that do not fill their words.
LEMMA OrdersMeet ==
  ASSUME NEW r \in Curves, call \in Calls(r), Orders
  PROVE  MeetsInterface'
<1> DEFINE x == call.x
<1>1. Accepts(r, call) /\ call.curve = r /\ call' = call
  BY CallAccepts DEF Accepts, Orders
<1>2. SUFFICES Promised(r, call.op, z', x, call.y)
  BY <1>1 DEF MeetsInterface
<1>3. x \in 0..(Size(r) - 1) /\ WordShape(r) /\ call.op = "mod"
  BY <1>1, ShapeOf DEF Accepts, Orders, Offers
<1>4. CASE r.family = "n25519"
  <2>1. z' = mod_n25519_4(r, x)
    BY <1>1, <1>4 DEF Orders, Offers
  <2>2. /\ r.m \in Nat /\ r.m > 0 /\ r.e \in Nat /\ r.e > 0 /\ r.p = r.m + r.e
        /\ r.b * r.e <= r.m /\ Size(r) <= r.b * r.m
    BY <1>4, ShapeOf
  <2>3. bignum_mod_p(r, mod_n25519_4(r, x), x)
    BY <1>3, <2>2, Order25519
  <2>4. QED
    BY <1>3, <2>1, <2>3 DEF Promised
<1>5. CASE r.family = "n521"
  <2>1. z' = mod_n521_9(r, x)
    BY <1>1, <1>5 DEF Orders, Offers
  <2>2. /\ r.m \in Nat /\ r.m > 0 /\ r.e \in Nat /\ r.e > 0 /\ r.p = r.m - r.e
        /\ Size(r) = Spin(r) * r.m /\ Spin(r) * r.e <= r.p
    BY <1>5, ShapeOf
  <2>3. bignum_mod_p(r, mod_n521_9(r, x), x)
    BY <1>3, <2>2, Order521
  <2>4. QED
    BY <1>3, <2>1, <2>3 DEF Promised
<1>6. QED
  BY <1>1, <1>4, <1>5 DEF Orders, Offers

\* A call of some curve.
Called == \E r \in Curves : call \in Calls(r)

(***************************************************************************)
(* Every field function of every curve returns the reduced result that     *)
(* include/s2n-bignum.h names for it, for every word base, number of words *)
(* and modulus of the shape that the family's code relies on.              *)
(***************************************************************************)
THEOREM FieldFunctions == CallSpec => []MeetsInterface
<1>1. CallInit => Called /\ MeetsInterface
  BY DEF CallInit, Called, MeetsInterface
<1>2. Called /\ MeetsInterface /\ [CallNext \/ CallReturned]_callVars => (Called /\ MeetsInterface)'
  <2>1. SUFFICES ASSUME Called, MeetsInterface, [CallNext \/ CallReturned]_callVars
                 PROVE  (Called /\ MeetsInterface)'
    OBVIOUS
  <2>2. PICK r \in Curves : call \in Calls(r)
    BY <2>1 DEF Called
  <2>3. call' = call
    BY <2>1 DEF CallNext, CallReturned, callVars, Filled, P256, Sm2, P384, P25519, P256k1, P521, Orders
  <2>4. Called'
    BY <2>2, <2>3 DEF Called
  <2>5. CASE Filled \/ P256 \/ Sm2 \/ P384
    BY <2>2, <2>4, <2>5, FilledMeets
  <2>6. CASE P25519
    BY <2>2, <2>4, <2>6, P25519Meets
  <2>7. CASE P256k1
    BY <2>2, <2>4, <2>7, P256k1Meets
  <2>8. CASE P521
    BY <2>2, <2>4, <2>8, P521Meets
  <2>9. CASE Orders
    BY <2>2, <2>4, <2>9, OrdersMeet
  <2>10. CASE CallReturned \/ UNCHANGED callVars
    <3>1. z' = z
      BY <2>10 DEF CallReturned, callVars
    <3>2. MeetsInterface'
      BY <2>1, <2>3, <3>1 DEF MeetsInterface
    <3>3. QED
      BY <2>4, <3>2
  <2>11. QED
    BY <2>1, <2>5, <2>6, <2>7, <2>8, <2>9, <2>10 DEF CallNext
<1>3. QED
  BY <1>1, <1>2, PTL DEF CallSpec
=============================================================================

-------------------------- MODULE FieldArithmetic --------------------------
(***************************************************************************)
(* The field functions of the Arm directories of the curves, as functions  *)
(* on numbers.  Chains of adds and adcs are integer arithmetic that is cut *)
(* off where the registers end; whatever decides on a correction (a carry, *)
(* a top word used as a mask, the conjunction of words that a comparison   *)
(* with the modulus goes through) and every quotient estimate is formed    *)
(* from the words the code forms it from.                                  *)
(*                                                                         *)
(* A curve is a record of the word base b and its square root h, the       *)
(* number of words n, the modulus p, and where the code uses them the      *)
(* power of two m just above p and e = m - p.                              *)
(***************************************************************************)
EXTENDS FieldInterface

Size(c)       == c.b ^ c.n
Lo(c, v)      == v % Size(c)
Hi(c, v)      == v \div Size(c)            \* -1 for a borrow
Word(c, v, i) == (v \div c.b ^ i) % c.b
Under(test, v) == IF test THEN v ELSE 0    \* csel or a mask

\* The carry of adds from word 0 on, through the conjunction of the others.
CarryThrough(c, v, w) ==
  /\ Word(c, v, 0) + w >= c.b
  /\ \A i \in 1..(c.n - 1) : Word(c, v, i) = c.b - 1

-----------------------------------------------------------------------------
(* Quotient estimates from the two top words hi and lo of n + 1 words. *)

\* Mutant: an estimate that passes the word wraps around.
Unsaturated(c, q) == q % c.b

\* csetm, orr: an estimate that passes the word becomes the largest word.
Saturated(c, q) == IF q >= c.b THEN c.b - 1 ELSE q
Raw256(c, hi, lo) ==
  hi + hi \div c.h + Under(lo + (((hi * c.b + lo) \div c.h) % c.b) + 1 >= c.b, 1)
Estimate256(c, hi, lo) == Saturated(c, Raw256(c, hi, lo))
RawSm2(c, hi, lo) ==
  LET t == (hi + 1 + (lo + hi) \div c.b) % c.b
      u == (hi + ((lo + hi) % c.b) \div c.h) % c.b
  IN  t + u \div c.h
EstimateSm2(c, hi, lo) ==                \* cinv q, q, cs
  LET q == RawSm2(c, hi, lo) IN IF q >= c.b THEN c.b - 1 - (q % c.b) ELSE q
Estimate384(c, hi, lo) == Saturated(c, hi + 1)

Top(c, v)    == Hi(c, v)
Second(c, v) == Word(c, v, c.n - 1)

\* v - q * p in n + 1 words; the top word, all ones for a negative
\* difference, is the mask of the correction.
Difference(c, v, q) == (v - q * c.p) % (c.b * Size(c))
Corrected(c, v, q) ==
  LET r == Difference(c, v, q) IN Lo(c, r + Under(Hi(c, r) # 0, c.p))

\* The same with q = Top + 1 as an addition in n words: no carry, no quotient.
Folded(c, v) ==
  LET s == Lo(c, v) + (Top(c, v) + 1) * (Size(c) - c.p)
  IN  Lo(c, s + Under(s < Size(c), c.p))

-----------------------------------------------------------------------------
(* p256, sm2, p384: Montgomery-friendly moduli that fill their words. *)

Subtracted(c, v) == IF v < c.p THEN Lo(c, v) ELSE Lo(c, v - c.p)

add_p256(c, x, y)    == Subtracted(c, x + y)
sub_p256(c, x, y)    == Lo(c, (x - y) + Under(x < y, c.p))
neg_p256(c, x)       == Lo(c, Under(x # 0, c.p) - x)
optneg_p256(c, q, x) == IF Under(x # 0, q) # 0 THEN c.p - x ELSE x
half_p256(c, x)      == (x + Under(x % 2 = 1, c.p)) \div 2
mod_p256_4(c, x)     == Subtracted(c, x)

triple_p256(c, x)  == Corrected(c, 3 * x, Top(c, 3 * x) + 1)
triple_p384(c, x)  == Folded(c, 3 * x)
cmul_p256(c, w, x) == LET v == w * x IN Corrected(c, v, Raw256(c, Top(c, v), Second(c, v)) % c.b)
cmul_sm2(c, w, x)  == LET v == w * x IN Corrected(c, v, RawSm2(c, Top(c, v), Second(c, v)) % c.b)
cmul_p384(c, w, x) == Folded(c, w * x)

\* modstep: x |-> (b * x) mod p, with the estimate of the modulus; n of them.
ModstepEstimate(c, v) ==
  CASE c.family = "p256" -> Estimate256(c, Top(c, v), Second(c, v))
    [] c.family = "sm2"  -> EstimateSm2(c, Top(c, v), Second(c, v))
    [] c.family = "p384" -> Estimate384(c, Top(c, v), Second(c, v))
Modsteps(c, x) ==
  LET t[i \in 0..c.n] ==
        IF i = 0 THEN mod_p256_4(c, x)
        ELSE LET v == c.b * t[i - 1] IN Corrected(c, v, ModstepEstimate(c, v))
  IN  t[c.n]
tomont_p256(c, x) == Modsteps(c, x)
tomont_sm2(c, x)  == Modsteps(c, x)
tomont_p384(c, x) == Modsteps(c, x)

\* montreds: one word off, with the multiplier that cancels it.
Multiplier(c, d) == IF c.family = "p384" THEN (d + d * c.h) % c.b ELSE d
Montreds(c, x) ==
  LET t[i \in 0..c.n] == IF i = 0 THEN x
                         ELSE (t[i - 1] + Multiplier(c, t[i - 1] % c.b) * c.p) \div c.b
  IN  t[c.n]
demont_p256(c, x)  == Montreds(c, x)
demont_p384(c, x)  == Montreds(c, x)
deamont_p256(c, x) == Subtracted(c, Montreds(c, x))
deamont_p384(c, x) == Subtracted(c, Montreds(c, x))
montmul_p256(c, x, y) == Subtracted(c, Montreds(c, Lo(c, x * y)) + Hi(c, x * y))
montmul_p384(c, x, y) == Subtracted(c, Montreds(c, Lo(c, x * y)) + Hi(c, x * y))

-----------------------------------------------------------------------------
(* p25519 = m - e with m = 2^255, one bit short of its words. *)

add_p25519(c, x, y) == LET s == x + y + c.e + c.m IN IF s < Size(c) THEN x + y ELSE Lo(c, s)
sub_p25519(c, x, y) == Lo(c, (x - y) - Under(x < y, c.e)) % c.m
neg_p25519(c, x)    == Under(x # 0, Lo(c, c.p - x))
optneg_p25519(c, q, x) == IF q # 0 /\ x # 0 THEN Lo(c, c.p - x) ELSE x

\* v has a quotient by m that fits a word; carried is what a multiplication
\* adds only after the quotient has been estimated.
Fold25519(c, v, carried) ==
  LET s == (v % c.m) + c.m + (c.e * (v \div c.m + 1)) + carried
  IN  Lo(c, s - Under(s < Size(c), c.e)) % c.m
cmul_p25519(c, w, x)  == Fold25519(c, w * x, 0)
mod_p25519_4(c, x)    == Fold25519(c, x, 0)
mul_p25519(c, x, y) ==
  LET part(i) == 2 * c.e * Word(c, x * y, c.n + i)
      low[i \in 0..c.n] ==
        IF i = 0 THEN 0 ELSE low[i - 1] + (part(i - 1) % c.b) * c.b ^ (i - 1)
      high[i \in 0..c.n] ==
        IF i = 0 THEN 0 ELSE high[i - 1] + (part(i - 1) \div c.b) * c.b ^ i
  IN  Fold25519(c, Lo(c, x * y) + low[c.n] + (high[c.n] - high[c.n - 2]), high[c.n - 2])

-----------------------------------------------------------------------------
(* p256k1 = b^n - e with e of one word. *)

Above256k1(c, s) == Hi(c, s) + Under(CarryThrough(c, Lo(c, s), c.e), 1) # 0
add_p256k1(c, x, y) == LET s == x + y IN Lo(c, Lo(c, s) + Under(Above256k1(c, s), c.e))
sub_p256k1(c, x, y) == Lo(c, (x - y) - Under(x < y, c.e))
neg_p256k1(c, x)    == Lo(c, Under(x # 0, c.p) - x)
optneg_p256k1(c, q, x) ==
  LET t == q # 0 /\ x # 0 IN Lo(c, (IF t THEN Size(c) - 1 - x ELSE x) - Under(t, c.e - 1))
half_p256k1(c, x) ==
  LET w == Under(x % 2 = 1, c.e)
  IN  Lo(c, x - w) \div 2 + ((w - Under(x < w, 1)) % 2) * (Size(c) \div 2)
Fold256k1(c, v) ==
  LET s == Lo(c, v) + (Top(c, v) + 1) * c.e IN Lo(c, s - Under(s < Size(c), c.e))
triple_p256k1(c, x)  == Fold256k1(c, 3 * x)
cmul_p256k1(c, w, x) == Fold256k1(c, w * x)
tomont_p256k1(c, x)  == Fold256k1(c, c.e * x)
mod_p256k1_4(c, x)   == IF CarryThrough(c, x, c.e) THEN (Word(c, x, 0) + c.e) % c.b ELSE x
mul_p256k1(c, x, y)  == Fold256k1(c, Lo(c, x * y) + c.e * Hi(c, x * y))

\* The rows of a Montgomery reduction: the multiplier of each word, and the
\* high half of its product with e, taken off the next word with a borrow.
WordInverse(c) == CHOOSE w \in 0..(c.b - 1) : (w * c.e) % c.b = 1
Row256k1(c, d) == (WordInverse(c) * d) % c.b
Rows256k1(c, x) ==
  LET off[i \in 0..c.n] ==
        IF i = 0 THEN 0
        ELSE LET d == Word(c, x, i - 1) - off[i - 1]
             IN  (Row256k1(c, d) * c.e) \div c.b + Under(d < 0, 1)
      m[i \in 0..c.n] ==
        IF i = 0 THEN 0
        ELSE m[i - 1] + Row256k1(c, Word(c, x, i - 1) - off[i - 1]) * c.b ^ (i - 1)
  IN  [m |-> m[c.n], off |-> off[c.n]]
demont_p256k1(c, x)  == LET r == Rows256k1(c, x) IN Lo(c, r.m - r.off)
deamont_p256k1(c, x) ==
  LET z == demont_p256k1(c, x)
  IN  IF Rows256k1(c, x).m = Size(c) - 1 THEN (c.e + Word(c, z, 0)) % c.b ELSE z
\* As bignum_montmul_p256k1_alt does it: a reduced low half plus the high half.
\* (The form without _alt leaves a value below 3 * p and corrects it by a
\* quotient; it is not modelled.)
montmul_p256k1(c, x, y) == add_p256k1(c, demont_p256k1(c, Lo(c, x * y)), Hi(c, x * y))

-----------------------------------------------------------------------------
(* p521 = m - 1: sums are formed with one added, so that a carry into bit  *)
(* 521 says that the sum is not reduced.                                   *)

OneOff(c, s) == IF s >= c.m THEN s - c.m ELSE s - 1
add_p521(c, x, y)    == OneOff(c, x + y + 1)
sub_p521(c, x, y)    == Lo(c, (x - y) - Under(x < y, 1)) % c.m
neg_p521(c, x)       == IF x # 0 THEN c.m - 1 - x ELSE x
optneg_p521(c, q, x) == IF x # 0 /\ q # 0 THEN c.m - 1 - x ELSE x
double_p521(c, x)    == (2 * x + Under(x >= c.m \div 2, 1)) % c.m
half_p521(c, x)      == x \div 2 + (x % 2) * (c.m \div 2)
triple_p521(c, x)    == OneOff(c, x + ((2 * x) % c.m) + x \div (c.m \div 2) + 1)
\* l + h, and one more if l + h + 1 reaches bit 521
Fold521(c, l, h)     == (l + h + Under(l + h + 1 >= c.m, 1)) % c.m
cmul_p521(c, w, x)   ==
  LET l == (w * x) % c.m
      h == (w * x) \div c.m
      ones == CarryThrough(c, l + (Size(c) - c.m), h + 1)
  IN  (l + h + Under(ones, 1)) % c.m
mod_p521_9(c, x)     == Fold521(c, x % c.m, x \div c.m)
mul_p521(c, x, y)    == Fold521(c, (x * y) % c.m, (x * y) \div c.m)

\* Multiplication by 2^(64*9) is a rotation by that less 521.
Spin(c) == Size(c) \div c.m
RotateRight(c, x) == x \div Spin(c) + (x % Spin(c)) * (c.m \div Spin(c))
tomont_p521(c, x) == LET r == mod_p521_9(c, x)
                     IN  ((r * Spin(c)) % c.m) + r \div (c.m \div Spin(c))
demont_p521(c, x) == RotateRight(c, x)
deamont_p521(c, x) ==
  Fold521(c, x \div Spin(c), (x % Spin(c)) * (c.m \div Spin(c)))
montmul_p521(c, x, y) == RotateRight(c, mul_p521(c, x, y))

-----------------------------------------------------------------------------
(* Reduction modulo the order of a group. *)

\* n_25519 = m + e: the quotient by m is right or one too large.
mod_n25519_4(c, x) ==
  LET d == (x % c.m) - (x \div c.m) * c.e IN Lo(c, d + Under(d < 0, c.p))
\* n_521 = m - e
mod_n521_9(c, x) ==
  LET s == ((x % c.m) + Size(c) - c.m) + (x \div c.m + 1) * c.e
  IN  Lo(c, s - Under(s < Size(c), c.e)) % c.m
=============================================================================

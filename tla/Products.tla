------------------------------ MODULE Products ------------------------------
(***************************************************************************)
(* Products and squares of numbers: the columns of the generic functions,  *)
(* the rows of bignum_mul_4_8_alt and its relatives, and the assembly of   *)
(* Karatsuba's three products in arm/fastmul.                              *)
(*                                                                         *)
(* Columns are of words of base B.  The functions for fixed sizes take the *)
(* base b of a word as an argument, so that the small bases TLC needs can  *)
(* differ from function to function.  Words and masks that carry from one  *)
(* part of a number to another are those of the code.  Results are apart   *)
(* from the operands, except that bignum_madd adds to its result.          *)
(***************************************************************************)
EXTENDS BignumInterface, SequencesExt

CONSTANT Questions      \* the calls: op, the operands and their lengths

VARIABLES query, answer

Unset == <<>>

WordOf(b, x, i) == (x \div b ^ i) % b
UpTo(n) == [i \in 1..n |-> i - 1]
Greater(a, c) == IF a >= c THEN a ELSE c

-----------------------------------------------------------------------------
(* Columns: all products for a word of the result are summed in the three  *)
(* words c:h:l, whose lowest is stored.                                    *)

\* Mutant: a column ends a term early while it is shorter than x.
ColumnShort(x, m, y, n, k) ==
  MapThenSumSet(LAMBDA i : WordOf(B, x, i) * WordOf(B, y, k - i),
                Greater(0, k + 1 - n) .. (Lesser(k, m) - 1))

Column(x, m, y, n, k) ==
  MapThenSumSet(LAMBDA i : WordOf(B, x, i) * WordOf(B, y, k - i),
                Greater(0, k + 1 - n) .. (Lesser(k + 1, m) - 1))

\* The terms x[i] * x[k - i] once and doubled, and the square in the middle.
SquareColumn(x, n, k) ==
  LET bot  == Greater(0, k + 1 - n)
      htop == Lesser((k + 1) \div 2, n)
      half == MapThenSumSet(LAMBDA i : WordOf(B, x, i) * WordOf(B, x, k - i), bot .. (htop - 1))
      i    == Greater(bot, htop)
  IN  2 * half + (IF k % 2 = 0 /\ i < n THEN WordOf(B, x, i) ^ 2 ELSE 0)

\* Into word k of z, with what the columns below left in c:h:l.
StoreColumn(s, k, sum) ==
  LET v == Low(3, s.chl + sum) IN [z |-> s.z + Pow[k] * Low(1, v), chl |-> High(1, v)]

NoColumn == [z |-> 0, chl |-> 0]

mul(p, x, m, y, n) ==
  FoldLeft(LAMBDA s, k : StoreColumn(s, k, Column(x, m, y, n, k)), NoColumn, UpTo(p)).z
sqr(p, x, n) ==
  FoldLeft(LAMBDA s, k : StoreColumn(s, k, SquareColumn(x, n, k)), NoColumn, UpTo(p)).z
\* <<z, ret>>; with p = 0 the register of p is returned as it is.
madd(p, z, x, m, y, n) ==
  LET s == FoldLeft(LAMBDA s, k : StoreColumn(s, k, WordOf(B, z, k) + Column(x, m, y, n, k)),
                    NoColumn, UpTo(p))
  IN  <<s.z, Low(1, s.chl)>>

-----------------------------------------------------------------------------
(* Rows: for every word of x a chain of additions of the low words of its  *)
(* products with y, then one of the high words.                            *)
Row(b, n, u, y, d, i) ==
  LET R    == b ^ n
      prod(j)  == d * WordOf(b, y, j)
      lows     == u \div b ^ i + MapThenSumSet(LAMBDA j : (prod(j) % b) * b ^ j, 0 .. (n - 1))
      highs    == (lows % R) \div b
                  + MapThenSumSet(LAMBDA j : (prod(j) \div b) * b ^ j, 0 .. (n - 2))
      top      == (lows \div R + prod(n - 1) \div b + highs \div b ^ (n - 1)) % b
  IN  (u % b ^ i) + b ^ i * ((lows % b) + b * (highs % b ^ (n - 1)) + R * top)

mul_alt(b, n, x, y) ==
  FoldLeft(LAMBDA u, i : Row(b, n, u, y, WordOf(b, x, i), i), 0, UpTo(n))

-----------------------------------------------------------------------------
(* Karatsuba: a product of numbers of 2n words from L, H and M, products of *)
(* the low halves, the high halves and the differences.  R is b^n.         *)

\* A sign mask and the complement or not of the difference it tells.
Difference(R, u, v) ==
  LET d == (u - v) % R
  IN  IF u < v THEN [neg |-> TRUE, abs |-> (R - 1 - d + 1) % R] ELSE [neg |-> FALSE, abs |-> d]

\* H' = H + L_top, and (H'::L) with its middle added to itself shifted.
Interlocked(R, L, H) ==
  LET h == (H + L \div R) % (R * R)
      v == (L % R) + R * (h % R) + h
  IN  [mid |-> v % (R * R), x |-> v \div (R * R), top |-> h \div R]

\* The middle plus M, or minus M as the complement and one.
Signed(R, mid, M, neg) ==
  LET v == mid + (IF neg THEN R * R - 1 - M + 1 ELSE M)
  IN  [mid |-> v % (R * R), c |-> v \div (R * R)]

Whole(R, L, mid, top) == (L % R) + R * mid + R * R * R * (top % R)

\* The words above the middle: y first, then t everywhere.
Padding(b, R, y, t) == y + t * ((R - b) \div (b - 1))

\* Carry and sign together: the words y and t.
Combined(b, R, L, H, M, neg) ==
  LET s == IF neg THEN b - 1 ELSE 0
      i == Interlocked(R, L, H)
      m == Signed(R, i.mid, M, neg)
      y == s + i.x + m.c
      t == (s + y \div b) % b
  IN  Whole(R, L, m.mid, i.top + Padding(b, R, y % b, t))

\* The carry first, then sign and carry.
Rippled(R, L, H, M, neg) ==
  LET i == Interlocked(R, L, H)
      m == Signed(R, i.mid, M, neg)
      top == (i.top + i.x) % R
  IN  Whole(R, L, m.mid, top + (IF neg THEN R - 1 ELSE 0) + m.c)

\* For a square M is subtracted: the word x, less the borrow, then t.
Subtracted(b, R, L, H, M) ==
  LET i == Interlocked(R, L, H)
      x == i.x - Bitval(i.mid < M)
  IN  Whole(R, L, (i.mid - M) % (R * R),
            i.top + Padding(b, R, x % b, IF x < 0 THEN b - 1 ELSE 0))

\* The carry is kept as a mask less one, which the absence of a borrow makes good.
Shortened(R, L, H, M) ==
  LET i  == Interlocked(R, L, H)
      d0 == CASE i.x = 0 -> R - 1 [] i.x = 1 -> 0
  IN  Whole(R, L, (i.mid - M) % (R * R), i.top + d0 + Bitval(i.mid >= M))

-----------------------------------------------------------------------------
kmul_16_32(b, n, x, y) ==
  LET R  == b ^ n
      dx == Difference(R, x % R, x \div R)
      dy == Difference(R, y \div R, y % R)
  IN  Combined(b, R, bignum_mul_8_16(x % R, y % R), bignum_mul_8_16(x \div R, y \div R),
               bignum_mul_8_16(dx.abs, dy.abs), dx.neg # dy.neg)

\* n is even.
kmul_32_64(b, n, x, y) ==
  LET R  == b ^ n
      dx == Difference(R, x \div R, x % R)
      dy == Difference(R, y % R, y \div R)
      half(u, v) == kmul_16_32(b, n \div 2, u, v)
  IN  Combined(b, R, half(x % R, y % R), half(x \div R, y \div R),
               half(dx.abs, dy.abs), dx.neg # dy.neg)

ksqr_16_32(b, n, x) ==
  LET R == b ^ n
  IN  Subtracted(b, R, bignum_sqr_8_16(x % R), bignum_sqr_8_16(x \div R),
                 bignum_sqr_8_16(Difference(R, x % R, x \div R).abs))

ksqr_32_64(b, n, x) ==
  LET R == b ^ n
      half(u) == ksqr_16_32(b, n \div 2, u)
  IN  Subtracted(b, R, half(x % R), half(x \div R), half(Difference(R, x \div R, x % R).abs))

\* Two words by two words, of single words.
mul_2_4(b, x, y) ==
  LET dx == Difference(b, x \div b, x % b)
      dy == Difference(b, y % b, y \div b)
  IN  Rippled(b, (x % b) * (y % b), (x \div b) * (y \div b), dx.abs * dy.abs, dx.neg # dy.neg)

mul_4_8(b, x, y) ==
  LET R  == b * b
      dx == Difference(R, x \div R, x % R)
      dy == Difference(R, y % R, y \div R)
  IN  Rippled(R, mul_2_4(b, x % R, y % R), mul_2_4(b, x \div R, y \div R),
              mul_2_4(b, dx.abs, dy.abs), dx.neg # dy.neg)

sqr_4_8(b, x) ==
  LET R == b * b
  IN  Shortened(R, (x % R) ^ 2, (x \div R) ^ 2, Difference(R, x % R, x \div R).abs ^ 2)

-----------------------------------------------------------------------------
Init == query \in Questions /\ answer = Unset

Columns ==
  \/ query.op = "mul"  /\ answer' = <<mul(query.p, query.x, query.m, query.y, query.n), NoWord>>
  \/ query.op = "sqr"  /\ answer' = <<sqr(query.p, query.x, query.m), NoWord>>
  \/ query.op = "madd" /\ answer' = madd(query.p, query.z, query.x, query.m, query.y, query.n)
Multiplications ==
  \/ query.op = "mul_alt"    /\ answer' = <<mul_alt(query.b, query.n, query.x, query.y)>>
  \/ query.op = "mul_4_8"    /\ answer' = <<mul_4_8(query.b, query.x, query.y)>>
  \/ query.op = "kmul_16_32" /\ answer' = <<kmul_16_32(query.b, query.n, query.x, query.y)>>
  \/ query.op = "kmul_32_64" /\ answer' = <<kmul_32_64(query.b, query.n, query.x, query.y)>>
Squarings ==
  \/ query.op = "sqr_4_8"    /\ answer' = <<sqr_4_8(query.b, query.x)>>
  \/ query.op = "ksqr_16_32" /\ answer' = <<ksqr_16_32(query.b, query.n, query.x)>>
  \/ query.op = "ksqr_32_64" /\ answer' = <<ksqr_32_64(query.b, query.n, query.x)>>

Next == /\ answer = Unset
        /\ UNCHANGED query
        /\ Columns \/ Multiplications \/ Squarings

(***************************************************************************)
(* The functions compute products and squares: a column has all its terms  *)
(* whatever the three lengths, the two chains of a row lose no carry, and  *)
(* the carries and signs above the middle term of Karatsuba's product come *)
(* to what they stand for, though the code adds them modulo the words kept *)
(* for them.                                                               *)
(***************************************************************************)
ProductsRight ==
  answer # Unset =>
    LET q == query
        z == answer[1]
    IN  CASE q.op = "mul"  -> z = bignum_mul(q.p, q.x, q.y)
          [] q.op = "sqr"  -> z = bignum_sqr(q.p, q.x)
          [] q.op = "madd" -> LET r == bignum_madd(q.p, q.z, q.m, q.x, q.n, q.y)
                              IN  z = r[1] /\ (r[2] # NoWord => answer[2] = r[2])
          [] q.op = "mul_alt" -> z = (CASE q.n = 4 -> bignum_mul_4_8(q.x, q.y)
                                        [] q.n = 6 -> bignum_mul_6_12(q.x, q.y)
                                        [] q.n = 8 -> bignum_mul_8_16(q.x, q.y))
          [] q.op = "mul_4_8"    -> z = bignum_mul_4_8(q.x, q.y)
          [] q.op = "kmul_16_32" -> z = bignum_kmul_16_32(q.x, q.y)
          [] q.op = "kmul_32_64" -> z = bignum_kmul_32_64(q.x, q.y)
          [] q.op = "sqr_4_8"    -> z = bignum_sqr_4_8(q.x)
          [] q.op = "ksqr_16_32" -> z = bignum_ksqr_16_32(q.x)
          [] q.op = "ksqr_32_64" -> z = bignum_ksqr_32_64(q.x)
=============================================================================

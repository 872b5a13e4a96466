------------------------ MODULE MontgomeryArithmetic ------------------------
(***************************************************************************)
(* The generic Montgomery functions of arm/generic besides the reductions  *)
(* of BignumMontRedc: multiplications and squarings to an almost or fully  *)
(* reduced result, bignum_demont, bignum_emontredc, the negated inverse of *)
(* a number, and the constants 2^(64k) and 2^(128k) modulo m that          *)
(* bignum_modifier, bignum_montifier and bignum_amontifier compute without *)
(* a division.                                                             *)
(*                                                                         *)
(* One pass over the k words of a number is arithmetic on its value; the   *)
(* carry words and masks between the passes are those of the code.  m is   *)
(* odd.  The functions keep their operands apart from the result, which    *)
(* they write from the start; bignum_demont, which may work in place,      *)
(* copies its operand first.  A call with k = 0 returns at once.           *)
(***************************************************************************)
EXTENDS BignumInterface

CONSTANT Questions      \* the calls: op, k, x, y and m

VARIABLES asked, replied

arithVars == <<asked, replied>>

Unanswered == <<>>

\* Odd moduli, operands of k words; what montmul and montsqr need in addition.
GoodQuestion(q) ==
  /\ q.op \in {"montmul", "amontmul", "montsqr", "amontsqr", "demont", "emontredc",
               "negmodinv", "amontifier", "montifier", "modifier"}
  /\ q.k \in Nat \ {0} /\ q.m \in 1..(Pow[q.k] - 1) /\ q.m % 2 = 1
  /\ q.op \in {"montmul", "amontmul", "montsqr", "amontsqr", "demont"} => q.x \in 0..(Pow[q.k] - 1)
  /\ q.op \in {"montmul", "amontmul"} => q.y \in 0..(Pow[q.k] - 1)
  /\ q.op = "montmul" => q.x * q.y <= Pow[q.k] * q.m
  /\ q.op = "montsqr" => q.x * q.x <= Pow[q.k] * q.m
  /\ q.op = "emontredc" => q.x \in 0..(Pow[2 * q.k] - 1)

ASSUME QuestionsAssumption == \A q \in Questions : GoodQuestion(q)

\* The estimate of a remainder starts two bits below a word's top.
ASSUME EstimateAssumption == W >= 2

\* n passes, f[i] what pass i makes of the state.
Passes(n, f, s) ==
  LET t[i \in 0..n] == IF i = 0 THEN s ELSE f[i - 1][t[i - 1]]
  IN  t[n]

DigitIn(x, i) == (x \div Pow[i]) % B
Inverse1(m) == CHOOSE w \in Digit : word_negmodinv(Lo(m), w)

-----------------------------------------------------------------------------
(* Rows.  Above the window z there is a carry word c0 and, between the two  *)
(* rows of a digit, a second one c1.                                        *)

\* Mutant: the second carry word is forgotten.
MaddRowOneCarry(k, s, d, y) ==
  LET v == s.z + d * y
  IN  [z |-> Low(k, v), c0 |-> Lo(s.c0 + High(k, v)), c1 |-> 0]

MaddRow(k, s, d, y) ==
  LET v   == s.z + d * y
      top == s.c0 + High(k, v)
  IN  [z |-> Low(k, v), c0 |-> Lo(top), c1 |-> Hi(top)]

\* The multiple of m that clears the lowest word, and a shift by a word.
MontRow(k, s, m) ==
  LET v   == (s.z + Lo(s.z * Inverse1(m)) * m) \div B
      top == High(k - 1, v) + s.c0
  IN  [z |-> Low(k - 1, v) + Pow[k - 1] * Lo(top), c0 |-> Lo(s.c1 + Hi(top)), c1 |-> 0]

Windows == [z : Nat, c0 : Nat, c1 : Nat]
Bare(z) == [z |-> z, c0 |-> 0, c1 |-> 0]
AllRows(k, x, y, m) ==
  Passes(k, [i \in Nat |-> [s \in Windows |-> MontRow(k, MaddRow(k, s, DigitIn(x, i), y), m)]], Bare(0))

\* The subtraction masked by -c0.
Masked(c, m) == CASE c = 0 -> 0 [] c = 1 -> m
amontmul(k, x, y, m) == LET s == AllRows(k, x, y, m) IN Low(k, s.z - Masked(s.c0, m))
amontsqr(k, x, m) == amontmul(k, x, x, m)

\* The subtraction after the comparison of c0::z with m.
Reduced(k, s, m) == IF s.c0 >= Bitval(s.z < m) THEN Low(k, s.z - m) ELSE s.z
montmul(k, x, y, m) == Reduced(k, AllRows(k, x, y, m), m)
montsqr(k, x, m) == montmul(k, x, x, m)

\* k rows in place; nothing carries out of them.
demont(k, x, m) ==
  LET z == Passes(k, [i \in Nat |-> [v \in Nat |-> MontRow(k, Bare(v), m).z]], x)
  IN  IF z >= m THEN Low(k, z - m) ELSE z

\* The multipliers q replace the words they clear: <<q, r, carry>>.
EmontRow(k, s, x, i, m, w) ==
  LET d == Lo(s.z * w)
      v == s.z + d * m
      t == High(k, v) + s.c
      u == Lo(t) + DigitIn(x, k + i)
  IN  [q |-> s.q + d * Pow[i], c |-> Hi(t) + Hi(u),
       z |-> Low(k, v) \div B + Pow[k - 1] * Lo(u)]
emontredc(k, x, m, w) ==
  LET end == Passes(k, [i \in Nat |-> [s \in [q : Nat, z : Nat, c : Nat] |-> EmontRow(k, s, x, i, m, w)]],
                    [q |-> 0, z |-> Low(k, x), c |-> 0])
  IN  <<end.q, end.z, end.c>>

-----------------------------------------------------------------------------
(* The negated inverse, a word at a time: t is what x times the words found *)
(* so far, and 1, leave above them.  That the words below cancel is known,  *)
(* and only their carry is taken: always 1 at first, then 1 unless the word *)
(* to clear is zero already.                                                *)
Above(k, x, d) == Low(k, (d * x - Lo(d * x)) \div B)
NegmodinvWord(k, s, x, i, w) ==
  LET e == Lo(s.t)
      d == Lo(e * w)
  IN  [z |-> s.z + d * Pow[i],
       t |-> Low(k - i - 1, Above(k - i, x, d) + s.t \div B + Bitval(e # 0))]
negmodinv(k, x) ==
  LET w == Inverse1(x)
  IN  Passes(k - 1, [i \in Nat |-> [s \in [z : Nat, t : Nat] |-> NegmodinvWord(k, s, x, i + 1, w)]],
             [z |-> w, t |-> Low(k - 1, Above(k, x, w) + 1)]).z

-----------------------------------------------------------------------------
(* The constants. *)

\* m shifted left until its top bit is set: by words, then by bits.
Normalized(k, m) ==
  LET t == Passes(k - 1, [i \in Nat |-> [v \in Nat |-> IF High(k - 1, v) = 0 THEN v * B ELSE v]], m)
  IN  t * TwoTo[Clz(High(k - 1, t))]

\* 2^126 div h, bit by bit; the remainder comes out as h for h = 2^63.
EstimateBit(s, h) ==
  LET more == s.r >= Lo(h - s.r)
  IN  [q |-> 2 * s.q + Bitval(more), r |-> Lo(2 * s.r - (IF more THEN h ELSE 0))]
Estimate(h) ==
  LET end == Passes(W - 2, [i \in Nat |-> [s \in [q : Nat, r : Nat] |-> EstimateBit(s, h)]],
                    [q |-> 1, r |-> Lo(-h)])
  IN  end.q + Bitval(end.r = h)

\* 2^(64k+62) modulo n, as -d or n - d for d = q n - 2^(64k+62).
Remainder62(k, n) ==
  LET v == Estimate(High(k - 1, n)) * n
  IN  Low(k, (IF High(k, v) >= TwoTo[W - 2] THEN n ELSE 0) - Low(k, v))

\* z |-> 2 z, less n unless that borrows from the bit above.
Doubled(k, z, n) ==
  LET c == High(k, 2 * z) - Bitval(Low(k, 2 * z) < n)
  IN  Low(k, 2 * z - n + (CASE c = 0 -> 0 [] c = -1 -> n))

\* v |-> 2^64 v modulo n in k + 1 words; r = 2^(64(k+1)) mod n makes good what
\* overflows them.
Shifted(k, v, r) ==
  LET u == B * Low(k, v) + High(k, v) * r
  IN  Low(k + 1, u + (IF u >= Pow[k + 1] THEN r ELSE 0))

\* 2^(64 * (k + rounds)) modulo m, in k words.
Amontified(k, m, rounds) ==
  LET n == Normalized(k, m)
      r == Doubled(k, Doubled(k, Remainder62(k, n), n), n)
      v == Passes(rounds, [i \in Nat |-> [u \in Nat |-> Shifted(k, u, r)]], r)
      s == MontRow(k, [z |-> Low(k, v), c0 |-> High(k, v), c1 |-> 0], m)
  IN  Low(k, s.z - Masked(s.c0, m))

amontifier(k, m) == Amontified(k, m, k)
montifier(k, m)  == demont(k, Amontified(k, m, 2 * k), m)
modifier(k, m)   == demont(k, Amontified(k, m, k), m)

-----------------------------------------------------------------------------
ArithInit == asked \in Questions /\ replied = Unanswered

MontgomeryProducts ==
  \/ asked.op = "montmul"  /\ replied' = <<montmul(asked.k, asked.x, asked.y, asked.m)>>
  \/ asked.op = "amontmul" /\ replied' = <<amontmul(asked.k, asked.x, asked.y, asked.m)>>
  \/ asked.op = "montsqr"  /\ replied' = <<montsqr(asked.k, asked.x, asked.m)>>
  \/ asked.op = "amontsqr" /\ replied' = <<amontsqr(asked.k, asked.x, asked.m)>>
MontgomeryReductions ==
  \/ asked.op = "demont"    /\ replied' = <<demont(asked.k, asked.x, asked.m)>>
  \/ asked.op = "emontredc" /\ replied' = emontredc(asked.k, asked.x, asked.m, Inverse1(asked.m))
MontgomeryConstants ==
  \/ asked.op = "negmodinv"  /\ replied' = <<negmodinv(asked.k, asked.m)>>
  \/ asked.op = "amontifier" /\ replied' = <<amontifier(asked.k, asked.m)>>
  \/ asked.op = "montifier"  /\ replied' = <<montifier(asked.k, asked.m)>>
  \/ asked.op = "modifier"   /\ replied' = <<modifier(asked.k, asked.m)>>

ArithNext ==
  /\ replied = Unanswered
  /\ UNCHANGED asked
  /\ MontgomeryProducts \/ MontgomeryReductions \/ MontgomeryConstants
Replied == replied # Unanswered /\ UNCHANGED arithVars

ArithSpec == ArithInit /\ [][ArithNext \/ Replied]_arithVars

(***************************************************************************)
(* The functions compute what their callers rely on, for moduli and        *)
(* operands that bring every carry word, mask and estimate to its limits:  *)
(* no carry leaves the words kept for it, one subtraction is enough where  *)
(* one is done, and the constants are right for every odd modulus, 1 and   *)
(* those with leading zero words included.                                 *)
(***************************************************************************)
MontgomeryRight ==
  replied # Unanswered =>
    LET q == asked
        z == replied[1]
    IN  CASE q.op = "montmul"    -> bignum_montmul(q.k, q.x, q.y, q.m, z)
          [] q.op = "amontmul"   -> bignum_amontmul(q.k, q.x, q.y, q.m, z)
          [] q.op = "montsqr"    -> bignum_montmul(q.k, q.x, q.x, q.m, z)
          [] q.op = "amontsqr"   -> bignum_amontmul(q.k, q.x, q.x, q.m, z)
          [] q.op = "demont"     -> bignum_demont(q.k, q.x, q.m, z)
          [] q.op = "emontredc"  -> bignum_emontredc(q.k, q.x, q.m, z, replied[2], replied[3])
          [] q.op = "negmodinv"  -> bignum_negmodinv(q.k, q.m, z)
          [] q.op = "amontifier" -> bignum_amontifier(q.k, q.m, z)
          [] q.op = "montifier"  -> z = bignum_montifier(q.k, q.m)
          [] q.op = "modifier"   -> z = bignum_modifier(q.k, q.m)
=============================================================================

------------------------------ MODULE Division ------------------------------
(***************************************************************************)
(* Division of a number by a word: bignum_cmod, bignum_cdiv,               *)
(* bignum_cdiv_exact and bignum_divmod10 of arm/generic.  No division      *)
(* instruction is used: remainders come from multiplications by the        *)
(* reciprocal 2^64 + w of the normalized divisor f, whose estimates are    *)
(* corrected a fixed number of times, and quotients from a Montgomery      *)
(* reduction whose complemented multipliers are the quotient.              *)
(*                                                                         *)
(* A number is the sequence of its words, the lowest first.                *)
(***************************************************************************)
EXTENDS BignumInterface, Sequences

CONSTANTS Divisions,          \* the calls: op, x, k, m, and inplace when z is x
          DecBits, DecSplit   \* 64 and 28 of bignum_divmod10

VARIABLES dividing,           \* the call
          divided             \* the number left and the word returned

divVars == <<dividing, divided>>

Undivided == <<>>

Two(v) == v % (B * B)
Under(test, v) == IF test THEN v ELSE 0

\* Word i of x, and the value of the words of x in base b.
WordOf(x, i) == IF i \in 1..Len(x) THEN x[i] ELSE 0
Of(b, x) ==
  LET v[j \in Nat] == IF j = 0 THEN 0 ELSE WordOf(x, Len(x) - (j - 1)) + b * v[j - 1]
  IN  v[Len(x)]

\* Nonzero divisors; an exact quotient only of a multiple; words.
GoodDivision(c) ==
  /\ c.op \in {"cmod", "cdiv", "cdiv_exact", "divmod10", "words"}
  /\ c.op # "divmod10" => c.m \in 1..(B - 1)
  /\ c.op \in {"cmod", "cdiv", "cdiv_exact"} => c.x \in Seq(Digit)
  /\ c.op \in {"cdiv", "cdiv_exact"} => c.k \in Nat /\ c.inplace \in BOOLEAN
  /\ c.op = "cdiv_exact" => Of(B, c.x) % c.m = 0
  /\ c.op = "divmod10" => c.x \in Seq(0..(TwoTo[DecBits] - 1))

ASSUME DivisionsAssumption == \A c \in Divisions : GoodDivision(c)

\* The fifths of 2^28 - 1 and 2^64 + 4 are whole, and what is left of a number
\* below 5 * 2^64 after the former is small enough for an exact fifth by the
\* latter.  The four steps of WordNegmodinv reach 80 bits.
ASSUME DecAssumption ==
  /\ DecBits \in Nat /\ DecSplit \in Nat
  /\ (TwoTo[DecSplit] - 1) % 5 = 0 /\ (TwoTo[DecBits] + 4) % 5 = 0
  /\ 4 * (5 * (TwoTo[DecBits] \div TwoTo[DecSplit]) + TwoTo[DecSplit]) < TwoTo[DecBits]
  /\ DecSplit <= DecBits
ASSUME NewtonAssumption == W <= 80

Ctz(m) == CHOOSE e \in 0..(W - 1) : m % TwoTo[e] = 0 /\ (m \div TwoTo[e]) % 2 = 1

\* The reciprocal of a normalized word; the code's Newton steps are particular
\* to 64 bits and are modelled by their result.
Recip(f) == CHOOSE w \in Digit : f * (B + w) < B * B /\ f * (B + w + 1) >= B * B

\* From five bits: (m - 4m) xor 2, then x (1 + e), (1 + e^2), (1 + e^4), (1 + e^8).
WordNegmodinv(m) ==
  LET s   == Lo(m - 4 * m)
      x   == IF (s \div 2) % 2 = 1 THEN s - 2 ELSE s + 2
      e1  == Lo(m * x + 1)
      e2  == Lo(e1 * e1)
      e4  == Lo(e2 * e2)
      e8  == Lo(e4 * e4)
      x10 == Lo(e1 * x + x)
      x20 == Lo(e2 * x10 + x10)
      x40 == Lo(e4 * x20 + x20)
  IN  Lo(e8 * x40 + x40)

-----------------------------------------------------------------------------
(* The remainder. *)

\* 2^64 * v + d for a two-word v, modulo f in two words; r = 2^128 mod f.  An
\* overflow is made good by another r.
Modstep(v, d, r) ==
  LET a == Lo(r * Hi(v)) + d
      t == Hi(r * Hi(v)) + Lo(v) + Hi(a)
  IN  Two(B * Lo(t) + Lo(a) + Under(Hi(t) # 0, r))

Modloop(x, r) ==
  LET v[j \in Nat] == IF j = 0 THEN 0 ELSE Modstep(v[j - 1], WordOf(x, Len(x) - (j - 1)), r)
  IN  v[Len(x)]

\* Mutant: one correction of the two.
OnewordOnce(v, f, w) ==
  LET c == Hi(w * Hi(v)) + Hi(v)
      u == Two(v - Lo(c) * f - Under(Hi(c) # 0, B * f))
  IN  Lo(u - Under(Hi(u) # 0, f))

\* Two words to one: the quotient estimate is at most two short.  Its carry,
\* when it passes a word, takes another 2^64 * f off.
Oneword(v, f, w) ==
  LET c  == Hi(w * Hi(v)) + Hi(v)
      u  == Two(v - Lo(c) * f - Under(Hi(c) # 0, B * f))
      u1 == Two(u - Under(Hi(u) # 0, f))
  IN  Lo(u1 - Under(Hi(u1) # 0, f))

\* One word modulo the divisor itself: the quotient is one short at most.
Final(l, m, e, w) ==
  LET q == ((Hi(w * l) + l) \div 2) \div TwoTo[W - 1 - e]
      t == Lo(l - q * m)
  IN  IF t >= m THEN t - m ELSE t

cmod(x, m) ==
  LET e == Clz(m)
      f == m * TwoTo[e]
      w == Recip(f)
  IN  IF x = <<>> THEN 0 ELSE Final(Oneword(Modloop(x, Lo(-(w * f))), f, w), m, e, w)

-----------------------------------------------------------------------------
(* The quotient: z |-> ~q for the Montgomery multipliers q of x + c, with x *)
(* and m shifted right by the trailing zeros of m.  The words of x are read *)
(* one ahead of the store, in place from what z still holds of them.        *)

\* The loop at word i: d is the part of word i already read, c the carry.
QuotientStep(s, i, x, e, odd, w, inplace) ==
  LET l == IF i < Len(x) THEN WordOf(IF inplace THEN s.z ELSE x, i + 1) ELSE 0
      a == s.d + (l % TwoTo[e]) * TwoTo[W - e] + s.c
      q == Lo(Lo(a) * w)
  IN  [z |-> [s.z EXCEPT ![i] = B - 1 - q],
       d |-> l \div TwoTo[e],
       c |-> Lo(Hi(q * odd) + Hi(a) + Hi(Lo(q * odd) + Lo(a)))]

Quotients(k, x, m, carry, inplace) ==
  LET e == Ctz(m)
      odd == m \div TwoTo[e]
      w == WordNegmodinv(odd)
      held == IF inplace /\ Len(x) > k THEN Len(x) ELSE k
      start == [z |-> [i \in 1..held |-> IF inplace /\ i <= Len(x) THEN x[i] ELSE B - 1],
                d |-> WordOf(x, 1) \div TwoTo[e], c |-> carry]
      s[i \in Nat] == IF i = 0 THEN start ELSE QuotientStep(s[i - 1], i, x, e, odd, w, inplace)
  IN  [i \in 1..k |-> s[k].z[i]]

cdiv(k, x, m, inplace) ==
  LET r == cmod(x, m)
  IN  <<Quotients(k, x, m, m \div TwoTo[Ctz(m)] - r \div TwoTo[Ctz(m)], inplace), r>>
cdiv_exact(k, x, m, inplace) ==
  <<Quotients(k, x, m, m \div TwoTo[Ctz(m)], inplace), NoWord>>

\* A tenth of (2^64 r + d) / 2 = 2^28 h + l: a fifth of that is
\* (2^28 - 1) / 5 * h + (h + l) / 5, the latter by a multiplication.
Tenth(r, d) ==
  LET b == TwoTo[DecBits]
      s == TwoTo[DecSplit]
      v == (b * r + d) \div 2
      h == v \div s
      l == (h + (v % s)) % b
  IN  (h * ((s - 1) \div 5) + (l * ((b + 4) \div 5)) \div b) % b

\* From the top, every word replaced by its digit of the quotient.
divmod10(z) ==
  LET r[j \in Nat] ==
        IF j = 0 THEN 0
        ELSE LET d == WordOf(z, Len(z) - (j - 1))
             IN  (d - 10 * Tenth(r[j - 1], d)) % TwoTo[DecBits]
  IN  <<[i \in 1..Len(z) |-> Tenth(r[Len(z) - i], z[i])], r[Len(z)]>>

-----------------------------------------------------------------------------
DivInit == dividing \in Divisions /\ divided = Undivided

Cmod == dividing.op = "cmod" /\ divided' = <<<<>>, cmod(dividing.x, dividing.m)>>
Cdiv == /\ dividing.op = "cdiv"
        /\ divided' = cdiv(dividing.k, dividing.x, dividing.m, dividing.inplace)
CdivExact == /\ dividing.op = "cdiv_exact"
             /\ divided' = cdiv_exact(dividing.k, dividing.x, dividing.m, dividing.inplace)
Divmod10 == dividing.op = "divmod10" /\ divided' = divmod10(dividing.x)
WordsOf == LET m == dividing.m
           IN  /\ dividing.op = "words"
               /\ divided' = <<Recip(m * TwoTo[Clz(m)]), WordNegmodinv(m \div TwoTo[Ctz(m)])>>

DivNext == /\ divided = Undivided
           /\ UNCHANGED dividing
           /\ Cmod \/ Cdiv \/ CdivExact \/ Divmod10 \/ WordsOf
Divided == divided # Undivided /\ UNCHANGED divVars

DivSpec == DivInit /\ [][DivNext \/ Divided]_divVars

(***************************************************************************)
(* The remainder and the quotient are exact for every dividend and every   *)
(* nonzero divisor: each estimate is within the corrections that follow    *)
(* it, no carry of an estimate is lost, and the quotient truncated to k    *)
(* words is right whether it has fewer or more words than the dividend,    *)
(* also when it replaces the dividend word by word.                        *)
(***************************************************************************)
QuotientsRight ==
  divided # Undivided =>
    LET c == dividing
        x == Of(B, c.x)
        b == TwoTo[DecBits]
    IN  CASE c.op = "cmod"       -> divided[2] = bignum_cmod(x, c.m)
          [] c.op = "cdiv"       -> <<Of(B, divided[1]), divided[2]>> = bignum_cdiv(c.k, x, c.m)
          [] c.op = "cdiv_exact" -> <<Of(B, divided[1]), divided[2]>> = bignum_cdiv_exact(c.k, x, c.m)
          [] c.op = "divmod10"   -> <<Of(b, divided[1]), divided[2]>> = bignum_divmod10(Of(b, c.x))
          [] c.op = "words"      -> /\ divided[1] = word_recip(c.m * TwoTo[Clz(c.m)])
                                    /\ word_negmodinv(c.m \div TwoTo[Ctz(c.m)], divided[2])
=============================================================================

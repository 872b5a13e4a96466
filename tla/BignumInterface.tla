-------------------------- MODULE BignumInterface --------------------------
(***************************************************************************)
(* The generic functions of include/s2n-bignum.h as their callers see      *)
(* them.  Numbers stand for the buffers that hold them: k, m and n count   *)
(* words, x is the value of x[m] or x[k], y of y[n].  A contract gives     *)
(* <<z, ret>>: the value left in z[k] and the word returned, where a       *)
(* function that returns nothing, or a word the interface gives no meaning *)
(* to, has NoWord.  Contracts that return no number in memory give the     *)
(* returned word alone.                                                    *)
(***************************************************************************)
EXTENDS Words

CONSTANT W          \* bits in a word (64 in the code)

\* 2 EXP n
TwoTo[n \in Nat] == IF n = 0 THEN 1 ELSE 2 * TwoTo[n - 1]

ASSUME WordBitsAssumption == W \in Nat /\ W >= 1 /\ B = TwoTo[W]

NoWord == -1

Bitval(b) == IF b THEN 1 ELSE 0
Low(k, v)  == v % Pow[k]
High(k, v) == v \div Pow[k]
Lo(v) == v % B                        \* the halves of a product or a sum of words
Hi(v) == v \div B
Negative(p) == p >= B \div 2          \* a word read as a signed integer
Clz(m) == CHOOSE e \in 0..(W - 1) : m * TwoTo[e] < B /\ 2 * m * TwoTo[e] >= B  \* of m # 0

-----------------------------------------------------------------------------
(* Sums, differences and products with a word. *)

bignum_cmadd(k, z, c, n, y) ==
  <<Low(k, z + c * y), IF n <= k THEN High(k, z + c * y) ELSE NoWord>>
bignum_cmnegadd(k, z, c, n, y) ==
  <<Low(k, z - c * y), IF n <= k THEN -High(k, z - c * y) ELSE NoWord>>
bignum_cmul(k, c, n, y) ==
  <<Low(k, c * y), IF n <= k THEN High(k, c * y) ELSE NoWord>>
bignum_muladd10(k, z, d) == <<Low(k, 10 * z + d), High(k, 10 * z + d)>>
bignum_divmod10(z) == <<z \div 10, z % 10>>
bignum_cdiv(k, x, m)       == <<Low(k, x \div m), x % m>>
bignum_cdiv_exact(k, x, m) == <<Low(k, x \div m), NoWord>>
bignum_cmod(x, m)          == x % m
word_negmodinv(a, w) == (a * w + 1) % B = 0
word_recip(a) == (B * B - 1) \div a - B    \* ceil (2^128 / a) - 1, less 2^64
bignum_optadd(k, x, p, y) ==
  LET s == x + Bitval(p # 0) * y IN <<Low(k, s), High(k, s)>>
bignum_optsub(k, x, p, y) ==
  LET s == x - Bitval(p # 0) * y IN <<Low(k, s), -High(k, s)>>
bignum_optsubadd(k, x, p, y) ==
  IF Negative(p) THEN bignum_optsub(k, x, p, y) ELSE bignum_optadd(k, x, p, y)
bignum_optneg(k, p, x) ==
  <<Low(k, IF p # 0 THEN -x ELSE x), Bitval(p # 0 /\ x # 0)>>

(* Arithmetic modulo m, for reduced operands. *)

bignum_modadd(x, y, m)    == <<(x + y) % m, NoWord>>
bignum_moddouble(x, m)    == <<(2 * x) % m, NoWord>>
bignum_modoptneg(p, x, m) == <<(IF p # 0 THEN -x ELSE x) % m, NoWord>>
bignum_modsub(x, y, m)    == <<(x - y) % m, NoWord>>

(* Montgomery arithmetic modulo an odd m, as relations to the result z. *)

bignum_amontmul(k, x, y, m, z) == z < Pow[k] /\ (z * Pow[k] - x * y) % m = 0
bignum_montmul(k, x, y, m, z)  == z < m /\ (z * Pow[k] - x * y) % m = 0
bignum_demont(k, x, m, z)      == z < m /\ (z * Pow[k] - x) % m = 0
bignum_emontredc(k, x, m, q, r, c) == x + q * m = Pow[k] * (Pow[k] * c + r)
bignum_negmodinv(k, x, z)      == z < Pow[k] /\ (x * z + 1) % Pow[k] = 0
bignum_amontifier(k, m, z)     == z < Pow[k] /\ (z - Pow[2 * k]) % m = 0
bignum_montifier(k, m)         == Pow[2 * k] % m
bignum_modifier(k, m)          == Pow[k] % m

(* Inverses and common divisors. *)

Gcd[x \in Nat, y \in Nat] == IF y = 0 THEN x ELSE Gcd[y, x % y]
bignum_coprime(x, y)   == Bitval(Gcd[x, y] = 1)
bignum_modinv(x, y, z) == z < y /\ (x * z) % y = 1

(* Products and squares; the functions for fixed sizes have room for all. *)

bignum_mul(k, x, y) == Low(k, x * y)
bignum_sqr(k, x)    == Low(k, x * x)
bignum_madd(k, z, m, x, n, y) ==
  <<Low(k, z + x * y), IF m + n <= k THEN High(k, z + x * y) ELSE NoWord>>
bignum_mul_4_8(x, y)    == x * y
bignum_mul_6_12(x, y)   == x * y
bignum_mul_8_16(x, y)   == x * y
bignum_kmul_16_32(x, y) == x * y
bignum_kmul_32_64(x, y) == x * y
bignum_sqr_4_8(x)       == x * x
bignum_sqr_8_16(x)      == x * x
bignum_ksqr_16_32(x)    == x * x
bignum_ksqr_32_64(x)    == x * x

(* Shifts, copies and constants. *)

bignum_copy(k, x)      == <<Low(k, x), NoWord>>
bignum_mux(p, x, y)    == <<IF p # 0 THEN x ELSE y, NoWord>>
bignum_of_word(k, n)   == <<Low(k, n), NoWord>>
bignum_pow2(k, n)      == <<Low(k, TwoTo[n]), NoWord>>
bignum_shl_small(k, n, x, c) ==
  LET s == x * TwoTo[c % W]
  IN  <<Low(k, s), IF n <= k THEN High(k, s) ELSE NoWord>>
bignum_shr_small(k, x, c) ==
  <<Low(k, x \div TwoTo[c % W]), x % TwoTo[c % W]>>
bignum_normalize(k, z) ==
  LET s == IF z = 0 THEN W * k
           ELSE CHOOSE s \in 0..(W * k - 1) :
                  z * TwoTo[s] < Pow[k] /\ 2 * z * TwoTo[s] >= Pow[k]
  IN  <<Low(k, z * TwoTo[s]), s>>

-----------------------------------------------------------------------------
(* Questions about a number. *)

bignum_bitfield(x, n, l) == (x \div TwoTo[n]) % TwoTo[Lesser(l, W)]
bignum_digit(x, n)       == (x \div Pow[n]) % B
bignum_bitsize(k, x)     == CHOOSE s \in 0..(W * k) : x < TwoTo[s] /\ (s = 0 \/ x >= TwoTo[s - 1])
bignum_clz(k, x)         == W * k - bignum_bitsize(k, x)
bignum_ctz(k, x)         == IF x = 0 THEN W * k
                            ELSE CHOOSE s \in 0..(W * k) : x % TwoTo[s] = 0 /\ x % TwoTo[s + 1] # 0
bignum_digitsize(k, x)   == CHOOSE s \in 0..k : x < Pow[s] /\ (s = 0 \/ x >= Pow[s - 1])
bignum_cld(k, x)         == k - bignum_digitsize(k, x)
bignum_ctd(k, x)         == IF x = 0 THEN k
                            ELSE CHOOSE s \in 0..k : x % Pow[s] = 0 /\ x % Pow[s + 1] # 0
bignum_eq(x, y)          == Bitval(x = y)
bignum_ge(x, y)          == Bitval(x >= y)
bignum_gt(x, y)          == Bitval(x > y)
bignum_le(x, y)          == Bitval(x <= y)
bignum_lt(x, y)          == Bitval(x < y)
bignum_even(x)           == Bitval(x % 2 = 0)
bignum_odd(x)            == Bitval(x % 2 = 1)
bignum_iszero(x)         == Bitval(x = 0)
bignum_nonzero(x)        == Bitval(x # 0)
=============================================================================

--------------------------- MODULE FieldInterface ---------------------------
(***************************************************************************)
(* The functions of include/s2n-bignum.h that compute modulo a fixed       *)
(* prime or group order, as their callers see them.  The header repeats    *)
(* each of them for every curve; a curve is here a record c with the       *)
(* modulus c.p, the word base c.b and the number of words c.n, so that one *)
(* contract stands for a family.  z is what the function leaves; x and y   *)
(* are its inputs.                                                         *)
(***************************************************************************)
EXTENDS Integers

Residue(c, z) == z \in 0..(c.p - 1)

\* x * b^n mod p, one word at a time.
TimesRadix(c, x) ==
  LET t[i \in 0..c.n] == IF i = 0 THEN x % c.p ELSE (t[i - 1] * c.b) % c.p IN t[c.n]

(* For reduced operands. *)

bignum_add_p(c, z, x, y)    == z = (x + y) % c.p
bignum_sub_p(c, z, x, y)    == z = (x - y) % c.p
bignum_double_p(c, z, x)    == z = (2 * x) % c.p
bignum_triple_p(c, z, x)    == z = (3 * x) % c.p
bignum_neg_p(c, z, x)       == z = (-x) % c.p
bignum_optneg_p(c, z, q, x) == z = IF q # 0 THEN (-x) % c.p ELSE x
bignum_half_p(c, z, x)      == Residue(c, z) /\ (2 * z) % c.p = x
bignum_cmul_p(c, z, w, x)   == z = (w * x) % c.p
bignum_demont_p(c, z, x)    == Residue(c, z) /\ TimesRadix(c, z) = x

(* For any operands of n words, or any products of them. *)

bignum_mod_p(c, z, x)        == z = x % c.p
bignum_tomont_p(c, z, x)     == z = TimesRadix(c, x)
bignum_deamont_p(c, z, x)    == Residue(c, z) /\ TimesRadix(c, z) = x % c.p
bignum_montmul_p(c, z, x, y) == Residue(c, z) /\ TimesRadix(c, z) = (x * y) % c.p
bignum_montsqr_p(c, z, x)    == bignum_montmul_p(c, z, x, x)
bignum_mul_p(c, z, x, y)     == z = (x * y) % c.p
bignum_sqr_p(c, z, x)        == z = (x * x) % c.p
=============================================================================

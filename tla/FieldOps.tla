------------------------------ MODULE FieldOps ------------------------------
(***************************************************************************)
(* Calls of the field functions: a call names a curve, a function and its  *)
(* operands; one step of the curve's family of code leaves the result.     *)
(***************************************************************************)
EXTENDS FieldArithmetic

CONSTANTS
  Curves,          \* records as FieldArithmetic has them, with a name
  Single(_),       \* operands of the functions of one number,
  Pairs(_),        \* of sums and differences,
  Factors(_),      \* and of products, for each curve
  Scalars(_)       \* the words that cmul multiplies by

VARIABLES call, z
callVars == <<call, z>>

\* Words of b = h * h values, their powers, and a modulus of n of them.
WordShape(c) ==
  /\ c.h \in Nat /\ c.h >= 2 /\ c.b = c.h * c.h /\ c.n \in Nat /\ c.n > 0
  /\ c.b ^ 0 = 1 /\ \A i \in 0..(c.n - 1) : c.b ^ (i + 1) = c.b * c.b ^ i
  /\ \A i \in 0..(c.n - 1) : c.b ^ (c.n + i) = Size(c) * c.b ^ i
  /\ c.p \in Nat /\ c.p > 2 /\ c.p % 2 = 1 /\ c.p < Size(c)

\* Where the moduli lie, as far as the estimates of the quotients, the carries
\* and the multipliers of a Montgomery step depend on it.
FilledShape(c) ==
  LET W   == c.b ^ (c.n - 1)
      est == c.ops \cap {"cmul", "tomont"} # {}
  IN  /\ c.ops \cap {"triple", "mod", "tomont"} # {} => Size(c) <= 2 * c.p
      /\ c.p % c.b = IF c.family = "p384" THEN c.h - 1 ELSE c.b - 1
      /\ c.family = "p256" /\ est =>
           LET off == c.p - W * (c.b - c.h + 1)
           IN  c.h >= 4 /\ off * c.b <= W /\ -off * c.b <= W
      /\ c.family = "sm2" /\ est =>
           LET off == W * (c.b - c.h) - c.p
           IN  c.h >= 4 /\ off >= 0 /\ off * c.h <= W * (c.h - 3)
      /\ c.family = "p384" => (c.b - 1) * (Size(c) - c.p) <= c.p
BelowShape(c) ==
  /\ c.m \in Nat /\ c.m > 0 /\ c.e \in Nat /\ c.e > 0
  /\ c.family = "p25519" =>
       /\ Size(c) = 2 * c.m /\ c.p = c.m - c.e /\ c.b * c.e <= c.p /\ c.n >= 2
       /\ (4 * c.e + 2) * c.e + (2 * c.e) * c.b ^ (c.n - 1) <= c.p
  /\ c.family = "p256k1" =>
       /\ Size(c) = c.p + c.e /\ c.e % 2 = 1 /\ c.e < c.b /\ c.b * c.e <= c.p
       /\ \E w \in 0..(c.b - 1) : (w * c.e) % c.b = 1
  /\ c.family \in {"p521", "n521"} => c.p = c.m - c.e /\ Size(c) = Spin(c) * c.m
  /\ c.family = "p521" =>
       /\ c.e = 1 /\ c.b <= c.p
       /\ c.m = Spin(c) * (c.m \div Spin(c)) /\ c.m \div Spin(c) >= 2
  /\ c.family = "n521" => Spin(c) * c.e <= c.p
  /\ c.family = "n25519" =>
       c.p = c.m + c.e /\ c.b * c.e <= c.m /\ Size(c) <= c.b * c.m

ASSUME CurveAssumption ==
  \A c \in Curves :
    /\ WordShape(c)
    /\ IF c.family \in {"p256", "sm2", "p384"} THEN FilledShape(c) ELSE BelowShape(c)
    /\ Single(c) \cup Pairs(c) \cup Factors(c) \subseteq 0..(Size(c) - 1)
    /\ Scalars(c) \subseteq 0..(c.b - 1)

None == -1
Reduced(c, xs) == { x \in xs : x < c.p }

Of(c, ops, xs, ys) == [curve : {c}, op : ops \cap c.ops, x : xs, y : ys]

\* What may be called: operands are reduced where the interface asks for it.
Calls(c) ==
  UNION { Of(c, {"double", "triple", "neg", "half", "demont"}, Reduced(c, Single(c)), {0}),
          Of(c, {"add", "sub"}, Reduced(c, Pairs(c)), Reduced(c, Pairs(c))),
          Of(c, {"optneg"}, Reduced(c, Single(c)), {0, 1, 2}),
          Of(c, {"cmul"}, Reduced(c, Single(c)), Scalars(c)),
          Of(c, {"mod", "tomont", "deamont"}, Single(c), {0}),
          { d \in Of(c, {"montmul", "mul"}, Factors(c), Factors(c)) :
              /\ d.op = "montmul" => d.x * d.y <= Size(c) * c.p
              /\ c.family = "p521" => d.x < c.p /\ d.y < c.p } }

Offers(family, ops) == call.curve.family = family /\ call.op \in ops /\ z = None

CallInit == z = None /\ \E c \in Curves : call \in Calls(c)

-----------------------------------------------------------------------------
(* One action for the code of each family of curves. *)

Linear256(c, x, y) ==
  CASE call.op = "add"    -> add_p256(c, x, y)
    [] call.op = "double" -> add_p256(c, x, x)
    [] call.op = "sub"    -> sub_p256(c, x, y)
    [] call.op = "neg"    -> neg_p256(c, x)
    [] call.op = "optneg" -> optneg_p256(c, y, x)
    [] call.op = "half"   -> half_p256(c, x)
    [] call.op = "mod"    -> mod_p256_4(c, x)

Filled ==
  /\ \E family \in {"p256", "sm2", "p384"} :
       Offers(family, {"add", "double", "sub", "neg", "optneg", "half", "mod"})
  /\ z' = Linear256(call.curve, call.x, call.y)
  /\ UNCHANGED call

P256 ==
  /\ Offers("p256", {"triple", "cmul", "tomont", "demont", "deamont", "montmul"})
  /\ z' = LET c == call.curve
              x == call.x
          IN  CASE call.op = "triple"  -> triple_p256(c, x)
                [] call.op = "cmul"    -> cmul_p256(c, call.y, x)
                [] call.op = "tomont"  -> tomont_p256(c, x)
                [] call.op = "demont"  -> demont_p256(c, x)
                [] call.op = "deamont" -> deamont_p256(c, x)
                [] call.op = "montmul" -> montmul_p256(c, x, call.y)
  /\ UNCHANGED call

\* SM2 shares the word-by-word Montgomery step of P-256 and folds its triple.
Sm2 ==
  /\ Offers("sm2", {"triple", "cmul", "tomont", "demont", "deamont", "montmul"})
  /\ z' = LET c == call.curve
              x == call.x
          IN  CASE call.op = "triple"  -> triple_p384(c, x)
                [] call.op = "cmul"    -> cmul_sm2(c, call.y, x)
                [] call.op = "tomont"  -> tomont_sm2(c, x)
                [] call.op = "demont"  -> demont_p256(c, x)
                [] call.op = "deamont" -> deamont_p256(c, x)
                [] call.op = "montmul" -> montmul_p256(c, x, call.y)
  /\ UNCHANGED call

P384 ==
  /\ Offers("p384", {"triple", "cmul", "tomont", "demont", "deamont", "montmul"})
  /\ z' = LET c == call.curve
              x == call.x
          IN  CASE call.op = "triple"  -> triple_p384(c, x)
                [] call.op = "cmul"    -> cmul_p384(c, call.y, x)
                [] call.op = "tomont"  -> tomont_p384(c, x)
                [] call.op = "demont"  -> demont_p384(c, x)
                [] call.op = "deamont" -> deamont_p384(c, x)
                [] call.op = "montmul" -> montmul_p384(c, x, call.y)
  /\ UNCHANGED call

P25519 ==
  /\ Offers("p25519", {"add", "double", "sub", "neg", "optneg", "cmul", "mod", "mul"})
  /\ z' = LET c == call.curve
              x == call.x
              y == call.y
          IN  CASE call.op = "add"    -> add_p25519(c, x, y)
                [] call.op = "double" -> add_p25519(c, x, x)
                [] call.op = "sub"    -> sub_p25519(c, x, y)
                [] call.op = "neg"    -> neg_p25519(c, x)
                [] call.op = "optneg" -> optneg_p25519(c, y, x)
                [] call.op = "cmul"   -> cmul_p25519(c, y, x)
                [] call.op = "mod"    -> mod_p25519_4(c, x)
                [] call.op = "mul"    -> mul_p25519(c, x, y)
  /\ UNCHANGED call

P256k1 ==
  /\ call.curve.family = "p256k1" /\ z = None
  /\ z' = LET c == call.curve
              x == call.x
              y == call.y
          IN  CASE call.op = "add"     -> add_p256k1(c, x, y)
                [] call.op = "double"  -> add_p256k1(c, x, x)
                [] call.op = "triple"  -> triple_p256k1(c, x)
                [] call.op = "sub"     -> sub_p256k1(c, x, y)
                [] call.op = "neg"     -> neg_p256k1(c, x)
                [] call.op = "optneg"  -> optneg_p256k1(c, y, x)
                [] call.op = "half"    -> half_p256k1(c, x)
                [] call.op = "cmul"    -> cmul_p256k1(c, y, x)
                [] call.op = "mod"     -> mod_p256k1_4(c, x)
                [] call.op = "mul"     -> mul_p256k1(c, x, y)
                [] call.op = "tomont"  -> tomont_p256k1(c, x)
                [] call.op = "demont"  -> demont_p256k1(c, x)
                [] call.op = "deamont" -> deamont_p256k1(c, x)
                [] call.op = "montmul" -> montmul_p256k1(c, x, y)
  /\ UNCHANGED call

P521 ==
  /\ call.curve.family = "p521" /\ z = None
  /\ z' = LET c == call.curve
              x == call.x
              y == call.y
          IN  CASE call.op = "add"     -> add_p521(c, x, y)
                [] call.op = "double"  -> double_p521(c, x)
                [] call.op = "triple"  -> triple_p521(c, x)
                [] call.op = "sub"     -> sub_p521(c, x, y)
                [] call.op = "neg"     -> neg_p521(c, x)
                [] call.op = "optneg"  -> optneg_p521(c, y, x)
                [] call.op = "half"    -> half_p521(c, x)
                [] call.op = "cmul"    -> cmul_p521(c, y, x)
                [] call.op = "mod"     -> mod_p521_9(c, x)
                [] call.op = "mul"     -> mul_p521(c, x, y)
                [] call.op = "tomont"  -> tomont_p521(c, x)
                [] call.op = "demont"  -> demont_p521(c, x)
                [] call.op = "deamont" -> deamont_p521(c, x)
                [] call.op = "montmul" -> montmul_p521(c, x, y)
  /\ UNCHANGED call

\* Reduction modulo the group orders that do not fill their words.
Orders ==
  /\ \/ Offers("n25519", {"mod"}) /\ z' = mod_n25519_4(call.curve, call.x)
     \/ Offers("n521", {"mod"}) /\ z' = mod_n521_9(call.curve, call.x)
  /\ UNCHANGED call

CallNext == Filled \/ P256 \/ Sm2 \/ P384 \/ P25519 \/ P256k1 \/ P521 \/ Orders

CallReturned == z # None /\ UNCHANGED callVars

CallSpec == CallInit /\ [][CallNext \/ CallReturned]_callVars

-----------------------------------------------------------------------------
\* What the interface says of the result v of an operation on x and y.
Promised(c, op, v, x, y) ==
  CASE op = "add"     -> bignum_add_p(c, v, x, y)
    [] op = "double"  -> bignum_double_p(c, v, x)
    [] op = "triple"  -> bignum_triple_p(c, v, x)
    [] op = "sub"     -> bignum_sub_p(c, v, x, y)
    [] op = "neg"     -> bignum_neg_p(c, v, x)
    [] op = "optneg"  -> bignum_optneg_p(c, v, y, x)
    [] op = "half"    -> bignum_half_p(c, v, x)
    [] op = "cmul"    -> bignum_cmul_p(c, v, y, x)
    [] op = "mod"     -> bignum_mod_p(c, v, x)
    [] op = "mul"     -> IF x = y THEN bignum_sqr_p(c, v, x) ELSE bignum_mul_p(c, v, x, y)
    [] op = "tomont"  -> bignum_tomont_p(c, v, x)
    [] op = "demont"  -> bignum_demont_p(c, v, x)
    [] op = "deamont" -> bignum_deamont_p(c, v, x)
    [] op = "montmul" -> IF x = y THEN bignum_montsqr_p(c, v, x)
                         ELSE bignum_montmul_p(c, v, x, y)

(***************************************************************************)
(* Every field function returns the reduced result that the interface      *)
(* names, for all operands it accepts: the carry, mask or comparison that  *)
(* decides on the final correction is right, each quotient estimate is off *)
(* by no more than that correction mends, and no intermediate value is cut *)
(* off by the registers that hold it.                                      *)
(***************************************************************************)
MeetsInterface == z # None => Promised(call.curve, call.op, z, call.x, call.y)
=============================================================================

----------------------------- MODULE Field25519 -----------------------------
(***************************************************************************)
(* The arithmetic the functions for curve25519 and edwards25519 are built  *)
(* from: operations on cells of four words, that is of CellBits bits,      *)
(* which return a number congruent to the result modulo P = Half - Gap.    *)
(* Only mul_p25519 and sqr_p25519 return the reduced one; mul_4 and sqr_4  *)
(* promise less than 2 * P, and the additions only a cell.                 *)
(*                                                                         *)
(* A program is a sequence of instructions <<operation, result, operand,   *)
(* operand>> on names.  Names that share a place on the stack are mapped   *)
(* to one of them.                                                         *)
(***************************************************************************)
EXTENDS Integers, Sequences, TLC

CONSTANTS CellBits, \* 256
          Gap,      \* 19
          A24,      \* 121666, a quarter of the curve's coefficient plus 2
          D         \* (1 - A24) / A24: -x^2 + y^2 = 1 + D * x^2 * y^2 is its Edwards form

Half == 2 ^ (CellBits - 1)
P == Half - Gap
Cells == 2 * Half
Field == 0 .. (P - 1)

\* A product of two cells folded once: 2^256 is 2 * Gap modulo P.
Folded(v) == (v % Cells) + 2 * Gap * (v \div Cells)

\* The quotient by Half is taken out, and the remainder is below 2 * P.
Mul4(a, b) == LET w == Folded(a * b) IN (w % Half) + Gap * (w \div Half)

\* The quotient is estimated one too high, and Gap is taken back when the
\* remainder shows that it was.
Mulp(a, b) ==
  LET w == Folded(a * b)
      t == (w % Half) + Gap * ((w \div Half) + 1)
  IN  (IF t >= Half THEN t ELSE t - Gap) % Half

Add4(a, b) == (a + b) % Cells
Sub4(a, b) == (a - b + P) % Cells
AddTwice4(a, b) == (IF a + b < Cells THEN a + b ELSE a + b - Cells + 2 * Gap) % Cells
SubTwice4(a, b) == (IF a < b THEN a - b - 2 * Gap ELSE a - b) % Cells
Cmadd4(a, b) == LET v == A24 * a + b IN ((v % Half) + Gap * (v \div Half)) % Cells

K == (2 * D) % P

Effect(op, a, b) ==
  CASE op = "mul_4" -> Mul4(a, b)       [] op = "sqr_4" -> Mul4(a, a)
    [] op = "mul_p25519" -> Mulp(a, b)  [] op = "sqr_p25519" -> Mulp(a, a)
    [] op = "add_4" -> Add4(a, b)       [] op = "double_4" -> Add4(a, a)
    [] op = "sub_4" -> Sub4(a, b)       [] op = "sub_twice4" -> SubTwice4(a, b)
    [] op = "add_twice4" -> AddTwice4(a, b)
    [] op = "double_twice4" -> AddTwice4(a, a)
    [] op = "cmadd_4" -> Cmadd4(a, b)   [] op = "move" -> a
    [] op = "load_k25519" -> K

Place(shared, v) == IF v \in DOMAIN shared THEN shared[v] ELSE v

\* A memory gives every place a value; what was never written counts as Unset.
Unset == Cells
Memory(places) == [places -> 0 .. Unset]
Fresh(places, written) == [p \in places |-> IF p \in DOMAIN written THEN written[p] ELSE Unset]

\* The memory after a program.
Run(program, shared, memory) ==
  LET run[n \in 1 .. (Len(program) + 1), m \in Memory(DOMAIN memory)] ==
        IF n > Len(program) THEN m
        ELSE run[n + 1,
                 [m EXCEPT ![Place(shared, program[n][2])] =
                    Effect(program[n][1], m[Place(shared, program[n][3])],
                                          m[Place(shared, program[n][4])])]]
  IN  run[1, memory]

-----------------------------------------------------------------------------
(* The field itself, for the contracts. *)

Power(a, n) ==
  LET power[i \in 0 .. CellBits] ==   \* to the n \div 2^i
        IF i = CellBits THEN 1
        ELSE ((power[i + 1] ^ 2 % P) * (IF (n \div 2 ^ i) % 2 = 1 THEN a % P ELSE 1)) % P
  IN  power[0]

\* bignum_inv_p25519: 0 has the inverse 0.
Inverted(a) == Power(a, P - 2)
=============================================================================

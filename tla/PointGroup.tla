----------------------------- MODULE PointGroup -----------------------------
(***************************************************************************)
(* The group the elliptic curve functions compute in, seen through a point *)
(* P of prime order N: a point is the number a in 0 .. N-1 with point =    *)
(* a * P, and 0 is the point at infinity.  The operations are what the     *)
(* Jacobian functions of the code do, which for the addition is not the    *)
(* group law: the sum of a finite point with itself comes out as infinity. *)
(* JacobianPoints checks them against the field operations of that code.   *)
(***************************************************************************)
EXTENDS Integers

CONSTANT N  \* the group order

Point == 0 .. (N - 1)

\* Mutant: y = 0 is negated to the modulus itself.
NegationOfZero(a) == N - a

Negation(a) == IF a = 0 THEN 0 ELSE N - a

Jdouble(a) == (2 * a) % N

\* Infinity as either input is recognised, a doubling is not: it gives z = 0.
Jadd(a, b) == IF a = 0 THEN b
              ELSE IF b = 0 THEN a
              ELSE IF a = b THEN 0
              ELSE (a + b) % N
=============================================================================

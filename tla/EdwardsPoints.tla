--------------------------- MODULE EdwardsPoints ----------------------------
(***************************************************************************)
(* The group edwards25519 and the functions on single points.  A point of  *)
(* the curve is <<x, y>>; in memory it is in extended projective form, as  *)
(* (X, Y, Z, W) with x = X / Z, y = Y / Z and x * y = W / Z, in projective *)
(* form without W, or in precomputed form as (y - x, x + y, 2 * D * x * y).*)
(*                                                                         *)
(* Addresses count cells; the temporaries are below 0.  The functions are  *)
(* given as programs on the coordinates of the operands p_1 and p_2 and of *)
(* the result p_3.                                                         *)
(***************************************************************************)
EXTENDS Field25519, FiniteSetsExt

CONSTANT RootOfMinusOne   \* 2^((P-1)/4)

OnCurve(x, y) ==
  ((y ^ 2 % P) - (x ^ 2 % P) - 1 - D * (((x ^ 2 % P) * (y ^ 2 % P)) % P)) % P = 0

Affine == Field \X Field
Zero == <<0, 1>>

\* The law of the group, complete because D is not a square.
EdSum[p \in Affine, q \in Affine] ==
  LET t == (D * ((((p[1] * p[2]) % P) * ((q[1] * q[2]) % P)) % P)) % P
  IN  << (((p[1] * q[2] + q[1] * p[2]) % P) * Inverted(1 + t)) % P,
         (((p[2] * q[2] + p[1] * q[1]) % P) * Inverted((1 - t) % P)) % P >>

EdDouble[p \in Affine] == EdSum[p, p]
EdNegated(p) == <<(0 - p[1]) % P, p[2]>>

EdMultiple(p, n) ==
  LET multiple[k \in 0 .. n] ==
        IF k = 0 THEN Zero
        ELSE EdSum[EdDouble[multiple[k \div 2]], IF k % 2 = 1 THEN p ELSE Zero]
  IN  multiple[n]

-----------------------------------------------------------------------------
(* Representations. *)

Extended(p, z) == <<(p[1] * z) % P, (p[2] * z) % P, z, (((p[1] * p[2]) % P) * z) % P>>
Precomputed(p) == <<(p[2] - p[1]) % P, (p[1] + p[2]) % P, (K * ((p[1] * p[2]) % P)) % P>>

\* Cells in projective form stand for the point.
Projective(c, p) ==
  /\ c[3] % P # 0
  /\ (c[1] - p[1] * (c[3] % P)) % P = 0
  /\ (c[2] - p[2] * (c[3] % P)) % P = 0

\* The fourth cell is right as well.
ExProjective(c, p) ==
  Projective(c, p) /\ ((c[4] % P) * (c[3] % P) - (c[1] % P) * (c[2] % P)) % P = 0

-----------------------------------------------------------------------------
(* The programs. *)

T(n) == <<0, n>>
x_1 == <<1, 0>>   y_1 == <<1, 1>>   z_1 == <<1, 2>>   w_1 == <<1, 3>>
x_2 == <<2, 0>>   y_2 == <<2, 1>>   z_2 == <<2, 2>>   w_2 == <<2, 3>>
x_3 == <<3, 0>>   y_3 == <<3, 1>>   z_3 == <<3, 2>>   w_3 == <<3, 3>>

\* The functions reduce their results; the copies of them in the scalar
\* multiplications keep every value a cell that only counts modulo P.
Style == {"standalone", "local"}
Mul(style) == IF style = "local" THEN "mul_4" ELSE "mul_p25519"
Add(style) == IF style = "local" THEN "add_twice4" ELSE "add_4"
Sub(style) == IF style = "local" THEN "sub_twice4" ELSE "sub_4"
Dbl(style) == IF style = "local" THEN "double_twice4" ELSE "double_4"

epadd(style) == <<
  <<"mul_4", T(0), w_1, w_2>>,
  <<Sub(style), T(1), y_1, x_1>>,        <<Sub(style), T(2), y_2, x_2>>,
  <<Add(style), T(3), y_1, x_1>>,        <<Add(style), T(4), y_2, x_2>>,
  <<Dbl(style), T(5), z_2, z_2>>,
  <<"mul_4", T(1), T(1), T(2)>>,         <<"mul_4", T(3), T(3), T(4)>>,
  <<"load_k25519", T(2), T(2), T(2)>>,   <<"mul_4", T(2), T(2), T(0)>>,
  <<"mul_4", T(4), z_1, T(5)>>,
  <<"sub_twice4", T(0), T(3), T(1)>>,    <<"add_twice4", T(5), T(3), T(1)>>,
  <<"sub_twice4", T(1), T(4), T(2)>>,    <<"add_twice4", T(3), T(4), T(2)>>,
  <<Mul(style), w_3, T(0), T(5)>>,       <<Mul(style), x_3, T(0), T(1)>>,
  <<Mul(style), y_3, T(3), T(5)>>,       <<Mul(style), z_3, T(1), T(3)>> >>

\* p_2 is in precomputed form.
pepadd(style) == <<
  <<Dbl(style), T(0), z_1, z_1>>,
  <<Sub(style), T(1), y_1, x_1>>,        <<Add(style), T(2), y_1, x_1>>,
  <<"mul_4", T(3), w_1, z_2>>,
  <<"mul_4", T(1), T(1), x_2>>,          <<"mul_4", T(2), T(2), y_2>>,
  <<"sub_twice4", T(4), T(0), T(3)>>,    <<"add_twice4", T(0), T(0), T(3)>>,
  <<"sub_twice4", T(5), T(2), T(1)>>,    <<"add_twice4", T(1), T(2), T(1)>>,
  <<Mul(style), z_3, T(4), T(0)>>,       <<Mul(style), x_3, T(5), T(4)>>,
  <<Mul(style), y_3, T(0), T(1)>>,       <<Mul(style), w_3, T(5), T(1)>> >>

DoubledTemporaries(style) == <<
  <<Add(style), T(0), x_1, y_1>>,        <<"sqr_4", T(1), z_1, z_1>>,
  <<"sqr_4", T(2), x_1, x_1>>,           <<"sqr_4", T(3), y_1, y_1>>,
  <<"double_twice4", T(1), T(1), T(1)>>, <<"sqr_4", T(0), T(0), T(0)>>,
  <<"add_twice4", T(4), T(2), T(3)>>,    <<"sub_twice4", T(2), T(2), T(3)>>,
  <<"add_twice4", T(3), T(1), T(2)>>,    <<"sub_twice4", T(1), T(4), T(0)>> >>

epdouble(style) ==
  DoubledTemporaries(style) \o <<
  <<Mul(style), y_3, T(2), T(4)>>,       <<Mul(style), z_3, T(3), T(2)>>,
  <<Mul(style), w_3, T(1), T(4)>>,       <<Mul(style), x_3, T(1), T(3)>> >>

\* The fourth cell of p_3 keeps its old value.
pdouble(style) ==
  DoubledTemporaries(style) \o <<
  <<Mul(style), y_3, T(2), T(4)>>,       <<Mul(style), z_3, T(3), T(2)>>,
  <<Mul(style), x_3, T(1), T(3)>> >>

\* The program on the operands at addresses p1 and p2 with result at p3.
At(program, p3, p1, p2) ==
  LET base == <<p1, p2, p3>>
      address(v) == IF v[1] = 0 THEN -1 - v[2] ELSE base[v[1]] + v[2]
  IN  [n \in 1 .. Len(program) |->
         <<program[n][1], address(program[n][2]), address(program[n][3]), address(program[n][4])>>]

Temporaries == -6 .. -1

-----------------------------------------------------------------------------
(* Encoding: 256 bits, that is one cell, of which the top bit is the       *)
(* parity of x.                                                            *)

encode(p) == (p[2] % Half) + Half * (p[1] % 2)

\* A square root of u / v if there is one: w = u * v to the (P - 5) / 8 is an
\* inverse root of w up to a factor of RootOfMinusOne; which of the two cases
\* it is, or neither, shows in the square.
Candidate(u, w) ==
  LET root == Power(w % P, (P - 5) \div 8)
      square == Mulp(Mulp(root, root), w)
      s == Mulp(u, root)
  IN  [root |-> IF square \in {0, 1} THEN s ELSE Mulp(RootOfMinusOne, s),
       bad |-> square \notin {0, 1, P - 1}]

\* Mutant: x = 0 with the sign set is taken for a point.
SignedUnchecked(y, sign, bad, s) ==
  [ret |-> IF bad THEN 1 ELSE 0, x |-> IF s # 0 /\ s % 2 # sign THEN P - s ELSE s, y |-> y]

\* The root with the right parity; 0 has no other one.
Signed(y, sign, bad, s) ==
  [ret |-> IF bad \/ (s = 0 /\ sign = 1) THEN 1 ELSE 0,
   x |-> IF s # 0 /\ s % 2 # sign THEN P - s ELSE s, y |-> y]

\* y^2 - 1 and 1 + D * y^2 are left unreduced.
decode(c) ==
  LET y == c % Half
      square == Mulp(y, y)
      candidate[u \in 0 .. Unset, w \in 0 .. Unset] == Candidate(u, w)
      answer[s \in [root : 0 .. Unset, bad : BOOLEAN]] ==
        Signed(y, c \div Half, y >= P \/ s.bad, s.root)
  IN  answer[candidate[(square - (Gap + 1) - Half) % Cells,
                       Mulp((square - (Gap + 1) - Half) % Cells, Mulp(D, square) + 1)]]
=============================================================================

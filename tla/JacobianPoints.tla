--------------------------- MODULE JacobianPoints ---------------------------
(***************************************************************************)
(* The point operations montjadd, montjmixadd and montjdouble on P-256,    *)
(* SM2 and P-384 and jadd, jmixadd and jdouble on P-521 and secp256k1:     *)
(* straight-line sequences of field operations in a memory that holds the  *)
(* two argument triples, the result triple, which may overlap them, and a  *)
(* stack frame whose temporaries share slots.  A cell of the memory holds  *)
(* one field element, in Montgomery form or not.                           *)
(*                                                                         *)
(* The field operations return what their macros return, which is not      *)
(* always the reduced representative: amontsqr, weakadd and weakdouble     *)
(* only promise a value below Radix, the rough and weak products not even  *)
(* that, and the others promise a reduced value only for operands in their *)
(* range.                                                                  *)
(***************************************************************************)
EXTENDS PointGroup, Sequences, TLC

CONSTANTS Prime,        \* the field, y^2 = x^3 + A * x + B the curve
          A, B,
          Radix,        \* the power of two above the prime
          One,          \* what stands for 1: Radix modulo Prime in Montgomery form
          Generator,    \* <<x, y>>, of order N
          Curves,       \* the curves whose functions are called
          Zs1, Zs2,     \* the z coordinates of the finite arguments
          Junk,         \* the x and y coordinates of the infinite arguments
          Outputs       \* the addresses of the result

\* The functions of the curves, each with the coordinates of its inputs: three,
\* or two for an affine point.  Those of P-256 and SM2 are the same programs, and
\* P-384 differs from them in montjdouble.
P256Functions == [montjadd |-> <<3, 3>>, montjdouble |-> <<3>>, montjmixadd |-> <<3, 2>>]
SM2Functions == P256Functions
P384Functions == [montjadd |-> <<3, 3>>, montjdouble_p384 |-> <<3>>, montjmixadd |-> <<3, 2>>]
P521Functions == [jadd |-> <<3, 3>>, jdouble_p521 |-> <<3>>, jmixadd |-> <<3, 2>>]
Secp256k1Functions == [jadd |-> <<3, 3>>, jdouble_p256k1 |-> <<3>>, jmixadd |-> <<3, 2>>]

FunctionsOf == [p256 |-> P256Functions, sm2 |-> SM2Functions, p384 |-> P384Functions,
                p521 |-> P521Functions, secp256k1 |-> Secp256k1Functions]
Functions == UNION { DOMAIN FunctionsOf[c] : c \in Curves }
Inputs == P256Functions @@ P384Functions @@ P521Functions @@ Secp256k1Functions

Field == 0 .. (Prime - 1)
Cell == 0 .. (Radix - 1)

FieldAssumption == /\ Prime < Radix /\ Radix < 2 * Prime /\ Prime % 2 = 1
                   /\ One \in {1, Radix % Prime}
CallAssumption == /\ Curves \subseteq DOMAIN FunctionsOf
                  /\ Zs1 \subseteq Field \ {0} /\ Zs2 \subseteq Field \ {0}
                  /\ Junk \subseteq Field

-----------------------------------------------------------------------------
(* The curve.                                                               *)

Reciprocal(a) == CHOOSE b \in Field : (a * b) % Prime = 1

\* The sum of two finite points with different x coordinates, or the double.
ChordOrTangent(p, q) ==
  LET slope == IF p = q THEN ((3 * p[1] * p[1] + A) * Reciprocal(2 * p[2])) % Prime
               ELSE ((q[2] - p[2]) * Reciprocal((q[1] - p[1]) % Prime)) % Prime
      x == (slope * slope - p[1] - q[1]) % Prime
  IN  <<x, (slope * (p[1] - x) - p[2]) % Prime>>

\* Multiple[a] is a times the generator, for a in 1 .. N-1.
Multiple[a \in Point \ {0}] == IF a = 1 THEN Generator
                               ELSE ChordOrTangent(Multiple[a - 1], Generator)

\* What stands for a field element, and what it stands for.
Encode(a) == (a * One) % Prime
Decode(m) == (m * Reciprocal(One)) % Prime

\* The triple with z coordinate z for the finite point a.
Triple(a, z) ==
  LET p == Multiple[a]
  IN  <<Encode(p[1] * z * z), Encode(p[2] * z * z * z), Encode(z)>>

\* represents_p256: the triple is reduced and is the point a.
Represents(t, a) ==
  /\ \A i \in 1 .. 3 : t[i] \in Field
  /\ IF t[3] = 0 THEN a = 0
     ELSE a # 0 /\ t = Triple(a, Decode(t[3]))

Triples1(a) == IF a = 0 THEN {<<x, y, 0>> : x, y \in Junk}
                        ELSE {Triple(a, z) : z \in Zs1}
Triples2(a) == IF a = 0 THEN {<<x, y, 0>> : x, y \in Junk}
                        ELSE {Triple(a, z) : z \in Zs2}

-----------------------------------------------------------------------------
(* The field operations.                                                    *)

\* a * b / Radix, before the final correction: below 2 * Prime when the
\* product of the operands is below Radix * Prime.
Redc(a, b) ==
  LET m == (CHOOSE u \in Cell : (u * Prime + 1) % Radix = 0) * a * b
  IN  (a * b + (m % Radix) * Prime) \div Radix

\* Mutant: the last subtraction only makes the result fit.
MontmulAlmost(a, b) == LET t == Redc(a, b) IN IF t < Radix THEN t ELSE t - Prime

Montmul(a, b) == LET t == Redc(a, b)
                 IN  (IF t < Prime THEN t ELSE t - Prime) % Radix
Amontsqr(a) == LET t == Redc(a, a)
               IN  (IF t < Radix THEN t ELSE t - Prime) % Radix

Sub(a, b) == (IF a < b THEN a - b + Prime ELSE a - b) % Radix

Add(a, b) == (IF a + b < Prime THEN a + b ELSE a + b - Prime) % Radix
Weakadd(a, b) == (IF a + b < Radix THEN a + b ELSE a + b - Prime) % Radix
Cmsub(c, a, d, b) == (c * a + d * (Prime - b)) % Prime

\* The product of jadd and jmixadd, reduced, and that of jdouble, of which only
\* the part above Radix is folded: below (Radix - Prime + 1) * Radix.
Mul(a, b) == (a * b) % Prime
Roughmul(a, b) == ((a * b) % Radix) + (Radix - Prime) * ((a * b) \div Radix)
Weakdouble(a) == (IF 2 * a < Radix THEN 2 * a ELSE 2 * a - Prime) % Radix

\* The result of an instruction, from its operands' values.
Effect(op, a, b) ==
  CASE op = "montmul" -> Montmul(a, b)
    [] op = "montsqr" -> Montmul(a, a)
    [] op = "amontsqr" -> Amontsqr(a)
    [] op = "sub" -> Sub(a, b)
    [] op = "add" -> Add(a, b)
    [] op = "weakadd" -> Weakadd(a, b)
    [] op = "mul" -> Mul(a, b)
    [] op = "sqr" -> Mul(a, a)
    [] op \in {"weakmul", "roughmul"} -> Roughmul(a, b)
    [] op = "roughsqr" -> Roughmul(a, a)
    [] op = "weakdouble" -> Weakdouble(a)
    [] op = "cmsub129" -> Cmsub(12, a, 9, b)
    [] op = "cmsub41" -> Cmsub(4, a, 1, b)
    [] op = "cmsub38" -> Cmsub(3, a, 8, b)

\* P-521: the prime is one less than Radix, and a reduced operand all ones
\* below it.
Mersenne == Prime = Radix - 1

\* The operands an operation's specification asks for.  For secp256k1 products
\* take any operands of four words, and the last operations rough products.
Rough(a) == a < (Radix - Prime + 1) * Radix

InRange(op, a, b) ==
  CASE op = "montmul" -> a * b <= Radix * Prime
    [] op = "montsqr" -> a * a <= Radix * Prime
    [] op = "amontsqr" -> TRUE
    [] op \in {"mul", "sqr", "weakmul", "roughmul", "roughsqr"} ->
         IF Mersenne THEN a < Prime /\ b < Prime ELSE a < Radix /\ b < Radix
    [] op \in {"cmsub129", "cmsub38"} /\ One = 1 -> Rough(a) /\ (IF Mersenne THEN b < Prime ELSE Rough(b))
    [] op = "cmsub41" /\ One = 1 -> Rough(a) /\ b < Prime
    [] OTHER -> a < Prime /\ b < Prime
-----------------------------------------------------------------------------
(* The programs: instructions <<operation, result, operand, operand>>.      *)

MontjaddProgram == <<
  <<"amontsqr", "z1sq", "z_1", "z_1">>, <<"amontsqr", "z2sq", "z_2", "z_2">>,
  <<"montmul", "y1a", "z_2", "y_1">>,   <<"montmul", "y2a", "z_1", "y_2">>,
  <<"montmul", "x2a", "z1sq", "x_2">>,  <<"montmul", "x1a", "z2sq", "x_1">>,
  <<"montmul", "y2a", "z1sq", "y2a">>,  <<"montmul", "y1a", "z2sq", "y1a">>,
  <<"sub", "xd", "x2a", "x1a">>,        <<"sub", "yd", "y2a", "y1a">>,
  <<"amontsqr", "zz", "xd", "xd">>,     <<"montsqr", "ww", "yd", "yd">>,
  <<"montmul", "zzx1", "zz", "x1a">>,   <<"montmul", "zzx2", "zz", "x2a">>,
  <<"sub", "resx", "ww", "zzx1">>,      <<"sub", "t1", "zzx2", "zzx1">>,
  <<"montmul", "xd", "xd", "z_1">>,     <<"sub", "resx", "resx", "zzx2">>,
  <<"sub", "t2", "zzx1", "resx">>,      <<"montmul", "t1", "t1", "y1a">>,
  <<"montmul", "resz", "xd", "z_2">>,   <<"montmul", "t2", "yd", "t2">>,
  <<"sub", "resy", "t2", "t1">> >>

MontjmixaddProgram == <<
  <<"amontsqr", "zp2", "z_1", "z_1">>,  <<"montmul", "y2a", "z_1", "y_2">>,
  <<"montmul", "x2a", "zp2", "x_2">>,   <<"montmul", "y2a", "zp2", "y2a">>,
  <<"sub", "xd", "x2a", "x_1">>,        <<"sub", "yd", "y2a", "y_1">>,
  <<"amontsqr", "zz", "xd", "xd">>,     <<"montsqr", "ww", "yd", "yd">>,
  <<"montmul", "zzx1", "zz", "x_1">>,   <<"montmul", "zzx2", "zz", "x2a">>,
  <<"sub", "resx", "ww", "zzx1">>,      <<"sub", "t1", "zzx2", "zzx1">>,
  <<"montmul", "resz", "xd", "z_1">>,   <<"sub", "resx", "resx", "zzx2">>,
  <<"sub", "t2", "zzx1", "resx">>,      <<"montmul", "t1", "t1", "y_1">>,
  <<"montmul", "t2", "yd", "t2">>,      <<"sub", "resy", "t2", "t1">> >>

\* Mutant: y + z is squared in the result's z coordinate, not on the stack.
MontjdoubleInPlace == <<
  <<"montsqr", "z2", "z_1", "z_1">>,    <<"montsqr", "y2", "y_1", "y_1">>,
  <<"sub", "t2", "x_1", "z2">>,         <<"weakadd", "t1", "x_1", "z2">>,
  <<"montmul", "x2p", "t1", "t2">>,     <<"add", "z_3", "y_1", "z_1">>,
  <<"montmul", "xy2", "x_1", "y2">>,    <<"montsqr", "x4p", "x2p", "x2p">>,
  <<"montsqr", "z_3", "z_3", "z_3">>,   <<"cmsub129", "d", "xy2", "x4p">>,
  <<"sub", "t1", "z_3", "z2">>,         <<"montsqr", "y4", "y2", "y2">>,
  <<"montmul", "dx2", "d", "x2p">>,     <<"sub", "z_3", "t1", "y2">>,
  <<"cmsub41", "x_3", "xy2", "d">>,     <<"cmsub38", "y_3", "dx2", "y4">> >>

MontjdoubleProgram == <<
  <<"montsqr", "z2", "z_1", "z_1">>,    <<"montsqr", "y2", "y_1", "y_1">>,
  <<"sub", "t2", "x_1", "z2">>,         <<"weakadd", "t1", "x_1", "z2">>,
  <<"montmul", "x2p", "t1", "t2">>,     <<"add", "t1", "y_1", "z_1">>,
  <<"montmul", "xy2", "x_1", "y2">>,    <<"montsqr", "x4p", "x2p", "x2p">>,
  <<"montsqr", "t1", "t1", "t1">>,      <<"cmsub129", "d", "xy2", "x4p">>,
  <<"sub", "t1", "t1", "z2">>,          <<"montsqr", "y4", "y2", "y2">>,
  <<"montmul", "dx2", "d", "x2p">>,     <<"sub", "z_3", "t1", "y2">>,
  <<"cmsub41", "x_3", "xy2", "d">>,     <<"cmsub38", "y_3", "dx2", "y4">> >>

\* P-384: the last square and y + z are computed apart.
MontjdoubleP384Program == <<
  <<"montsqr", "z2", "z_1", "z_1">>,    <<"montsqr", "y2", "y_1", "y_1">>,
  <<"weakadd", "t1", "x_1", "z2">>,     <<"sub", "t2", "x_1", "z2">>,
  <<"montmul", "x2p", "t1", "t2">>,     <<"add", "t1", "y_1", "z_1">>,
  <<"montsqr", "x4p", "x2p", "x2p">>,   <<"montmul", "xy2", "x_1", "y2">>,
  <<"montsqr", "t2", "t1", "t1">>,      <<"cmsub129", "d", "xy2", "x4p">>,
  <<"sub", "t1", "t2", "z2">>,          <<"montsqr", "y4", "y2", "y2">>,
  <<"sub", "z_3", "t1", "y2">>,         <<"montmul", "dx2", "d", "x2p">>,
  <<"cmsub41", "x_3", "xy2", "d">>,     <<"cmsub38", "y_3", "dx2", "y4">> >>

\* P-521: as for P-384, with two products left weak.
JdoubleP521Program == <<
  <<"sqr", "z2", "z_1", "z_1">>,        <<"sqr", "y2", "y_1", "y_1">>,
  <<"add", "t1", "x_1", "z2">>,         <<"sub", "t2", "x_1", "z2">>,
  <<"mul", "x2p", "t1", "t2">>,         <<"add", "t1", "y_1", "z_1">>,
  <<"sqr", "x4p", "x2p", "x2p">>,       <<"weakmul", "xy2", "x_1", "y2">>,
  <<"sqr", "t2", "t1", "t1">>,          <<"cmsub129", "d", "xy2", "x4p">>,
  <<"sub", "t1", "t2", "z2">>,          <<"sqr", "y4", "y2", "y2">>,
  <<"sub", "z_3", "t1", "y2">>,         <<"weakmul", "dx2", "d", "x2p">>,
  <<"cmsub41", "x_3", "xy2", "d">>,     <<"cmsub38", "y_3", "dx2", "y4">> >>

\* secp256k1, where A is 0.  z_3 is written after the argument is last read.
JdoubleP256k1Program == <<
  <<"sqr", "y_2", "y_1", "y_1">>,       <<"sqr", "x_2", "x_1", "x_1">>,
  <<"weakdouble", "tmp", "y_1", "y_1">>, <<"roughmul", "xy2", "x_1", "y_2">>,
  <<"roughsqr", "x_4", "x_2", "x_2">>,  <<"mul", "z_3", "z_1", "tmp">>,
  <<"cmsub129", "d", "xy2", "x_4">>,    <<"roughsqr", "y_4", "y_2", "y_2">>,
  <<"roughmul", "dx2", "x_2", "d">>,    <<"cmsub41", "x_3", "xy2", "d">>,
  <<"cmsub38", "y_3", "dx2", "y_4">> >>

\* The additions of P-521 and secp256k1 are those of P-256 on plain numbers.
Plain(program) ==
  [n \in 1 .. Len(program) |->
     [program[n] EXCEPT ![1] = CASE @ = "montmul" -> "mul"
                                 [] @ \in {"montsqr", "amontsqr"} -> "sqr"
                                 [] OTHER -> @]]

Program == [montjadd |-> MontjaddProgram, montjmixadd |-> MontjmixaddProgram,
            montjdouble |-> MontjdoubleProgram, montjdouble_p384 |-> MontjdoubleP384Program,
            jadd |-> Plain(MontjaddProgram), jmixadd |-> Plain(MontjmixaddProgram),
            jdouble_p521 |-> JdoubleP521Program, jdouble_p256k1 |-> JdoubleP256k1Program]

\* Mutant: x1a shares its slot with zz, which is computed while x1a is live.
MontjaddFrameShared ==
  [z1sq |-> 0, ww |-> 0, resx |-> 0, yd |-> 1, y2a |-> 1, x2a |-> 2, zzx2 |-> 2,
   zz |-> 3, t1 |-> 3, x1a |-> 3, t2 |-> 4, zzx1 |-> 4, resy |-> 4,
   xd |-> 5, z2sq |-> 5, resz |-> 5, y1a |-> 6]

\* The slots of the temporaries in each function's stack frame.
MontjaddFrame ==
  [z1sq |-> 0, ww |-> 0, resx |-> 0, yd |-> 1, y2a |-> 1, x2a |-> 2, zzx2 |-> 2,
   zz |-> 3, t1 |-> 3, t2 |-> 4, x1a |-> 4, zzx1 |-> 4, resy |-> 4,
   xd |-> 5, z2sq |-> 5, resz |-> 5, y1a |-> 6]
MontjmixaddFrame ==
  [zp2 |-> 0, ww |-> 0, resx |-> 0, yd |-> 1, y2a |-> 1, x2a |-> 2, zzx2 |-> 2,
   zz |-> 3, t1 |-> 3, t2 |-> 4, zzx1 |-> 4, resy |-> 4, xd |-> 5, resz |-> 5]

MontjdoubleFrame ==
  [z2 |-> 0, y4 |-> 0, y2 |-> 1, t1 |-> 2, t2 |-> 3, x2p |-> 3, dx2 |-> 3,
   xy2 |-> 4, x4p |-> 5, d |-> 5]

MontjdoubleP384Frame ==
  [z2 |-> 0, y2 |-> 1, x2p |-> 2, xy2 |-> 3, y4 |-> 4, t2 |-> 4,
   dx2 |-> 5, t1 |-> 5, d |-> 6, x4p |-> 6]

\* The rough products have two slots each.
JdoubleP256k1Frame ==
  [x_2 |-> 0, y_2 |-> 1, d |-> 2, tmp |-> 3, x_4 |-> 4, y_4 |-> 6, dx2 |-> 8, xy2 |-> 10]

Frame == [montjadd |-> MontjaddFrame, montjmixadd |-> MontjmixaddFrame,
          montjdouble |-> MontjdoubleFrame, montjdouble_p384 |-> MontjdoubleP384Frame,
          jadd |-> MontjaddFrame, jmixadd |-> MontjmixaddFrame,
          jdouble_p521 |-> MontjdoubleP384Frame, jdouble_p256k1 |-> JdoubleP256k1Frame]

-----------------------------------------------------------------------------
VARIABLES fn,      \* the function called
          p1, p2,  \* the points its arguments stand for (p1 twice when doubling)
          p3,      \* the address of its result
          mem, pc

vars == <<fn, p1, p2, p3, mem, pc>>

IsDoubling == Inputs[fn] = <<3>>
IsMixed == Inputs[fn] = <<3, 2>>

\* The arguments are at 3 and 6, a result apart from them at 0.
Stack == 9
Memory == 0 .. 20

Arguments == [x_1 |-> 3, y_1 |-> 4, z_1 |-> 5, x_2 |-> 6, y_2 |-> 7, z_2 |-> 8,
              x_3 |-> p3, y_3 |-> p3 + 1, z_3 |-> p3 + 2]

Address(v) == IF v \in DOMAIN Frame[fn] THEN Stack + Frame[fn][v]
              ELSE Arguments[v]
Contents(v) == mem[Address(v)]

Init == /\ fn \in Functions /\ p3 \in Outputs
        /\ p1 \in Point /\ p2 \in Point
        /\ IsMixed => p2 # 0
        /\ IsDoubling => p2 = p1
        /\ \E s \in Triples1(p1) :
             \* The second argument of a mixed addition is affine: not infinity.
             \E t \in CASE IsMixed -> {Triple(p2, 1)}
                        [] IsDoubling -> {s}
                        [] OTHER -> Triples2(p2) :
               mem = [a \in Memory |-> IF a \in 3 .. 5 THEN s[a - 2]
                                       ELSE IF a \in 6 .. 8 THEN t[a - 5] ELSE 0]
        /\ pc = 1

FieldOperation ==
  /\ pc <= Len(Program[fn])
  /\ LET i == Program[fn][pc]
     IN  mem' = [mem EXCEPT ![Address(i[2])] =
                   Effect(i[1], Contents(i[3]), Contents(i[4]))]
  /\ pc' = pc + 1
  /\ UNCHANGED <<fn, p1, p2, p3>>

\* An infinite argument makes the result the other argument; when both are
\* infinite an addition returns what it computed.
Multiplex ==
  /\ pc = Len(Program[fn]) + 1 /\ ~IsDoubling
  /\ LET first == <<Contents("x_1"), Contents("y_1"), Contents("z_1")>>
         computed == <<Contents("resx"), Contents("resy"), Contents("resz")>>
         second == <<Contents("x_2"), Contents("y_2"),
                     IF IsMixed THEN One ELSE Contents("z_2")>>
         chosen == IF IsMixed
                   THEN IF first[3] = 0 THEN second ELSE computed
                   ELSE IF first[3] = 0 /\ second[3] # 0 THEN second
                   ELSE IF first[3] # 0 /\ second[3] = 0 THEN first
                   ELSE computed
     IN  mem' = [a \in Memory |-> IF a \in p3 .. (p3 + 2) THEN chosen[a - p3 + 1]
                                                         ELSE mem[a]]
  /\ pc' = pc + 1
  /\ UNCHANGED <<fn, p1, p2, p3>>

Finished == pc = Len(Program[fn]) + (IF IsDoubling THEN 1 ELSE 2)
Returned == Finished /\ UNCHANGED vars

Next == FieldOperation \/ Multiplex \/ Returned
Spec == Init /\ [][Next]_vars

-----------------------------------------------------------------------------
\* No operation of the main sequences is given an operand its correctness
\* theorem does not cover: the values that are not fully reduced, of amontsqr,
\* weakadd, weakdouble and the rough products, only reach operations that are
\* made for them.
OperandsInRange ==
  pc <= Len(Program[fn]) =>
    LET i == Program[fn][pc] IN InRange(i[1], Contents(i[3]), Contents(i[4]))

\* The temporaries the next step reads.
TemporariesRead ==
  DOMAIN Frame[fn] \cap
    (IF pc <= Len(Program[fn]) THEN {Program[fn][pc][3], Program[fn][pc][4]}
     ELSE {"resx", "resy", "resz"})

\* A temporary is read only while its slot still holds it: the last write to
\* the slot was a write to this temporary and not to one that shares the slot.
TemporariesCurrent ==
  pc <= Len(Program[fn]) + 1 =>
    \A v \in TemporariesRead :
      \E n \in 1 .. (pc - 1) :
        /\ Program[fn][n][2] = v
        /\ \A m \in (n + 1) .. (pc - 1) : Address(Program[fn][m][2]) # Address(v)

\* The result is reduced and represents the sum or the double of the arguments,
\* wherever it was stored: on top of an argument, across two, or apart.  The
\* sum of a finite point with itself, which the correctness theorems exclude,
\* is infinity: this is the Jadd the scalar multiplications are modelled with.
ResultOK ==
  Finished => Represents(<<mem[p3], mem[p3 + 1], mem[p3 + 2]>>,
                         IF IsDoubling THEN Jdouble(p1) ELSE Jadd(p1, p2))
=============================================================================

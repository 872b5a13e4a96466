---------------------------- MODULE Ladder25519 -----------------------------
(***************************************************************************)
(* The Montgomery ladder of curve25519_pxscalarmul, curve25519_x25519 and  *)
(* curve25519_ladderstep: multiples of a point whose x coordinate alone is *)
(* given, as pairs (X, Z) that stand for X / Z, on a stack whose places    *)
(* several temporaries share.  The pairs (xn, zn) and (xm, zm) hold two    *)
(* consecutive multiples; instead of exchanging them the loop remembers in *)
(* swap which one is the lower.                                            *)
(*                                                                         *)
(* One step is one iteration of the loop.                                  *)
(***************************************************************************)
EXTENDS Field25519, FiniteSetsExt

CONSTANTS ScalarBits,   \* 256
          Scalars,      \* the scalars, of ScalarBits bits
          Xs,           \* the x coordinates, of one cell
          Zs            \* the z coordinates given to the ladder step

VARIABLES fn,        \* the function called
          scalar, x, \* its arguments; the ladder step starts from the multiple scalar
          swap, i,   \* the loop's
          mem,       \* the places on the stack
          res,       \* the result
          phase

vars == <<fn, scalar, x, swap, i, mem, res, phase>>

Functions == {"pxscalarmul", "x25519", "ladderstep"}

-----------------------------------------------------------------------------
(* Each x coordinate is that of a point on the curve or on its twist: the  *)
(* point <<v, 1>> is on c * y^2 = v^3 + A * v^2 + v for a suitable c, where *)
(* the multiples are found by chords and tangents.                          *)

A == 4 * A24 - 2
Infinity == <<>>
Points == {Infinity} \cup (Field \X Field)

RightSide(v) == (((v * v) % P) * v + A * ((v * v) % P) + v) % P

Tangent(c, p) == ((3 * (p[1] ^ 2 % P) + 2 * A * p[1] + 1) * Inverted((2 * c * p[2]) % P)) % P
Chord(p, q) == ((q[2] - p[2]) * Inverted((q[1] - p[1]) % P)) % P

\* The third point of the curve on the line with this slope, mirrored.
Third[c \in Field, p \in Points, q \in Points, slope \in Field] ==
  LET v == (c * (slope ^ 2 % P) - A - p[1] - q[1]) % P
  IN  <<v, (slope * (p[1] - v) - p[2]) % P>>

Sum2[c \in Field, p \in Points, q \in Points] ==
  CASE p = Infinity -> q
    [] q = Infinity -> p
    [] OTHER -> IF p[1] = q[1] /\ (p[2] + q[2]) % P = 0 THEN Infinity
                ELSE Third[c, p, q, IF p = q THEN Tangent(c, p) ELSE Chord(p, q)]

Double[c \in Field, p \in Points] == Sum2[c, p, p]

\* The multiple n of the point with x coordinate v.
Multiple(v, n) ==
  LET c == IF RightSide(v) = 0 THEN 1 ELSE RightSide(v)
      base == <<v, IF RightSide(v) = 0 THEN 0 ELSE 1>>
      multiple[k \in 0 .. n] ==
        IF k = 0 THEN Infinity
        ELSE Sum2[c, Double[c, multiple[k \div 2]], IF k % 2 = 1 THEN base ELSE Infinity]
  IN  multiple[n]

\* The pair stands for the point.
Represents(pair, p) ==
  IF p = Infinity THEN pair[1] % P # 0 /\ pair[2] % P = 0
  ELSE pair[2] % P # 0 /\ (pair[1] - p[1] * (pair[2] % P)) % P = 0

StandsFor[pair \in (0 .. Unset) \X (0 .. Unset), p \in Points] == Represents(pair, p)

-----------------------------------------------------------------------------
(* The programs. *)

\* The temporaries of the loop that share a place.
Places == {"x", "xn", "zn", "xm", "zm", "sn", "dm", "dmsn", "d"}
Shared == [sm |-> "zm", dpro |-> "zm", dn |-> "zn", e |-> "zn", p |-> "dmsn",
           dnsm |-> "xm", spro |-> "xm", s |-> "xn"]
\* Those of the ladder step, whose arguments are not on the stack.
PlacesStep == Places \cup {"s", "sm", "p", "dn", "dnsm"}
SharedStep == [sumx |-> "sm", sumz |-> "sn", dpro |-> "sn", dubx |-> "dm",
               dubz |-> "dn", e |-> "dn", spro |-> "dnsm"]

\* One iteration: the sum of the two multiples, and the double of the second
\* when the pairs are switched and of the first otherwise.  The functions
\* differ in how far they reduce and in where they put the results.
Iteration(add, sub, sqr, mul, switched, sum, dub) == <<
  <<sub, "dm", "xm", "zm">>,                   <<add, "sn", "xn", "zn">>,
  <<sub, "dn", "xn", "zn">>,                   <<add, "sm", "xm", "zm">>,
  <<"mul_4", "dmsn", "sn", "dm">>,
  <<"move", "d", IF switched THEN "dm" ELSE "dn", "dn">>,
  <<"move", "s", IF switched THEN "sm" ELSE "sn", "sn">>,
  <<"mul_4", "dnsm", "sm", "dn">>,             <<"sqr_4", "d", "d", "d">>,
  <<"sub_twice4", "dpro", "dmsn", "dnsm">>,    <<"sqr_4", "s", "s", "s">>,
  <<"add_twice4", "spro", "dmsn", "dnsm">>,    <<"sqr_4", "dpro", "dpro", "dpro">>,
  <<"sub_twice4", "p", "s", "d">>,             <<sqr, sum[1], "spro", "spro">>,
  <<"cmadd_4", "e", "p", "d">>,                <<mul, dub[1], "s", "d">>,
  <<mul, sum[2], "dpro", "x">>,                <<mul, dub[2], "p", "e">> >>

\* The double of <<a, b>> as (xn, zn).
Doubling(a, b) == <<
  <<"sub_twice4", "d", a, b>>,        <<"add_twice4", "s", a, b>>,
  <<"sqr_4", "d", "d", "d">>,         <<"sqr_4", "s", "s", "s">>,
  <<"sub_twice4", "p", "s", "d">>,    <<"cmadd_4", "e", "p", "d">>,
  <<"mul_4", "xn", "s", "d">>,        <<"mul_4", "zn", "p", "e">> >>

Program(switched) ==
  CASE fn = "pxscalarmul" -> Iteration("add_4", "sub_4", "sqr_p25519", "mul_p25519", switched,
                                       <<"xm", "zm">>, <<"xn", "zn">>)
    [] fn = "x25519" -> Iteration("add_twice4", "sub_twice4", "sqr_4", "mul_4", switched,
                                  <<"xm", "zm">>, <<"xn", "zn">>)
    [] fn = "ladderstep" -> Iteration("add_4", "sub_4", "sqr_p25519", "mul_p25519", switched,
                                      <<"sumx", "sumz">>, <<"dubx", "dubz">>)

-----------------------------------------------------------------------------
Bit(n) == (scalar \div 2 ^ n) % 2

\* A pair for a point, with a chosen z coordinate.
Pair[p \in Points, z \in Field] == IF p = Infinity THEN <<z, 0>> ELSE <<(p[1] * z) % P, z>>

Init ==
  /\ fn \in Functions /\ scalar \in Scalars /\ x \in Xs
  /\ i = 0 /\ res = <<>>
  /\ \/ /\ fn \in {"pxscalarmul", "x25519"}
        /\ fn = "pxscalarmul" => x < P
        /\ mem = <<>> /\ swap = 0 /\ phase = "call"
     \/ \* The ladder step is given pp = (n P, (n + 1) P) and a bit b, here swap.
        /\ fn = "ladderstep" /\ x \in 1 .. (P - 1) /\ scalar < 2 ^ (ScalarBits - 1)
        /\ swap \in {0, 1}
        /\ \E z1, z2 \in Zs :
             \E pn \in {Pair[Multiple(x, scalar), z1]}, pm \in {Pair[Multiple(x, scalar + 1), z2]} :
                 mem = Fresh(PlacesStep, [x |-> x, xn |-> pn[1], zn |-> pn[2],
                                          xm |-> pm[1], zm |-> pm[2]])
        /\ phase = "step"

\* (xn, zn) is the multiple 0 and (xm, zm) the multiple 1.
BeginPxscalarmul ==
  /\ phase = "call" /\ fn = "pxscalarmul"
  /\ mem' = Fresh(Places, [x |-> x, xn |-> 1, zn |-> 0, xm |-> x, zm |-> 1])
  /\ swap' = 0 /\ i' = ScalarBits - 1 /\ phase' = "loop"
  /\ UNCHANGED <<fn, scalar, x, res>>

\* The top two bits of the scalar count as 01: (xm, zm) is the multiple 1 and
\* (xn, zn) the multiple 2.
BeginX25519 ==
  /\ phase = "call" /\ fn = "x25519"
  /\ mem' = Run(Doubling("xm", "zm"), Shared,
                Fresh(Places, [x |-> x % Half, xm |-> x % Half, zm |-> 1]))
  /\ swap' = 1 /\ i' = ScalarBits - 3 /\ phase' = "loop"
  /\ UNCHANGED <<fn, scalar, x, res>>

\* Mutant: the pairs are switched on the bit, as if they had been exchanged.
SwitchedEagerly(bit) == bit = 1

\* The upper pair is doubled when the bit differs from the last one.
Switched(bit) == swap # bit

Lowest == IF fn = "x25519" THEN 3 ELSE 0

Step ==
  /\ phase = "loop"
  /\ mem' = Run(Program(Switched(Bit(i))), Shared, mem)
  /\ swap' = Bit(i)
  /\ i' = i - 1
  /\ phase' = IF i = Lowest THEN "end" ELSE "loop"
  /\ UNCHANGED <<fn, scalar, x, res>>

\* The loop gives (0, 0) for multiples of (0, 0), the point of order 2: a
\* coordinate is patched to 1.
EndPxscalarmul ==
  /\ phase = "end" /\ fn = "pxscalarmul"
  /\ LET patch(v) == IF x = 0 /\ v % 2 = 0 THEN v + 1 ELSE v
     IN  res' = IF swap # 0 THEN <<mem.xm, patch(mem.zm)>> ELSE <<patch(mem.xn), mem.zn>>
  /\ phase' = "done"
  /\ UNCHANGED <<fn, scalar, x, swap, i, mem>>

\* The low three bits count as 0: three doublings, then X / Z.
EndX25519 ==
  /\ phase = "end" /\ fn = "x25519"
  /\ LET chosen == << <<"move", "xn", IF swap # 0 THEN "xm" ELSE "xn", "xn">>,
                      <<"move", "zn", IF swap # 0 THEN "zm" ELSE "zn", "zn">> >>
         m == Run(chosen \o Doubling("xn", "zn") \o Doubling("xn", "zn") \o Doubling("xn", "zn"),
                  Shared, mem)
     IN  res' = <<Mulp(m.xn, Inverted(m.zn))>>
  /\ phase' = "done"
  /\ UNCHANGED <<fn, scalar, x, swap, i, mem>>

\* The results are exchanged when b is set.
Ladderstep ==
  /\ phase = "step"
  /\ LET m == Run(Program(swap # 0), SharedStep, mem)
         sum == <<m[Place(SharedStep, "sumx")], m[Place(SharedStep, "sumz")]>>
         dub == <<m[Place(SharedStep, "dubx")], m[Place(SharedStep, "dubz")]>>
     IN  res' = IF swap = 0 THEN dub \o sum ELSE sum \o dub
  /\ phase' = "done"
  /\ UNCHANGED <<fn, scalar, x, swap, i, mem>>

Next == \/ BeginPxscalarmul \/ BeginX25519 \/ Step
        \/ EndPxscalarmul \/ EndX25519 \/ Ladderstep

Returned == phase = "done" /\ UNCHANGED vars

-----------------------------------------------------------------------------
\* The scalar as it is used.
Mangled == IF fn = "x25519" THEN 2 ^ (ScalarBits - 2) + ((scalar % 2 ^ (ScalarBits - 2)) \div 8) * 8
                            ELSE scalar

\* In the loop one pair is the multiple by the part of the scalar above bit i
\* and the other the next multiple: swap, the last bit taken, tells which.
PairsRight ==
  LET prefix == Mangled \div 2 ^ (i + 1)
      xn == <<mem.xn, mem.zn>>  xm == <<mem.xm, mem.zm>>
  IN  /\ StandsFor[IF swap = 1 THEN xm ELSE xn, Multiple((x % Half) % P, prefix)]
      /\ StandsFor[IF swap = 1 THEN xn ELSE xm, Multiple((x % Half) % P, prefix + 1)]

\* What the functions promise: a reduced pair for the multiple, never (0, 0).
curve25519_pxscalarmul ==
  /\ \A n \in 1 .. 2 : res[n] \in Field
  /\ StandsFor[res, Multiple(x, scalar)]

\* The x coordinate of the multiple, 0 at infinity.
curve25519_x25519 ==
  \E p \in {Multiple((x % Half) % P, Mangled)} : res[1] = IF p = Infinity THEN 0 ELSE p[1]

\* The two multiples after the next bit of the scalar.
curve25519_ladderstep ==
  /\ \A n \in 1 .. 4 : res[n] \in Field
  /\ StandsFor[SubSeq(res, 1, 2), Multiple(x, 2 * scalar + swap)]
  /\ StandsFor[SubSeq(res, 3, 4), Multiple(x, 2 * scalar + swap + 1)]

\* Every iteration leaves two consecutive multiples in the order swap tells,
\* except for the multiples of (0, 0), and every function keeps its promise.
LadderRight ==
  /\ phase \in {"loop", "end"} /\ (x % Half) % P # 0 => PairsRight
  /\ phase = "done" =>
       CASE fn = "pxscalarmul" -> curve25519_pxscalarmul
         [] fn = "x25519" -> curve25519_x25519
         [] fn = "ladderstep" -> curve25519_ladderstep
=============================================================================

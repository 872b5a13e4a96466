--------------------------- MODULE MCJacobianPoints ---------------------------
(***************************************************************************)
(* One call of a function on the points of a curve: a behaviour is that of *)
(* one of the modules below, and the variables of the others rest.         *)
(***************************************************************************)
EXTENDS Integers

VARIABLES part,                              \* the module
          fn, mem,                           \* the call and its memory
          p1, p2, p3, pc,                    \* of the straight-line functions
          scalar, x, swap, i, res, phase     \* of the functions with loops

\* P-256, SM2 and P-384: y^2 = x^3 - 3 * x + 1 over the field of 11 elements has
\* 16 finite points, so every one of them generates the group of prime order 17.
\* 16 is to 11 as 2^256 is to p_256: below twice the prime.
P256 == INSTANCE JacobianPoints
  WITH N <- 17, Prime <- 11, A <- 8, B <- 1, Radix <- 16, One <- 5, Generator <- <<0, 1>>,
       Curves <- {"p256", "sm2", "p384"},
       Zs1 <- {2, 7}, Zs2 <- {5}, Junk <- {0, 4}, Outputs <- {0, 1, 3, 6}

\* P-521: over the field of 31 elements, one less than a power of two.
P521 == INSTANCE JacobianPoints
  WITH N <- 23, Prime <- 31, A <- 28, B <- 25, Radix <- 32, One <- 1, Generator <- <<0, 5>>,
       Curves <- {"p521"},
       Zs1 <- {30}, Zs2 <- {7}, Junk <- {0, 4}, Outputs <- {3, 5}

\* secp256k1: y^2 = x^3 + 2 over the field of 13 = 16 - 3 elements.
Secp256k1 == INSTANCE JacobianPoints
  WITH N <- 19, Prime <- 13, A <- 0, B <- 2, Radix <- 16, One <- 1, Generator <- <<1, 4>>,
       Curves <- {"secp256k1"},
       Zs1 <- {7}, Zs2 <- {3}, Junk <- {0, 4}, Outputs <- {1, 3, 6}

ASSUME FieldsAssumption == P256!FieldAssumption /\ P521!FieldAssumption /\ Secp256k1!FieldAssumption
ASSUME CallsAssumption == P256!CallAssumption /\ P521!CallAssumption /\ Secp256k1!CallAssumption

\* Curve25519 with 2029 = 2^11 - 19 for 2^255 - 19 and 36 for 121666; its
\* Edwards form has 8 * 257 points.
CellBits == 12
Gap == 19
A24 == 36
Half == 2048
Prime == Half - Gap
D == CHOOSE v \in 0 .. (Prime - 1) : (A24 * v + A24 - 1) % Prime = 0
RootOfMinusOne == CHOOSE v \in 0 .. (Prime - 1) : (v * v) % Prime = Prime - 1

\* Every scalar of nine bits; x coordinates of the curve and of its twist, the
\* point of order 2 and numbers that are not reduced.
Ladder == INSTANCE Ladder25519
  WITH ScalarBits <- 9, Scalars <- 0 .. 511,
       Xs <- {0, 1, 9, Prime - 1, Prime, 4000}, Zs <- {Prime - 1}

\* Points of order 1, 2, 4 and 8, the base point and others, with results on top
\* of the operands, across them and apart; every encoding; a seventh of the
\* scalars for the base point.
Curve == INSTANCE EdwardsPoints
Operands == { p \in (0 .. (Prime - 1)) \X {0, 1, Prime - 1, 289, 7, 632, 5, 12} :
                Curve!OnCurve(p[1], p[2]) }
Ends == {1, Prime - 1}

Edwards == INSTANCE Edwards25519
  WITH N <- 257, LowWords <- 64, Base <- <<12, 289>>,
       call <- fn, scal <- scalar, bscal <- x, bias <- swap,
       Calls <-
         [op : {"epadd", "pepadd"}, p : Operands, q : Operands, z1 : Ends, z2 : Ends,
          p2 : {4}, p3 : {0, 1, 4, 7, 8}]
         \cup { c \in [op : {"epadd"}, p : Operands, q : Operands, z1 : Ends, z2 : Ends,
                       p2 : {0}, p3 : {0, 2, 8}] : c.p = c.q /\ c.z1 = c.z2 }
         \cup [op : {"epdouble", "pdouble"}, p : Operands, q : {Curve!Zero}, z1 : Ends, z2 : {1},
               p2 : {4}, p3 : {0, 1, 4}]
         \cup [op : {"decode"}, c : 0 .. (2 * Half - 1)]
         \cup [op : {"encode"}, p : Operands]
         \cup [op : {"scalarmulbase", "x25519base"}, scalar : { (7 * s) % (2 * Half) : s \in 0 .. 585 }]
         \cup [op : {"scalarmuldouble"}, scalar : {0, 1, 7, 9, 1799, 2047, 2048, 2056, 2111, 2112, 4095},
               bscalar : {0, 8, 2112, 3000},
               point : { <<0, 1>>, <<12, 289>>, <<2, 580>>, <<992, 0>>, <<1, 938>>,
                         <<0, 2 * Half - 39>>, <<2 * Half - 38, 2 * Half - 37>> }]

-----------------------------------------------------------------------------
NoLoop == scalar = 0 /\ x = 0 /\ swap = 0 /\ i = 0 /\ res = <<>> /\ phase = "none"
NoProgram == p1 = 0 /\ p2 = 0 /\ p3 = 0 /\ pc = 0

MCInit == \/ part = "p256" /\ NoLoop /\ P256!Init
          \/ part = "p521" /\ NoLoop /\ P521!Init
          \/ part = "secp256k1" /\ NoLoop /\ Secp256k1!Init
          \/ part = "ladder" /\ NoProgram /\ Ladder!Init
          \/ part = "edwards" /\ NoProgram /\ Edwards!Init

RestLoop == UNCHANGED <<scalar, x, swap, i, res, phase>>
RestProgram == UNCHANGED <<p1, p2, p3, pc>>

MCNext == /\ part' = part
          /\ \/ part = "p256" /\ P256!Next /\ RestLoop
             \/ part = "p521" /\ P521!Next /\ RestLoop
             \/ part = "secp256k1" /\ Secp256k1!Next /\ RestLoop
             \/ part = "ladder" /\ (Ladder!Next \/ Ladder!Returned) /\ RestProgram
             \/ part = "edwards" /\ (Edwards!Next \/ Edwards!Returned) /\ RestProgram

MCSpec == MCInit /\ [][MCNext]_<<part, fn, mem, p1, p2, p3, pc, scalar, x, swap, i, res, phase>>

-----------------------------------------------------------------------------
\* The properties of the modules.
OperandsInRange == /\ part = "p256" => P256!OperandsInRange
                   /\ part = "p521" => P521!OperandsInRange
                   /\ part = "secp256k1" => Secp256k1!OperandsInRange
TemporariesCurrent == /\ part = "p256" => P256!TemporariesCurrent
                      /\ part = "p521" => P521!TemporariesCurrent
                      /\ part = "secp256k1" => Secp256k1!TemporariesCurrent
ResultOK == /\ part = "p256" => P256!ResultOK
            /\ part = "p521" => P521!ResultOK
            /\ part = "secp256k1" => Secp256k1!ResultOK
LadderRight == part = "ladder" => Ladder!LadderRight
EdwardsRight == part = "edwards" => Edwards!EdwardsRight
=============================================================================

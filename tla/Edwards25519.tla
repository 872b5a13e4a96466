---------------------------- MODULE Edwards25519 ----------------------------
(***************************************************************************)
(* Calls of the functions on edwards25519 and of curve25519_x25519base,    *)
(* which works there as well: the functions on single points in one step,  *)
(* with every overlap of result and operands, the scalar multiplications   *)
(* one digit of four bits at a time.                                       *)
(***************************************************************************)
EXTENDS EdwardsPoints

CONSTANTS N,          \* the order of Base, 2^252 + m
          LowWords,   \* 2^192, the words of a scalar below the top one
          Base,       \* the standard base point
          Calls       \* the calls

VARIABLES call,   \* the function and its arguments
          scal, bscal, bias, i, mem, res, phase

vars == <<call, scal, bscal, bias, i, mem, res, phase>>

TopNybble == Half \div 8            \* 2^252
NoMem == <<>>

\* The memory of the scalar multiplications.
Acc == 0  Tabent == 4  Btabent == 8  Tab == 11
Entry(j) == Tab + 4 * (j - 1)
ScalarMemory == -6 .. (Tab + 31)

Stored(m, at, cells) == [a \in DOMAIN m |-> IF a \in at .. (at + Len(cells) - 1) THEN cells[a - at + 1]
                                             ELSE m[a]]
Loaded(m, at, n) == [j \in 1 .. n |-> m[at + j - 1]]

\* A program on a memory, as a function so that TLC evaluates the memory once.
Executed(program, memory) == Run(program, <<>>, memory)

-----------------------------------------------------------------------------
(* Functions on one or two points. *)

PointFunctions == {"epadd", "pepadd", "epdouble", "pdouble"}

\* The operands p and q, with z coordinates z1 and z2, are at 0 and at call.p2,
\* and the result goes to call.p3.
Operand2 == IF call.op = "pepadd" THEN Precomputed(call.q) ELSE Extended(call.q, call.z2)

Point ==
  /\ phase = "call" /\ call.op \in PointFunctions
  /\ LET m == Stored(Stored(Fresh(-6 .. 15, <<>>), call.p2, Operand2), 0, Extended(call.p, call.z1))
         program == CASE call.op = "epadd" -> epadd("standalone")
                      [] call.op = "pepadd" -> pepadd("standalone")
                      [] call.op = "epdouble" -> epdouble("standalone")
                      [] call.op = "pdouble" -> pdouble("standalone")
     IN  res' = Loaded(Executed(At(program, call.p3, 0, call.p2), m), call.p3,
                       IF call.op = "pdouble" THEN 3 ELSE 4)
  /\ phase' = "done"
  /\ UNCHANGED <<call, scal, bscal, bias, i, mem>>

Decode ==
  /\ phase = "call" /\ call.op = "decode"
  /\ res' = decode(call.c)
  /\ phase' = "done"
  /\ UNCHANGED <<call, scal, bscal, bias, i, mem>>

Encode ==
  /\ phase = "call" /\ call.op = "encode"
  /\ res' = encode(call.p)
  /\ phase' = "done"
  /\ UNCHANGED <<call, scal, bscal, bias, i, mem>>

-----------------------------------------------------------------------------
(* Multiples of the base point: digits from the lowest, each with a carry  *)
(* into the next when its negative is taken from the table.                *)

BaseFunctions == {"scalarmulbase", "x25519base"}

\* The digits start after those the accumulator is initialized for.
Start(s, n, from) ==
  /\ scal' = s
  /\ mem' = Stored(Fresh(-6 .. 10, <<>>), Acc, Extended(EdMultiple(Base, n), 1))
  /\ i' = from /\ bias' = 0 /\ phase' = "digits"
  /\ UNCHANGED <<call, bscal, res>>

\* The scalar less a multiple of the order, its sign in the top bit; bit 251
\* is taken into the accumulator.
BeginScalarmulbase ==
  /\ phase = "call" /\ call.op = "scalarmulbase"
  /\ LET x == call.scalar - (call.scalar \div TopNybble) * N
         size == IF x < 0 THEN -x ELSE x
         sign == IF x < 0 THEN Half ELSE 0
         top == TopNybble \div 2
     IN  Start(sign + (size % top), (size \div top) * top, 0)

\* Bit 254 is set, bits 3 and 254 are taken into the accumulator, and the
\* lower ones not looked at.
BeginX25519base ==
  /\ phase = "call" /\ call.op = "x25519base"
  /\ Start(call.scalar % (Half \div 2), Half \div 2 + ((call.scalar \div 8) % 2) * 8, 4)

Carried(bf) == bf >= 9

BaseDigit ==
  /\ phase = "digits" /\ call.op \in BaseFunctions
  /\ LET bf == ((scal \div 2 ^ i) % 16) + bias
         ix == IF Carried(bf) THEN 16 - bf ELSE bf
         entry == Precomputed(EdMultiple(Base, ix * 2 ^ i))
         tabent == IF Carried(bf)
                   THEN <<entry[2], entry[1], IF ix # 0 THEN P - entry[3] ELSE entry[3]>>
                   ELSE entry
     IN  /\ mem' = Executed(At(pepadd("local"), Acc, Acc, Tabent), Stored(mem, Tabent, tabent))
         /\ bias' = IF Carried(bf) THEN 1 ELSE 0
  /\ i' = i + 4
  /\ phase' = IF 2 ^ (i + 4) < (IF call.op = "scalarmulbase" THEN TopNybble ELSE Cells)
              THEN "digits" ELSE "end"
  /\ UNCHANGED <<call, scal, bscal, res>>

\* The x coordinate, below 2 * P, is negated with the sign.
EndScalarmulbase ==
  /\ phase = "end" /\ call.op = "scalarmulbase"
  /\ LET x == IF scal >= Half THEN (2 * P - mem[Acc]) % Cells ELSE mem[Acc]
         w == Inverted(mem[Acc + 2])
     IN  res' = <<Mulp(x, w), Mulp(mem[Acc + 1], w)>>
  /\ phase' = "done"
  /\ UNCHANGED <<call, scal, bscal, bias, i, mem>>

\* The x coordinate on curve25519 is (X + W) / (X - W).
EndX25519base ==
  /\ phase = "end" /\ call.op = "x25519base"
  /\ res' = <<Mulp(AddTwice4(mem[Acc], mem[Acc + 3]),
                   Inverted(SubTwice4(mem[Acc], mem[Acc + 3])))>>
  /\ phase' = "done"
  /\ UNCHANGED <<call, scal, bscal, bias, i, mem>>

-----------------------------------------------------------------------------
(* scalar * point + bscalar * Base: digits from the top one, and all but   *)
(* that one 8 too large, which the recoding adds beforehand.               *)

\* 0x088...8
Eights == (8 * (TopNybble - 1)) \div 15

\* 8 * N is subtracted when the top word exceeds 2^63.
Recoded(s) ==
  (s + Eights + (IF s \div LowWords > Half \div LowWords THEN Cells - 8 * N ELSE 0)) % Cells

\* The crude reduction of a coordinate modulo 2 * P.
Crude(v) == IF v + 2 * Gap >= Cells THEN v + 2 * Gap - Cells ELSE v

\* Entry 1 is the point; W is its product.
Multiples ==
  << <<"mul_4", Entry(1) + 3, Entry(1), Entry(1) + 1>> >>
  \o At(epdouble("local"), Entry(2), Entry(1), Entry(1))
  \o At(epadd("local"), Entry(3), Entry(1), Entry(2))
  \o At(epdouble("local"), Entry(4), Entry(2), Entry(2))
  \o At(epadd("local"), Entry(5), Entry(1), Entry(4))
  \o At(epdouble("local"), Entry(6), Entry(3), Entry(3))
  \o At(epadd("local"), Entry(7), Entry(1), Entry(6))
  \o At(epdouble("local"), Entry(8), Entry(4), Entry(4))

\* The negative as the complement less 37, which takes 0 to 2 * P.
Complement(v) == (Cells - 1 - v - (2 * Gap - 1)) % Cells

PickedBase(digit, negated) ==
  LET entry == Precomputed(EdMultiple(Base, digit))
  IN  IF negated THEN <<entry[2], entry[1], Complement(entry[3])>> ELSE entry

Picked(m, digit, negated) ==
  LET entry == IF digit = 0 THEN <<0, 1, 1, 0>> ELSE Loaded(m, Entry(digit), 4)
  IN  IF negated THEN <<Complement(entry[1]), entry[2], entry[3], Complement(entry[4])>> ELSE entry

BeginScalarmuldouble ==
  /\ phase = "call" /\ call.op = "scalarmuldouble"
  /\ scal' = Recoded(call.scalar) /\ bscal' = Recoded(call.bscalar)
  /\ \E m \in { Executed(Multiples, Stored(Fresh(ScalarMemory, <<>>), Tab,
                                           <<Crude(call.point[1]), Crude(call.point[2]), 1>>)) } :
       mem' = Executed(At(pepadd("local"), Acc, Tabent, Btabent),
                       Stored(Stored(m, Tabent, Picked(m, scal' \div TopNybble, FALSE)),
                              Btabent, PickedBase(bscal' \div TopNybble, FALSE)))
  /\ i' = CellBits - 4 /\ phase' = "digits"
  /\ UNCHANGED <<call, bias, res>>

\* 16 * acc + (tabent + btabent).
Digit ==
  At(pdouble("local"), Acc, Acc, Acc) \o At(pdouble("local"), Acc, Acc, Acc)
  \o At(pepadd("local"), Tabent, Tabent, Btabent)
  \o At(pdouble("local"), Acc, Acc, Acc) \o At(epdouble("local"), Acc, Acc, Acc)
  \o At(epadd("local"), Acc, Acc, Tabent)

DoubleDigit ==
  /\ phase = "digits" /\ call.op = "scalarmuldouble"
  /\ i' = i - 4
  /\ LET d == ((scal \div 2 ^ i') % 16) - 8
         b == ((bscal \div 2 ^ i') % 16) - 8
         size(v) == IF v < 0 THEN -v ELSE v
     IN  mem' = Executed(Digit, Stored(Stored(mem, Tabent, Picked(mem, size(d), d < 0)),
                                       Btabent, PickedBase(size(b), b < 0)))
  /\ phase' = IF i' = 0 THEN "end" ELSE "digits"
  /\ UNCHANGED <<call, scal, bscal, bias, res>>

EndScalarmuldouble ==
  /\ phase = "end" /\ call.op = "scalarmuldouble"
  /\ LET w == Inverted(mem[Acc + 2])
     IN  res' = <<Mulp(mem[Acc], w), Mulp(mem[Acc + 1], w)>>
  /\ phase' = "done"
  /\ UNCHANGED <<call, scal, bscal, bias, i, mem>>

-----------------------------------------------------------------------------
Init ==
  /\ call \in Calls /\ phase = "call"
  /\ scal = 0 /\ bscal = 0 /\ bias = 0 /\ i = 0 /\ mem = NoMem /\ res = <<>>

Next == \/ Point \/ Decode \/ Encode
        \/ BeginScalarmulbase \/ BeginX25519base \/ BaseDigit
        \/ EndScalarmulbase \/ EndX25519base
        \/ BeginScalarmuldouble \/ DoubleDigit \/ EndScalarmuldouble

Returned == phase = "done" /\ UNCHANGED vars

-----------------------------------------------------------------------------
(* What the functions promise. *)

Reduced(cells) == \A n \in DOMAIN cells : cells[n] \in Field

edwards25519_epadd == Reduced(res) /\ ExProjective(res, EdSum[call.p, call.q])
edwards25519_pepadd == Reduced(res) /\ ExProjective(res, EdSum[call.p, call.q])
edwards25519_epdouble == Reduced(res) /\ ExProjective(res, EdDouble[call.p])
edwards25519_pdouble == Reduced(res) /\ Projective(res, EdDouble[call.p])

\* 0 is returned with the one point that is encoded, 1 for every other input.
edwards25519_decode ==
  LET y == call.c % Half
      xs == { x \in Field : x % 2 = call.c \div Half /\ y < P /\ OnCurve(x, y) }
  IN  IF xs = {} THEN res.ret = 1
      ELSE res.ret = 0 /\ res.y = y /\ xs = {res.x}

\* No other point has this encoding.
edwards25519_encode == res \in 0 .. (Cells - 1) /\ <<decode(res).x, decode(res).y>> = call.p

edwards25519_scalarmulbase == res = EdMultiple(Base, call.scalar % N)

edwards25519_scalarmuldouble ==
  res = EdSum[EdMultiple(<<call.point[1] % P, call.point[2] % P>>, call.scalar % (8 * N)),
              EdMultiple(Base, call.bscalar % N)]

\* The x coordinate on the Montgomery form of the multiple by the scalar with
\* bits 0, 1, 2 and 255 cleared and bit 254 set.
curve25519_x25519base ==
  \E p \in {EdMultiple(Base, Half \div 2 + ((call.scalar % (Half \div 2)) \div 8) * 8)} :
    res[1] \in Field /\ (res[1] * ((1 - p[2]) % P) - (1 + p[2])) % P = 0

\* Every function keeps its promise: points are added and doubled exactly, in
\* every representation, whatever overlaps; exactly the canonical encodings are
\* decoded; and the signed digits, with their carries, negated table entries and
\* reductions, add up to the multiple of the scalar.
EdwardsRight ==
  phase = "done" =>
    CASE call.op = "epadd" -> edwards25519_epadd
      [] call.op = "pepadd" -> edwards25519_pepadd
      [] call.op = "epdouble" -> edwards25519_epdouble
      [] call.op = "pdouble" -> edwards25519_pdouble
      [] call.op = "decode" -> edwards25519_decode
      [] call.op = "encode" -> edwards25519_encode
      [] call.op = "scalarmulbase" -> edwards25519_scalarmulbase
      [] call.op = "x25519base" -> curve25519_x25519base
      [] call.op = "scalarmuldouble" -> edwards25519_scalarmuldouble
=============================================================================

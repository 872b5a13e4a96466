---------------------------- MODULE DigitLoops ----------------------------
(***************************************************************************)
(* The functions of arm/generic that walk over their operands word by word *)
(* and write a result: one step is one iteration of a loop (a load, the    *)
(* arithmetic, a store) or the code between two loops.  The operands live  *)
(* in memory and may be the output buffer itself, so that an iteration     *)
(* reads what an earlier one left.                                         *)
(*                                                                         *)
(* Carry and borrow are both flag \in {0,1}: the Arm convention of a carry   *)
(* flag that is clear for a borrow is not modelled.                        *)
(***************************************************************************)
EXTENDS BignumInterface

CONSTANTS LoopCalls,   \* the calls: op, z, k, x, n, y, m (pointers, lengths) and w
          LoopWords    \* the words the operands are made of

OneLength == {"optadd", "optsub", "optsubadd", "optneg", "mux", "modadd", "modsub",
              "moddouble", "modoptneg", "muladd10", "normalize", "pow2", "of_word"}
TwoLengths == {"cmul", "cmadd", "cmnegadd", "shl_small", "shr_small", "copy"}
ModularOps == {"modadd", "modsub", "moddouble", "modoptneg"}

\* What the functions assume of their arguments: the output is in memory, and
\* an input is the output buffer or does not overlap it; the modulus may be the
\* output buffer in modoptneg only.
GoodLoopCall(c) ==
  /\ c.op \in OneLength \cup TwoLengths
  /\ c.op \in OneLength => c.n = c.k
  /\ {c.k, c.n, c.z, c.x, c.y, c.m, c.w} \subseteq Nat
  /\ InMemory(c.z, c.k)
  /\ c.op \notin {"muladd10", "normalize", "pow2", "of_word"} =>
       SameOrDisjoint(c.x, IF c.op = "copy" THEN Lesser(c.n, c.k) ELSE c.n, c.z, c.k)
  /\ c.op \in {"optadd", "optsub", "optsubadd", "modadd", "modsub", "mux"} =>
       SameOrDisjoint(c.y, c.k, c.z, c.k)
  /\ c.op \in {"modadd", "modsub", "moddouble"} => NonOverlapping(c.m, c.k, c.z, c.k)
  /\ c.op = "modoptneg" => SameOrDisjoint(c.m, c.k, c.z, c.k)
  /\ c.op \in {"cmul", "cmadd", "cmnegadd", "muladd10", "of_word"} => c.w \in Digit
  /\ c.op = "muladd10" => W >= 3

ASSUME LoopCallsAssumption == \A c \in LoopCalls : GoodLoopCall(c)
ASSUME LoopWordsAssumption == LoopWords \subseteq Digit

VARIABLES call, memory, phase, pos, h, flag, result,
          memory0     \* the memory at the call

loopVars == <<call, memory, phase, pos, h, flag, result, memory0>>

Xi == DigitAt(memory, call.x + pos)
Yi == DigitAt(memory, call.y + pos)
Zi == DigitAt(memory, call.z + pos)
Mi == DigitAt(memory, call.m + pos)
Common == Lesser(call.n, call.k)           \* cmp n, p; csel n, p, n, cs

Not(a) == B - 1 - a
If(b, v) == IF b THEN v ELSE 0        \* and with an all-ones or zero mask
Count == call.w % W                   \* a register shift uses c mod 64

\* The words the function reads; the others may hold anything.
Operands(c) ==
  UNION { CASE r = "x" -> Region(c.x, c.n) [] r = "y" -> Region(c.y, c.k)
            [] r = "z" -> Region(c.z, c.k) [] r = "m" -> Region(c.m, c.k) :
          r \in c.reads }

\* Reduced operands, where the interface assumes them.
Admissible(c, s) ==
  c.op \in ModularOps =>
    /\ Value(s, c.x, c.k) < Value(s, c.m, c.k)
    /\ c.op \in {"modadd", "modsub"} => Value(s, c.y, c.k) < Value(s, c.m, c.k)

LoopInit ==
  /\ call \in LoopCalls
  /\ \E v \in [Operands(call) -> LoopWords] :
       memory = [a \in Addr |-> IF a \in DOMAIN v THEN v[a] ELSE B - 1]
  /\ Admissible(call, memory)
  /\ memory0 = memory
  /\ phase = "main"
  /\ pos = IF call.op \in {"mux", "shr_small"} THEN call.k ELSE 0
  /\ h = 0
  /\ flag = CASE call.op = "optneg" -> Bitval(call.w # 0)
            [] call.op = "optsubadd" -> Bitval(Negative(call.w))
            [] OTHER -> 0
  /\ result = NoWord

Op(name) == phase # "done" /\ call.op = name

\* One iteration that stores w and goes on to the next word.
Emit(w) == /\ memory' = Store(memory, call.z + pos, w)
           /\ pos' = pos + 1
           /\ UNCHANGED <<phase, result, call, memory0>>
Skip == pos' = pos + 1 /\ UNCHANGED <<memory, phase, result, call, memory0>>
Goto(p) == phase' = p /\ UNCHANGED <<memory, result, call, memory0>>
Leave(r) == phase' = "done" /\ result' = r
             /\ UNCHANGED <<memory, pos, h, flag, call, memory0>>

-----------------------------------------------------------------------------
(* One pass, with a carry, a borrow or a complement under a mask. *)

OptAdd ==
  /\ Op("optadd")
  /\ IF pos < call.k
     THEN LET s == Xi + If(call.w # 0, Yi) + flag
          IN  Emit(Lo(s)) /\ flag' = Hi(s) /\ UNCHANGED h
     ELSE Leave(flag)

OptSub ==
  /\ Op("optsub")
  /\ IF pos < call.k
     THEN LET s == Xi - If(call.w # 0, Yi) - flag
          IN  Emit(Lo(s)) /\ flag' = -Hi(s) /\ UNCHANGED h
     ELSE Leave(flag)

\* With p negative, x + ~y + 1: the returned carry is complemented.
OptSubAdd ==
  /\ Op("optsubadd")
  /\ LET q == Negative(call.w)
     IN  IF pos < call.k
         THEN LET s == Xi + If(call.w # 0, IF q THEN Not(Yi) ELSE Yi) + flag
              IN  Emit(Lo(s)) /\ flag' = Hi(s) /\ UNCHANGED h
         ELSE Leave(IF q THEN 1 - flag ELSE flag)

OptNeg ==
  /\ Op("optneg")
  /\ LET p == call.w # 0
     IN  IF pos < call.k
         THEN LET s == (IF p THEN Not(Xi) ELSE Xi) + flag
              IN  Emit(Lo(s)) /\ flag' = Hi(s) /\ UNCHANGED h
         ELSE Leave(IF p THEN 1 - flag ELSE flag)

-----------------------------------------------------------------------------
(* Modular arithmetic: a first pass over the operands into z or nowhere,   *)
(* then a pass that corrects z.  h is the mask between the passes.         *)

\* The pass z := z + (m and mask) + carry, or z - (m and mask) - borrow.
Correct(sign, mask) ==
  IF pos < call.k
  THEN LET s == Zi + sign * If(mask, Mi) + sign * flag
       IN  Emit(Lo(s)) /\ flag' = sign * Hi(s) /\ UNCHANGED h
  ELSE Leave(NoWord)

ModAdd ==
  /\ Op("modadd")
  /\ \/ /\ phase = "main"
        /\ IF pos < call.k
           THEN LET s == Xi + Yi + flag
                IN  Emit(Lo(s)) /\ flag' = Hi(s) /\ UNCHANGED h
           ELSE Goto("compare") /\ pos' = 0 /\ h' = flag /\ flag' = 0
     \/ /\ phase = "compare"
        /\ IF pos < call.k
           THEN Skip /\ flag' = -Hi(Zi - Mi - flag) /\ UNCHANGED h
           ELSE Goto("correct") /\ pos' = 0 /\ h' = Not(Lo(h - flag)) /\ flag' = 0
     \/ phase = "correct" /\ Correct(-1, h # 0)

ModSub ==
  /\ Op("modsub")
  /\ \/ /\ phase = "main"
        /\ IF pos < call.k
           THEN LET s == Xi - Yi - flag
                IN  Emit(Lo(s)) /\ flag' = -Hi(s) /\ UNCHANGED h
           ELSE Goto("correct") /\ pos' = 0 /\ h' = Lo(-flag) /\ flag' = 0
     \/ phase = "correct" /\ Correct(1, h # 0)

\* h holds the previous word of x, whose top bit is shifted in.
ModDouble ==
  /\ Op("moddouble")
  /\ \/ /\ phase = "main"
        /\ IF pos < call.k
           THEN LET s == Lo(2 * Xi) + (2 * h) \div B - Mi - flag
                IN  Emit(Lo(s)) /\ flag' = -Hi(s) /\ h' = Xi
           ELSE Goto("correct") /\ pos' = 0 /\ h' = Lo((2 * h) \div B - flag) /\ flag' = 0
     \/ phase = "correct" /\ Correct(1, h # 0)

\* A first pass finds out whether x is zero; then m + ~x + 1 or x.
ModOptNeg ==
  /\ Op("modoptneg")
  /\ \/ /\ phase = "main"
        /\ IF pos < call.k
           THEN Skip /\ h' = Bitval(h # 0 \/ Xi # 0) /\ UNCHANGED flag
           ELSE LET p == Bitval(h # 0 /\ call.w # 0)
                IN  Goto("negate") /\ pos' = 0 /\ h' = p /\ flag' = p
     \/ /\ phase = "negate"
        /\ IF pos < call.k
           THEN LET s == If(h # 0, Mi) + (IF h # 0 THEN Not(Xi) ELSE Xi) + flag
                IN  Emit(Lo(s)) /\ flag' = Hi(s) /\ UNCHANGED h
           ELSE Leave(NoWord)

-----------------------------------------------------------------------------
(* Products with a word: h is the high word carried to the next position.  *)
(* The tail of the longer output takes it, then the rest.                  *)

CMul ==
  /\ Op("cmul")
  /\ \/ /\ phase = "main"
        /\ IF pos < Common
           THEN LET l == Lo(call.w * Xi) + h + flag
                IN  Emit(Lo(l)) /\ flag' = Hi(l) /\ h' = Hi(call.w * Xi)
           ELSE Goto("tail") /\ h' = h + flag /\ flag' = 0 /\ UNCHANGED pos
     \/ /\ phase = "tail"
        /\ IF pos < call.k THEN Emit(h) /\ h' = 0 /\ UNCHANGED flag
           ELSE Leave(h)

\* Mutant: the carry of b + h is dropped, not added to the high word.
MulAddNoCarry(b, p, c) ==
  LET s == b + h + c
  IN  [word |-> Lo(Lo(s) + Lo(p)), high |-> Hi(p), carry |-> Hi(Lo(s) + Lo(p))]

\* adcs b, b, h; then the high part takes that carry, the low part the next.
MulAdd(b, p, c) ==
  LET s == b + h + c
  IN  [word |-> Lo(Lo(s) + Lo(p)), high |-> Hi(p) + Hi(s),
       carry |-> Hi(Lo(s) + Lo(p))]

CMAdd ==
  /\ Op("cmadd")
  /\ \/ /\ phase = "main"
        /\ IF pos < Common
           THEN LET r == MulAdd(Zi, call.w * Xi, flag)
                IN  Emit(r.word) /\ h' = r.high /\ flag' = r.carry
           ELSE Goto("tail") /\ UNCHANGED <<pos, h, flag>>
     \/ /\ phase = "tail"
        /\ IF pos < call.k /\ Common > 0
           THEN LET s == Zi + h + flag
                IN  Emit(Lo(s)) /\ h' = 0 /\ flag' = Hi(s)
           ELSE Leave(h + flag)

\* z - c * y as z + c * ~y + c, less c * 2^(64n) at the end.
CMNegAdd ==
  /\ Op("cmnegadd")
  /\ \/ /\ phase = "main"
        /\ IF pos < Common
           THEN LET p == call.w * Not(Xi) + If(pos = 0, call.w)
                    r == MulAdd(Zi, p, flag)
                IN  Emit(r.word) /\ h' = r.high /\ flag' = r.carry
           ELSE /\ Goto("tail") /\ UNCHANGED pos
                /\ h' = If(Common > 0, Lo(call.w - (h + flag))) /\ flag' = 0
     \/ /\ phase = "tail"
        /\ IF pos < call.k /\ Common > 0
           THEN LET s == Zi - h - flag
                IN  Emit(Lo(s)) /\ h' = 0 /\ flag' = -Hi(s)
           ELSE Leave(h + flag)

\* The top three bits of the word are the high part of 8z, 10z = 2z + 4(2z).
MulAdd10 ==
  /\ Op("muladd10")
  /\ LET top == Zi \div TwoTo[W - 3]
         l   == Lo(2 * Zi)
         s   == l + Lo(4 * l)
         d   == IF pos = 0 THEN call.w ELSE h
     IN  IF pos < call.k
         THEN /\ Emit(Lo(Lo(s) + d))
              /\ h' = top + top \div 4 + Hi(s) + Hi(Lo(s) + d)
              /\ UNCHANGED flag
         ELSE Leave(d)

-----------------------------------------------------------------------------
(* Shifts: h holds the bits that move to the neighbouring word.  A shift   *)
(* by d = -c is a shift by 0 when c is 0, hence the mask.                  *)

Down == (W - Count) % W
ShiftLeft(t) == [word |-> Lo(t * TwoTo[Count]) + h,
                 out  |-> If(Count # 0, t \div TwoTo[Down])]

ShlSmall ==
  /\ Op("shl_small")
  /\ \/ /\ phase = "main"
        /\ IF pos < Common
           THEN LET r == ShiftLeft(Xi)
                IN  Emit(r.word) /\ h' = r.out /\ UNCHANGED flag
           ELSE Goto("tail") /\ UNCHANGED <<pos, h, flag>>
     \/ /\ phase = "tail"
        /\ IF pos < call.k THEN Emit(h) /\ h' = 0 /\ UNCHANGED flag
           ELSE Leave(h)

\* From the top down; pos is the number of words still to write.
ShrSmall ==
  /\ Op("shr_small")
  /\ \/ /\ phase = "main"
        /\ IF pos > call.n
           THEN /\ memory' = Store(memory, call.z + pos - 1, 0) /\ pos' = pos - 1
                /\ UNCHANGED <<call, memory0, phase, h, flag, result>>
           ELSE /\ Goto("shift")
                /\ h' = If(Count # 0, Lo(If(call.n # pos, Xi) * TwoTo[Down]))
                /\ UNCHANGED <<pos, flag>>
     \/ /\ phase = "shift"
        /\ IF pos > 0
           THEN LET t == DigitAt(memory, call.x + pos - 1)
                IN  /\ memory' = Store(memory, call.z + pos - 1, t \div TwoTo[Count] + h)
                    /\ h' = If(Count # 0, Lo(t * TwoTo[Down]))
                    /\ pos' = pos - 1
                    /\ UNCHANGED <<call, memory0, phase, flag, result>>
           ELSE Leave(h \div TwoTo[Down])

LeadingZeros(a) == CHOOSE s \in 0..W : a < TwoTo[W - s] /\ (s = W \/ 2 * a >= TwoTo[W - s])

\* First k - 1 times: if the top word is zero, move every word up by one (and
\* count it in h); then shift by the leading zeros of the top word (result).
Normalize ==
  /\ Op("normalize")
  /\ LET top == DigitAt(memory, call.z + call.k - 1)
     IN  \/ /\ phase = "main"
            /\ IF call.k > 0 /\ pos < call.k - 1
               THEN /\ memory' = IF top # 0 THEN memory
                              ELSE [a \in Addr |->
                                      IF a = call.z THEN 0
                                      ELSE IF a \in Region(call.z, call.k) THEN memory[a - 1]
                                      ELSE memory[a]]
                    /\ h' = h + Bitval(top = 0) /\ pos' = pos + 1
                    /\ UNCHANGED <<call, memory0, phase, flag, result>>
               ELSE IF call.k = 0 THEN Leave(0)
               ELSE /\ phase' = "bits" /\ pos' = 0 /\ h' = 0
                    /\ result' = W * h + LeadingZeros(top)
                    /\ UNCHANGED <<call, memory0, memory, flag>>
         \/ /\ phase = "bits"
            /\ IF pos < call.k
               THEN LET s == result % W
                    IN  /\ Emit(Lo(Zi * TwoTo[s]) + h)
                        /\ h' = If(s # 0, Zi \div TwoTo[W - s])
                        /\ UNCHANGED flag
               ELSE Leave(result)

-----------------------------------------------------------------------------
(* Copies and constants. *)

Copy ==
  /\ Op("copy")
  /\ IF pos < call.k THEN Emit(If(pos < Common, Xi)) /\ UNCHANGED <<h, flag>>
     ELSE Leave(NoWord)

Mux ==
  /\ Op("mux")
  /\ IF pos > 0
     THEN /\ memory' = Store(memory, call.z + pos - 1,
                      DigitAt(memory, (IF call.w # 0 THEN call.x ELSE call.y) + pos - 1))
          /\ pos' = pos - 1
          /\ UNCHANGED <<call, memory0, phase, h, flag, result>>
     ELSE Leave(NoWord)

Pow2 ==
  /\ Op("pow2")
  /\ IF pos < call.k
     THEN Emit(If(pos = call.w \div W, TwoTo[Count])) /\ UNCHANGED <<h, flag>>
     ELSE Leave(NoWord)

\* The lowest word, then zeros from the top down.
OfWord ==
  /\ Op("of_word")
  /\ \/ /\ phase = "main"
        /\ IF call.k > 0
           THEN /\ memory' = Store(memory, call.z, call.w)
                /\ phase' = "zeros" /\ pos' = call.k - 1
                /\ UNCHANGED <<call, memory0, h, flag, result>>
           ELSE Leave(NoWord)
     \/ /\ phase = "zeros"
        /\ IF pos > 0
           THEN /\ memory' = Store(memory, call.z + pos, 0) /\ pos' = pos - 1
                /\ UNCHANGED <<call, memory0, phase, h, flag, result>>
           ELSE Leave(NoWord)

LoopNext ==
  \/ OptAdd \/ OptSub \/ OptSubAdd \/ OptNeg
  \/ ModAdd \/ ModSub \/ ModDouble \/ ModOptNeg
  \/ CMul \/ CMAdd \/ CMNegAdd \/ MulAdd10
  \/ ShlSmall \/ ShrSmall \/ Normalize
  \/ Copy \/ Mux \/ Pow2 \/ OfWord

LoopReturned == phase = "done" /\ UNCHANGED loopVars

LoopSpec == LoopInit /\ [][LoopNext \/ LoopReturned]_loopVars

-----------------------------------------------------------------------------
\* What the interface promises for the operands found at the call.
Promised ==
  LET c == call
      x == Value(memory0, c.x, c.n)
      y == Value(memory0, c.y, c.k)
      z == Value(memory0, c.z, c.k)
      m == Value(memory0, c.m, c.k)
  IN  CASE c.op = "optadd"    -> bignum_optadd(c.k, x, c.w, y)
        [] c.op = "optsub"    -> bignum_optsub(c.k, x, c.w, y)
        [] c.op = "optsubadd" -> bignum_optsubadd(c.k, x, c.w, y)
        [] c.op = "optneg"    -> bignum_optneg(c.k, c.w, x)
        [] c.op = "modadd"    -> bignum_modadd(x, y, m)
        [] c.op = "modsub"    -> bignum_modsub(x, y, m)
        [] c.op = "moddouble" -> bignum_moddouble(x, m)
        [] c.op = "modoptneg" -> bignum_modoptneg(c.w, x, m)
        [] c.op = "cmul"      -> bignum_cmul(c.k, c.w, c.n, x)
        [] c.op = "cmadd"     -> bignum_cmadd(c.k, z, c.w, c.n, x)
        [] c.op = "cmnegadd"  -> bignum_cmnegadd(c.k, z, c.w, c.n, x)
        [] c.op = "muladd10"  -> bignum_muladd10(c.k, z, c.w)
        [] c.op = "shl_small" -> bignum_shl_small(c.k, c.n, x, c.w)
        [] c.op = "shr_small" -> bignum_shr_small(c.k, x, c.w)
        [] c.op = "normalize" -> bignum_normalize(c.k, z)
        [] c.op = "copy"      -> bignum_copy(c.k, x)
        [] c.op = "mux"       -> bignum_mux(c.w, x, y)
        [] c.op = "pow2"      -> bignum_pow2(c.k, c.w)
        [] c.op = "of_word"   -> bignum_of_word(c.k, c.w)

(***************************************************************************)
(* When a function returns, its buffer and its result are what the         *)
(* interface promises for the operands as they were at the call, whichever *)
(* of them the buffer has overwritten on the way, and no other word of     *)
(* memory has changed.                                                     *)
(***************************************************************************)
MeetsContract ==
  phase = "done" =>
    /\ Value(memory, call.z, call.k) = Promised[1]
    /\ Promised[2] \in {NoWord, result}
    /\ \A a \in Addr \ Region(call.z, call.k) : memory[a] = memory0[a]

\* What the comment with bignum_optneg says of the word it returns, that it is
\* a carry "equivalent to x is nonzero"; also for a p that asks for no negation.
ReturnTellsNonzero ==
  phase = "done" /\ call.op = "optneg" =>
    result = Bitval(Value(memory0, call.x, call.n) # 0)
=============================================================================

--------------------------- MODULE BignumMontRedc ---------------------------
(***************************************************************************)
(* bignum_montredc and bignum_amontredc (arm/generic): p-fold Montgomery   *)
(* reduction of an n-digit number modulo a k-digit odd modulus, k, n and p *)
(* independent.  A k-digit window z slides up the input with a carry digit *)
(* c above it; each row adds the multiple of the modulus that makes the    *)
(* lowest digit vanish and shifts the next input digit in.  The two        *)
(* functions differ in what they do at the end: bignum_amontredc subtracts *)
(* the modulus if the carry is set and so returns some k-digit number of   *)
(* the right residue; bignum_montredc compares and returns the residue.    *)
(* One action is one pass of a loop body.                                  *)
(***************************************************************************)
EXTENDS Words

CONSTANT MaxLen  \* bound on k, n and p of one call

ASSUME MaxLenAssumption == MaxLen \in Nat

Functions == {"montredc", "amontredc"}

\* The lowest k + p digits of the input, zero-padded.
Input(call, memory) == Value(memory, call.x, Lesser(call.n, call.k + call.p))
Modulus(call, memory) == Value(memory, call.m, call.k)

\* The calls with the pointers and lengths of the HOL preconditions...
Calls ==
  { call \in [fn : Functions, k : 0 .. MaxLen, z : Addr, n : 0 .. MaxLen, x : Addr,
              m : Addr, p : 0 .. MaxLen] :
      /\ InMemory(call.z, call.k) /\ InMemory(call.x, call.n)
      /\ InMemory(call.m, call.k)
      /\ NonOverlapping(call.m, call.k, call.z, call.k)
      /\ SameOrDisjoint(call.x, call.n, call.z, call.k) }

\* ... and their contents: an odd modulus, and for montredc a bounded input.
Meaningful(call, memory) ==
  call.k # 0 =>
    /\ Modulus(call, memory) % 2 = 1
    /\ call.fn = "montredc" =>
         Input(call, memory) <= Pow[call.p] * Modulus(call, memory)

VARIABLES args, mem0,  \* the call, and the memory at the call
          mem, pc,
          w,           \* the negated inverse of the modulus' lowest digit
          i, j,        \* the loop counters
          d, h, cf,    \* the row's multiplier, high part and carry flag
          c            \* the carry digit above the window, later the mask

vars == <<args, mem0, mem, pc, w, i, j, d, h, cf, c>>

Labels == {"entry", "copy", "pad", "outer", "mont", "montend", "cmp", "corr", "done"}

z(t) == mem[args.z + t]
m(t) == mem[args.m + t]

-----------------------------------------------------------------------------
Init == /\ args \in Calls
        /\ mem0 \in [Addr -> Digit] /\ Meaningful(args, mem0)
        /\ mem = mem0
        /\ pc = "entry"
        /\ w = 0 /\ i = 0 /\ j = 0 /\ d = 0 /\ h = 0 /\ cf = 0 /\ c = 0

\* The call with k = 0 is trivial.
Trivial == /\ pc = "entry" /\ args.k = 0
           /\ pc' = "done"
           /\ UNCHANGED <<args, mem0, mem, w, i, j, d, h, cf, c>>

\* The word-level negated modular inverse, by Newton iteration in the code.
Negmodinv == /\ pc = "entry" /\ args.k # 0
             /\ w' \in {u \in Digit : (u * m(0) + 1) % B = 0}
             /\ i' = 0 /\ j' = Lesser(args.n, args.k)
             /\ pc' = IF j' # 0 THEN "copy" ELSE "pad"
             /\ UNCHANGED <<args, mem0, mem, d, h, cf, c>>

\* A loop over the digits of z starts: j := 0 with no borrow pending.
StartDigits(label) == pc' = label /\ j' = 0 /\ cf' = 1

\* Mutant: bignum_montredc with p = 0 returns the digits it copied.
InitializedNoCorrection ==
  /\ c' = 0 /\ i' = 0
  /\ IF args.p # 0 THEN pc' = "outer" /\ UNCHANGED <<j, cf>>
     ELSE pc' = "done" /\ UNCHANGED <<j, cf>>

\* The window is initialized: on to the rows, or past them when p = 0, when
\* bignum_montredc still has to reduce an input that is the modulus.
Initialized ==
  /\ c' = 0 /\ i' = 0
  /\ IF args.p # 0 THEN pc' = "outer" /\ UNCHANGED <<j, cf>>
     ELSE IF args.fn = "montredc" THEN StartDigits("cmp")
     ELSE pc' = "done" /\ UNCHANGED <<j, cf>>

CopyLoop ==
  /\ pc = "copy"
  /\ mem' = Store(mem, args.z + i, mem[args.x + i])
  /\ IF i + 1 < j THEN pc' = "copy" /\ i' = i + 1 /\ UNCHANGED <<j, cf, c>>
     ELSE IF i + 1 < args.k THEN pc' = "pad" /\ i' = i + 1 /\ UNCHANGED <<j, cf, c>>
     ELSE Initialized
  /\ UNCHANGED <<args, mem0, w, d, h>>

\* Mutant: one digit too many is padded.
PadLoopInclusive ==
  /\ pc = "pad"
  /\ mem' = Store(mem, args.z + i, 0)
  /\ IF i < args.k THEN pc' = "pad" /\ i' = i + 1 /\ UNCHANGED <<j, cf, c>>
     ELSE Initialized
  /\ UNCHANGED <<args, mem0, w, d, h>>

PadLoop ==
  /\ pc = "pad"
  /\ mem' = Store(mem, args.z + i, 0)
  /\ IF i + 1 < args.k THEN pc' = "pad" /\ i' = i + 1 /\ UNCHANGED <<j, cf, c>>
     ELSE Initialized
  /\ UNCHANGED <<args, mem0, w, d, h>>

-----------------------------------------------------------------------------
(* The rows.                                                                *)

\* The multiplier that makes the lowest digit vanish; its carry is kept.
OuterLoop ==
  LET dd == (z(0) * w) % B
      product == dd * m(0)
  IN  /\ pc = "outer"
      /\ d' = dd
      /\ h' = product \div B
      /\ cf' = (z(0) + (product % B)) \div B
      /\ j' = 1
      /\ pc' = IF args.k = 1 THEN "montend" ELSE "mont"
      /\ UNCHANGED <<args, mem0, mem, w, i, c>>

\* Mutant: the carry into the digit is lost in the addition of the high part.
MontLoopOneCarry ==
  LET product == d * m(j)
      low == z(j) + h
      sum == (low % B) + (product % B)
  IN  /\ pc = "mont"
      /\ h' = product \div B + low \div B
      /\ cf' = sum \div B
      /\ mem' = Store(mem, args.z + j - 1, sum % B)
      /\ j' = j + 1
      /\ pc' = IF j + 1 = args.k THEN "montend" ELSE "mont"
      /\ UNCHANGED <<args, mem0, w, i, d, c>>

\* z[j-1] := z[j] + the low part of d * m[j] + the previous high part and carry.
MontLoop ==
  LET product == d * m(j)
      low == z(j) + h + cf
      sum == (low % B) + (product % B)
  IN  /\ pc = "mont"
      /\ h' = product \div B + low \div B
      /\ cf' = sum \div B
      /\ mem' = Store(mem, args.z + j - 1, sum % B)
      /\ j' = j + 1
      /\ pc' = IF j + 1 = args.k THEN "montend" ELSE "mont"
      /\ UNCHANGED <<args, mem0, w, i, d, c>>

\* Mutant: the carry is added to the row above as well.
MontEndKeepCarry ==
  LET t == h + c + cf
      next == IF j + i < args.n THEN mem[args.x + j + i] ELSE 0
      sum == (t % B) + next
  IN  /\ pc = "montend"
      /\ mem' = Store(mem, args.z + args.k - 1, sum % B)
      /\ h' = sum % B
      /\ c' = c + t \div B + sum \div B
      /\ i' = i + 1
      /\ IF i + 1 < args.p THEN pc' = "outer" /\ UNCHANGED <<j, cf>>
         ELSE StartDigits(IF args.fn = "montredc" THEN "cmp" ELSE "corr")
      /\ UNCHANGED <<args, mem0, w, d>>

\* The top digit takes in the carry and the next digit of the input, if any.
MontEnd ==
  LET t == h + c + cf
      next == IF j + i < args.n THEN mem[args.x + j + i] ELSE 0
      sum == (t % B) + next
  IN  /\ pc = "montend"
      /\ mem' = Store(mem, args.z + args.k - 1, sum % B)
      /\ h' = sum % B
      /\ c' = t \div B + sum \div B
      /\ i' = i + 1
      /\ IF i + 1 < args.p THEN pc' = "outer" /\ UNCHANGED <<j, cf>>
         ELSE StartDigits(IF args.fn = "montredc" THEN "cmp" ELSE "corr")
      /\ UNCHANGED <<args, mem0, w, d>>

-----------------------------------------------------------------------------
(* The final correction.  cf is the negated borrow.                         *)

\* z[j] - v - borrow, and the borrow it leaves.
Difference(v) == z(j) + (B - 1 - v) + cf

\* Is c::z >= m?  After the last digit the answer replaces c.
CmpLoop ==
  /\ pc = "cmp"
  /\ IF j + 1 < args.k
     THEN /\ j' = j + 1 /\ cf' = Difference(m(j)) \div B
          /\ UNCHANGED <<pc, c>>
     ELSE /\ c' = IF c + Difference(m(j)) \div B > 0 THEN 1 ELSE 0
          /\ StartDigits("corr")
  /\ UNCHANGED <<args, mem0, mem, w, i, d, h>>

\* Subtract the modulus, masked by -c.
CorrLoop ==
  LET difference == Difference(IF c = 0 THEN 0 ELSE m(j))
  IN  /\ pc = "corr"
      /\ mem' = Store(mem, args.z + j, difference % B)
      /\ cf' = difference \div B
      /\ j' = j + 1
      /\ pc' = IF j + 1 < args.k THEN "corr" ELSE "done"
      /\ UNCHANGED <<args, mem0, w, i, d, h, c>>

Returned == pc = "done" /\ UNCHANGED vars

Next == \/ Trivial \/ Negmodinv \/ CopyLoop \/ PadLoop
        \/ OuterLoop \/ MontLoop \/ MontEnd \/ CmpLoop \/ CorrLoop
        \/ Returned

Spec == Init /\ [][Next]_vars

-----------------------------------------------------------------------------
\* The carry above the window is a bit, so that -c is the mask the last loop
\* takes it for.
CarryBit == c \in {0, 1}

\* The window with its carry.
Window == Value(mem, args.z, args.k) + c * Pow[args.k]

\* Between the rows, or after the last one.
BetweenRows == \/ pc = "outer"
               \/ pc = "cmp" /\ j = 0
               \/ pc = "corr" /\ j = 0 /\ args.fn = "amontredc"

\* After i rows the window is the lowest k + i digits of the input plus a
\* multiple of the modulus below B^i of them, shifted down by i digits.
RowsOK ==
  BetweenRows =>
    LET excess == Window * Pow[i] - Value(mem0, args.x, Lesser(args.n, args.k + i))
        n == Modulus(args, mem0)
    IN  excess % n = 0 /\ excess \div n \in 0 .. (Pow[i] - 1)

\* The result is congruent to the input divided by B^p; for bignum_montredc it
\* is the residue itself, also when p = 0 and the input is the modulus.
Result ==
  pc = "done" /\ args.k # 0 =>
    LET r == Value(mem, args.z, args.k)
        n == Modulus(args, mem0)
    IN  /\ (r * Pow[args.p] - Input(args, mem0)) % n = 0
        /\ args.fn = "montredc" => r < n

\* Only the k digits of z are written: input digits that do not share them
\* and the modulus hold what they held at the call.
OnlyOutput == \A a \in Addr : a \notin Region(args.z, args.k) => mem[a] = mem0[a]
=============================================================================

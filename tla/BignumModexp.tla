---------------------------- MODULE BignumModexp ----------------------------
(***************************************************************************)
(* bignum_modexp (arm/generic): z := a ^ p mod m for k-digit numbers and   *)
(* an odd modulus, by square-and-multiply from the top bit of p in almost- *)
(* Montgomery form.  A buffer holds a number below 2^(64 * k); the x, y    *)
(* and z of the scratch space need not be reduced until the last step.     *)
(* Every bit costs a squaring and a multiplication, and the constant-time  *)
(* bignum_mux keeps one of the results.                                    *)
(*                                                                         *)
(* The functions called, local copies of bignum_amontifier, amontmul,      *)
(* demont and mux, are modelled by what they store.  A call with k = 0,    *)
(* which has no odd modulus, returns at once and is left out.              *)
(***************************************************************************)
EXTENDS Integers

CONSTANTS WordBits,  \* the bits of a word (64)
          MaxSize    \* bound on the size k of a call

Pow2[n \in Nat] == IF n = 0 THEN 1 ELSE 2 * Pow2[n - 1]

Inputs == {"a", "p", "m"}
Scratch == {"x", "y", "z"}

VARIABLES k, res,     \* the size, and the buffer the result goes to
          a0, p0, m0, \* the arguments' values at the call
          buf,        \* the contents of the buffers
          i,          \* the bits of p still to process
          pc

vars == <<k, res, a0, p0, m0, buf, i, pc>>

Radix == Pow2[WordBits * k]   \* 2^(64 * k)
Number == 0 .. (Radix - 1)

-----------------------------------------------------------------------------
(* The arithmetic of the functions called.                                  *)

\* x / Radix modulo the odd modulus, before a correction: what p = k rows of
\* Montgomery reduction leave.
Reduction(v, modulus) ==
  LET q == CHOOSE u \in Number : (v + u * modulus) % Radix = 0
  IN  (v + q * modulus) \div Radix

\* Mutant: the carry out of the top digit is not corrected for.
AmontmulCarried(v, u, modulus) == Reduction(v * u, modulus)

\* Almost-Montgomery: below Radix, not below the modulus.
Amontmul(v, u, modulus) ==
  LET r == Reduction(v * u, modulus)
  IN  IF r < Radix THEN r ELSE r - modulus

Demont(v, modulus) ==
  LET r == Reduction(v, modulus)
  IN  IF r < modulus THEN r ELSE r - modulus

Bit(n, t) == (n \div Pow2[t]) % 2

-----------------------------------------------------------------------------
(* The result buffer may be any of the inputs, but not the scratch space.   *)
Init == /\ k \in 1 .. MaxSize
        /\ a0 \in Number /\ p0 \in Number
        /\ m0 \in {v \in Number : v % 2 = 1}
        /\ res \in Inputs \cup {"res"}
        /\ buf = [b \in Inputs \cup Scratch \cup {"res"} |->
                    CASE b = "a" -> a0 [] b = "p" -> p0 [] b = "m" -> m0
                      [] OTHER -> Radix - 1]
        /\ i = WordBits * k
        /\ pc = "amontify"

\* z := Radix^2 modulo m, any representative of k digits.  Its workspace y is
\* not read before it is written.
Amontifier ==
  /\ pc = "amontify"
  /\ \E v \in {u \in Number : (u - Radix * Radix) % buf["m"] = 0} :
       buf' = [buf EXCEPT !["z"] = v, !["y"] = 0]
  /\ pc' = "base"
  /\ UNCHANGED <<k, res, a0, p0, m0, i>>

\* x := a in Montgomery form.
Base == /\ pc = "base"
        /\ buf' = [buf EXCEPT !["x"] = Amontmul(buf["z"], buf["a"], buf["m"])]
        /\ pc' = "one"
        /\ UNCHANGED <<k, res, a0, p0, m0, i>>

\* z := 1 in Montgomery form.
One == /\ pc = "one"
       /\ buf' = [buf EXCEPT !["z"] = Demont(buf["z"], buf["m"])]
       /\ pc' = "square"
       /\ UNCHANGED <<k, res, a0, p0, m0, i>>

Square == /\ pc = "square"
          /\ i' = i - 1
          /\ buf' = [buf EXCEPT !["y"] = Amontmul(buf["z"], buf["z"], buf["m"])]
          /\ pc' = "multiply"
          /\ UNCHANGED <<k, res, a0, p0, m0>>

\* Mutant: the accumulator is kept in the result buffer.
MultiplyInResult ==
  /\ pc = "multiply"
  /\ LET v == Amontmul(buf["x"], buf["y"], buf["m"])
     IN  buf' = [buf EXCEPT !["z"] = v, ![res] = v]
  /\ pc' = "mux"
  /\ UNCHANGED <<k, res, a0, p0, m0, i>>

Multiply ==
  /\ pc = "multiply"
  /\ buf' = [buf EXCEPT !["z"] = Amontmul(buf["x"], buf["y"], buf["m"])]
  /\ pc' = "mux"
  /\ UNCHANGED <<k, res, a0, p0, m0, i>>

\* z := the product if the bit of the exponent is set, and else the square.
Mux == /\ pc = "mux"
       /\ buf' = [buf EXCEPT !["z"] = IF Bit(buf["p"], i) # 0 THEN buf["z"]
                                                              ELSE buf["y"]]
       /\ pc' = IF i # 0 THEN "square" ELSE "demont"
       /\ UNCHANGED <<k, res, a0, p0, m0, i>>

\* Out of Montgomery form, which also reduces the result.
FromMontgomery == /\ pc = "demont"
                  /\ buf' = [buf EXCEPT !["z"] = Demont(buf["z"], buf["m"])]
                  /\ pc' = "copy"
                  /\ UNCHANGED <<k, res, a0, p0, m0, i>>

CopyOut == /\ pc = "copy"
           /\ buf' = [buf EXCEPT ![res] = buf["z"]]
           /\ pc' = "done"
           /\ UNCHANGED <<k, res, a0, p0, m0, i>>

Returned == pc = "done" /\ UNCHANGED vars

Next == \/ Amontifier \/ Base \/ One \/ Square \/ Multiply \/ Mux
        \/ FromMontgomery \/ CopyOut \/ Returned

Spec == Init /\ [][Next]_vars

-----------------------------------------------------------------------------
\* The power the bits processed so far make.
PowerSoFar ==
  CASE pc \in {"amontify", "base", "one"} -> 1 % m0
    [] pc \in {"square", "multiply", "demont"} -> Demont(buf["z"], m0)
    [] pc = "mux" -> Demont(IF Bit(p0, i) # 0 THEN buf["z"] ELSE buf["y"], m0)
    [] pc = "copy" -> buf["z"]
    [] pc = "done" -> buf[res]

Contract == INSTANCE ModPower
              WITH MaxBits <- WordBits * MaxSize,
                   base <- a0, exponent <- p0, modulus <- m0,
                   power <- PowerSoFar,
                   left <- IF pc = "multiply" THEN i + 1 ELSE i,
                   returned <- pc = "done"

\* The function computes what ModPower promises, one bit per iteration.
Implements == Contract!Spec
=============================================================================

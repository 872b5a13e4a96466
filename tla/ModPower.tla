------------------------------ MODULE ModPower ------------------------------
(***************************************************************************)
(* What bignum_modexp promises: the power of a base, one bit of the        *)
(* exponent at a time from the top, every value the residue itself.  The   *)
(* caller sees the power once the call has returned.                       *)
(***************************************************************************)
EXTENDS Integers

CONSTANT MaxBits  \* bound on the bits of the exponent

Pow2[n \in Nat] == IF n = 0 THEN 1 ELSE 2 * Pow2[n - 1]

VARIABLES base, exponent, modulus,
          power,  \* base ^ (exponent >> left) mod modulus
          left,   \* the bits of the exponent still to come
          returned

vars == <<base, exponent, modulus, power, left, returned>>

Init == /\ modulus \in Nat \ {0}
        /\ left \in 0 .. MaxBits
        /\ base \in 0 .. (Pow2[left] - 1)
        /\ exponent \in 0 .. (Pow2[left] - 1)
        /\ power = 1 % modulus
        /\ returned = FALSE

NextBit ==
  LET bit == (exponent \div Pow2[left - 1]) % 2
  IN  /\ left > 0
      /\ power' = (power * power * (IF bit = 1 THEN base ELSE 1)) % modulus
      /\ left' = left - 1
      /\ UNCHANGED <<base, exponent, modulus, returned>>

Return == /\ left = 0 /\ ~ returned
          /\ returned' = TRUE
          /\ UNCHANGED <<base, exponent, modulus, power, left>>

Next == NextBit \/ Return
Spec == Init /\ [][Next]_vars
=============================================================================

------------------------------ MODULE MCFields ------------------------------
(***************************************************************************)
(* One call of a function modulo a fixed number: a reduction of a number   *)
(* of any length (ModReduce) or a field function (FieldOps), on moduli of  *)
(* the shape of the real ones, while the variables of the other rest.      *)
(* TLC's integers have 32 bits, so what forms products runs on the         *)
(* smallest of them.                                                       *)
(***************************************************************************)
EXTENDS ModReduce, FieldOps

(* Moduli of two words of base 16: 13/16 of the range and a little (p256)  *)
(* or short of it (n256), 12/16 and a little less (sm2, nsm2), all but a   *)
(* small part (p384, n384), a little more than a power of two (n25519,     *)
(* m25519).  Every input is tried.                                         *)

Modulus(name, p, power) ==
  [name |-> name, h |-> 4, b |-> 16, n |-> 2, p |-> p, m |-> power, e |-> p - power]

MCModuli ==
  { Modulus("p256", 256 - 64 + 16 + 1, 256), Modulus("n256", 256 - 64 + 16 - 1, 256),
    Modulus("sm2", 256 - 64 - 3, 256), Modulus("nsm2", 256 - 64 - 1, 256),
    Modulus("p384", 256 - 3, 256), Modulus("n384", 256 - 15, 256),
    Modulus("n25519", 64 + 3, 64), Modulus("m25519", 128 + 5, 128) }

-----------------------------------------------------------------------------
(* Small curves, with h for 2^32 and b = h * h for 2^64. *)

LinearOps == {"add", "double", "triple", "sub", "neg", "optneg", "half", "cmul", "mod"}
Reductions == {"tomont", "demont", "deamont"}
MontOps == {"demont", "deamont", "montmul"}

Full(family, h, n, p, ops) ==
  [family |-> family, h |-> h, b |-> h * h, n |-> n, p |-> p, m |-> 0, e |-> 0, ops |-> ops]
Near(family, h, n, power, p, ops) ==
  [family |-> family, h |-> h, b |-> h * h, n |-> n, p |-> p, m |-> power,
   e |-> IF power > p THEN power - p ELSE p - power, ops |-> ops]

MCCurves ==
  { \* 2^256 - 2^224 + 2^192 + 2^96 - 1
    Full("p256", 4, 4, 4^8 - 4^7 + 4^6 + 4^3 - 1, LinearOps \cup Reductions),
    Full("p256", 2, 4, 2^8 - 2^7 + 2^6 + 2^3 - 1, MontOps),
    \* 2^256 - 2^224 - 2^96 + 2^64 - 1
    Full("sm2", 4, 4, 4^8 - 4^7 - 4^3 + 4^2 - 1, LinearOps \cup Reductions),
    Full("sm2", 2, 4, 2^8 - 2^7 - 2^3 + 2^2 - 1, MontOps),
    \* 2^384 - 2^128 - 2^96 + 2^32 - 1
    Full("p384", 2, 6, 2^12 - 2^4 - 2^3 + 2 - 1, LinearOps \cup Reductions \cup MontOps),
    \* one bit short of its words; a small constant away from b^n; 521 of 576 bits
    Near("p25519", 4, 3, 2^11, 2^11 - 3, {"mul"} \cup (LinearOps \ {"triple", "half"})),
    Near("p256k1", 4, 3, 2^12, 2^12 - 5, {"mul", "montmul"} \cup LinearOps \cup Reductions),
    Near("p521", 4, 3, 2^9, 2^9 - 1, {"mul", "montmul"} \cup LinearOps \cup Reductions),
    Near("n25519", 4, 3, 2^10, 2^10 + 27, {"mod"}),
    Near("n521", 4, 3, 2^9, 2^9 - 9, {"mod"}) }

\* Numbers whose digits are all in D, and those within 3 of a boundary.
OfDigits(r, D) ==
  LET v[i \in 0..r.n] == IF i = 0 THEN {0} ELSE { t * r.b + d : t \in v[i - 1], d \in D }
  IN  v[r.n]
Boundaries(r) ==
  { v \in UNION { (a - 3)..(a + 3) : a \in {r.p, 2 * r.p, r.p \div 2, r.m, Size(r), 3} } :
      v \in 0..(Size(r) - 1) }

MCSingle(r) ==
  IF r.n = 3 THEN 0..(Size(r) - 1)
  ELSE OfDigits(r, {0, 1, r.h, r.b - 2, r.b - 1}) \cup Boundaries(r)
MCPairs(r) ==
  OfDigits(r, IF r.n = 6 THEN {0, r.b - 1} ELSE {0, 1, r.b - 1}) \cup Boundaries(r)
MCFactors(r) ==
  OfDigits(r, IF r.n = 6 THEN {0, r.b - 1} ELSE {0, r.h, r.b - 1}) \cup Boundaries(r)

MCScalars(r) == {0, 1, r.h - 1, r.h, r.b - 2, r.b - 1}

-----------------------------------------------------------------------------
MCInit ==
  \/ Init /\ call = [op |-> "none"] /\ z = None
  \/ CallInit /\ c = (CHOOSE r \in MCModuli : TRUE) /\ k = 0 /\ seen = 0 /\ m = 0 /\ phase = "idle"

MCNext ==
  \/ (Next \/ Returned) /\ UNCHANGED callVars
  \/ phase = "idle" /\ (CallNext \/ CallReturned) /\ UNCHANGED vars

MCSpec == MCInit /\ [][MCNext]_<<vars, callVars>>
=============================================================================

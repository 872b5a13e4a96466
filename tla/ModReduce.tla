----------------------------- MODULE ModReduce -----------------------------
(***************************************************************************)
(* The reductions of k-word numbers modulo the constants of the curves     *)
(* (bignum_mod_p256, _n256, _sm2, _nsm2, _p384, _n384, _n25519, _m25519):  *)
(* the top n words are reduced, then each further word is appended and n   *)
(* + 1 words are reduced to n with an estimated quotient, one subtraction  *)
(* and one addition under the mask of its sign.                            *)
(*                                                                         *)
(* seen is the number that the words read so far make up; the code keeps   *)
(* only its remainder m.                                                   *)
(***************************************************************************)
EXTENDS FieldArithmetic

CONSTANTS Moduli, MaxWords

ASSUME WordsAssumption == MaxWords \in Nat

Folding  == {"p384", "n384"}
Filling  == {"p256", "n256"}
FillingSm2 == {"sm2", "nsm2"}
Floored  == {"n25519", "m25519"}

\* Powers of the word base: n - 1 words, and what a record of n words holds.
TopUnit(r) == r.b ^ (r.n - 1)
ASSUME RecordAssumption ==
  \A r \in Moduli :
    /\ r.b \in Nat /\ r.h \in Nat /\ r.h >= 4 /\ r.b = r.h * r.h
    /\ r.p \in Nat /\ r.p > 0 /\ r.m \in Nat /\ r.m > 0 /\ r.e \in Int
    /\ r.n \in Nat /\ TopUnit(r) \in Nat /\ TopUnit(r) > 0 /\ Size(r) = r.b * TopUnit(r)
    /\ \A i \in 0..(r.n - 1) : r.b ^ i \in Nat /\ r.b ^ i <= r.p
    /\ r.p < Size(r)
    /\ r.name \in Folding \cup Filling \cup FillingSm2 \cup Floored

\* Where the moduli lie in the range of n words, as far as the estimates of
\* the quotients depend on it; the real ones have a wide margin.
ASSUME ShapeAssumption ==
  \A r \in Moduli :
    LET W == TopUnit(r) IN
    /\ r.name # "n25519" => Size(r) <= 2 * r.p
    /\ r.name \in Folding => (r.b - 1) * (Size(r) - r.p) <= r.p
    /\ r.name \in Filling =>
         LET off == r.p - W * (r.b - r.h + 1) IN off * r.b <= W /\ -off * r.b <= W
    /\ r.name \in FillingSm2 =>
         LET off == W * (r.b - r.h) - r.p IN off >= 0 /\ off * r.h <= W * (r.h - 3)
    /\ r.name \in Floored =>
         r.p = r.m + r.e /\ r.e > 0 /\ r.b * r.e <= r.m /\ Size(r) <= r.b * r.m

VARIABLES c, k, seen, m, phase
vars == <<c, k, seen, m, phase>>

Init ==
  /\ c \in Moduli /\ k \in 0..MaxWords
  /\ seen = 0 /\ m = 0 /\ phase = "start"

-----------------------------------------------------------------------------
\* The initial n words.
Head(r, x) ==
  IF r.name = "n25519" THEN mod_n25519_4(r, x) ELSE Subtracted(r, x)

Estimate(r, v) ==
  CASE r.name \in Filling    -> Estimate256(r, Top(r, v), Second(r, v))
    [] r.name \in FillingSm2 -> EstimateSm2(r, Top(r, v), Second(r, v))
    [] r.name \in Folding    -> Estimate384(r, Top(r, v), 0)

\* Mutant: the quotient is taken from the shifted words alone.
FloorWrapped(r, old, v) == (v \div r.m) % r.b

\* extr q, m3, m2; sub q, q, m3, lsr: the quotient by the power of two, which
\* may just exceed a word when old does not lie below that power.
Floor(r, old, v) == (((v \div r.m) % r.b) - old \div r.m) % r.b

Appended(r, old, d) ==
  LET v == r.b * old + d
  IN  IF r.name \in Floored
      THEN LET q == Floor(r, old, v)
               t == v - q * r.m - q * r.e
           IN  Lo(r, t + Under(t < 0, r.p))
      ELSE Corrected(r, v, Estimate(r, v))

-----------------------------------------------------------------------------
\* Fewer words than the modulus has: a copy padded with zeros.
Short ==
  /\ phase = "start" /\ k < c.n
  /\ \E x \in 0..(c.b ^ k - 1) : seen' = x /\ m' = x
  /\ k' = 0 /\ phase' = "done"
  /\ UNCHANGED c

Initial ==
  /\ phase = "start" /\ k >= c.n
  /\ \E x \in 0..(Size(c) - 1) : seen' = x /\ m' = Head(c, x)
  /\ k' = k - c.n /\ phase' = "loop"
  /\ UNCHANGED c

Loop ==
  /\ phase = "loop" /\ k > 0
  /\ \E d \in 0..(c.b - 1) : seen' = c.b * seen + d /\ m' = Appended(c, m, d)
  /\ k' = k - 1
  /\ UNCHANGED <<c, phase>>

Writeback ==
  /\ phase = "loop" /\ k = 0
  /\ phase' = "done"
  /\ UNCHANGED <<c, k, seen, m>>

Next == Short \/ Initial \/ Loop \/ Writeback

Returned == phase = "done" /\ UNCHANGED vars

Spec == Init /\ [][Next \/ Returned]_vars

-----------------------------------------------------------------------------
(***************************************************************************)
(* However many words have been read, what the code holds is the           *)
(* remainder of the number they make up: no estimate is off by more than   *)
(* the one correction mends, and none is cut off at the end of a word.     *)
(***************************************************************************)
Remainder == m = seen % c.p
=============================================================================

---------------------------- MODULE MCMontgomery ----------------------------
(***************************************************************************)
(* Instances of BignumMontRedc and of its user BignumModexp for TLC: a     *)
(* behaviour is a call of one of them.                                     *)
(*                                                                         *)
(* The reductions have z at 0, the input in z itself or behind it, the     *)
(* modulus behind both; words of no input hold B - 1.                      *)
(***************************************************************************)
EXTENDS BignumMontRedc

CONSTANTS KMax, PMax,      \* bounds on k and p of a reduction
          WordBits, MaxSize

ASSUME SizeAssumption == WordBits \in Nat \ {0} /\ MaxSize \in Nat \ {0}

VARIABLES size, res, a0, p0, m0, buf, left, at    \* those of BignumModexp
power == <<size, res, a0, p0, m0, buf, left, at>>

Power == INSTANCE BignumModexp WITH k <- size, i <- left, pc <- at

InputWords(call) == Region(call.x, call.n) \cup Region(call.m, call.k)

InitRedc ==
  /\ \E fn \in Functions, k \in 0 .. KMax, n \in 0 .. MaxLen, p \in 0 .. PMax,
        x \in {0, KMax} :
       args = [fn |-> fn, k |-> k, z |-> 0, n |-> n, x |-> x,
               m |-> KMax + MaxLen, p |-> p]
  /\ args \in Calls
  /\ \E v \in [InputWords(args) -> Digit] :
       mem0 = [a \in Addr |-> IF a \in InputWords(args) THEN v[a] ELSE B - 1]
  /\ Meaningful(args, mem0)
  /\ mem = mem0
  /\ pc = "entry"
  /\ w = 0 /\ i = 0 /\ j = 0 /\ d = 0 /\ h = 0 /\ cf = 0 /\ c = 0

\* The part not called stands before or after some call.
NoPower == size = 1 /\ res = "res" /\ a0 = 0 /\ p0 = 0 /\ m0 = 1 /\ Power!Init
NoRedc == /\ args = [fn |-> "none", k |-> 0, z |-> 0, n |-> 0, x |-> 0, m |-> 0, p |-> 0]
          /\ mem0 = [a \in Addr |-> 0] /\ mem = mem0 /\ pc = "idle"
          /\ w = 0 /\ i = 0 /\ j = 0 /\ d = 0 /\ h = 0 /\ cf = 0 /\ c = 0

MCInit == (NoPower /\ InitRedc) \/ (NoRedc /\ Power!Init)

MCNext == \/ Next /\ UNCHANGED power
          \/ pc = "idle" /\ Power!Next /\ UNCHANGED vars

MCSpec == MCInit /\ [][MCNext]_<<vars, power>>

\* A power implements ModPower.
Implements == Power!Implements
=============================================================================

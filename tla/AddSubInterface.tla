-------------------------- MODULE AddSubInterface --------------------------
(***************************************************************************)
(* The interface of bignum_add and bignum_sub: the calls a caller may make *)
(* (include/s2n-bignum.h and the preconditions of BIGNUM_ADD_CORRECT and   *)
(* BIGNUM_SUB_CORRECT) and the equation the result satisfies.              *)
(***************************************************************************)
EXTENDS Words

CONSTANT MaxLen     \* bound on the lengths p, m and n of one call

ASSUME MaxLenAssumption == MaxLen \in Nat

Lengths == 0 .. MaxLen

\* z[p] := x[m] + y[n] or x[m] - y[n]; an input is the output buffer itself
\* or does not overlap it.  Inputs may overlap each other.
Calls ==
  { c \in [op : {"add", "sub"}, p : Lengths, z : Addr,
           m : Lengths, x : Addr, n : Lengths, y : Addr] :
      /\ InMemory(c.z, c.p) /\ InMemory(c.x, c.m) /\ InMemory(c.y, c.n)
      /\ SameOrDisjoint(c.x, c.m, c.z, c.p)
      /\ SameOrDisjoint(c.y, c.n, c.z, c.p) }

\* The operand words that count: those below the p'th of the output.
XLen(c) == Lesser(c.m, c.p)
YLen(c) == Lesser(c.n, c.p)

\* The first k output words and a carry (borrow) of weight B^k balance the
\* first k words of the inputs, which are read in the memory "before".
Balance(c, before, after, k, carry) ==
  LET X == Value(before, c.x, Lesser(k, XLen(c)))
      Y == Value(before, c.y, Lesser(k, YLen(c)))
      Z == Value(after, c.z, k)
  IN  IF c.op = "add" THEN Z + carry * Pow[k] = X + Y
                      ELSE Z + Y = X + carry * Pow[k]

\* Nothing but the first k words of the output changes.
OnlyOutput(c, before, after, k) ==
  \A a \in Addr : a \notin Region(c.z, k) => after[a] = before[a]
=============================================================================

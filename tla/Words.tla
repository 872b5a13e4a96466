------------------------------- MODULE Words -------------------------------
(***************************************************************************)
(* What every s2n-bignum function computes on: a flat memory of machine    *)
(* words and little-endian numbers stored in consecutive words.  The word  *)
(* size 2^64 is the constant B, so that TLC can use a small base; nothing  *)
(* below depends on its value.                                             *)
(***************************************************************************)
EXTENDS Integers

CONSTANTS B,        \* the number of values of a word (2^64 in the code)
          MemSize   \* the number of words of memory

ASSUME BaseAssumption == B \in Nat /\ B >= 2
ASSUME MemSizeAssumption == MemSize \in Nat

Digit == 0 .. (B - 1)
Addr  == 0 .. (MemSize - 1)

\* 2 EXP (64 * i)
Pow[i \in Nat] == IF i = 0 THEN 1 ELSE B * Pow[i - 1]

\* A word of memory; words outside the modelled memory count as zero.
DigitAt(mem, a) == IF a \in Addr THEN mem[a] ELSE 0

\* A store of one word.
Store(mem, a, w) == [mem EXCEPT ![a] = w]

\* bignum_from_memory (ptr,len): the value of the len words from ptr on.
Value(mem, ptr, len) ==
  LET v[k \in Nat] == IF k = 0 THEN 0
                      ELSE v[k - 1] + DigitAt(mem, ptr + k - 1) * Pow[k - 1]
  IN  v[len]

\* The words a buffer occupies, and the two relations the contracts of the
\* functions use: nonoverlapping buffers, and buffers that start together.
Region(ptr, len) == ptr .. (ptr + len - 1)
InMemory(ptr, len) == ptr + len <= MemSize
NonOverlapping(p, m, q, n) == Region(p, m) \cap Region(q, n) = {}
SameOrDisjoint(x, m, z, p) == x = z \/ NonOverlapping(x, m, z, p)

Lesser(a, b) == IF a <= b THEN a ELSE b
=============================================================================

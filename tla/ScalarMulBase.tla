---------------------------- MODULE ScalarMulBase ----------------------------
(***************************************************************************)
(* p256_scalarmulbase: scalar multiplication of a point P given by a table *)
(* of its multiples, in blocks of the scalar whose size the caller chooses.*)
(* A block above half its range is replaced by its complement, to be       *)
(* subtracted, and a carry deferred to the next block.  The table entry is *)
(* added by the mixed addition, which is not told when there is nothing to *)
(* add: its result is then dropped.                                        *)
(*                                                                         *)
(* Bits stands for the 256 bits of the scalar.  The points are those of    *)
(* PointGroup, without coordinates; P is finite.                           *)
(***************************************************************************)
EXTENDS PointGroup

CONSTANTS Bits,       \* the bits of the scalar buffer
          Blocksizes  \* the block sizes the function is called with

Pow2[n \in Nat] == IF n = 0 THEN 1 ELSE 2 * Pow2[n - 1]

ASSUME BitsAssumption == Bits \in Nat \ {0}
ASSUME BlocksizesAssumption == Blocksizes \subseteq 2 .. (Bits - 1)

\* The order of P-256 is below 2^256 by less than 2^224, and for every block
\* size up to 31 the last block with bits of the scalar starts at bit 232 or
\* above.
ASSUME OrderAssumption ==
  /\ N \in Nat /\ N % 2 = 1 /\ N < Pow2[Bits]
  /\ \A b \in Blocksizes : 2 * (Pow2[Bits] - N) < Pow2[b * ((Bits - 1) \div b)]

VARIABLES scalar,     \* the scalar argument
          blocksize,
          rscalar,    \* the reduced scalar's blocks still to process
          table,      \* the offset of the next table entry to scan
          i,          \* the blocks processed
          cf,         \* the deferred carry
          j,          \* the table entry of this block, 0 for none
          tabent,     \* the entry to add
          acc, nacc,  \* the accumulator and its proposed new value
          res,        \* the result
          pc

vars == <<scalar, blocksize, rscalar, table, i, cf, j, tabent, acc, nacc, res, pc>>

\* What registers left over from an earlier use make as a table entry.
NotAPoint == N

\* 2^(blocksize-1), the number of table entries of a block.
B == Pow2[blocksize - 1]

\* The number of entries of the table, and the point at an offset.
TableLength == B * (Bits \div blocksize + 1)
Tabulation(t) == (Pow2[blocksize * (t \div B)] * ((t % B) + 1)) % N

-----------------------------------------------------------------------------
Init == /\ scalar \in 0 .. (Pow2[Bits] - 1)
        /\ blocksize \in Blocksizes
        /\ rscalar = 0 /\ table = 0 /\ i = 0 /\ cf = 0 /\ j = 0
        /\ tabent = NotAPoint /\ acc = 0 /\ nacc = NotAPoint /\ res = NotAPoint
        /\ pc = "reduce"

Reduce == /\ pc = "reduce"
          /\ rscalar' = IF scalar >= N THEN scalar - N ELSE scalar
          /\ pc' = "loop"
          /\ UNCHANGED <<scalar, blocksize, table, i, cf, j, tabent, acc, nacc, res>>

\* Mutant: the carry into the block is dropped.
BlockCarryless ==
  /\ pc = "loop"
  /\ LET bf == rscalar % Pow2[blocksize]
     IN  IF bf <= B THEN cf' = 0 /\ j' = bf
                    ELSE cf' = 1 /\ j' = 2 * B - bf
  /\ rscalar' = rscalar \div Pow2[blocksize]
  /\ pc' = "entry"
  /\ UNCHANGED <<scalar, blocksize, table, i, tabent, acc, nacc, res>>

\* The next block with the deferred carry, as an entry to add or, with a new
\* carry, to subtract.
Block ==
  /\ pc = "loop"
  /\ LET bf == (rscalar % Pow2[blocksize]) + cf
     IN  IF bf <= B THEN cf' = 0 /\ j' = bf
                    ELSE cf' = 1 /\ j' = 2 * B - bf
  /\ rscalar' = rscalar \div Pow2[blocksize]
  /\ pc' = "entry"
  /\ UNCHANGED <<scalar, blocksize, table, i, tabent, acc, nacc, res>>

\* Mutant: the scan stops at the entry, and the next block starts there.
SelectEntryEarly ==
  /\ pc = "entry"
  /\ tabent' = IF j = 0 THEN NotAPoint
               ELSE LET e == Tabulation(table + j - 1)
                    IN  IF cf = 1 THEN Negation(e) ELSE e
  /\ table' = table + (IF j = 0 THEN B ELSE j)
  /\ pc' = "add"
  /\ UNCHANGED <<scalar, blocksize, rscalar, i, cf, j, acc, nacc, res>>

\* All B entries of the block are scanned; no entry matches j = 0.
SelectEntry ==
  /\ pc = "entry"
  /\ tabent' = IF j = 0 THEN NotAPoint
               ELSE LET e == Tabulation(table + j - 1)
                    IN  IF cf = 1 THEN Negation(e) ELSE e
  /\ table' = table + B
  /\ pc' = "add"
  /\ UNCHANGED <<scalar, blocksize, rscalar, i, cf, j, acc, nacc, res>>

\* The mixed addition agrees with Jadd for a finite second point.
AddEntry ==
  /\ pc = "add"
  /\ nacc' = IF tabent = NotAPoint THEN NotAPoint ELSE Jadd(acc, tabent)
  /\ pc' = "commit"
  /\ UNCHANGED <<scalar, blocksize, rscalar, table, i, cf, j, tabent, acc, res>>

\* Mutant: one block too many.
CommitExtra ==
  /\ pc = "commit"
  /\ acc' = IF j # 0 THEN nacc ELSE acc
  /\ i' = i + 1
  /\ pc' = IF blocksize * i < Bits + 1 THEN "loop" ELSE "affine"
  /\ UNCHANGED <<scalar, blocksize, rscalar, table, cf, j, tabent, nacc, res>>

\* Only a block with an entry changes the accumulator.
Commit ==
  /\ pc = "commit"
  /\ acc' = IF j # 0 THEN nacc ELSE acc
  /\ i' = i + 1
  /\ pc' = IF blocksize * (i + 1) < Bits + 1 THEN "loop" ELSE "affine"
  /\ UNCHANGED <<scalar, blocksize, rscalar, table, cf, j, tabent, nacc, res>>

\* The translation from Jacobian to affine coordinates, abstracted to what it
\* promises: the same point.  The inversion of z and the products that make
\* it up act on coordinates, which this module does not have.
Affine == /\ pc = "affine"
          /\ res' = acc
          /\ pc' = "done"
          /\ UNCHANGED <<scalar, blocksize, rscalar, table, i, cf, j, tabent, acc, nacc>>

Returned == pc = "done" /\ UNCHANGED vars

Next == Reduce \/ Block \/ SelectEntry \/ AddEntry \/ Commit \/ Affine \/ Returned

Spec == Init /\ [][Next]_vars

-----------------------------------------------------------------------------
\* The accumulator is the multiple of P by the blocks processed, less the
\* carry still owed: what is left and the carry, at the place of the next
\* block, complete it to the scalar.
PrefixOK ==
  pc \in {"loop", "affine"} =>
    (acc + Pow2[blocksize * i] * (rscalar + cf)) % N = scalar % N

\* The scan of a block stays inside the table the caller promised.
TableBounds == pc = "entry" => table + B <= TableLength

\* The mixed addition is never given a point and the same point, for which it
\* computes infinity, nor an accumulator and a finite entry it cannot add.
NoDegenerateAdd ==
  pc = "add" /\ j # 0 => tabent \in Point \ {0} /\ acc # tabent

\* The result is scalar * P.
Result == pc = "done" => res = scalar % N
=============================================================================

---------------------------- MODULE DigitScans ----------------------------
(***************************************************************************)
(* The functions of arm/generic that read whole numbers in constant time   *)
(* and return one word or select one row of a table: a fold over all the   *)
(* words, whatever they hold, that keeps in its registers what it has      *)
(* seen.  A number is the sequence of its words, the lowest first, so that *)
(* position j of the sequence is index j - 1 of the code.                  *)
(***************************************************************************)
EXTENDS BignumInterface, SequencesExt, Bitwise

CONSTANTS Numbers,   \* the sequences of words asked about
          Rows,      \* heights of a table
          Widths     \* widths of its rows

VARIABLES query,     \* the call: op and its arguments
          answer     \* the word returned or the row left in z
vars == <<query, answer>>

Unset == <<>>        \* no answer yet

ValueOf(x) == FoldRight(LAMBDA w, v : w + B * v, x, 0)
Lzcnt(a) == CHOOSE s \in 0..W : a < 2 ^ (W - s) /\ (s = W \/ 2 * a >= 2 ^ (W - s))
Mask(b, w) == IF b THEN w ELSE 0

-----------------------------------------------------------------------------
(* The position of the highest (lowest) nonzero word and the word itself:  *)
(* csel i, j, i, ne; csel w, a, w, ne in each round.                       *)

Highest(x) == FoldLeftDomain(LAMBDA r, j : IF x[j] # 0 THEN [i |-> j, w |-> x[j]] ELSE r,
                          [i |-> 0, w |-> B - 1], x)
Lowest(x) == FoldRightDomain(LAMBDA j, r : IF x[j] # 0 THEN [i |-> j - 1, w |-> x[j]] ELSE r,
                            x, [i |-> Len(x), w |-> 1])

cld(x)       == Len(x) - Highest(x).i
digitsize(x) == Highest(x).i
bitsize(x)   == W * Highest(x).i - Lzcnt(Highest(x).w)
clz(x)       == W * (Len(x) - Highest(x).i) + Lzcnt(Highest(x).w)
ctd(x)       == Lowest(x).i
\* clz of the mask of the zeros below the lowest one of w: ~w and (w - 1)
ctz(x)       == LET w == Lowest(x).w
                IN  IF x = <<>> THEN 0
                    ELSE W * (Lowest(x).i + 1) - Lzcnt((B - 1 - w) & (w - 1))

Disjunction(x) == FoldLeft(LAMBDA c, a : c | a, 0, x)
iszero(x)  == Bitval(Disjunction(x) = 0)
nonzero(x) == Bitval(Disjunction(x) # 0)
odd(x)     == IF x = <<>> THEN 0 ELSE x[1] & 1
even(x)    == 1 - odd(x)

-----------------------------------------------------------------------------
(* Selection: csel at the index asked for, in every round. *)

digit(x, n) == FoldLeftDomain(LAMBDA d, j : IF j - 1 = n THEN x[j] ELSE d, 0, x)

\* Mutant: the next word is kept when the field starts on a word boundary.
bitfieldNextWord(x, n, l) ==
  LET m == n % W
      q == n \div W + 1
      d == IF Len(x) < q THEN 0
           ELSE FoldLeftDomain(LAMBDA r, j : IF j - 1 < q THEN x[j] ELSE r, 0, x)
      e == FoldLeftDomain(LAMBDA r, j : IF j - 1 = q THEN x[j] ELSE r, 0, x)
      a == (d \div 2 ^ m) | ((e * 2 ^ ((W - m) % W)) % B)
      k == ((Bitval(l < W) * 2 ^ (l % W)) - 1) % B
  IN  IF x = <<>> THEN 0 ELSE a & k

\* d is the word the field starts in, e the next one; each is cleared when the
\* number ends below it, e also when the field starts on a word boundary.
bitfield(x, n, l) ==
  LET m == n % W
      q == n \div W + 1
      d == IF Len(x) < q THEN 0
           ELSE FoldLeftDomain(LAMBDA r, j : IF j - 1 < q THEN x[j] ELSE r, 0, x)
      e == FoldLeftDomain(LAMBDA r, j : IF j - 1 = q THEN x[j] ELSE r, 0, x)
      a == (d \div 2 ^ m) | ((Mask(m # 0, e) * 2 ^ ((W - m) % W)) % B)
      k == ((Bitval(l < W) * 2 ^ (l % W)) - 1) % B
  IN  IF x = <<>> THEN 0 ELSE a & k

-----------------------------------------------------------------------------
(* Comparison by a subtraction that keeps only the borrow: the common part *)
(* first, then what is left of the longer number.                          *)

Borrow(a, d, c) == Bitval(a - d - c < 0)
Common(x, y) == Lesser(Len(x), Len(y))
Compare(x, y) ==
  LET low == FoldLeftDomain(LAMBDA c, j : Borrow(x[j], y[j], c), 0, SubSeq(x, 1, Common(x, y)))
  IN  IF Len(x) >= Len(y)
      THEN FoldLeft(LAMBDA c, a : Borrow(a, 0, c), low, SubSeq(x, Common(x, y) + 1, Len(x)))
      ELSE FoldLeft(LAMBDA c, d : Borrow(0, d, c), low, SubSeq(y, Common(x, y) + 1, Len(y)))

ge(x, y) == 1 - Compare(x, y)
lt(x, y) == Compare(x, y)
le(x, y) == 1 - Compare(y, x)
gt(x, y) == Compare(y, x)

\* The or of the words above the common part, then of the differences.
eq(x, y) ==
  LET n == Common(x, y)
      top == Disjunction(SubSeq(x, n + 1, Len(x)) \o SubSeq(y, n + 1, Len(y)))
  IN  Bitval(FoldLeftDomain(LAMBDA c, j : c | (x[j] ^^ y[j]), top, SubSeq(x, 1, n)) = 0)

-----------------------------------------------------------------------------
(* Tables of rows, read from end to end. *)

\* Word t of the result: xs[t], replaced by xs[t + j * k] when j * k = i * k.
mux16(k, xs, i) ==
  [t \in 1..k |-> FoldLeft(LAMBDA a, j : IF j * k = i * k THEN xs[t + j * k] ELSE a,
                           xs[t], [j \in 1..15 |-> j])]

\* z is cleared, then every row is or'ed in under its mask; with no rows or
\* rows of no words z stays what it was.
copy_row_from_table(z, table, height, width, idx) ==
  IF height = 0 \/ width = 0 THEN z
  ELSE [t \in 1..width |->
          FoldLeft(LAMBDA w, r : w | Mask(r - 1 = idx, table[(r - 1) * width + t]), 0,
                   [r \in 1..height |-> r])]

\* A table in which every word is different from its neighbours.
Sample(n) == [j \in 1..n |-> (j * j + j \div B) % B]
Row(table, width, idx) == SubSeq(table, idx * width + 1, (idx + 1) * width)

-----------------------------------------------------------------------------
Init ==
  /\ answer = Unset
  /\ \/ \E x, y \in Numbers : query = [op |-> "compare", x |-> x, y |-> y]
     \/ \E x \in Numbers : query = [op |-> "count", x |-> x]
     \/ \E x \in Numbers, n \in 0..(W * 4), l \in 0..(W + 1) :
          query = [op |-> "select", x |-> x, n |-> n, l |-> l]
     \/ \E k \in Widths, i \in 0..15 : query = [op |-> "mux16", k |-> k, i |-> i]
     \/ \E k \in Widths, r \in Rows, i \in 0..4 :
          query = [op |-> "row", k |-> k, height |-> r, i |-> i]

Unary  == /\ query.op = "count"
          /\ LET x == query.x
             IN  answer' = <<cld(x), clz(x), ctd(x), ctz(x), bitsize(x), digitsize(x),
                             iszero(x), nonzero(x), even(x), odd(x)>>
Binary == /\ query.op = "compare"
          /\ LET x == query.x y == query.y
             IN  answer' = <<eq(x, y), ge(x, y), gt(x, y), le(x, y), lt(x, y)>>
Select == /\ query.op = "select"
          /\ answer' = <<digit(query.x, query.n \div W), bitfield(query.x, query.n, query.l)>>
Mux16  == /\ query.op = "mux16"
          /\ answer' = mux16(query.k, Sample(16 * query.k), query.i)
RowOf  == /\ query.op = "row"
          /\ answer' = copy_row_from_table([t \in 1..query.k |-> B - 1],
                         Sample(query.height * query.k), query.height, query.k, query.i)

Next == /\ answer = Unset
        /\ UNCHANGED query
        /\ Unary \/ Binary \/ Select \/ Mux16 \/ RowOf

Spec == Init /\ [][Next]_vars

(***************************************************************************)
(* Every scan returns what its interface promises of the number its words  *)
(* make, for operands of different lengths, of no words at all, and for    *)
(* indices at and beyond the end.                                          *)
(***************************************************************************)
AnswersRight ==
  answer # Unset =>
    LET q == query
        x == IF "x" \in DOMAIN q THEN ValueOf(q.x) ELSE 0
    IN  CASE q.op = "count" ->
               LET k == Len(q.x)
               IN  answer = <<bignum_cld(k, x), bignum_clz(k, x), bignum_ctd(k, x),
                              bignum_ctz(k, x), bignum_bitsize(k, x), bignum_digitsize(k, x),
                              bignum_iszero(x), bignum_nonzero(x), bignum_even(x), bignum_odd(x)>>
          [] q.op = "compare" ->
               LET y == ValueOf(q.y)
               IN  answer = <<bignum_eq(x, y), bignum_ge(x, y), bignum_gt(x, y),
                              bignum_le(x, y), bignum_lt(x, y)>>
          [] q.op = "select" ->
               answer = <<bignum_digit(x, q.n \div W), bignum_bitfield(x, q.n, q.l)>>
          [] q.op = "mux16" -> answer = Row(Sample(16 * q.k), q.k, q.i)
          [] q.op = "row" ->
               q.i < q.height => answer = Row(Sample(q.height * q.k), q.k, q.i)
=============================================================================

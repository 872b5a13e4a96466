----------------------------- MODULE ByteCodecs -----------------------------
(***************************************************************************)
(* Numbers to and from bytes: bignum_bigendian_4 and 6 and                 *)
(* bignum_littleendian_4 and 6, each under three names, and                *)
(* bignum_fromlebytes_p521 and bignum_tolebytes_p521, whose ninth word is  *)
(* two bytes long.  Memory is bytes, and a word the bytes that the machine *)
(* keeps it in, lowest first.  Output and input are the same buffer or     *)
(* apart.                                                                  *)
(***************************************************************************)
EXTENDS Integers, SequencesExt

CONSTANTS ByteBase,     \* values of a byte (256)
          Size,         \* bytes of a word (8)
          Questions     \* the calls: op, mem, z, x and n

VARIABLES query, answer

Unset == <<>>

Top == ByteBase ^ (Size - 1)
Indices(n) == [i \in 1..n |-> i - 1]
ByteOf(v, j) == (v \div ByteBase ^ j) % ByteBase
WordAt(mem, p) == MapThenSumSet(LAMBDA j : mem[p + j] * ByteBase ^ j, 0 .. (Size - 1))
StoreBytes(mem, p, v, k) ==
  [a \in DOMAIN mem |-> IF a \in p .. (p + k - 1) THEN ByteOf(v, a - p) ELSE mem[a]]

-----------------------------------------------------------------------------
(* The bytes at the addresses of a sequence, shifted in from the top. *)
Gather(mem, ps) == FoldLeft(LAMBDA a, p : mem[p] * Top + a \div ByteBase, 0, ps)
Up(p)   == [j \in 1..Size |-> p + j - 1]
Down(p) == [j \in 1..Size |-> p + Size - j]

\* Mutant: from the first word to the last, each stored at once.
BigendianOneByOne(mem, z, x, n) ==
  FoldLeft(LAMBDA m, i : StoreBytes(m, z + (n - 1 - i) * Size, Gather(m, Down(x + i * Size)), Size),
           mem, Indices(n))

\* A word and its mirror image are both read before they are stored.
Bigendian(mem, z, x, n) ==
  LET pair(m, i) ==
        LET p == i * Size
            q == (n - 1 - i) * Size
            a == Gather(m, Down(x + p))
            c == Gather(m, Down(x + q))
        IN  StoreBytes(StoreBytes(m, z + q, a, Size), z + p, c, Size)
  IN  FoldLeft(pair, mem, Indices(n \div 2))

Littleendian(mem, z, x, n) ==
  FoldLeft(LAMBDA m, i : StoreBytes(m, z + i * Size, Gather(m, Up(x + i * Size)), Size),
           mem, Indices(n))

\* Of the last word, n - 1, two bytes are read; the second shift is longer.
FromlebytesP521(mem, z, x, n) ==
  LET m == Littleendian(mem, z, x, n - 1)
      p == (n - 1) * Size
      a == m[x + p] * Top
  IN  StoreBytes(m, z + p, m[x + p + 1] * ByteBase + a \div Top, Size)

TolebytesP521(mem, z, x, n) ==
  LET word(m, i) == StoreBytes(m, z + i * Size, WordAt(m, x + i * Size),
                               IF i = n - 1 THEN 2 ELSE Size)
  IN  FoldLeft(word, mem, Indices(n))

-----------------------------------------------------------------------------
(* What the interface promises.  len bytes, at z or x, count as a number;  *)
(* numbers are compared by their words or bytes.                           *)

Bytes(n, op) == IF op \in {"fromlebytes_p521", "tolebytes_p521"} THEN (n - 1) * Size + 2 ELSE n * Size

frombebytes(before, after, z, x, n, len) ==
  \A i \in 0 .. (n - 1) :
    WordAt(after, z + i * Size) =
      MapThenSumSet(LAMBDA j : before[x + len - 1 - i * Size - j] * ByteBase ^ j,
                    0 .. (Size - 1))
fromlebytes(before, after, z, x, n, len) ==
  \A i \in 0 .. (n - 1) :
    WordAt(after, z + i * Size) =
      MapThenSumSet(LAMBDA j : before[x + i * Size + j] * ByteBase ^ j,
                    { j \in 0 .. (Size - 1) : i * Size + j < len })
tobebytes(before, after, z, x, n, len) ==
  \A j \in 0 .. (len - 1) :
    after[z + len - 1 - j] = ByteOf(WordAt(before, x + (j \div Size) * Size), j % Size)
tolebytes(before, after, z, x, n, len) ==
  \A j \in 0 .. (len - 1) :
    after[z + j] = ByteOf(WordAt(before, x + (j \div Size) * Size), j % Size)
bigendian(before, after, z, x, n) ==
  \A i \in 0 .. (n - 1), j \in 0 .. (Size - 1) :
    ByteOf(WordAt(after, z + i * Size), j) =
      ByteOf(WordAt(before, x + (n - 1 - i) * Size), Size - 1 - j)
littleendian(before, after, z, x, n) ==
  \A i \in 0 .. (n - 1) : WordAt(after, z + i * Size) = WordAt(before, x + i * Size)

-----------------------------------------------------------------------------
Init == query \in Questions /\ answer = Unset

Call(op, after) == query.op = op /\ answer' = <<after>>

Next ==
  /\ answer = Unset
  /\ UNCHANGED query
  /\ \/ Call("bigendian", Bigendian(query.mem, query.z, query.x, query.n))
     \/ Call("littleendian", Littleendian(query.mem, query.z, query.x, query.n))
     \/ Call("fromlebytes_p521", FromlebytesP521(query.mem, query.z, query.x, query.n))
     \/ Call("tolebytes_p521", TolebytesP521(query.mem, query.z, query.x, query.n))

(***************************************************************************)
(* Every name a function has is right about it, also when it turns a       *)
(* buffer around in place, word by word: no byte is read after the word    *)
(* stored over it, and the bytes behind the output stay.                   *)
(***************************************************************************)
BytesRight ==
  answer # Unset =>
    LET q       == query
        after   == answer[1]
        len     == Bytes(q.n, q.op)
        written == IF q.op = "fromlebytes_p521" THEN q.n * Size ELSE len
    IN  /\ CASE q.op = "bigendian" ->
                  /\ frombebytes(q.mem, after, q.z, q.x, q.n, len)
                  /\ tobebytes(q.mem, after, q.z, q.x, q.n, len)
                  /\ bigendian(q.mem, after, q.z, q.x, q.n)
             [] q.op = "littleendian" ->
                  /\ fromlebytes(q.mem, after, q.z, q.x, q.n, len)
                  /\ tolebytes(q.mem, after, q.z, q.x, q.n, len)
                  /\ littleendian(q.mem, after, q.z, q.x, q.n)
             [] q.op = "fromlebytes_p521" -> fromlebytes(q.mem, after, q.z, q.x, q.n, len)
             [] q.op = "tolebytes_p521"   -> tolebytes(q.mem, after, q.z, q.x, q.n, len)
        /\ \A a \in DOMAIN after : a \notin q.z .. (q.z + written - 1) => after[a] = q.mem[a]
=============================================================================

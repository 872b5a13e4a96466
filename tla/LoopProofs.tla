------------------------------- MODULE LoopProofs -------------------------------
(***************************************************************************)
(* Proofs about the loops over words, for every base, memory and operand   *)
(* length: bignum_add and bignum_sub (BignumAddSub) and the nineteen       *)
(* functions of DigitLoops.                                                *)
(*                                                                         *)
(* For BignumAddSub the inductive invariant is IInv: the counters account  *)
(* for the words, z is the only thing written and only below i, and the    *)
(* words below i and the pending carry balance the inputs.  That last      *)
(* conjunct survives a chain instruction because the input words at i are  *)
(* still the caller's, which is what the second conjunct and the aliasing  *)
(* rule of Calls give.  For DigitLoops it is LoopInv: an invariant of the  *)
(* same kind for each function and each of its passes.                     *)
(***************************************************************************)
EXTENDS BignumAddSub, DigitLoops, ArithmeticFacts

-----------------------------------------------------------------------------
(* Numbers in memory: facts about module Words.                             *)

\* The powers of the base, the weights of the words of a buffer.
LEMMA PowFacts ==
  Pow \in [Nat -> Nat] /\ Pow[0] = 1 /\ \A k \in Nat : Pow[k + 1] = B * Pow[k]
<1>1. B \in Nat /\ 1 \in Nat
  BY BaseAssumption
<1>2. \E f : f = [t \in Nat |-> IF t = 0 THEN 1 ELSE B * f[t - 1]]
  BY <1>1, GeometricExists
<1>3. IsGeometric(Pow, 1, B)
  BY <1>2 DEF Pow, IsGeometric
<1>4. QED
  BY <1>1, <1>3, GeometricFacts

\* A word read from memory is a digit (bigdigit is below 2 EXP 64).
LEMMA DigitAtType ==
  ASSUME NEW mm \in [Addr -> Digit], NEW t \in Int
  PROVE  DigitAt(mm, t) \in Digit
BY BaseAssumption DEF DigitAt, Digit

\* What the words of a buffer add to its value.
Terms(mm, ptr) == [k \in Nat |-> DigitAt(mm, ptr + k) * Pow[k]]

\* The value of a buffer is the sum of what its words add.
LEMMA ValueIsSum ==
  ASSUME NEW mm \in [Addr -> Digit], NEW ptr \in Nat
  PROVE  /\ Terms(mm, ptr) \in [Nat -> Nat]
         /\ \E V : /\ IsSum(V, Terms(mm, ptr))
                   /\ \A k \in Nat : Value(mm, ptr, k) = V[k]
<1> DEFINE t == Terms(mm, ptr)
           body(v) == [k \in Nat |-> IF k = 0 THEN 0
                                     ELSE v[k - 1] + DigitAt(mm, ptr + k - 1) * Pow[k - 1]]
           V == CHOOSE v : v = body(v)
<1>1. t \in [Nat -> Nat]
  <2>1. ASSUME NEW k \in Nat PROVE DigitAt(mm, ptr + k) * Pow[k] \in Nat
    <3>1. DigitAt(mm, ptr + k) \in Nat
      BY DigitAtType, BaseAssumption DEF Digit
    <3>2. QED
      BY <3>1, PowFacts
  <2>2. QED
    BY <2>1 DEF Terms
<1>2. ASSUME NEW v PROVE body(v) = [k \in Nat |-> IF k = 0 THEN 0 ELSE v[k - 1] + t[k - 1]]
  <2>1. ASSUME NEW k \in Nat, k # 0
        PROVE  DigitAt(mm, ptr + k - 1) * Pow[k - 1] = t[k - 1]
    <3>1. k - 1 \in Nat /\ ptr + k - 1 = ptr + (k - 1)
      BY <2>1
    <3>2. QED
      BY <3>1 DEF Terms
  <2> HIDE DEF t
  <2>2. QED
    BY <2>1
<1>3. \E f : f = [k \in Nat |-> IF k = 0 THEN 0 ELSE f[k - 1] + t[k - 1]]
  <2> HIDE DEF t
  <2>1. QED
    BY <1>1, SumExists
<1>4. V = body(V)
  <2> HIDE DEF t, body
  <2>1. \E f : f = body(f)
    BY <1>2, <1>3
  <2>2. QED
    BY <2>1
<1>5. ASSUME NEW k \in Nat PROVE Value(mm, ptr, k) = V[k]
  BY DEF Value
<1>6. IsSum(V, t)
  <2> HIDE DEF t, body, V
  <2>1. QED
    BY <1>2, <1>4 DEF IsSum
<1>7. QED
  <2> HIDE DEF t, V
  <2>1. QED
    BY <1>1, <1>5, <1>6 DEF t

\* The recursion that defines the value of a buffer: no words are worth 0, and
\* word k of the buffer adds its digit with weight Pow[k].
LEMMA ValueFacts ==
  ASSUME NEW mm \in [Addr -> Digit], NEW ptr \in Nat
  PROVE  /\ Value(mm, ptr, 0) = 0
         /\ \A k \in Nat : /\ Value(mm, ptr, k) \in Nat
                           /\ Value(mm, ptr, k + 1) =
                                Value(mm, ptr, k) + DigitAt(mm, ptr + k) * Pow[k]
<1>1. PICK V : IsSum(V, Terms(mm, ptr)) /\ \A k \in Nat : Value(mm, ptr, k) = V[k]
  BY ValueIsSum
<1>2. V[0] = 0 /\ \A k \in Nat : V[k] \in Nat /\ V[k + 1] = V[k] + Terms(mm, ptr)[k]
  <2> DEFINE t == Terms(mm, ptr)
  <2>1. t \in [Nat -> Nat] /\ IsSum(V, t)
    BY <1>1, ValueIsSum
  <2> HIDE DEF t
  <2>2. V[0] = 0 /\ \A k \in Nat : V[k] \in Nat /\ V[k + 1] = V[k] + t[k]
    BY <2>1, SumFacts
  <2>3. QED
    BY <2>2 DEF t
<1>3. ASSUME NEW k \in Nat PROVE Terms(mm, ptr)[k] = DigitAt(mm, ptr + k) * Pow[k]
  BY DEF Terms
<1>4. QED
  BY <1>1, <1>2, <1>3

\* The value of a buffer depends only on its words: a loop that writes
\* elsewhere leaves it alone.
LEMMA ValueCongruence ==
  ASSUME NEW mem1 \in [Addr -> Digit], NEW mem2 \in [Addr -> Digit],
         NEW ptr \in Nat, NEW len \in Nat,
         \A k \in 0 .. (len - 1) : DigitAt(mem1, ptr + k) = DigitAt(mem2, ptr + k)
  PROVE  Value(mem1, ptr, len) = Value(mem2, ptr, len)
<1>1. ASSUME NEW k \in 0 .. (len - 1) PROVE Terms(mem1, ptr)[k] = Terms(mem2, ptr)[k]
  BY DEF Terms
<1>2. PICK V : IsSum(V, Terms(mem1, ptr)) /\ \A k \in Nat : Value(mem1, ptr, k) = V[k]
  BY ValueIsSum
<1>3. PICK U : IsSum(U, Terms(mem2, ptr)) /\ \A k \in Nat : Value(mem2, ptr, k) = U[k]
  BY ValueIsSum
<1>4. V[len] = U[len]
  <2> DEFINE s == Terms(mem1, ptr)
             t == Terms(mem2, ptr)
  <2>1. s \in [Nat -> Nat] /\ IsSum(V, s) /\ t \in [Nat -> Nat] /\ IsSum(U, t)
    BY <1>2, <1>3, ValueIsSum
  <2>2. \A k \in 0 .. (len - 1) : s[k] = t[k]
    BY <1>1
  <2> HIDE DEF s, t
  <2>3. QED
    BY <2>1, <2>2, SumCongruence
<1>5. QED
  BY <1>2, <1>3, <1>4

-----------------------------------------------------------------------------
(* The calls and the columns.                                               *)

\* The facts about a call that the proofs use.
LEMMA CallFacts ==
  ASSUME NEW c \in Calls
  PROVE  /\ c.op \in {"add", "sub"}
         /\ c.p \in Nat /\ c.m \in Nat /\ c.n \in Nat
         /\ c.z \in Nat /\ c.x \in Nat /\ c.y \in Nat
         /\ XLen(c) \in Nat /\ XLen(c) <= c.p /\ XLen(c) <= c.m
         /\ YLen(c) \in Nat /\ YLen(c) <= c.p /\ YLen(c) <= c.n
         /\ c.z + c.p <= MemSize /\ c.x + c.m <= MemSize /\ c.y + c.n <= MemSize
<1>1. c \in [op : {"add", "sub"}, p : Lengths, z : Addr, m : Lengths, x : Addr, n : Lengths, y : Addr]
  BY DEF Calls
<1>2. /\ c.op \in {"add", "sub"}
      /\ c.p \in Lengths /\ c.m \in Lengths /\ c.n \in Lengths
      /\ c.z \in Addr /\ c.x \in Addr /\ c.y \in Addr
  BY <1>1
<1>3. /\ c.p \in Nat /\ c.m \in Nat /\ c.n \in Nat
      /\ c.z \in Nat /\ c.x \in Nat /\ c.y \in Nat
  BY <1>2, MaxLenAssumption, MemSizeAssumption DEF Lengths, Addr
<1>4. c.z + c.p <= MemSize /\ c.x + c.m <= MemSize /\ c.y + c.n <= MemSize
  BY DEF Calls, InMemory
<1>5. QED
  BY <1>2, <1>3, <1>4 DEF XLen, YLen, Lesser

\* The k'th word of an input adds its digit, or 0 past the input's end.
LEMMA InputStep ==
  ASSUME NEW before \in [Addr -> Digit], NEW ptr \in Nat, NEW len \in Nat,
         ptr + len <= MemSize, NEW k \in Nat, NEW u \in Digit,
         u = IF k < len THEN before[ptr + k] ELSE 0
  PROVE  /\ Value(before, ptr, Lesser(k, len)) \in Nat
         /\ Value(before, ptr, Lesser(k + 1, len)) =
              Value(before, ptr, Lesser(k, len)) + u * Pow[k]
<1>1. CASE k < len
  <2>1. Lesser(k + 1, len) = k + 1 /\ Lesser(k, len) = k
    BY <1>1 DEF Lesser
  <2>2. ptr + k \in Addr
    BY <1>1, MemSizeAssumption DEF Addr
  <2>3. DigitAt(before, ptr + k) = u
    BY <1>1, <2>2 DEF DigitAt
  <2>4. QED
    BY <2>1, <2>3, ValueFacts
<1>2. CASE ~(k < len)
  <2>1. Lesser(k + 1, len) = len /\ Lesser(k, len) = len
    BY <1>2 DEF Lesser
  <2>2. u * Pow[k] = 0
    BY <1>2, PowFacts
  <2>3. Value(before, ptr, len) \in Nat
    BY ValueFacts
  <2>4. QED
    BY <2>1, <2>2, <2>3
<1>3. QED
  BY <1>1, <1>2

\* Storing word k of the output adds its digit and keeps the words below.
LEMMA OutputStep ==
  ASSUME NEW after \in [Addr -> Digit], NEW ptr \in Nat, NEW k \in Nat,
         ptr + k < MemSize, NEW w \in Digit
  PROVE  /\ Value(after, ptr, k) \in Nat
         /\ Value(Store(after, ptr + k, w), ptr, k + 1) =
              Value(after, ptr, k) + w * Pow[k]
<1> DEFINE new == Store(after, ptr + k, w)
<1>1. new \in [Addr -> Digit]
  BY DEF Store
<1>2. ptr + k \in Addr
  BY MemSizeAssumption DEF Addr
<1>3. DigitAt(new, ptr + k) = w
  BY <1>2 DEF DigitAt, Store
<1>4. ASSUME NEW j \in 0 .. (k - 1)
      PROVE  DigitAt(new, ptr + j) = DigitAt(after, ptr + j)
  BY DEF DigitAt, Store
<1> HIDE DEF new
<1>5. Value(new, ptr, k) = Value(after, ptr, k)
  BY <1>1, <1>4, ValueCongruence
<1>6. Value(new, ptr, k + 1) = Value(new, ptr, k) + w * Pow[k]
  BY <1>1, <1>3, ValueFacts
<1>7. Value(after, ptr, k) \in Nat
  BY ValueFacts
<1>8. QED
  BY <1>5, <1>6, <1>7 DEF new

\* The equation of one column of the sum (with digits l, r, s, carry in c and
\* carry out o), and the same equation with both sides weighed by Weight.
Column(l, o, r, s, c) == l + o * B = r + s + c
Weighed(Weight, l, o, r, s, c) == l * Weight + o * (B * Weight) = r * Weight + s * Weight + c * Weight

\* The equation of a column may be weighed with the column's place value.
LEMMA Weighing ==
  ASSUME NEW Weight \in Int, NEW l \in Int, NEW o \in Int, NEW r \in Int, NEW s \in Int,
         NEW c \in Int, Column(l, o, r, s, c)
  PROVE  Weighed(Weight, l, o, r, s, c)
<1>0. B \in Int
  BY BaseAssumption
<1>1. (l + o * B) * Weight = (r + s + c) * Weight
  BY DEF Column
<1>2. (l + o * B) * Weight = l * Weight + o * (B * Weight)
  BY <1>0
<1>3. (r + s + c) * Weight = r * Weight + s * Weight + c * Weight
  OBVIOUS
<1>4. QED
  BY <1>1, <1>2, <1>3 DEF Weighed

\* u and v are the k'th words of the inputs (0 past their ends), and w is the
\* digit and out the carry that column k of the sum or difference calls for.
GoodColumn(c, before, k, u, v, w, carry, out) ==
  /\ u = IF k < XLen(c) THEN before[c.x + k] ELSE 0
  /\ v = IF k < YLen(c) THEN before[c.y + k] ELSE 0
  /\ IF c.op = "add" THEN w + out * B = u + v + carry
                     ELSE w + v + carry = u + out * B

\* Both together: one column of the sum keeps the balance.
LEMMA BalanceStep ==
  ASSUME NEW c \in Calls, NEW before \in [Addr -> Digit], NEW after \in [Addr -> Digit],
         NEW k \in Nat, k < c.p, NEW u \in Digit, NEW v \in Digit,
         NEW w \in Digit, NEW carry \in {0, 1}, NEW out \in {0, 1},
         Balance(c, before, after, k, carry),
         GoodColumn(c, before, k, u, v, w, carry, out)
  PROVE  Balance(c, before, Store(after, c.z + k, w), k + 1, out)
<1> DEFINE new == Store(after, c.z + k, w)
           X  == Value(before, c.x, Lesser(k, XLen(c)))
           X1 == Value(before, c.x, Lesser(k + 1, XLen(c)))
           Y  == Value(before, c.y, Lesser(k, YLen(c)))
           Y1 == Value(before, c.y, Lesser(k + 1, YLen(c)))
           Z  == Value(after, c.z, k)
           Z1 == Value(new, c.z, k + 1)
<1>0. /\ c.z \in Nat /\ c.x \in Nat /\ c.y \in Nat
      /\ XLen(c) \in Nat /\ c.x + XLen(c) <= MemSize
      /\ YLen(c) \in Nat /\ c.y + YLen(c) <= MemSize
      /\ c.z + k < MemSize
  <2>1. c.x + XLen(c) <= c.x + c.m /\ c.y + YLen(c) <= c.y + c.n
    BY CallFacts
  <2>2. c.p \in Nat /\ c.z + k < c.z + c.p
    BY CallFacts
  <2>3. QED
    BY <2>1, <2>2, CallFacts, MemSizeAssumption
<1>1. X \in Int /\ X1 = X + u * Pow[k]
  <2> DEFINE ptr == c.x
             len == XLen(c)
  <2>1. ptr \in Nat /\ len \in Nat /\ ptr + len <= MemSize
    BY <1>0
  <2>2. u = IF k < len THEN before[ptr + k] ELSE 0
    BY DEF GoodColumn
  <2> HIDE DEF ptr, len
  <2>3. /\ Value(before, ptr, Lesser(k, len)) \in Nat
        /\ Value(before, ptr, Lesser(k + 1, len))
              = Value(before, ptr, Lesser(k, len)) + u * Pow[k]
    BY <2>1, <2>2, InputStep
  <2>4. QED
    BY <2>3 DEF ptr, len
<1>2. Y \in Int /\ Y1 = Y + v * Pow[k]
  <2> DEFINE ptr == c.y
             len == YLen(c)
  <2>1. ptr \in Nat /\ len \in Nat /\ ptr + len <= MemSize
    BY <1>0
  <2>2. v = IF k < len THEN before[ptr + k] ELSE 0
    BY DEF GoodColumn
  <2> HIDE DEF ptr, len
  <2>3. /\ Value(before, ptr, Lesser(k, len)) \in Nat
        /\ Value(before, ptr, Lesser(k + 1, len))
              = Value(before, ptr, Lesser(k, len)) + v * Pow[k]
    BY <2>1, <2>2, InputStep
  <2>4. QED
    BY <2>3 DEF ptr, len
<1>3. Z \in Int /\ Z1 = Z + w * Pow[k]
  <2> DEFINE ptr == c.z
  <2>1. ptr \in Nat /\ ptr + k < MemSize
    BY <1>0
  <2> HIDE DEF ptr
  <2>2. /\ Value(after, ptr, k) \in Nat
        /\ Value(Store(after, ptr + k, w), ptr, k + 1)
              = Value(after, ptr, k) + w * Pow[k]
    BY <2>1, OutputStep
  <2>3. QED
    BY <2>2 DEF ptr
<1>4. Pow[k + 1] = B * Pow[k] /\ Pow[k] \in Int
  BY PowFacts
<1> DEFINE Weight == Pow[k]
<1>6. u \in Int /\ v \in Int /\ w \in Int /\ carry \in Int /\ out \in Int
  BY DEF Digit
<1>5. Weight \in Int
  BY <1>4
<1> HIDE DEF new, X, X1, Y, Y1, Z, Z1, Weight
<1>7. B \in Int /\ w * Weight \in Int /\ u * Weight \in Int /\ v * Weight \in Int
      /\ carry * Weight \in Int /\ out * (B * Weight) \in Int
  BY <1>5, <1>6, BaseAssumption
<1> DEFINE wW == w * Weight
           uW == u * Weight
           vW == v * Weight
           cW == carry * Weight
           oW == out * (B * Weight)
<1>8. CASE c.op = "add"
  <2>1. Z + cW = X + Y
    BY <1>8 DEF Balance, X, Y, Z, Weight
  <2>2. Column(w, out, u, v, carry)
    BY <1>8 DEF Column, GoodColumn
  <2>3. Weighed(Weight, w, out, u, v, carry)
    BY <2>2, <1>5, <1>6, Weighing
  <2>5. wW + oW = uW + vW + cW
    BY <2>3 DEF Weighed
  <2>6. X1 = X + uW /\ Y1 = Y + vW /\ Z1 = Z + wW /\ out * Pow[k + 1] = oW
    BY <1>1, <1>2, <1>3, <1>4 DEF Weight
  <2>7. /\ wW \in Int /\ oW \in Int /\ uW \in Int /\ vW \in Int /\ cW \in Int
        /\ X \in Int /\ Y \in Int /\ Z \in Int
    BY <1>7, <1>1, <1>2, <1>3
  <2> HIDE DEF wW, uW, vW, cW, oW
  <2>8. Z1 + oW = X1 + Y1
    <3>1. Z + wW + oW = X + uW + Y + vW
      BY <2>1, <2>5, <2>7
    <3>2. QED
      BY <3>1, <2>6, <2>7
  <2>9. QED
    BY <2>6, <2>8, <1>8 DEF Balance, X1, Y1, Z1, new
<1>9. CASE c.op # "add"
  <2>1. Z + Y = X + cW
    BY <1>9 DEF Balance, X, Y, Z, Weight
  <2>2. Column(u, out, w, v, carry)
    <3>1. w + v + carry = u + out * B
      BY <1>9 DEF GoodColumn
    <3>2. QED
      BY <3>1 DEF Column
  <2>3. Weighed(Weight, u, out, w, v, carry)
    BY <2>2, <1>5, <1>6, Weighing
  <2>5. uW + oW = wW + vW + cW
    BY <2>3 DEF Weighed
  <2>6. X1 = X + uW /\ Y1 = Y + vW /\ Z1 = Z + wW /\ out * Pow[k + 1] = oW
    BY <1>1, <1>2, <1>3, <1>4 DEF Weight
  <2>7. /\ wW \in Int /\ oW \in Int /\ uW \in Int /\ vW \in Int /\ cW \in Int
        /\ X \in Int /\ Y \in Int /\ Z \in Int
    BY <1>7, <1>1, <1>2, <1>3
  <2> HIDE DEF wW, uW, vW, cW, oW
  <2>8. Z1 + Y1 = X1 + oW
    <3>1. Z + wW + Y + vW = X + uW + oW
      BY <2>1, <2>5, <2>7
    <3>2. Z1 + Y1 = Z + wW + Y + vW /\ X1 + oW = X + uW + oW
      BY <2>6, <2>7
    <3>3. QED
      BY <3>1, <3>2
  <2>9. QED
    BY <2>6, <2>8, <1>9 DEF Balance, X1, Y1, Z1, new
<1>10. QED
  BY <1>8, <1>9

-----------------------------------------------------------------------------
(* The inductive invariant.                                                 *)

IInv == TypeOK /\ Registers /\ WrittenSoFar /\ ChainInv

\* What is below the i'th word of z is all that has changed, and an input is
\* z or disjoint from it: the unread words of the inputs are the caller's.
LEMMA UnreadWords ==
  ASSUME TypeOK, WrittenSoFar
  PROVE  UnreadIntact
<1>1. args \in Calls /\ i \in Nat
  BY DEF TypeOK
<1>2. ASSUME NEW ptr \in Nat, NEW len \in Nat, NEW act \in Nat,
             ptr + len <= MemSize, act <= len, act <= args.p,
             SameOrDisjoint(ptr, len, args.z, args.p),
             NEW j \in i .. (act - 1)
      PROVE  mem[ptr + j] = mem0[ptr + j]
  <2>1. args.z \in Nat /\ args.p \in Nat
    BY <1>1, CallFacts
  <2>2. j \in Nat /\ j < act /\ i <= j /\ ptr + j \in Addr
    BY <1>1, <1>2, MemSizeAssumption DEF Addr
  <2>3. ptr + j \notin Region(args.z, i)
    <3>1. CASE ptr = args.z
      BY <1>1, <2>1, <2>2, <3>1 DEF Region
    <3>2. CASE NonOverlapping(ptr, len, args.z, args.p)
      <4>1. ptr + j \in Region(ptr, len)
        BY <1>2, <2>2 DEF Region
      <4>2. ptr + j \notin Region(args.z, args.p)
        BY <3>2, <4>1 DEF NonOverlapping
      <4>3. i <= args.p
        BY <1>1, <1>2, <2>1, <2>2
      <4>4. QED
        BY <1>1, <2>1, <2>2, <4>2, <4>3 DEF Region
    <3>3. QED
      BY <1>2, <3>1, <3>2 DEF SameOrDisjoint
  <2>4. QED
    BY <2>2, <2>3 DEF WrittenSoFar, OnlyOutput
<1>3. ASSUME NEW j \in i .. (XLen(args) - 1)
      PROVE  mem[args.x + j] = mem0[args.x + j]
  <2>1. SameOrDisjoint(args.x, args.m, args.z, args.p)
    BY <1>1 DEF Calls
  <2>2. QED
    BY <1>1, <1>2, <2>1, CallFacts
<1>4. ASSUME NEW j \in i .. (YLen(args) - 1)
      PROVE  mem[args.y + j] = mem0[args.y + j]
  <2>1. SameOrDisjoint(args.y, args.n, args.z, args.p)
    BY <1>1 DEF Calls
  <2>2. QED
    BY <1>1, <1>2, <2>1, CallFacts
<1>5. QED
  BY <1>3, <1>4 DEF UnreadIntact

\* One store at z[i] that is the right digit of its column.
LEMMA StoreStep ==
  ASSUME TypeOK, WrittenSoFar, i < args.p,
         NEW u \in Digit, NEW v \in Digit, NEW w \in Digit,
         NEW carry \in {0, 1}, NEW out \in {0, 1},
         Balance(args, mem0, mem, i, carry),
         GoodColumn(args, mem0, i, u, v, w, carry, out)
  PROVE  /\ Store(mem, args.z + i, w) \in [Addr -> Digit]
         /\ OnlyOutput(args, mem0, Store(mem, args.z + i, w), i + 1)
         /\ Balance(args, mem0, Store(mem, args.z + i, w), i + 1, out)
<1>1. args \in Calls /\ i \in Nat /\ mem \in [Addr -> Digit] /\ mem0 \in [Addr -> Digit]
  BY DEF TypeOK
<1>2. Store(mem, args.z + i, w) \in [Addr -> Digit]
  BY <1>1 DEF Store
<1>3. OnlyOutput(args, mem0, Store(mem, args.z + i, w), i + 1)
  <2>1. args.z \in Nat
    BY <1>1, CallFacts
  <2>2. ASSUME NEW q \in Addr, q \notin Region(args.z, i + 1)
        PROVE  Store(mem, args.z + i, w)[q] = mem0[q]
    <3>1. q # args.z + i /\ q \notin Region(args.z, i)
      BY <1>1, <2>1, <2>2 DEF Region, Addr
    <3>2. mem[q] = mem0[q]
      BY <3>1 DEF WrittenSoFar, OnlyOutput
    <3>3. QED
      BY <1>1, <3>1, <3>2 DEF Store
  <2>3. QED
    BY <2>2 DEF OnlyOutput
<1>4. Balance(args, mem0, Store(mem, args.z + i, w), i + 1, out)
  BY <1>1, BalanceStep
<1>5. QED
  BY <1>2, <1>3, <1>4

\* The chain instruction computes the right digit and carry of a column.
LEMMA ChainStep ==
  ASSUME TypeOK, WrittenSoFar, i < args.p,
         NEW u \in Digit, u = IF i < XLen(args) THEN mem0[args.x + i] ELSE 0,
         NEW v \in Digit, v = IF i < YLen(args) THEN mem0[args.y + i] ELSE 0,
         Balance(args, mem0, mem, i, IF args.op = "add" THEN cf ELSE 1 - cf),
         Chain(u, v)
  PROVE  /\ mem' \in [Addr -> Digit] /\ i' = i + 1 /\ cf' \in {0, 1}
         /\ OnlyOutput(args, mem0, mem', i')
         /\ Balance(args, mem0, mem', i', IF args.op = "add" THEN cf' ELSE 1 - cf')
<1> DEFINE s == ChainSum(u, v)
           w == SumDigit(s)
           c1 == CarryOut(s)
           carry == IF args.op = "add" THEN cf ELSE 1 - cf
           out == IF args.op = "add" THEN c1 ELSE 1 - c1
<1>1. cf \in {0, 1} /\ args \in Calls /\ i \in Nat
  BY DEF TypeOK
<1>2. u \in 0 .. (B - 1) /\ v \in 0 .. (B - 1) /\ B \in Nat
  BY BaseAssumption DEF Digit
<1>3. s \in 0 .. (2 * B - 1)
  BY <1>1, <1>2 DEF ChainSum, Adcs, Sbcs
<1>4. w \in Digit /\ c1 \in {0, 1} /\ w + c1 * B = s
  <2> HIDE DEF s
  <2>1. QED
    BY <1>2, <1>3 DEF SumDigit, CarryOut, Digit
<1>5. carry \in {0, 1} /\ out \in {0, 1}
  <2> HIDE DEF c1
  <2>1. QED
    BY <1>1, <1>4
<1>6. GoodColumn(args, mem0, i, u, v, w, carry, out)
  <2> HIDE DEF w, c1
  <2>1. CASE args.op = "add"
    BY <1>4, <2>1 DEF ChainSum, Adcs, GoodColumn
  <2>2. CASE args.op # "add"
    <3>1. w + c1 * B = u + (B - 1 - v) + cf
      BY <1>4, <2>2 DEF ChainSum, Sbcs
    <3>2. ASSUME c1 = 0 PROVE w + v + carry = u + out * B
      BY <1>1, <1>2, <1>4, <2>2, <3>1, <3>2 DEF Digit
    <3>3. ASSUME c1 = 1 PROVE w + v + carry = u + out * B
      BY <1>1, <1>2, <1>4, <2>2, <3>1, <3>3 DEF Digit
    <3>4. w + v + carry = u + out * B
      BY <1>4, <3>2, <3>3
    <3>5. QED
      BY <2>2, <3>4 DEF GoodColumn
  <2>3. QED
    BY <2>1, <2>2
<1>7. mem' = Store(mem, args.z + i, w) /\ cf' = c1 /\ i' = i + 1
  BY DEF Chain
<1>8. Balance(args, mem0, mem, i, carry)
  OBVIOUS
<1>9. out = IF args.op = "add" THEN cf' ELSE 1 - cf'
  BY <1>7
<1> HIDE DEF s, w, c1, carry, out
<1>10. /\ Store(mem, args.z + i, w) \in [Addr -> Digit]
       /\ OnlyOutput(args, mem0, Store(mem, args.z + i, w), i + 1)
       /\ Balance(args, mem0, Store(mem, args.z + i, w), i + 1, out)
  BY <1>4, <1>5, <1>6, <1>8, StoreStep
<1>11. QED
  BY <1>4, <1>7, <1>9, <1>10

\* Before the first column nothing is pending.
LEMMA BalanceZero ==
  ASSUME NEW c \in Calls, NEW before \in [Addr -> Digit], NEW after \in [Addr -> Digit]
  PROVE  Balance(c, before, after, 0, 0)
<1>1. Lesser(0, XLen(c)) = 0 /\ Lesser(0, YLen(c)) = 0
  BY CallFacts DEF Lesser
<1>2. /\ Value(before, c.x, 0) = 0 /\ Value(before, c.y, 0) = 0
      /\ Value(after, c.z, 0) = 0
  BY CallFacts, ValueFacts
<1>3. 0 * Pow[0] = 0
  BY PowFacts
<1>4. QED
  BY <1>1, <1>2, <1>3 DEF Balance

LoopLabels == {"xmain", "xtop", "ymain", "ytop"}

\* What every pass of a chain loop does to the invariant.
LEMMA LoopStep ==
  ASSUME IInv, pc \in LoopLabels, i < args.p,
         NEW u \in Digit, u = IF i < XLen(args) THEN mem0[args.x + i] ELSE 0,
         NEW v \in Digit, v = IF i < YLen(args) THEN mem0[args.y + i] ELSE 0,
         Chain(u, v), args' = args, mem0' = mem0, a' = a,
         pc' \in LoopLabels \cup {"tails", "return"}
  PROVE  /\ mem' \in [Addr -> Digit] /\ i' = i + 1 /\ cf' \in {0, 1}
         /\ WrittenSoFar' /\ ChainInv'
<1> USE DEF LoopLabels
<1>1. Balance(args, mem0, mem, i, IF args.op = "add" THEN cf ELSE 1 - cf)
  BY DEF IInv, ChainInv, Pending
<1>2. /\ mem' \in [Addr -> Digit] /\ i' = i + 1 /\ cf' \in {0, 1}
      /\ OnlyOutput(args, mem0, mem', i')
      /\ Balance(args, mem0, mem', i', IF args.op = "add" THEN cf' ELSE 1 - cf')
  BY <1>1, ChainStep DEF IInv
<1>3. ChainInv'
  BY <1>2 DEF ChainInv, Pending
<1>4. WrittenSoFar'
  BY <1>2 DEF WrittenSoFar
<1>5. QED
  BY <1>2, <1>3, <1>4

\* The words the chain loops load are the caller's, at the labels that load
\* them.
LEMMA LoadedWords ==
  ASSUME IInv
  PROVE  /\ pc \in {"xmain", "xtop", "ymain"} =>
              /\ i < XLen(args) /\ mem[args.x + i] = mem0[args.x + i]
              /\ mem0[args.x + i] \in Digit
         /\ pc \in {"xmain", "ymain", "ytop"} =>
              /\ i < YLen(args) /\ mem[args.y + i] = mem0[args.y + i]
              /\ mem0[args.y + i] \in Digit
<1>1. TypeOK /\ Registers /\ UnreadIntact /\ args \in Calls
  BY UnreadWords DEF IInv, TypeOK
<1>2. i \in Nat /\ m \in Nat /\ n \in Nat /\ mem0 \in [Addr -> Digit]
  BY <1>1 DEF TypeOK
<1>3. XLen(args) \in Nat /\ YLen(args) \in Nat
  BY <1>1, CallFacts
<1>4. pc \in {"xmain", "xtop", "ymain"} => i < XLen(args)
  BY <1>1, <1>2, <1>3 DEF Registers
<1>5. pc \in {"xmain", "ymain", "ytop"} => i < YLen(args)
  BY <1>1, <1>2, <1>3 DEF Registers
<1>6. i < XLen(args) => mem[args.x + i] = mem0[args.x + i] /\ mem0[args.x + i] \in Digit
  <2>1. SUFFICES ASSUME i < XLen(args)
                 PROVE  mem[args.x + i] = mem0[args.x + i] /\ args.x + i \in Addr
    BY <1>2
  <2>2. args.x + i \in Addr
    BY <1>1, <1>2, <1>3, <2>1, CallFacts, MemSizeAssumption DEF Addr
  <2>3. QED
    BY <1>1, <1>2, <1>3, <2>1, <2>2 DEF UnreadIntact
<1>7. i < YLen(args) => mem[args.y + i] = mem0[args.y + i] /\ mem0[args.y + i] \in Digit
  <2>1. SUFFICES ASSUME i < YLen(args)
                 PROVE  mem[args.y + i] = mem0[args.y + i] /\ args.y + i \in Addr
    BY <1>2
  <2>2. args.y + i \in Addr
    BY <1>1, <1>2, <1>3, <2>1, CallFacts, MemSizeAssumption DEF Addr
  <2>3. QED
    BY <1>1, <1>2, <1>3, <2>1, <2>2 DEF UnreadIntact
<1>8. QED
  BY <1>4, <1>5, <1>6, <1>7

\* The invariant holds at the call.
LEMMA InitInv == Init => IInv
<1> SUFFICES ASSUME Init PROVE IInv
  OBVIOUS
<1>2. TypeOK
  <2>1. args \in Calls /\ p = args.p /\ m = args.m /\ n = args.n
    BY DEF Init
  <2>2. p \in Nat /\ m \in Nat /\ n \in Nat
    BY <2>1, CallFacts
  <2>3. 0 \in Digit
    BY BaseAssumption DEF Digit
  <2>4. QED
    BY <2>1, <2>2, <2>3 DEF Init, TypeOK, Labels
<1>3. pc = "entry" /\ mem = mem0 /\ i = 0 /\ p = args.p /\ m = args.m /\ n = args.n
  BY DEF Init
<1>4. Registers
  BY <1>3 DEF Registers
<1>5. ChainInv
  BY <1>3 DEF ChainInv
<1>6. WrittenSoFar
  BY <1>3 DEF WrittenSoFar, OnlyOutput
<1>7. QED
  BY <1>2, <1>4, <1>5, <1>6 DEF IInv

\* Every action preserves the invariant.
LEMMA NextInv == IInv /\ [Next]_vars => IInv'
<1> SUFFICES ASSUME IInv, [Next]_vars PROVE IInv'
  OBVIOUS
<1> DEFINE X == XLen(args)
           Y == YLen(args)
<1>1. /\ TypeOK /\ Registers /\ WrittenSoFar /\ ChainInv
      /\ args \in Calls
      /\ mem \in [Addr -> Digit] /\ mem0 \in [Addr -> Digit]
      /\ p \in Nat /\ m \in Nat /\ n \in Nat /\ i \in Nat
      /\ a \in Digit /\ cf \in {0, 1} /\ ret \in {0, 1}
  BY DEF IInv, TypeOK
<1>2. /\ args.p \in Nat /\ args.m \in Nat /\ args.n \in Nat
      /\ X \in Nat /\ Y \in Nat /\ X <= args.p /\ Y <= args.p
  BY <1>1, CallFacts
<1>3. 0 \in Digit /\ 1 \in Digit /\ B - 1 \in Digit
  BY BaseAssumption DEF Digit
<1>4. X = Lesser(args.p, args.m) /\ Y = Lesser(args.p, args.n)
  BY <1>2 DEF XLen, YLen, Lesser
<1>5. CASE XLonger
  <2> DEFINE mm == Lesser(p, m)
             nn == Lesser(p, n)
  <2>1. mm = X /\ nn = Y /\ i = 0
    BY <1>1, <1>4, <1>5 DEF XLonger, Registers
  <2>2. /\ X >= Y /\ p' = args.p - X /\ m' = X - Y /\ n' = Y /\ i' = 0
        /\ pc' = IF Y # 0 THEN "xmain" ELSE AfterXMain(X - Y, args.p - X)
        /\ cf' = (IF args.op = "add" THEN 0 ELSE 1)
        /\ args' = args /\ mem0' = mem0 /\ mem' = mem /\ a' = a /\ ret' = ret
    BY <2>1, <1>1, <1>5 DEF XLonger, ClearChain, Registers
  <2>3. pc' \in {"xmain", "xtop", "tails", "return"}
    BY <2>2 DEF AfterXMain, AfterTop
  <2>4. TypeOK'
    BY <1>1, <1>2, <2>2, <2>3 DEF TypeOK, Labels
  <2>5. Registers'
    <3>1. XLen(args)' = X /\ YLen(args)' = Y
      BY <2>2
    <3> HIDE DEF X, Y
    <3>2. QED
      BY <1>2, <2>2, <2>3, <3>1 DEF Registers, AfterXMain, AfterTop
  <2>6. WrittenSoFar'
    BY <1>1, <2>1, <2>2, <2>3 DEF WrittenSoFar
  <2>7. ChainInv'
    <3>1. Pending' = 0
      BY <2>2, <2>3 DEF Pending
    <3>2. Balance(args, mem0, mem, 0, 0)
      BY <1>1, BalanceZero
    <3>3. QED
      BY <2>2, <3>1, <3>2 DEF ChainInv
  <2>8. QED
    BY <2>4, <2>5, <2>6, <2>7 DEF IInv
<1>6. CASE YLonger
  <2> DEFINE mm == Lesser(p, m)
             nn == Lesser(p, n)
  <2>1. mm = X /\ nn = Y /\ i = 0
    BY <1>1, <1>4, <1>6 DEF YLonger, Registers
  <2>2. /\ X < Y /\ p' = args.p - Y /\ n' = Y - X /\ m' = X /\ i' = 0
        /\ pc' = IF X # 0 THEN "ymain" ELSE "ytop"
        /\ cf' = (IF args.op = "add" THEN 0 ELSE 1)
        /\ args' = args /\ mem0' = mem0 /\ mem' = mem /\ a' = a /\ ret' = ret
    BY <2>1, <1>1, <1>6 DEF YLonger, ClearChain, Registers
  <2>3. pc' \in {"ymain", "ytop"}
    BY <2>2
  <2>4. TypeOK'
    BY <1>1, <1>2, <2>2, <2>3 DEF TypeOK, Labels
  <2>5. Registers'
    <3>1. XLen(args)' = X /\ YLen(args)' = Y
      BY <2>2
    <3> HIDE DEF X, Y
    <3>2. QED
      BY <1>2, <2>2, <2>3, <3>1 DEF Registers
  <2>6. WrittenSoFar'
    BY <1>1, <2>1, <2>2, <2>3 DEF WrittenSoFar
  <2>7. ChainInv'
    <3>1. Pending' = 0
      BY <2>2, <2>3 DEF Pending
    <3>2. Balance(args, mem0, mem, 0, 0)
      BY <1>1, BalanceZero
    <3>3. QED
      BY <2>2, <3>1, <3>2 DEF ChainInv
  <2>8. QED
    BY <2>4, <2>5, <2>6, <2>7 DEF IInv
<1>7. CASE XMain
  <2>1. /\ pc = "xmain" /\ n > 0 /\ i + n = Y /\ i + n + m = X /\ i + m + n + p = args.p
    BY <1>1, <1>7 DEF XMain, Registers
  <2>2. /\ args' = args /\ mem0' = mem0 /\ p' = p /\ m' = m /\ a' = a /\ ret' = ret
        /\ n' = n - 1 /\ Chain(mem0[args.x + i], mem0[args.y + i])
        /\ pc' = IF n - 1 # 0 THEN "xmain" ELSE AfterXMain(m, p)
    BY <1>7, LoadedWords DEF XMain
  <2>3. pc' \in {"xmain", "xtop", "tails", "return"}
    BY <2>2 DEF AfterXMain, AfterTop
  <2>4. /\ mem' \in [Addr -> Digit] /\ i' = i + 1 /\ cf' \in {0, 1}
        /\ WrittenSoFar' /\ ChainInv'
    BY <1>1, <1>2, <2>1, <2>2, <2>3, LoadedWords, LoopStep DEF LoopLabels
  <2>5. TypeOK'
    BY <1>1, <2>1, <2>2, <2>3, <2>4 DEF TypeOK, Labels
  <2>6. Registers'
    <3>1. XLen(args)' = X /\ YLen(args)' = Y
      BY <2>2
    <3> HIDE DEF X, Y
    <3>2. QED
      BY <1>1, <1>2, <2>1, <2>2, <2>4, <3>1 DEF Registers, AfterXMain, AfterTop
  <2>7. QED
    BY <2>4, <2>5, <2>6 DEF IInv
<1>8. CASE XTop
  <2>1. /\ pc = "xtop" /\ m > 0 /\ n = 0 /\ i + m = X /\ Y <= i /\ i + m + n + p = args.p
    BY <1>1, <1>8 DEF XTop, Registers
  <2>2. /\ args' = args /\ mem0' = mem0 /\ p' = p /\ n' = n /\ a' = a /\ ret' = ret
        /\ m' = m - 1 /\ Chain(mem0[args.x + i], 0)
        /\ pc' = IF m - 1 # 0 THEN "xtop" ELSE AfterTop(p)
    BY <1>8, LoadedWords DEF XTop
  <2>3. pc' \in {"xtop", "tails", "return"}
    BY <2>2 DEF AfterTop
  <2>4. /\ mem' \in [Addr -> Digit] /\ i' = i + 1 /\ cf' \in {0, 1}
        /\ WrittenSoFar' /\ ChainInv'
    BY <1>1, <1>2, <1>3, <2>1, <2>2, <2>3, LoadedWords, LoopStep DEF LoopLabels
  <2>5. TypeOK'
    BY <1>1, <2>1, <2>2, <2>3, <2>4 DEF TypeOK, Labels
  <2>6. Registers'
    <3>1. XLen(args)' = X /\ YLen(args)' = Y
      BY <2>2
    <3> HIDE DEF X, Y
    <3>2. QED
      BY <1>1, <1>2, <2>1, <2>2, <2>4, <3>1 DEF Registers, AfterXMain, AfterTop
  <2>7. QED
    BY <2>4, <2>5, <2>6 DEF IInv
<1>9. CASE YMain
  <2>1. /\ pc = "ymain" /\ m > 0 /\ n > 0 /\ i + m = X /\ i + m + n = Y /\ i + m + n + p = args.p
    BY <1>1, <1>9 DEF YMain, Registers
  <2>2. /\ args' = args /\ mem0' = mem0 /\ p' = p /\ n' = n /\ a' = a /\ ret' = ret
        /\ m' = m - 1 /\ Chain(mem0[args.x + i], mem0[args.y + i])
        /\ pc' = IF m - 1 # 0 THEN "ymain" ELSE "ytop"
    BY <1>9, LoadedWords DEF YMain
  <2>3. pc' \in {"ymain", "ytop"}
    BY <2>2
  <2>4. /\ mem' \in [Addr -> Digit] /\ i' = i + 1 /\ cf' \in {0, 1}
        /\ WrittenSoFar' /\ ChainInv'
    BY <1>1, <1>2, <1>3, <2>1, <2>2, <2>3, LoadedWords, LoopStep DEF LoopLabels
  <2>5. TypeOK'
    BY <1>1, <2>1, <2>2, <2>3, <2>4 DEF TypeOK, Labels
  <2>6. Registers'
    <3>1. XLen(args)' = X /\ YLen(args)' = Y
      BY <2>2
    <3> HIDE DEF X, Y
    <3>2. QED
      BY <1>1, <1>2, <2>1, <2>2, <2>4, <3>1 DEF Registers, AfterXMain, AfterTop
  <2>7. QED
    BY <2>4, <2>5, <2>6 DEF IInv
<1>10. CASE YTop
  <2>1. /\ pc = "ytop" /\ n > 0 /\ m = 0 /\ i + n = Y /\ X <= i /\ i + m + n + p = args.p
    BY <1>1, <1>10 DEF YTop, Registers
  <2>2. /\ args' = args /\ mem0' = mem0 /\ p' = p /\ m' = m /\ a' = a /\ ret' = ret
        /\ n' = n - 1 /\ Chain(0, mem0[args.y + i])
        /\ pc' = IF n - 1 # 0 THEN "ytop" ELSE AfterTop(p)
    BY <1>10, LoadedWords DEF YTop
  <2>3. pc' \in {"ytop", "tails", "return"}
    BY <2>2 DEF AfterTop
  <2>4. /\ mem' \in [Addr -> Digit] /\ i' = i + 1 /\ cf' \in {0, 1}
        /\ WrittenSoFar' /\ ChainInv'
    BY <1>1, <1>2, <1>3, <2>1, <2>2, <2>3, LoadedWords, LoopStep DEF LoopLabels
  <2>5. TypeOK'
    BY <1>1, <2>1, <2>2, <2>3, <2>4 DEF TypeOK, Labels
  <2>6. Registers'
    <3>1. XLen(args)' = X /\ YLen(args)' = Y
      BY <2>2
    <3> HIDE DEF X, Y
    <3>2. QED
      BY <1>1, <1>2, <2>1, <2>2, <2>4, <3>1 DEF Registers, AfterXMain, AfterTop
  <2>7. QED
    BY <2>4, <2>5, <2>6 DEF IInv
<1>11. CASE Return
  <2>1. /\ pc = "return" /\ pc' = "done" /\ ret' = (IF args.op = "add" THEN cf ELSE 1 - cf)
        /\ p = 0 /\ m = 0 /\ n = 0 /\ i = args.p /\ X <= i /\ Y <= i
    BY <1>1, <1>2, <1>11 DEF Return, Registers
  <2>2. UNCHANGED <<args, mem0, mem, p, m, n, i, a, cf>>
    BY <1>11 DEF Return
  <2>3. TypeOK'
    BY <1>1, <2>1, <2>2 DEF TypeOK, Labels
  <2>4. Registers'
    <3>1. XLen(args)' = X /\ YLen(args)' = Y
      BY <2>2
    <3> HIDE DEF X, Y
    <3>2. QED
      BY <1>1, <1>2, <2>1, <2>2, <3>1 DEF Registers
  <2>5. WrittenSoFar' /\ ChainInv'
    BY <1>1, <2>1, <2>2 DEF WrittenSoFar, ChainInv, Pending
  <2>6. QED
    BY <2>3, <2>4, <2>5 DEF IInv
<1>12. CASE AddTails \/ AddTailLoop
  <2> DEFINE word == IF pc = "tails" THEN cf ELSE 0
  <2>1. /\ pc \in {"tails", "tailloop"} /\ args.op = "add" /\ p > 0 /\ i + p = args.p
        /\ m = 0 /\ n = 0 /\ X <= i /\ Y <= i
    BY <1>1, <1>2, <1>12 DEF AddTails, AddTailLoop, Registers
  <2>2. /\ args' = args /\ mem0' = mem0 /\ m' = m /\ n' = n /\ cf' = cf
        /\ a' \in {a, cf} /\ i' = i + 1 /\ p' = p - 1
        /\ mem' = Store(mem, args.z + i, word)
        /\ pc' = (IF p - 1 # 0 THEN "tailloop" ELSE "done")
        /\ ret' = (IF p - 1 # 0 THEN ret ELSE 0)
    BY <1>12 DEF AddTails, AddTailLoop, TailStore
  <2>3. word \in {0, 1} /\ word \in Digit
    BY <1>1, <1>3
  <2>4. Balance(args, mem0, mem, i, word)
    BY <1>1, <2>1 DEF ChainInv, Pending
  <2>5. GoodColumn(args, mem0, i, 0, 0, word, word, 0)
    BY <1>1, <1>2, <2>1, <2>3, BaseAssumption DEF GoodColumn
  <2>6. i < args.p
    BY <1>1, <2>1
  <2> HIDE DEF word
  <2>7. /\ Store(mem, args.z + i, word) \in [Addr -> Digit]
        /\ OnlyOutput(args, mem0, Store(mem, args.z + i, word), i + 1)
        /\ Balance(args, mem0, Store(mem, args.z + i, word), i + 1, 0)
    BY <1>1, <1>3, <2>3, <2>4, <2>5, <2>6, StoreStep
  <2>8. TypeOK'
    BY <1>1, <1>3, <2>1, <2>2, <2>7 DEF TypeOK, Labels
  <2>9. Registers'
    <3>1. XLen(args)' = X /\ YLen(args)' = Y
      BY <2>2
    <3> HIDE DEF X, Y
    <3>2. QED
      BY <1>1, <1>2, <2>1, <2>2, <3>1 DEF Registers
  <2>10. WrittenSoFar'
    BY <2>2, <2>7 DEF WrittenSoFar
  <2>11. ChainInv'
    <3>1. Pending' = 0
      BY <1>1, <2>1, <2>2 DEF Pending
    <3>2. QED
      BY <2>2, <2>7, <3>1 DEF ChainInv
  <2>12. QED
    BY <2>8, <2>9, <2>10, <2>11 DEF IInv
<1>13. CASE SubTails
  <2>1. /\ pc = "tails" /\ args.op = "sub" /\ p > 0 /\ i + p = args.p
        /\ m = 0 /\ n = 0 /\ X <= i /\ Y <= i
    BY <1>1, <1>2, <1>13 DEF SubTails, Registers
  <2>2. /\ pc' = "tailloop" /\ a' = (IF cf = 0 THEN B - 1 ELSE 0)
        /\ UNCHANGED <<args, mem0, mem, p, m, n, i, cf, ret>>
    BY <1>13 DEF SubTails
  <2>3. TypeOK'
    BY <1>1, <1>3, <2>1, <2>2 DEF TypeOK, Labels
  <2>4. Registers'
    <3>1. XLen(args)' = X /\ YLen(args)' = Y
      BY <2>2
    <3> HIDE DEF X, Y
    <3>2. QED
      BY <1>1, <1>2, <2>1, <2>2, <3>1 DEF Registers
  <2>5. WrittenSoFar'
    BY <1>1, <2>2 DEF WrittenSoFar
  <2>6. ChainInv'
    <3>1. Pending = 1 - cf
      BY <2>1 DEF Pending
    <3>2. Pending' = 1 - cf
      BY <1>1, <2>1, <2>2, BaseAssumption DEF Pending
    <3>3. Balance(args, mem0, mem, i, 1 - cf)
      BY <1>1, <2>1, <3>1 DEF ChainInv
    <3>4. QED
      BY <2>2, <3>2, <3>3 DEF ChainInv
  <2>7. QED
    BY <2>3, <2>4, <2>5, <2>6 DEF IInv
<1>14. CASE SubTailLoop
  <2> DEFINE borrow == IF a = 0 THEN 0 ELSE 1
  <2>1. /\ pc = "tailloop" /\ args.op = "sub" /\ p > 0 /\ i + p = args.p
        /\ m = 0 /\ n = 0 /\ X <= i /\ Y <= i /\ a \in {0, B - 1}
    BY <1>1, <1>2, <1>14 DEF SubTailLoop, Registers
  <2>2. /\ args' = args /\ mem0' = mem0 /\ m' = m /\ n' = n /\ a' = a /\ cf' = 1
        /\ i' = i + 1 /\ p' = p - 1
        /\ mem' = Store(mem, args.z + i, a)
        /\ pc' = (IF p - 1 # 0 THEN "tailloop" ELSE "done")
        /\ ret' = (IF p - 1 # 0 THEN ret ELSE borrow)
    BY <1>14, <2>1, BaseAssumption DEF SubTailLoop, TailStore
  <2>3. Balance(args, mem0, mem, i, borrow)
    BY <1>1, <2>1 DEF ChainInv, Pending
  <2>4. GoodColumn(args, mem0, i, 0, 0, a, borrow, borrow)
    BY <1>1, <1>2, <2>1, BaseAssumption DEF GoodColumn
  <2>5. i < args.p /\ borrow \in {0, 1}
    BY <1>1, <2>1
  <2> HIDE DEF borrow
  <2>6. /\ Store(mem, args.z + i, a) \in [Addr -> Digit]
        /\ OnlyOutput(args, mem0, Store(mem, args.z + i, a), i + 1)
        /\ Balance(args, mem0, Store(mem, args.z + i, a), i + 1, borrow)
    BY <1>1, <1>3, <2>3, <2>4, <2>5, StoreStep
  <2>7. TypeOK'
    BY <1>1, <2>1, <2>2, <2>5, <2>6 DEF TypeOK, Labels
  <2>8. Registers'
    <3>1. XLen(args)' = X /\ YLen(args)' = Y
      BY <2>2
    <3> HIDE DEF X, Y
    <3>2. QED
      BY <1>1, <1>2, <2>1, <2>2, <3>1 DEF Registers
  <2>9. WrittenSoFar'
    BY <2>2, <2>6 DEF WrittenSoFar
  <2>10. ChainInv'
    <3>1. Pending' = borrow
      BY <1>1, <2>1, <2>2 DEF Pending, borrow
    <3>2. QED
      BY <2>2, <2>6, <3>1 DEF ChainInv
  <2>11. QED
    BY <2>7, <2>8, <2>9, <2>10 DEF IInv
<1>15. CASE UNCHANGED vars
  <2>1. TypeOK'
    BY <1>1, <1>15 DEF vars, TypeOK
  <2>2. Registers'
    BY <1>1, <1>15 DEF vars, Registers
  <2>3. WrittenSoFar' /\ ChainInv'
    BY <1>1, <1>15 DEF vars, WrittenSoFar, ChainInv, Pending
  <2>4. QED
    BY <2>1, <2>2, <2>3 DEF IInv
<1>16. QED
  BY <1>5, <1>6, <1>7, <1>8, <1>9, <1>10, <1>11, <1>12, <1>13, <1>14, <1>15
     DEF Next, Returned

-----------------------------------------------------------------------------
\* Every reachable state satisfies the inductive invariant.
THEOREM Invariance == Spec => []IInv
<1>1. Init => IInv
  BY InitInv
<1>2. IInv /\ [Next]_vars => IInv'
  BY NextInv
<1>3. QED
  BY <1>1, <1>2, PTL DEF Spec

\* Registers, flags and memory words stay in their ranges.
THEOREM TypeCorrectness == Spec => []TypeOK
<1>1. IInv => TypeOK
  BY DEF IInv
<1>2. QED
  BY <1>1, Invariance, PTL

\* No loop of bignum_add or bignum_sub is entered with a zero count, and the
\* counters account for every word of the output.
THEOREM CountersCorrect == Spec => []Registers
<1>1. IInv => Registers
  BY DEF IInv
<1>2. QED
  BY <1>1, Invariance, PTL

\* With an input in the output buffer, no word is overwritten before it is read.
THEOREM AliasingSafe == Spec => []UnreadIntact
<1>1. IInv => UnreadIntact
  BY UnreadWords DEF IInv
<1>2. QED
  BY <1>1, Invariance, PTL

\* The loop invariant of the carry chain.
THEOREM ChainCorrect == Spec => []ChainInv
<1>1. IInv => ChainInv
  BY DEF IInv
<1>2. QED
  BY <1>1, Invariance, PTL

\* The contract is instantiated with the machine's own words and interface.
LEMMA SameWords ==
  /\ Contract!Addr = Addr /\ Contract!Digit = Digit /\ Contract!Pow = Pow
  /\ Contract!Lengths = Lengths
BY DEF Contract!Addr, Addr, Contract!Digit, Digit, Contract!Pow, Pow, Contract!Lengths, Lengths

\* The contract allows the calls the routine is specified for.
LEMMA SameCalls == Contract!Calls = Calls
BY SameWords DEF Contract!Calls, Calls, Contract!InMemory, InMemory,
   Contract!SameOrDisjoint, SameOrDisjoint, Contract!NonOverlapping, NonOverlapping,
   Contract!Region, Region

\* The contract's equation and frame condition are those of the loop invariant.
LEMMA SameBalance ==
  ASSUME NEW c, NEW before, NEW after, NEW k, NEW r
  PROVE  /\ Contract!Balance(c, before, after, k, r) <=> Balance(c, before, after, k, r)
         /\ Contract!OnlyOutput(c, before, after, k) <=> OnlyOutput(c, before, after, k)
<1>1. ASSUME NEW mm, NEW ptr, NEW len
      PROVE  Contract!Value(mm, ptr, len) = Value(mm, ptr, len)
  BY SameWords DEF Contract!Value, Value, Contract!DigitAt, DigitAt
<1>2. /\ Contract!XLen(c) = XLen(c) /\ Contract!YLen(c) = YLen(c)
      /\ Contract!Lesser(k, XLen(c)) = Lesser(k, XLen(c))
      /\ Contract!Lesser(k, YLen(c)) = Lesser(k, YLen(c))
  BY DEF Contract!XLen, XLen, Contract!YLen, YLen, Contract!Lesser, Lesser
<1>3. Contract!Balance(c, before, after, k, r) <=> Balance(c, before, after, k, r)
  BY <1>1, <1>2, SameWords DEF Contract!Balance, Balance
<1>4. Contract!OnlyOutput(c, before, after, k) <=> OnlyOutput(c, before, after, k)
  BY SameWords DEF Contract!OnlyOutput, OnlyOutput, Contract!Region, Region
<1>5. QED
  BY <1>3, <1>4

\* A call of the contract has not happened before the routine returns.
LEMMA InitRefines == Init => Contract!Init
BY SameWords, SameCalls DEF Init, Contract!Init

\* The step that returns is the contract's step, any other step stutters.
LEMMA NextRefines == IInv /\ IInv' /\ [Next]_vars => [Contract!Return]_(Contract!cvars)
<1> SUFFICES ASSUME IInv, IInv', [Next]_vars
             PROVE  [Contract!Return]_(Contract!cvars)
  OBVIOUS
<1>1. args' = args /\ mem0' = mem0
  BY DEF Next, XLonger, YLonger, XMain, XTop, YMain, YTop, Return, AddTails,
         AddTailLoop, SubTails, SubTailLoop, TailStore, Returned, vars
<1>2. pc = "done" => UNCHANGED vars
  BY DEF Next, XLonger, YLonger, XMain, XTop, YMain, YTop, Return, AddTails,
         AddTailLoop, SubTails, SubTailLoop, Returned
<1>3. CASE pc = "done"
  <2>1. UNCHANGED Contract!cvars
    BY <1>2, <1>3 DEF vars, Contract!cvars
  <2>2. QED
    BY <2>1
<1>4. CASE pc # "done" /\ pc' # "done"
  <2>1. UNCHANGED Contract!cvars
    BY <1>1, <1>4 DEF Contract!cvars
  <2>2. QED
    BY <2>1
<1>5. CASE pc # "done" /\ pc' = "done"
  <2>1. /\ mem' \in [Addr -> Digit] /\ ret' \in {0, 1}
        /\ args \in Calls /\ i' \in Nat /\ p' \in Nat
    BY <1>1 DEF IInv, TypeOK
  <2>2. i' = args.p
    <3>1. args.p \in Nat
      BY <2>1, CallFacts
    <3>2. i' + m' + n' + p' = args.p /\ m' = 0 /\ n' = 0 /\ p' = 0
      BY <1>1, <1>5 DEF IInv, Registers
    <3>3. QED
      BY <2>1, <3>1, <3>2
  <2>3. OnlyOutput(args, mem0, mem', args.p)
    BY <1>1, <2>2 DEF IInv, WrittenSoFar
  <2>4. Balance(args, mem0, mem', args.p, ret')
    BY <1>1, <1>5, <2>2 DEF IInv, ChainInv, Pending
  <2>5. Contract!Return
    BY <1>1, <1>5, <2>1, <2>3, <2>4, SameWords, SameBalance DEF Contract!Return
  <2>6. QED
    BY <2>5
<1>6. QED
  BY <1>3, <1>4, <1>5

\* bignum_add and bignum_sub implement their contract, for every word size,
\* every length and every allowed aliasing: what is written is the sum
\* (difference) modulo B^p, what is returned the carry (borrow), and nothing
\* else changes.
THEOREM ImplementsContract == Spec => Implements
<1>1. Init => Contract!Init
  BY InitRefines
<1>2. IInv /\ IInv' /\ [Next]_vars => [Contract!Return]_(Contract!cvars)
  BY NextRefines
<1>3. QED
  BY <1>1, <1>2, Invariance, PTL DEF Spec, Implements, Contract!Spec
-----------------------------------------------------------------------------
(* DigitLoops: facts about words, numbers and buffers.                      *)

Memory == [Addr -> Digit]

\* The words of one buffer are those of another, perhaps elsewhere.
Copied(mem1, ptr1, mem2, ptr2, len) ==
  \A t \in 0 .. (len - 1) : DigitAt(mem1, ptr1 + t) = DigitAt(mem2, ptr2 + t)

\* Two buffers with the same words have the same value, wherever they are.
LEMMA ValueOfCopy ==
  ASSUME NEW mem1 \in Memory, NEW mem2 \in Memory,
         NEW ptr1 \in Nat, NEW ptr2 \in Nat, NEW len \in Nat,
         Copied(mem1, ptr1, mem2, ptr2, len)
  PROVE  Value(mem1, ptr1, len) = Value(mem2, ptr2, len)
<1>1. ASSUME NEW k \in 0 .. (len - 1) PROVE Terms(mem1, ptr1)[k] = Terms(mem2, ptr2)[k]
  BY DEF Terms, Copied
<1>2. PICK V : IsSum(V, Terms(mem1, ptr1)) /\ \A k \in Nat : Value(mem1, ptr1, k) = V[k]
  BY ValueIsSum DEF Memory
<1>3. PICK U : IsSum(U, Terms(mem2, ptr2)) /\ \A k \in Nat : Value(mem2, ptr2, k) = U[k]
  BY ValueIsSum DEF Memory
<1>4. V[len] = U[len]
  <2> DEFINE s == Terms(mem1, ptr1)
             t == Terms(mem2, ptr2)
  <2>1. s \in [Nat -> Nat] /\ IsSum(V, s) /\ t \in [Nat -> Nat] /\ IsSum(U, t)
    BY <1>2, <1>3, ValueIsSum DEF Memory
  <2>2. \A k \in 0 .. (len - 1) : s[k] = t[k]
    BY <1>1
  <2> HIDE DEF s, t
  <2>3. QED
    BY <2>1, <2>2, SumCongruence
<1>5. QED
  BY <1>2, <1>3, <1>4

\* The powers of the base are positive, and the next one is B times as large.
LEMMA PowPositive ==
  \A k \in Nat : Pow[k] \in Nat /\ Pow[k] >= 1 /\ Pow[k + 1] = B * Pow[k]
<1>1. B \in Nat /\ B >= 2
  BY BaseAssumption
<1>2. /\ \A k \in Nat : Pow[k] \in Nat /\ Pow[k + 1] = B * Pow[k]
      /\ Pow[0] = 1
  BY PowFacts
<1> DEFINE T == {k \in Nat : Pow[k] >= 1}
<1>3. 0 \in T
  BY <1>2
<1>4. ASSUME NEW k \in T PROVE k + 1 \in T
  <2> DEFINE Q == Pow[k]
  <2>1. Q \in Nat /\ Q >= 1 /\ Pow[k + 1] = B * Q
    BY <1>2
  <2> HIDE DEF Q
  <2>2. B * Q >= 1
    BY <1>1, <2>1
  <2>3. QED
    BY <2>1, <2>2
<1>5. T = Nat
  <2>1. T \in SUBSET Nat
    OBVIOUS
  <2> HIDE DEF T
  <2>2. QED
    BY <1>3, <1>4, <2>1, InductionOnNat
<1>6. QED
  BY <1>2, <1>5

\* The value of k words is below B^k (bignum_from_memory bound).
LEMMA ValueBound ==
  ASSUME NEW mm \in Memory, NEW ptr \in Nat, NEW len \in Nat
  PROVE  Value(mm, ptr, len) \in Nat /\ Value(mm, ptr, len) < Pow[len]
<1>1. B \in Nat /\ B >= 2
  BY BaseAssumption
<1> DEFINE T == {k \in Nat : Value(mm, ptr, k) < Pow[k]}
<1>2. 0 \in T
  BY ValueFacts, PowFacts DEF Memory
<1>3. ASSUME NEW k \in T PROVE k + 1 \in T
  <2> DEFINE Q == Pow[k]
             V == Value(mm, ptr, k)
             d == DigitAt(mm, ptr + k)
  <2>1. Q \in Nat /\ Q >= 1 /\ Pow[k + 1] = B * Q
    BY PowPositive
  <2>2. V \in Nat /\ V < Q /\ Value(mm, ptr, k + 1) = V + d * Q
    BY ValueFacts DEF Memory
  <2>3. d \in Nat /\ d <= B - 1
    BY <1>1, DigitAtType DEF Memory, Digit
  <2> HIDE DEF Q, V, d
  <2>4. d * Q <= (B - 1) * Q
    BY <2>1, <2>3, <1>1
  <2>5. (B - 1) * Q = B * Q - Q
    BY <2>1, <1>1
  <2>6. d * Q \in Nat /\ B * Q \in Nat
    BY <2>1, <2>3, <1>1
  <2>7. V + d * Q < B * Q
    BY <2>1, <2>2, <2>4, <2>5, <2>6
  <2>8. QED
    BY <2>1, <2>2, <2>7
<1>4. T = Nat
  <2>1. T \in SUBSET Nat
    OBVIOUS
  <2> HIDE DEF T
  <2>2. QED
    BY <1>2, <1>3, <2>1, InductionOnNat
<1>5. QED
  BY <1>4, ValueFacts DEF Memory

\* The lowest word and the words above it.
LEMMA ValueFromBelow ==
  ASSUME NEW mm \in Memory, NEW ptr \in Nat, NEW len \in Nat
  PROVE  Value(mm, ptr, len + 1) = DigitAt(mm, ptr) + B * Value(mm, ptr + 1, len)
<1>1. B \in Nat /\ B >= 2
  BY BaseAssumption
<1>2. DigitAt(mm, ptr) \in Int
  BY DigitAtType, <1>1 DEF Memory, Digit
<1> DEFINE T == {k \in Nat : Value(mm, ptr, k + 1) = DigitAt(mm, ptr) + B * Value(mm, ptr + 1, k)}
<1>3. 0 \in T
  <2>1. Value(mm, ptr, 0) = 0 /\ Value(mm, ptr, 0 + 1) = Value(mm, ptr, 0) + DigitAt(mm, ptr + 0) * Pow[0]
    <3>1. 0 \in Nat /\ mm \in [Addr -> Digit]
      BY DEF Memory
    <3>2. QED
      BY <3>1, ValueFacts
  <2>2. Value(mm, ptr + 1, 0) = 0 /\ Pow[0] = 1 /\ ptr + 0 = ptr
    <3>1. ptr + 1 \in Nat /\ mm \in [Addr -> Digit]
      BY DEF Memory
    <3>2. QED
      BY <3>1, ValueFacts, PowFacts
  <2>3. QED
    BY <2>1, <2>2, <1>1, <1>2
<1>4. ASSUME NEW k \in T PROVE k + 1 \in T
  <2> DEFINE Q == Pow[k]
             V == Value(mm, ptr + 1, k)
             d == DigitAt(mm, ptr + (k + 1))
             low == DigitAt(mm, ptr)
  <2>1. Q \in Nat /\ Pow[k + 1] = B * Q
    BY PowPositive
  <2>2. k \in Nat /\ Value(mm, ptr, k + 1) = low + B * V /\ low \in Int
    BY <1>2
  <2>3. Value(mm, ptr, k + 1 + 1) = Value(mm, ptr, k + 1) + d * Pow[k + 1]
    BY <2>2, ValueFacts DEF Memory
  <2>4. V \in Nat /\ Value(mm, ptr + 1, k + 1) = V + d * Q
    <3>1. (ptr + 1) + k = ptr + (k + 1) /\ ptr + 1 \in Nat /\ mm \in [Addr -> Digit]
      BY <2>2 DEF Memory
    <3>2. Value(mm, ptr + 1, k + 1) = V + DigitAt(mm, (ptr + 1) + k) * Q /\ V \in Nat
      BY <2>2, <3>1, ValueFacts
    <3>3. QED
      BY <3>1, <3>2
  <2>5. d \in Int
    BY <1>1, <2>2, DigitAtType DEF Memory, Digit
  <2>6. low + B * V + d * (B * Q) = low + B * (V + d * Q)
    <3> HIDE DEF Q, V, d, low
    <3>1. QED
      BY <1>1, <2>1, <2>2, <2>4, <2>5
  <2>7. QED
    BY <2>1, <2>2, <2>3, <2>4, <2>6
<1>5. T = Nat
  <2>1. T \in SUBSET Nat
    OBVIOUS
  <2> HIDE DEF T
  <2>2. QED
    BY <1>3, <1>4, <2>1, InductionOnNat
<1>6. QED
  BY <1>5

\* The words from len on add a multiple of B^len.
LEMMA ValueAbove ==
  ASSUME NEW mm \in Memory, NEW ptr \in Nat, NEW len \in Nat, NEW more \in Nat
  PROVE  Value(mm, ptr, len + more) =
           Value(mm, ptr, len) + Pow[len] * Value(mm, ptr + len, more)
<1>1. B \in Nat /\ B >= 2 /\ Pow[len] \in Nat
  BY BaseAssumption, PowFacts
<1> DEFINE T == {k \in Nat : /\ Value(mm, ptr, len + k) = Value(mm, ptr, len) + Pow[len] * Value(mm, ptr + len, k)
                             /\ Pow[len + k] = Pow[len] * Pow[k]}
<1>2. 0 \in T
  <2>1. Value(mm, ptr + len, 0) = 0 /\ Pow[0] = 1 /\ len + 0 = len /\ Value(mm, ptr, len) \in Nat
    <3>1. ptr + len \in Nat /\ mm \in [Addr -> Digit]
      BY DEF Memory
    <3>2. Value(mm, ptr, len) \in Nat
      BY <3>1, ValueFacts
    <3>3. Value(mm, ptr + len, 0) = 0
      BY <3>1, ValueFacts
    <3>4. QED
      BY <3>2, <3>3, PowFacts
  <2>2. QED
    BY <2>1, <1>1
<1>3. ASSUME NEW k \in T PROVE k + 1 \in T
  <2> DEFINE Q == Pow[k]
             P == Pow[len]
             V == Value(mm, ptr + len, k)
             L == Value(mm, ptr, len)
             d == DigitAt(mm, ptr + (len + k))
  <2>1. k \in Nat /\ Q \in Nat /\ P \in Nat /\ Pow[k + 1] = B * Q /\ Pow[len + k + 1] = B * Pow[len + k]
    BY PowPositive
  <2>2. Pow[len + k] = P * Q /\ Value(mm, ptr, len + k) = L + P * V
    OBVIOUS
  <2>3. Value(mm, ptr, len + k + 1) = Value(mm, ptr, len + k) + d * Pow[len + k]
    BY <2>1, ValueFacts DEF Memory
  <2>4. V \in Nat /\ L \in Nat /\ Value(mm, ptr + len, k + 1) = V + d * Q
    <3>1. (ptr + len) + k = ptr + (len + k) /\ ptr + len \in Nat /\ mm \in [Addr -> Digit]
      BY <2>1 DEF Memory
    <3>2. Value(mm, ptr + len, k + 1) = V + DigitAt(mm, (ptr + len) + k) * Q /\ V \in Nat
      BY <2>1, <3>1, ValueFacts
    <3>3. L \in Nat
      BY <3>1, ValueFacts
    <3>4. QED
      BY <3>1, <3>2, <3>3
  <2>5. d \in Int
    BY <1>1, <2>1, DigitAtType DEF Memory, Digit
  <2>6. /\ L + P * V + d * (P * Q) = L + P * (V + d * Q)
        /\ B * (P * Q) = P * (B * Q)
    <3> HIDE DEF Q, P, V, d, L
    <3>1. QED
      BY <1>1, <2>1, <2>4, <2>5
  <2>7. len + k + 1 = len + (k + 1)
    BY <2>1
  <2>8. QED
    BY <2>1, <2>2, <2>3, <2>4, <2>6, <2>7
<1>4. T = Nat
  <2>1. T \in SUBSET Nat
    OBVIOUS
  <2> HIDE DEF T
  <2>2. QED
    BY <1>2, <1>3, <2>1, InductionOnNat
<1>5. QED
  BY <1>4

\* The powers of two: positive, and exponents add.
LEMMA TwoToFacts ==
  /\ TwoTo \in [Nat -> Nat] /\ TwoTo[0] = 1
  /\ \A k \in Nat : TwoTo[k] >= 1 /\ TwoTo[k + 1] = 2 * TwoTo[k]
<1>1. \E f : f = [t \in Nat |-> IF t = 0 THEN 1 ELSE 2 * f[t - 1]]
  <2>1. 1 \in Nat /\ 2 \in Nat
    OBVIOUS
  <2>2. QED
    BY <2>1, GeometricExists
<1>2. IsGeometric(TwoTo, 1, 2)
  BY <1>1 DEF TwoTo, IsGeometric
<1>3. TwoTo \in [Nat -> Nat] /\ TwoTo[0] = 1 /\ \A k \in Nat : TwoTo[k + 1] = 2 * TwoTo[k]
  BY <1>2, GeometricFacts
<1> DEFINE T == {k \in Nat : TwoTo[k] >= 1}
<1>4. 0 \in T /\ \A k \in T : k + 1 \in T
  BY <1>3
<1>5. T = Nat
  <2>1. T \in SUBSET Nat
    OBVIOUS
  <2> HIDE DEF T
  <2>2. QED
    BY <1>4, <2>1, InductionOnNat
<1>6. QED
  BY <1>3, <1>5

\* Exponents add: 2^(c + d) is 2^c 2^d.
LEMMA TwoToAdds ==
  ASSUME NEW c \in Nat, NEW d \in Nat
  PROVE  TwoTo[c + d] = TwoTo[c] * TwoTo[d]
<1> DEFINE T == {k \in Nat : TwoTo[c + k] = TwoTo[c] * TwoTo[k]}
<1>0. TwoTo[c] \in Nat
  BY TwoToFacts
<1>1. 0 \in T
  <2>1. c + 0 = c /\ TwoTo[0] = 1
    BY TwoToFacts
  <2>2. QED
    BY <2>1, <1>0
<1>2. ASSUME NEW k \in T PROVE k + 1 \in T
  <2>1. k \in Nat /\ TwoTo[k] \in Nat /\ TwoTo[k + 1] = 2 * TwoTo[k]
        /\ TwoTo[c + k + 1] = 2 * TwoTo[c + k] /\ c + k + 1 = c + (k + 1)
    BY TwoToFacts
  <2>2. 2 * (TwoTo[c] * TwoTo[k]) = TwoTo[c] * (2 * TwoTo[k])
    BY <1>0, <2>1
  <2>3. QED
    BY <2>1, <2>2
<1>3. T = Nat
  <2>1. T \in SUBSET Nat
    OBVIOUS
  <2> HIDE DEF T
  <2>2. QED
    BY <1>1, <1>2, <2>1, InductionOnNat
<1>4. QED
  BY <1>3

\* A word has W bits: B^k is 2^(W k).
LEMMA PowIsTwoTo ==
  ASSUME NEW k \in Nat
  PROVE  W * k \in Nat /\ TwoTo[W * k] = Pow[k]
<1>1. W \in Nat /\ B = TwoTo[W]
  BY WordBitsAssumption
<1> DEFINE T == {j \in Nat : TwoTo[W * j] = Pow[j]}
<1>2. 0 \in T
  <2>1. W * 0 = 0
    BY <1>1
  <2>2. QED
    BY <2>1, TwoToFacts, PowFacts
<1>3. ASSUME NEW j \in T PROVE j + 1 \in T
  <2>1. j \in Nat /\ TwoTo[W * j] = Pow[j] /\ Pow[j + 1] = B * Pow[j]
    BY PowFacts
  <2>2. W * (j + 1) = W + W * j /\ W * j \in Nat
    BY <1>1, <2>1
  <2>3. TwoTo[W + W * j] = TwoTo[W] * TwoTo[W * j]
    BY <1>1, <2>2, TwoToAdds
  <2>4. QED
    BY <1>1, <2>1, <2>2, <2>3
<1>4. T = Nat
  <2>1. T \in SUBSET Nat
    OBVIOUS
  <2> HIDE DEF T
  <2>2. QED
    BY <1>2, <1>3, <2>1, InductionOnNat
<1>5. W * k \in Nat
  BY <1>1
<1>6. QED
  BY <1>4, <1>5

-----------------------------------------------------------------------------
(* One pass of a loop: the words below j have been stored.                  *)

\* Hi and Lo split a number into a word and what is carried.
LEMMA HiLo ==
  ASSUME NEW v \in Int
  PROVE  Lo(v) \in Digit /\ Lo(v) \in Int /\ Hi(v) \in Int /\ v = Lo(v) + B * Hi(v)
<1>1. B \in Nat /\ B > 0
  BY BaseAssumption
<1>2. v \div B \in Int /\ v % B \in Int /\ v = B * (v \div B) + (v % B) /\ 0 <= v % B /\ v % B < B
  BY <1>1, DivMod
<1>3. B * (v \div B) \in Int
  BY <1>1, <1>2
<1>4. QED
  BY <1>1, <1>2, <1>3 DEF Hi, Lo, Digit

\* A number is what its low words leave, and what they leave over is the rest.
LEMMA LowHigh ==
  ASSUME NEW k \in Nat, NEW v \in Int, NEW e \in Int, v >= 0, v < Pow[k]
  PROVE  Low(k, v + e * Pow[k]) = v /\ High(k, v + e * Pow[k]) = e
<1> DEFINE Q == Pow[k]
<1>1. Q \in Nat /\ Q > 0
  BY PowPositive
<1>2. v \in 0 .. (Q - 1)
  BY <1>1
<1> HIDE DEF Q
<1>3. (Q * e + v) \div Q = e /\ (Q * e + v) % Q = v
  BY <1>1, <1>2, DivUnique
<1>4. Q * e + v = v + e * Q
  BY <1>1
<1>5. QED
  BY <1>3, <1>4 DEF Low, High, Q

\* Only the first j words of the buffer at z have changed.
Untouched(after, old, z, j) == \A t \in Addr \ Region(z, j) : after[t] = old[t]

\* A word is loaded as it was at the start of the pass: the buffer it is in is
\* the output buffer itself, or does not overlap it.
LEMMA Loaded ==
  ASSUME NEW after \in Memory, NEW old \in Memory, NEW x \in Nat, NEW len \in Nat,
         NEW z \in Nat, NEW k \in Nat, NEW j \in Nat, j < len, j <= k,
         SameOrDisjoint(x, len, z, k), Untouched(after, old, z, j)
  PROVE  DigitAt(after, x + j) = DigitAt(old, x + j)
<1>1. CASE x + j \in Addr
  <2>1. x + j \notin Region(z, j)
    <3>1. CASE x = z
      BY <3>1 DEF Region
    <3>2. CASE NonOverlapping(x, len, z, k)
      <4>1. x + j \in Region(x, len)
        BY DEF Region
      <4>2. x + j \notin Region(z, k)
        BY <3>2, <4>1 DEF NonOverlapping
      <4>3. QED
        BY <4>2 DEF Region
    <3>3. QED
      BY <3>1, <3>2 DEF SameOrDisjoint
  <2>2. QED
    BY <1>1, <2>1 DEF Untouched, DigitAt
<1>2. CASE x + j \notin Addr
  BY <1>2 DEF DigitAt
<1>3. QED
  BY <1>1, <1>2

\* The next store keeps the rest of memory.
LEMMA StoredFrame ==
  ASSUME NEW after \in Memory, NEW old \in Memory, NEW z \in Nat, NEW j \in Nat,
         z + j < MemSize, NEW v \in Digit, Untouched(after, old, z, j)
  PROVE  Store(after, z + j, v) \in Memory /\ Untouched(Store(after, z + j, v), old, z, j + 1)
<1>1. Store(after, z + j, v) \in Memory
  BY DEF Store, Memory
<1>2. ASSUME NEW t \in Addr \ Region(z, j + 1) PROVE Store(after, z + j, v)[t] = old[t]
  <2>1. t \in Int
    BY MemSizeAssumption DEF Addr
  <2>2. t \in Addr \ Region(z, j) /\ t # z + j
    BY <2>1 DEF Region
  <2>3. after[t] = old[t]
    BY <2>2 DEF Untouched
  <2>4. QED
    BY <2>2, <2>3 DEF Store, Memory
<1>3. QED
  BY <1>1, <1>2 DEF Untouched

\* Storing a digit v and passing on a carry: if v and the carry out make up the
\* column t and the carry in, the equation of the pass is kept.
LEMMA StoredValue ==
  ASSUME NEW after \in Memory, NEW z \in Nat, NEW j \in Nat, z + j < MemSize,
         NEW v \in Digit, NEW t \in Int, NEW in \in Int, NEW out \in Int, NEW total \in Int,
         Value(after, z, j) + in * Pow[j] = total, v + B * out = t + in
  PROVE  Value(Store(after, z + j, v), z, j + 1) + out * Pow[j + 1] = total + t * Pow[j]
<1> DEFINE V == Value(after, z, j)
           Q == Pow[j]
           V1 == Value(Store(after, z + j, v), z, j + 1)
<1>1. V \in Nat /\ V1 = V + v * Q
  BY OutputStep DEF Memory
<1>2. Q \in Nat /\ Pow[j + 1] = B * Q
  BY PowFacts
<1>3. v \in Int /\ B \in Nat
  BY BaseAssumption DEF Digit
<1>4. V + in * Q = total
  OBVIOUS
<1> HIDE DEF V, Q, V1
<1>5. (v + B * out) * Q = (t + in) * Q
  OBVIOUS
<1>6. (v + B * out) * Q = v * Q + out * (B * Q) /\ (t + in) * Q = t * Q + in * Q
  BY <1>2, <1>3
<1>7. v * Q \in Int /\ out * (B * Q) \in Int /\ t * Q \in Int /\ in * Q \in Int
  BY <1>2, <1>3
<1> DEFINE vQ == v * Q
           oQ == out * (B * Q)
           tQ == t * Q
           iQ == in * Q
<1>8. vQ + oQ = tQ + iQ /\ V1 = V + vQ /\ V + iQ = total
  BY <1>1, <1>4, <1>5, <1>6
<1>9. vQ \in Int /\ oQ \in Int /\ tQ \in Int /\ iQ \in Int
  BY <1>7
<1> HIDE DEF vQ, oQ, tQ, iQ
<1>10. V1 + oQ = total + tQ
  BY <1>1, <1>8, <1>9
<1>11. QED
  BY <1>2, <1>10 DEF V1, oQ, tQ, Q

-----------------------------------------------------------------------------
(* What a pass computes is a linear combination of its operands: of the     *)
(* buffers z, x, y and m as they were, the complement of zero, and a start. *)

Mix(cz, cx, cy, cm, cn, c0) ==
  [z |-> cz, x |-> cx, y |-> cy, m |-> cm, not |-> cn, start |-> c0]
Mixes == [z : Int, x : Int, y : Int, m : Int, not : Int, start : Int]

Total(c, old, j, q) ==
  q.z * Value(old, c.z, j) + q.x * Value(old, c.x, j) + q.y * Value(old, c.y, j)
    + q.m * Value(old, c.m, j) + q.not * (Pow[j] - 1) + q.start

Column5(c, old, j, q) ==
  q.z * DigitAt(old, c.z + j) + q.x * DigitAt(old, c.x + j) + q.y * DigitAt(old, c.y + j)
    + q.m * DigitAt(old, c.m + j) + q.not * (B - 1)

\* After j words the words stored and the carry are the combination so far.
Pass(c, after, old, j, q, carry) ==
  /\ Untouched(after, old, c.z, j)
  /\ Value(after, c.z, j) + carry * Pow[j] = Total(c, old, j, q)

\* The arguments of a call are numbers.
LEMMA LoopCallFacts ==
  ASSUME NEW c \in LoopCalls
  PROVE  /\ GoodLoopCall(c)
         /\ c.k \in Nat /\ c.n \in Nat /\ c.z \in Nat /\ c.x \in Nat
         /\ c.y \in Nat /\ c.m \in Nat /\ c.w \in Nat
         /\ c.z + c.k <= MemSize
<1>1. GoodLoopCall(c)
  BY LoopCallsAssumption
<1>2. QED
  BY <1>1 DEF GoodLoopCall, InMemory

\* One summand of the combination: coefficient e of the buffer at ptr.
LEMMA SummandStep ==
  ASSUME NEW old \in Memory, NEW ptr \in Nat, NEW j \in Nat, NEW e \in Int
  PROVE  /\ e * Value(old, ptr, j) \in Int /\ e * DigitAt(old, ptr + j) \in Int
         /\ (e * DigitAt(old, ptr + j)) * Pow[j] \in Int
         /\ e * Value(old, ptr, j + 1) = e * Value(old, ptr, j) + (e * DigitAt(old, ptr + j)) * Pow[j]
<1> DEFINE V == Value(old, ptr, j)
           d == DigitAt(old, ptr + j)
           Q == Pow[j]
<1>1. V \in Nat /\ Value(old, ptr, j + 1) = V + d * Q
  BY ValueFacts DEF Memory
<1>2. Q \in Nat
  BY PowFacts
<1>3. d \in Int
  BY BaseAssumption, DigitAtType DEF Memory, Digit
<1> HIDE DEF V, d, Q
<1>4. e * (V + d * Q) = e * V + (e * d) * Q /\ e * V \in Int /\ e * d \in Int /\ (e * d) * Q \in Int
  BY <1>1, <1>2, <1>3
<1>5. QED
  BY <1>1, <1>4 DEF V, d, Q

\* The combination grows by its column.
LEMMA TotalStep ==
  ASSUME NEW c \in LoopCalls, NEW old \in Memory, NEW j \in Nat, NEW q \in Mixes
  PROVE  /\ Total(c, old, j, q) \in Int /\ Column5(c, old, j, q) \in Int
         /\ Total(c, old, j + 1, q) = Total(c, old, j, q) + Column5(c, old, j, q) * Pow[j]
<1> DEFINE Q == Pow[j]
           vz == q.z * Value(old, c.z, j)
           vx == q.x * Value(old, c.x, j)
           vy == q.y * Value(old, c.y, j)
           vm == q.m * Value(old, c.m, j)
           vn == q.not * (Pow[j] - 1)
           dz == q.z * DigitAt(old, c.z + j)
           dx == q.x * DigitAt(old, c.x + j)
           dy == q.y * DigitAt(old, c.y + j)
           dm == q.m * DigitAt(old, c.m + j)
           dn == q.not * (B - 1)
<1>1. c.z \in Nat /\ c.x \in Nat /\ c.y \in Nat /\ c.m \in Nat
  BY LoopCallFacts
<1>2. q.z \in Int /\ q.x \in Int /\ q.y \in Int /\ q.m \in Int /\ q.not \in Int /\ q.start \in Int
  BY DEF Mixes
<1>3. vz \in Int /\ dz \in Int /\ dz * Q \in Int /\ q.z * Value(old, c.z, j + 1) = vz + dz * Q
  <2> DEFINE e == q.z
             ptr == c.z
  <2>1. e \in Int /\ ptr \in Nat
    BY <1>1, <1>2
  <2> HIDE DEF e, ptr
  <2>2. /\ e * Value(old, ptr, j) \in Int /\ e * DigitAt(old, ptr + j) \in Int
        /\ (e * DigitAt(old, ptr + j)) * Pow[j] \in Int
        /\ e * Value(old, ptr, j + 1) = e * Value(old, ptr, j) + (e * DigitAt(old, ptr + j)) * Pow[j]
    BY <2>1, SummandStep
  <2>3. QED
    BY <2>2 DEF e, ptr
<1>4. vx \in Int /\ dx \in Int /\ dx * Q \in Int /\ q.x * Value(old, c.x, j + 1) = vx + dx * Q
  <2> DEFINE e == q.x
             ptr == c.x
  <2>1. e \in Int /\ ptr \in Nat
    BY <1>1, <1>2
  <2> HIDE DEF e, ptr
  <2>2. /\ e * Value(old, ptr, j) \in Int /\ e * DigitAt(old, ptr + j) \in Int
        /\ (e * DigitAt(old, ptr + j)) * Pow[j] \in Int
        /\ e * Value(old, ptr, j + 1) = e * Value(old, ptr, j) + (e * DigitAt(old, ptr + j)) * Pow[j]
    BY <2>1, SummandStep
  <2>3. QED
    BY <2>2 DEF e, ptr
<1>5. vy \in Int /\ dy \in Int /\ dy * Q \in Int /\ q.y * Value(old, c.y, j + 1) = vy + dy * Q
  <2> DEFINE e == q.y
             ptr == c.y
  <2>1. e \in Int /\ ptr \in Nat
    BY <1>1, <1>2
  <2> HIDE DEF e, ptr
  <2>2. /\ e * Value(old, ptr, j) \in Int /\ e * DigitAt(old, ptr + j) \in Int
        /\ (e * DigitAt(old, ptr + j)) * Pow[j] \in Int
        /\ e * Value(old, ptr, j + 1) = e * Value(old, ptr, j) + (e * DigitAt(old, ptr + j)) * Pow[j]
    BY <2>1, SummandStep
  <2>3. QED
    BY <2>2 DEF e, ptr
<1>6. vm \in Int /\ dm \in Int /\ dm * Q \in Int /\ q.m * Value(old, c.m, j + 1) = vm + dm * Q
  <2> DEFINE e == q.m
             ptr == c.m
  <2>1. e \in Int /\ ptr \in Nat
    BY <1>1, <1>2
  <2> HIDE DEF e, ptr
  <2>2. /\ e * Value(old, ptr, j) \in Int /\ e * DigitAt(old, ptr + j) \in Int
        /\ (e * DigitAt(old, ptr + j)) * Pow[j] \in Int
        /\ e * Value(old, ptr, j + 1) = e * Value(old, ptr, j) + (e * DigitAt(old, ptr + j)) * Pow[j]
    BY <2>1, SummandStep
  <2>3. QED
    BY <2>2 DEF e, ptr
<1>7. vn \in Int /\ dn \in Int /\ dn * Q \in Int /\ q.not * (Pow[j + 1] - 1) = vn + dn * Q
  <2>1. Q \in Nat /\ Pow[j + 1] = B * Q /\ B \in Nat
    BY PowFacts, BaseAssumption
  <2> DEFINE e == q.not
  <2>2. e \in Int
    BY <1>2
  <2> HIDE DEF Q, e
  <2>3. e * (B * Q - 1) = e * (Q - 1) + (e * (B - 1)) * Q
    BY <2>1, <2>2
  <2>4. e * (Q - 1) \in Int /\ e * (B - 1) \in Int /\ (e * (B - 1)) * Q \in Int
    BY <2>1, <2>2
  <2>5. QED
    BY <2>1, <2>3, <2>4 DEF Q, e
<1>8. /\ Total(c, old, j, q) = vz + vx + vy + vm + vn + q.start
      /\ Column5(c, old, j, q) = dz + dx + dy + dm + dn
      /\ Total(c, old, j + 1, q) = q.z * Value(old, c.z, j + 1) + q.x * Value(old, c.x, j + 1)
           + q.y * Value(old, c.y, j + 1) + q.m * Value(old, c.m, j + 1)
           + q.not * (Pow[j + 1] - 1) + q.start
  BY DEF Total, Column5
<1>9. Q \in Int
  BY PowFacts
<1> HIDE DEF Q, vz, vx, vy, vm, vn, dz, dx, dy, dm, dn
<1>10. (dz + dx + dy + dm + dn) * Q = dz * Q + dx * Q + dy * Q + dm * Q + dn * Q
  BY <1>3, <1>4, <1>5, <1>6, <1>7, <1>9
<1>11. Total(c, old, j, q) \in Int /\ Column5(c, old, j, q) \in Int
  BY <1>2, <1>3, <1>4, <1>5, <1>6, <1>7, <1>8
<1>12. Total(c, old, j + 1, q)
         = vz + vx + vy + vm + vn + q.start + (dz * Q + dx * Q + dy * Q + dm * Q + dn * Q)
  <2> DEFINE tz == dz * Q
             tx == dx * Q
             ty == dy * Q
             tm == dm * Q
             tn == dn * Q
  <2>1. Total(c, old, j + 1, q) = (vz + tz) + (vx + tx) + (vy + ty) + (vm + tm) + (vn + tn) + q.start
    BY <1>3, <1>4, <1>5, <1>6, <1>7, <1>8
  <2>2. tz \in Int /\ tx \in Int /\ ty \in Int /\ tm \in Int /\ tn \in Int
    BY <1>3, <1>4, <1>5, <1>6, <1>7
  <2>3. vz \in Int /\ vx \in Int /\ vy \in Int /\ vm \in Int /\ vn \in Int /\ q.start \in Int
    BY <1>2, <1>3, <1>4, <1>5, <1>6, <1>7
  <2> HIDE DEF tz, tx, ty, tm, tn
  <2>4. Total(c, old, j + 1, q) = vz + vx + vy + vm + vn + q.start + (tz + tx + ty + tm + tn)
    BY <2>1, <2>2, <2>3
  <2>5. QED
    BY <2>4 DEF tz, tx, ty, tm, tn
<1>13. QED
  BY <1>8, <1>10, <1>11, <1>12 DEF Q

\* A pass starts with nothing stored.
LEMMA PassStart ==
  ASSUME NEW c \in LoopCalls, NEW old \in Memory, NEW q \in Mixes
  PROVE  Pass(c, old, old, 0, q, q.start)
<1>1. c.z \in Nat /\ c.x \in Nat /\ c.y \in Nat /\ c.m \in Nat
  BY LoopCallFacts
<1>2. q.z \in Int /\ q.x \in Int /\ q.y \in Int /\ q.m \in Int /\ q.not \in Int /\ q.start \in Int
  BY DEF Mixes
<1>3. Value(old, c.z, 0) = 0 /\ Value(old, c.x, 0) = 0 /\ Value(old, c.y, 0) = 0
      /\ Value(old, c.m, 0) = 0 /\ Pow[0] = 1
  BY <1>1, ValueFacts, PowFacts DEF Memory
<1>4. Total(c, old, 0, q) = q.start
  BY <1>2, <1>3 DEF Total
<1>5. Value(old, c.z, 0) + q.start * Pow[0] = q.start
  BY <1>2, <1>3
<1>6. QED
  BY <1>4, <1>5 DEF Pass, Untouched

\* One iteration: the digit stored and the carry out make up the column.
LEMMA PassStep ==
  ASSUME NEW c \in LoopCalls, NEW after \in Memory, NEW old \in Memory, NEW q \in Mixes,
         NEW j \in Nat, j < c.k, NEW v \in Digit, NEW in \in Int, NEW out \in Int,
         Pass(c, after, old, j, q, in), v + B * out = Column5(c, old, j, q) + in
  PROVE  /\ Store(after, c.z + j, v) \in Memory
         /\ Pass(c, Store(after, c.z + j, v), old, j + 1, q, out)
<1>1. c.z \in Nat /\ c.k \in Nat /\ c.z + j < MemSize
  BY LoopCallFacts, MemSizeAssumption
<1>2. /\ Store(after, c.z + j, v) \in Memory
      /\ Untouched(Store(after, c.z + j, v), old, c.z, j + 1)
  BY <1>1, StoredFrame DEF Pass
<1>3. /\ Total(c, old, j, q) \in Int /\ Column5(c, old, j, q) \in Int
      /\ Total(c, old, j + 1, q) = Total(c, old, j, q) + Column5(c, old, j, q) * Pow[j]
  BY TotalStep
<1>4. Value(after, c.z, j) + in * Pow[j] = Total(c, old, j, q)
  BY DEF Pass
<1>5. Value(Store(after, c.z + j, v), c.z, j + 1) + out * Pow[j + 1]
        = Total(c, old, j, q) + Column5(c, old, j, q) * Pow[j]
  <2> DEFINE z == c.z
             total == Total(c, old, j, q)
             t == Column5(c, old, j, q)
  <2>1. /\ z \in Nat /\ z + j < MemSize /\ total \in Int /\ t \in Int
        /\ Value(after, z, j) + in * Pow[j] = total /\ v + B * out = t + in
    BY <1>1, <1>3, <1>4
  <2> HIDE DEF z, total, t
  <2>2. Value(Store(after, z + j, v), z, j + 1) + out * Pow[j + 1] = total + t * Pow[j]
    BY <2>1, StoredValue
  <2>3. QED
    BY <2>2 DEF z, total, t
<1>6. QED
  BY <1>2, <1>3, <1>5 DEF Pass

\* At its end the pass has left the low words of the combination, and the carry
\* is the rest of it.
LEMMA PassEnd ==
  ASSUME NEW c \in LoopCalls, NEW after \in Memory, NEW old \in Memory, NEW q \in Mixes,
         NEW carry \in Int, Pass(c, after, old, c.k, q, carry)
  PROVE  /\ Value(after, c.z, c.k) = Low(c.k, Total(c, old, c.k, q))
         /\ carry = High(c.k, Total(c, old, c.k, q))
         /\ \A t \in Addr \ Region(c.z, c.k) : after[t] = old[t]
<1>1. c.z \in Nat /\ c.k \in Nat
  BY LoopCallFacts
<1>2. Value(after, c.z, c.k) \in Nat /\ Value(after, c.z, c.k) < Pow[c.k]
  BY <1>1, ValueBound
<1>3. /\ Low(c.k, Value(after, c.z, c.k) + carry * Pow[c.k]) = Value(after, c.z, c.k)
      /\ High(c.k, Value(after, c.z, c.k) + carry * Pow[c.k]) = carry
  BY <1>1, <1>2, LowHigh
<1>4. QED
  BY <1>3 DEF Pass, Untouched

\* The words a pass loads are those the operands had when it started.
LEMMA PassLoads ==
  ASSUME NEW c \in LoopCalls, NEW after \in Memory, NEW old \in Memory,
         NEW j \in Nat, j < c.k, Untouched(after, old, c.z, j)
  PROVE  /\ DigitAt(after, c.z + j) = DigitAt(old, c.z + j)
         /\ c.op \notin {"muladd10", "normalize", "pow2", "of_word"} /\ j < c.n =>
              DigitAt(after, c.x + j) = DigitAt(old, c.x + j)
         /\ c.op \in {"optadd", "optsub", "optsubadd", "modadd", "modsub", "mux"} =>
              DigitAt(after, c.y + j) = DigitAt(old, c.y + j)
         /\ c.op \in ModularOps => DigitAt(after, c.m + j) = DigitAt(old, c.m + j)
         /\ DigitAt(old, c.z + j) \in Digit /\ DigitAt(old, c.x + j) \in Digit
         /\ DigitAt(old, c.y + j) \in Digit /\ DigitAt(old, c.m + j) \in Digit
<1>1. GoodLoopCall(c)
  BY LoopCallFacts
<1>2. /\ c.k \in Nat /\ c.n \in Nat /\ c.z \in Nat /\ c.x \in Nat /\ c.y \in Nat /\ c.m \in Nat
  BY LoopCallFacts
<1>3. DigitAt(after, c.z + j) = DigitAt(old, c.z + j)
  <2>1. SameOrDisjoint(c.z, c.k, c.z, c.k)
    BY DEF SameOrDisjoint
  <2>2. QED
    BY <1>2, <2>1, Loaded
<1>4. ASSUME c.op \notin {"muladd10", "normalize", "pow2", "of_word"}, j < c.n
      PROVE  DigitAt(after, c.x + j) = DigitAt(old, c.x + j)
  <2> DEFINE len == IF c.op = "copy" THEN Lesser(c.n, c.k) ELSE c.n
  <2>1. SameOrDisjoint(c.x, len, c.z, c.k)
    BY <1>1, <1>4 DEF GoodLoopCall
  <2>2. len \in Nat /\ j < len
    BY <1>2, <1>4 DEF Lesser
  <2> HIDE DEF len
  <2>3. QED
    BY <1>2, <2>1, <2>2, Loaded
<1>5. ASSUME c.op \in {"optadd", "optsub", "optsubadd", "modadd", "modsub", "mux"}
      PROVE  DigitAt(after, c.y + j) = DigitAt(old, c.y + j)
  <2>1. SameOrDisjoint(c.y, c.k, c.z, c.k)
    BY <1>1, <1>5 DEF GoodLoopCall
  <2>2. QED
    BY <1>2, <2>1, Loaded
<1>6. ASSUME c.op \in ModularOps PROVE DigitAt(after, c.m + j) = DigitAt(old, c.m + j)
  <2>1. SameOrDisjoint(c.m, c.k, c.z, c.k)
    BY <1>1, <1>6 DEF GoodLoopCall, ModularOps, SameOrDisjoint
  <2>2. QED
    BY <1>2, <2>1, Loaded
<1>7. /\ DigitAt(old, c.z + j) \in Digit /\ DigitAt(old, c.x + j) \in Digit
      /\ DigitAt(old, c.y + j) \in Digit /\ DigitAt(old, c.m + j) \in Digit
  BY <1>2, DigitAtType DEF Memory
<1>8. QED
  BY <1>3, <1>4, <1>5, <1>6, <1>7

-----------------------------------------------------------------------------
(* The state of a call.                                                     *)

LoopTypes ==
  /\ call \in LoopCalls /\ Admissible(call, memory0)
  /\ memory \in Memory /\ memory0 \in Memory
  /\ pos \in Nat /\ h \in Int /\ flag \in Int /\ result \in Int

\* The number that the buffer at ptr held at the call.
Was(ptr, len) == Value(memory0, ptr, len)

\* The pass of a loop over the operands as they were at the call.
Passing(q, carry) == pos <= call.k /\ Pass(call, memory, memory0, pos, q, carry)

\* The result of a call is the value left and the carry, for any way to write
\* the number they make up.
LEMMA ResultIs ==
  ASSUME LoopTypes, NEW e \in Int, NEW T,
         Value(memory, call.z, call.k) + e * Pow[call.k] = T
  PROVE  Low(call.k, T) = Value(memory, call.z, call.k) /\ High(call.k, T) = e
<1>1. call.z \in Nat /\ call.k \in Nat /\ memory \in Memory
  BY LoopCallFacts DEF LoopTypes
<1>2. Value(memory, call.z, call.k) \in Nat /\ Value(memory, call.z, call.k) < Pow[call.k]
  BY <1>1, ValueBound
<1> DEFINE k == call.k
           v == Value(memory, call.z, call.k)
<1>3. k \in Nat /\ v \in Int /\ v >= 0 /\ v < Pow[k] /\ T = v + e * Pow[k]
  BY <1>1, <1>2
<1> HIDE DEF k, v
<1>4. Low(k, T) = v /\ High(k, T) = e
  BY <1>3, LowHigh
<1>5. QED
  BY <1>4 DEF k, v

\* A function returns when its contract holds.
LEMMA Leaving ==
  ASSUME LoopTypes, NEW r \in Int, Leave(r),
         Value(memory, call.z, call.k) = Promised[1], Promised[2] \in {NoWord, r},
         Untouched(memory, memory0, call.z, call.k)
  PROVE  LoopTypes' /\ MeetsContract' /\ phase' = "done"
<1>1. /\ phase' = "done" /\ result' = r /\ memory' = memory /\ pos' = pos /\ h' = h
      /\ flag' = flag /\ call' = call /\ memory0' = memory0
  BY DEF Leave
<1>2. LoopTypes'
  BY <1>1 DEF LoopTypes, Admissible
<1>3. Promised' = Promised
  BY <1>1 DEF Promised
<1>4. /\ Value(memory', call'.z, call'.k) = Promised'[1]
      /\ Promised'[2] \in {NoWord, result'}
      /\ \A t \in Addr \ Region(call'.z, call'.k) : memory'[t] = memory0'[t]
  BY <1>1, <1>3 DEF Untouched
<1>5. QED
  BY <1>1, <1>2, <1>4 DEF MeetsContract

\* An iteration that stores a word keeps the types.
LEMMA Emitting ==
  ASSUME LoopTypes, phase # "done", NEW v \in Digit, Emit(v), pos < call.k, h' \in Int, flag' \in Int
  PROVE  /\ LoopTypes' /\ MeetsContract' /\ phase' = phase /\ call' = call /\ memory0' = memory0
         /\ memory' = Store(memory, call.z + pos, v) /\ pos' = pos + 1
         /\ call.k \in Nat /\ pos \in Nat /\ pos + 1 <= call.k
<1>1. /\ memory' = Store(memory, call.z + pos, v) /\ pos' = pos + 1
      /\ phase' = phase /\ result' = result /\ call' = call /\ memory0' = memory0
  BY DEF Emit
<1>2. memory' \in Memory
  BY <1>1 DEF Store, LoopTypes, Memory
<1>3. LoopTypes'
  BY <1>1, <1>2 DEF LoopTypes, Admissible
<1>4. call.k \in Nat /\ pos \in Nat /\ pos + 1 <= call.k
  BY LoopCallFacts DEF LoopTypes
<1>5. QED
  BY <1>1, <1>3, <1>4 DEF MeetsContract

\* An iteration or a change of pass that stores nothing keeps the types.
LEMMA Moving ==
  ASSUME LoopTypes, phase' # "done", UNCHANGED <<memory, result, call, memory0>>,
         pos' \in Nat, h' \in Int, flag' \in Int
  PROVE  LoopTypes' /\ MeetsContract'
<1>1. LoopTypes'
  BY DEF LoopTypes, Admissible
<1>2. QED
  BY <1>1 DEF MeetsContract

\* A pass over the operands of the call goes on: the word stored and the carry
\* out make up the column of the words as they are loaded.
LEMMA PassingStep ==
  ASSUME LoopTypes, phase # "done", NEW q \in Mixes, NEW v \in Digit, NEW in \in Int, NEW out \in Int,
         Emit(v), pos < call.k, h' \in Int, flag' \in Int,
         Passing(q, in), v + B * out = Column5(call, memory0, pos, q) + in
  PROVE  /\ LoopTypes' /\ MeetsContract' /\ phase' = phase /\ call' = call /\ memory0' = memory0
         /\ pos' = pos + 1 /\ pos + 1 <= call.k
         /\ pos' <= call'.k /\ Pass(call', memory', memory0', pos', q, out)
<1>1. /\ LoopTypes' /\ MeetsContract' /\ phase' = phase /\ call' = call /\ memory0' = memory0
      /\ memory' = Store(memory, call.z + pos, v) /\ pos' = pos + 1
      /\ call.k \in Nat /\ pos \in Nat /\ pos + 1 <= call.k
  BY Emitting
<1>2. call \in LoopCalls /\ memory \in Memory /\ memory0 \in Memory
  BY DEF LoopTypes
<1>3. Pass(call, memory, memory0, pos, q, in)
  BY DEF Passing
<1>4. Pass(call, Store(memory, call.z + pos, v), memory0, pos + 1, q, out)
  BY <1>1, <1>2, <1>3, PassStep
<1>5. QED
  BY <1>1, <1>4

\* The words loaded in a pass over the operands of the call.
LEMMA PassingLoads ==
  ASSUME LoopTypes, pos < call.k, Untouched(memory, memory0, call.z, pos)
  PROVE  /\ Zi = DigitAt(memory0, call.z + pos)
         /\ call.op \notin {"muladd10", "normalize", "pow2", "of_word"} /\ pos < call.n =>
              Xi = DigitAt(memory0, call.x + pos)
         /\ call.op \in {"optadd", "optsub", "optsubadd", "modadd", "modsub", "mux"} =>
              Yi = DigitAt(memory0, call.y + pos)
         /\ call.op \in ModularOps => Mi = DigitAt(memory0, call.m + pos)
         /\ Zi \in Int /\ Xi \in Int /\ Yi \in Int /\ Mi \in Int
         /\ Zi \in Digit /\ Xi \in Digit /\ Yi \in Digit /\ Mi \in Digit
         /\ DigitAt(memory0, call.z + pos) \in Int /\ DigitAt(memory0, call.x + pos) \in Int
         /\ DigitAt(memory0, call.y + pos) \in Int /\ DigitAt(memory0, call.m + pos) \in Int
<1>1. call \in LoopCalls /\ memory \in Memory /\ memory0 \in Memory /\ pos \in Nat
  BY DEF LoopTypes
<1> DEFINE dz == DigitAt(memory0, call.z + pos)
           dx == DigitAt(memory0, call.x + pos)
           dy == DigitAt(memory0, call.y + pos)
           dm == DigitAt(memory0, call.m + pos)
<1>2. /\ DigitAt(memory, call.z + pos) = dz
      /\ call.op \notin {"muladd10", "normalize", "pow2", "of_word"} /\ pos < call.n =>
           DigitAt(memory, call.x + pos) = dx
      /\ call.op \in {"optadd", "optsub", "optsubadd", "modadd", "modsub", "mux"} =>
           DigitAt(memory, call.y + pos) = dy
      /\ call.op \in ModularOps => DigitAt(memory, call.m + pos) = dm
      /\ dz \in Digit /\ dx \in Digit /\ dy \in Digit /\ dm \in Digit
  BY <1>1, PassLoads
<1>3. \A v \in Digit : v \in Int
  BY DEF Digit
<1>4. call.z \in Nat /\ call.x \in Nat /\ call.y \in Nat /\ call.m \in Nat
  BY <1>1, LoopCallFacts
<1>5. Zi \in Digit /\ Xi \in Digit /\ Yi \in Digit /\ Mi \in Digit
  BY <1>1, <1>4, DigitAtType DEF Zi, Xi, Yi, Mi, Memory
<1>6. QED
  BY <1>2, <1>3, <1>5 DEF Zi, Xi, Yi, Mi

\* The combination of the first j words, written out.
LEMMA TotalOf ==
  ASSUME LoopTypes, NEW q \in Mixes, NEW j \in Nat
  PROVE  /\ Total(call, memory0, j, q)
              = q.z * Was(call.z, j) + q.x * Was(call.x, j) + q.y * Was(call.y, j)
                + q.m * Was(call.m, j) + q.not * (Pow[j] - 1) + q.start
         /\ Was(call.z, j) \in Int /\ Was(call.x, j) \in Int /\ Was(call.y, j) \in Int
         /\ Was(call.m, j) \in Int /\ Pow[j] \in Int
         /\ Was(call.z, j) >= 0 /\ Was(call.x, j) >= 0 /\ Was(call.y, j) >= 0
         /\ Was(call.m, j) >= 0 /\ Pow[j] >= 1
         /\ Was(call.z, j) < Pow[j] /\ Was(call.x, j) < Pow[j] /\ Was(call.y, j) < Pow[j]
         /\ Was(call.m, j) < Pow[j]
<1>1. call.z \in Nat /\ call.x \in Nat /\ call.y \in Nat /\ call.m \in Nat /\ memory0 \in Memory
  BY LoopCallFacts DEF LoopTypes
<1>2. /\ Was(call.z, j) \in Nat /\ Was(call.x, j) \in Nat /\ Was(call.y, j) \in Nat
      /\ Was(call.m, j) \in Nat
      /\ Was(call.z, j) < Pow[j] /\ Was(call.x, j) < Pow[j] /\ Was(call.y, j) < Pow[j]
      /\ Was(call.m, j) < Pow[j]
  BY <1>1, ValueBound DEF Was
<1>3. Pow[j] \in Nat /\ Pow[j] >= 1
  BY PowPositive
<1>4. QED
  BY <1>2, <1>3 DEF Total, Was

\* A list of coefficients is well formed.
LEMMA MixType ==
  ASSUME NEW cz \in Int, NEW cx \in Int, NEW cy \in Int, NEW cm \in Int,
         NEW cn \in Int, NEW c0 \in Int
  PROVE  Mix(cz, cx, cy, cm, cn, c0) \in Mixes
BY DEF Mix, Mixes

-----------------------------------------------------------------------------
(* bignum_optadd, bignum_optsub, bignum_optsubadd and bignum_optneg.        *)

OptAddInv == phase = "main" /\ Passing(Mix(0, 1, Bitval(call.w # 0), 0, 0, 0), flag)

\* bignum_optadd adds y under a mask.
LEMMA OptAddKeeps ==
  ASSUME LoopTypes, call.op = "optadd", OptAddInv, OptAdd
  PROVE  LoopTypes' /\ MeetsContract' /\ (phase' # "done" => OptAddInv')
<1> DEFINE b == Bitval(call.w # 0)
           q == Mix(0, 1, b, 0, 0, 0)
<1>1. b \in Int /\ call.k \in Nat /\ flag \in Int /\ pos \in Nat /\ phase # "done"
  BY LoopCallFacts DEF Bitval, LoopTypes, OptAddInv
<1>2. q \in Mixes
  BY <1>1, MixType
<1>3. Passing(q, flag) /\ phase = "main"
  BY DEF OptAddInv
<1>4. Untouched(memory, memory0, call.z, pos)
  BY <1>3 DEF Passing, Pass
<1>5. CASE pos < call.k
  <2> DEFINE s == Xi + If(call.w # 0, Yi) + flag
  <2>1. Emit(Lo(s)) /\ flag' = Hi(s) /\ h' = h
    BY <1>5 DEF OptAdd
  <2>2. /\ Xi = DigitAt(memory0, call.x + pos) /\ Yi = DigitAt(memory0, call.y + pos)
        /\ Xi \in Int /\ Yi \in Int
        /\ DigitAt(memory0, call.z + pos) \in Int /\ DigitAt(memory0, call.m + pos) \in Int
    <3>1. call.n = call.k
      BY LoopCallFacts DEF LoopTypes, GoodLoopCall, OneLength
    <3>2. QED
      BY <1>4, <1>5, <3>1, PassingLoads
  <2>3. s = Column5(call, memory0, pos, q) + flag
    <3>1. If(call.w # 0, Yi) = b * Yi
      BY <2>2 DEF If, Bitval
    <3> HIDE DEF b
    <3>2. QED
      BY <1>1, <2>2, <3>1, BaseAssumption DEF Column5, Mix
  <2>4. s \in Int
    BY <1>1, <2>2 DEF If
  <2> HIDE DEF s, q
  <2>5. Lo(s) \in Digit /\ Hi(s) \in Int /\ Lo(s) + B * Hi(s) = Column5(call, memory0, pos, q) + flag
    BY <2>3, <2>4, HiLo
  <2>6. /\ LoopTypes' /\ MeetsContract' /\ phase' = phase /\ call' = call
        /\ pos' <= call'.k /\ Pass(call', memory', memory0', pos', q, flag')
    BY <1>1, <1>2, <1>3, <1>5, <2>1, <2>5, PassingStep DEF LoopTypes
  <2>7. QED
    BY <1>3, <2>6 DEF OptAddInv, Passing, q
<1>6. CASE ~(pos < call.k)
  <2>1. pos = call.k /\ Leave(flag)
    BY <1>1, <1>3, <1>6 DEF OptAdd, Passing
  <2>2. Value(memory, call.z, call.k) + flag * Pow[call.k] = Was(call.x, call.k) + b * Was(call.y, call.k)
    <3>1. Value(memory, call.z, call.k) + flag * Pow[call.k] = Total(call, memory0, call.k, q)
      BY <1>3, <2>1 DEF Passing, Pass
    <3>2. Total(call, memory0, call.k, q) = Was(call.x, call.k) + b * Was(call.y, call.k)
      <4> HIDE DEF b
      <4>1. QED
        BY <1>1, <1>2, TotalOf DEF Mix
    <3>3. QED
      BY <3>1, <3>2
  <2>3. /\ Promised[1] = Low(call.k, Was(call.x, call.k) + b * Was(call.y, call.k))
        /\ Promised[2] = High(call.k, Was(call.x, call.k) + b * Was(call.y, call.k))
    <3>1. call.n = call.k
      BY LoopCallFacts DEF LoopTypes, GoodLoopCall, OneLength
    <3>2. QED
      BY <3>1 DEF Promised, bignum_optadd, Was
  <2>4. Value(memory, call.z, call.k) = Promised[1] /\ Promised[2] = flag
    BY <1>1, <2>2, <2>3, ResultIs
  <2>5. QED
    BY <1>1, <1>4, <2>1, <2>4, Leaving
<1>7. QED
  BY <1>5, <1>6

OptSubInv == phase = "main" /\ Passing(Mix(0, 1, -Bitval(call.w # 0), 0, 0, 0), -flag)

\* bignum_optsub subtracts y under a mask, with a borrow.
LEMMA OptSubKeeps ==
  ASSUME LoopTypes, call.op = "optsub", OptSubInv, OptSub
  PROVE  LoopTypes' /\ MeetsContract' /\ (phase' # "done" => OptSubInv')
<1> DEFINE b == Bitval(call.w # 0)
           q == Mix(0, 1, -b, 0, 0, 0)
<1>1. b \in Int /\ call.k \in Nat /\ flag \in Int /\ pos \in Nat /\ phase # "done"
      /\ call.n = call.k
  BY LoopCallFacts DEF Bitval, LoopTypes, OptSubInv, GoodLoopCall, OneLength
<1>2. q \in Mixes
  BY <1>1, MixType
<1>3. Passing(q, -flag) /\ phase = "main"
  BY DEF OptSubInv
<1>4. Untouched(memory, memory0, call.z, pos)
  BY <1>3 DEF Passing, Pass
<1>5. CASE pos < call.k
  <2> DEFINE s == Xi - If(call.w # 0, Yi) - flag
  <2>1. Emit(Lo(s)) /\ flag' = -Hi(s) /\ h' = h
    BY <1>5 DEF OptSub
  <2>2. /\ Xi = DigitAt(memory0, call.x + pos) /\ Yi = DigitAt(memory0, call.y + pos)
        /\ Xi \in Int /\ Yi \in Int
        /\ DigitAt(memory0, call.z + pos) \in Int /\ DigitAt(memory0, call.m + pos) \in Int
    BY <1>1, <1>4, <1>5, PassingLoads
  <2>3. s = Column5(call, memory0, pos, q) + (-flag)
    <3>1. If(call.w # 0, Yi) = b * Yi
      BY <2>2 DEF If, Bitval
    <3> HIDE DEF b
    <3>2. QED
      BY <1>1, <2>2, <3>1, BaseAssumption DEF Column5, Mix
  <2>4. s \in Int
    BY <1>1, <2>2 DEF If
  <2> HIDE DEF s, q
  <2>5. /\ Lo(s) \in Digit /\ Hi(s) \in Int /\ -flag \in Int /\ -flag' = Hi(s) /\ h' \in Int
        /\ flag' \in Int /\ Lo(s) + B * Hi(s) = Column5(call, memory0, pos, q) + (-flag)
    BY <1>1, <2>1, <2>3, <2>4, HiLo DEF LoopTypes
  <2>6. /\ LoopTypes' /\ MeetsContract' /\ phase' = phase /\ call' = call
        /\ pos' <= call'.k /\ Pass(call', memory', memory0', pos', q, Hi(s))
    BY <1>1, <1>2, <1>3, <1>5, <2>1, <2>5, PassingStep
  <2>7. QED
    BY <1>3, <2>5, <2>6 DEF OptSubInv, Passing, q
<1>6. CASE ~(pos < call.k)
  <2>1. pos = call.k /\ Leave(flag)
    BY <1>1, <1>3, <1>6 DEF OptSub, Passing
  <2>2. Value(memory, call.z, call.k) + (-flag) * Pow[call.k] = Was(call.x, call.k) - b * Was(call.y, call.k)
    <3>1. Value(memory, call.z, call.k) + (-flag) * Pow[call.k] = Total(call, memory0, call.k, q)
      BY <1>3, <2>1 DEF Passing, Pass
    <3>2. Total(call, memory0, call.k, q) = Was(call.x, call.k) - b * Was(call.y, call.k)
      <4> HIDE DEF b
      <4>1. QED
        BY <1>1, <1>2, TotalOf DEF Mix
    <3>3. QED
      BY <3>1, <3>2
  <2>3. /\ Promised[1] = Low(call.k, Was(call.x, call.k) - b * Was(call.y, call.k))
        /\ Promised[2] = -High(call.k, Was(call.x, call.k) - b * Was(call.y, call.k))
    BY <1>1 DEF Promised, bignum_optsub, Was
  <2>4. Value(memory, call.z, call.k) = Promised[1] /\ Promised[2] = flag
    <3>1. -flag \in Int /\ -(-flag) = flag
      BY <1>1
    <3>2. QED
      BY <2>2, <2>3, <3>1, ResultIs
  <2>5. QED
    BY <1>1, <1>4, <2>1, <2>4, Leaving
<1>7. QED
  BY <1>5, <1>6

\* With a negative word p the pass adds the complement of y and 1.
OptSubAddInv ==
  LET down == Bitval(Negative(call.w))
      b    == Bitval(call.w # 0)
  IN  phase = "main" /\ Passing(Mix(0, 1, b - 2 * down, 0, down, down), flag)

\* bignum_optsubadd subtracts, adds or copies according to the sign of p.
LEMMA OptSubAddKeeps ==
  ASSUME LoopTypes, call.op = "optsubadd", OptSubAddInv, OptSubAdd
  PROVE  LoopTypes' /\ MeetsContract' /\ (phase' # "done" => OptSubAddInv')
<1> DEFINE down == Bitval(Negative(call.w))
           b == Bitval(call.w # 0)
           q == Mix(0, 1, b - 2 * down, 0, down, down)
<1>1. /\ b \in Int /\ down \in Int /\ b - 2 * down \in Int
      /\ call.k \in Nat /\ flag \in Int /\ pos \in Nat /\ phase # "done" /\ call.n = call.k
  BY LoopCallFacts DEF Bitval, LoopTypes, OptSubAddInv, GoodLoopCall, OneLength
<1>2. q \in Mixes
  <2> HIDE DEF down, b
  <2>1. QED
    BY <1>1, MixType
<1>3. Passing(q, flag) /\ phase = "main"
  BY DEF OptSubAddInv
<1>4. Untouched(memory, memory0, call.z, pos)
  BY <1>3 DEF Passing, Pass
<1>5. Negative(call.w) => call.w # 0
  <2>1. B \div 2 >= 1 /\ B \div 2 \in Int
    BY BaseAssumption
  <2>2. ~(0 >= B \div 2)
    BY <2>1
  <2>3. QED
    BY <2>2 DEF Negative
<1>6. CASE pos < call.k
  <2> DEFINE s == Xi + If(call.w # 0, IF Negative(call.w) THEN Not(Yi) ELSE Yi) + flag
  <2>1. Emit(Lo(s)) /\ flag' = Hi(s) /\ h' = h
    BY <1>6 DEF OptSubAdd
  <2>2. /\ Xi = DigitAt(memory0, call.x + pos) /\ Yi = DigitAt(memory0, call.y + pos)
        /\ Xi \in Int /\ Yi \in Int
        /\ DigitAt(memory0, call.z + pos) \in Int /\ DigitAt(memory0, call.m + pos) \in Int
    BY <1>1, <1>4, <1>6, PassingLoads
  <2>3. s = Column5(call, memory0, pos, q) + flag
    <3>1. If(call.w # 0, IF Negative(call.w) THEN Not(Yi) ELSE Yi) = (b - 2 * down) * Yi + down * (B - 1)
      BY <1>5, <2>2, BaseAssumption DEF If, Bitval, Not
    <3> DEFINE e == b - 2 * down
    <3>2. e \in Int
      BY <1>1
    <3> HIDE DEF b, down, e
    <3>3. QED
      BY <1>1, <2>2, <3>1, <3>2, BaseAssumption DEF Column5, Mix, e
  <2>4. s \in Int
    BY <1>1, <2>2, BaseAssumption DEF If, Not
  <2> HIDE DEF s, q
  <2>5. Lo(s) \in Digit /\ Hi(s) \in Int /\ Lo(s) + B * Hi(s) = Column5(call, memory0, pos, q) + flag
    BY <2>3, <2>4, HiLo
  <2>6. /\ LoopTypes' /\ MeetsContract' /\ phase' = phase /\ call' = call
        /\ pos' <= call'.k /\ Pass(call', memory', memory0', pos', q, flag')
    BY <1>1, <1>2, <1>3, <1>6, <2>1, <2>5, PassingStep DEF LoopTypes
  <2>7. QED
    BY <1>3, <2>6 DEF OptSubAddInv, Passing, q
<1>7. CASE ~(pos < call.k)
  <2> DEFINE x == Was(call.x, call.k)
             y == Was(call.y, call.k)
             V == Value(memory, call.z, call.k)
             P == Pow[call.k]
  <2>1. pos = call.k /\ Leave(IF Negative(call.w) THEN 1 - flag ELSE flag)
    BY <1>1, <1>3, <1>7 DEF OptSubAdd, Passing
  <2>2. V + flag * P = x + (b - 2 * down) * y + down * (P - 1) + down
    <3>1. V + flag * P = Total(call, memory0, call.k, q)
      BY <1>3, <2>1 DEF Passing, Pass
    <3>2. Total(call, memory0, call.k, q) = x + (b - 2 * down) * y + down * (P - 1) + down
      <4> DEFINE e == b - 2 * down
      <4>1. e \in Int
        BY <1>1
      <4> HIDE DEF b, down, e
      <4>2. QED
        BY <1>1, <1>2, <4>1, TotalOf DEF Mix, e
    <3>3. QED
      BY <3>1, <3>2
  <2>3. x \in Int /\ y \in Int /\ P \in Int /\ V \in Int
    <3>1. V \in Nat
      BY <1>1, ValueBound, LoopCallFacts DEF LoopTypes
    <3>2. QED
      BY <1>1, <1>2, <3>1, TotalOf
  <2>4. CASE Negative(call.w)
    <3>1. Promised[1] = Low(call.k, x - y) /\ Promised[2] = -High(call.k, x - y)
      <4>1. x - Bitval(call.w # 0) * y = x - y
        BY <1>5, <2>3, <2>4 DEF Bitval
      <4>2. QED
        BY <1>1, <2>4, <4>1 DEF Promised, bignum_optsubadd, bignum_optsub, Was
    <3>2. V + (flag - 1) * P = x - y
      <4>1. V + flag * P = x - y + P
        <5>1. b = 1 /\ down = 1
          BY <1>5, <2>4 DEF Bitval
        <5> HIDE DEF x, y, V, P, b, down
        <5>2. QED
          BY <2>2, <2>3, <5>1
      <4> HIDE DEF x, y, V, P
      <4>2. (flag - 1) * P = flag * P - P /\ flag * P \in Int
        BY <1>1, <2>3
      <4>3. QED
        BY <2>3, <4>1, <4>2
    <3>3. Low(call.k, x - y) = V /\ High(call.k, x - y) = flag - 1
      <4>1. flag - 1 \in Int
        BY <1>1
      <4>2. QED
        BY <3>2, <4>1, ResultIs
    <3>4. Promised[2] = 1 - flag /\ 1 - flag \in Int
      BY <1>1, <3>1, <3>3
    <3>5. QED
      BY <1>4, <2>1, <2>4, <3>1, <3>3, <3>4, Leaving
  <2>5. CASE ~Negative(call.w)
    <3>1. Promised[1] = Low(call.k, x + b * y) /\ Promised[2] = High(call.k, x + b * y)
      BY <1>1, <2>5 DEF Promised, bignum_optsubadd, bignum_optadd, Was
    <3>2. V + flag * P = x + b * y
      <4>1. down = 0
        BY <2>5 DEF Bitval
      <4> HIDE DEF x, y, V, P, b, down
      <4>2. QED
        BY <1>1, <2>2, <2>3, <4>1
    <3>3. Low(call.k, x + b * y) = V /\ High(call.k, x + b * y) = flag
      BY <1>1, <3>2, ResultIs
    <3>4. QED
      BY <1>1, <1>4, <2>1, <2>5, <3>1, <3>3, Leaving
  <2>6. QED
    BY <2>4, <2>5
<1>8. QED
  BY <1>6, <1>7

OptNegInv ==
  LET b == Bitval(call.w # 0)
  IN  phase = "main" /\ Passing(Mix(0, 1 - 2 * b, 0, 0, b, b), flag)

\* bignum_optneg complements x and adds 1, under a mask.
LEMMA OptNegKeeps ==
  ASSUME LoopTypes, call.op = "optneg", OptNegInv, OptNeg
  PROVE  LoopTypes' /\ MeetsContract' /\ (phase' # "done" => OptNegInv')
<1> DEFINE b == Bitval(call.w # 0)
           q == Mix(0, 1 - 2 * b, 0, 0, b, b)
<1>1. /\ b \in Int /\ 1 - 2 * b \in Int
      /\ call.k \in Nat /\ flag \in Int /\ pos \in Nat /\ phase # "done" /\ call.n = call.k
  BY LoopCallFacts DEF Bitval, LoopTypes, OptNegInv, GoodLoopCall, OneLength
<1>2. q \in Mixes
  <2> HIDE DEF b
  <2>1. QED
    BY <1>1, MixType
<1>3. Passing(q, flag) /\ phase = "main"
  BY DEF OptNegInv
<1>4. Untouched(memory, memory0, call.z, pos)
  BY <1>3 DEF Passing, Pass
<1>5. CASE pos < call.k
  <2> DEFINE s == (IF call.w # 0 THEN Not(Xi) ELSE Xi) + flag
  <2>1. Emit(Lo(s)) /\ flag' = Hi(s) /\ h' = h
    BY <1>5 DEF OptNeg
  <2>2. /\ Xi = DigitAt(memory0, call.x + pos) /\ Xi \in Int
        /\ DigitAt(memory0, call.y + pos) \in Int
        /\ DigitAt(memory0, call.z + pos) \in Int /\ DigitAt(memory0, call.m + pos) \in Int
    BY <1>1, <1>4, <1>5, PassingLoads
  <2>3. s = Column5(call, memory0, pos, q) + flag
    <3>1. (IF call.w # 0 THEN Not(Xi) ELSE Xi) = (1 - 2 * b) * Xi + b * (B - 1)
      BY <2>2, BaseAssumption DEF Bitval, Not
    <3> DEFINE e == 1 - 2 * b
    <3>2. e \in Int
      BY <1>1
    <3> HIDE DEF b, e
    <3>3. QED
      BY <1>1, <2>2, <3>1, <3>2, BaseAssumption DEF Column5, Mix, e
  <2>4. s \in Int
    BY <1>1, <2>2, BaseAssumption DEF Not
  <2> HIDE DEF s, q
  <2>5. Lo(s) \in Digit /\ Hi(s) \in Int /\ Lo(s) + B * Hi(s) = Column5(call, memory0, pos, q) + flag
    BY <2>3, <2>4, HiLo
  <2>6. /\ LoopTypes' /\ MeetsContract' /\ phase' = phase /\ call' = call
        /\ pos' <= call'.k /\ Pass(call', memory', memory0', pos', q, flag')
    BY <1>1, <1>2, <1>3, <1>5, <2>1, <2>5, PassingStep DEF LoopTypes
  <2>7. QED
    BY <1>3, <2>6 DEF OptNegInv, Passing, q
<1>6. CASE ~(pos < call.k)
  <2> DEFINE x == Was(call.x, call.k)
             V == Value(memory, call.z, call.k)
             P == Pow[call.k]
  <2>1. pos = call.k /\ Leave(IF call.w # 0 THEN 1 - flag ELSE flag)
    BY <1>1, <1>3, <1>6 DEF OptNeg, Passing
  <2>2. V + flag * P = (1 - 2 * b) * x + b * (P - 1) + b
    <3>1. V + flag * P = Total(call, memory0, call.k, q)
      BY <1>3, <2>1 DEF Passing, Pass
    <3>2. Total(call, memory0, call.k, q) = (1 - 2 * b) * x + b * (P - 1) + b
      <4> DEFINE e == 1 - 2 * b
      <4>1. e \in Int
        BY <1>1
      <4> HIDE DEF b, e
      <4>2. QED
        BY <1>1, <1>2, <4>1, TotalOf DEF Mix, e
    <3>3. QED
      BY <3>1, <3>2
  <2>3. x \in Int /\ P \in Int /\ V \in Int /\ 0 <= x /\ x < P
    <3>1. V \in Nat
      BY <1>1, ValueBound, LoopCallFacts DEF LoopTypes
    <3>2. QED
      BY <1>1, <1>2, <3>1, TotalOf
  <2>4. CASE call.w # 0
    <3>1. Promised[1] = Low(call.k, -x) /\ Promised[2] = Bitval(x # 0)
      BY <1>1, <2>4 DEF Promised, bignum_optneg, Was, Bitval
    <3>2. V + flag * P = P - x
      <4>1. b = 1
        BY <2>4 DEF Bitval
      <4> HIDE DEF x, V, P, b
      <4>2. QED
        BY <2>2, <2>3, <4>1
    <3>3. V + (flag - 1) * P = -x
      <4> HIDE DEF x, V, P
      <4>1. (flag - 1) * P = flag * P - P /\ flag * P \in Int
        BY <1>1, <2>3
      <4>2. QED
        BY <2>3, <3>2, <4>1
    <3>4. Low(call.k, -x) = V /\ High(call.k, -x) = flag - 1
      <4>1. flag - 1 \in Int
        BY <1>1
      <4>2. QED
        BY <3>3, <4>1, ResultIs
    <3>5. 1 - flag = Bitval(x # 0)
      <4>1. CASE x = 0
        <5>1. High(call.k, 0 + 0 * Pow[call.k]) = 0
          <6>1. 0 < Pow[call.k] /\ 0 >= 0 /\ 0 \in Int
            BY <2>3
          <6>2. QED
            BY <1>1, <6>1, LowHigh
        <5>2. 0 + 0 * P = 0 /\ V + (flag - 1) * P = 0
          <6> HIDE DEF x, V, P
          <6>1. (flag - 1) * P = flag * P - P /\ flag * P \in Int
            BY <1>1, <2>3
          <6>2. QED
            BY <2>3, <3>2, <4>1, <6>1
        <5>3. flag - 1 = 0
          <6>1. flag - 1 \in Int
            BY <1>1
          <6>2. High(call.k, 0) = flag - 1
            BY <5>2, <6>1, ResultIs
          <6>3. QED
            BY <5>1, <5>2, <6>2
        <5>4. QED
          BY <1>1, <4>1, <5>3 DEF Bitval
      <4>2. CASE x # 0
        <5> DEFINE v == P - x
        <5>1. v \in Int /\ v >= 0 /\ v < Pow[call.k] /\ -1 \in Int
          BY <2>3, <4>2
        <5>2. v + (-1) * Pow[call.k] = -x
          BY <2>3
        <5> HIDE DEF v
        <5>3. High(call.k, v + (-1) * Pow[call.k]) = -1
          BY <1>1, <5>1, LowHigh
        <5>4. flag - 1 = -1
          BY <3>4, <5>2, <5>3
        <5>5. QED
          BY <1>1, <4>2, <5>4 DEF Bitval
      <4>3. QED
        BY <4>1, <4>2
    <3>6. 1 - flag \in Int
      BY <1>1
    <3>7. QED
      BY <1>4, <2>1, <2>4, <3>1, <3>4, <3>5, <3>6, Leaving
  <2>5. CASE call.w = 0
    <3>1. Promised[1] = Low(call.k, x) /\ Promised[2] = 0
      BY <1>1, <2>5 DEF Promised, bignum_optneg, Was, Bitval
    <3>2. V + flag * P = x
      <4>1. b = 0
        BY <2>5 DEF Bitval
      <4> HIDE DEF x, V, P, b
      <4>2. QED
        BY <1>1, <2>2, <2>3, <4>1
    <3>3. Low(call.k, x) = V /\ High(call.k, x) = flag
      BY <1>1, <3>2, ResultIs
    <3>4. flag = 0
      <4>1. 0 \in Int /\ x + 0 * Pow[call.k] = x
        BY <2>3
      <4>2. High(call.k, x + 0 * Pow[call.k]) = 0
        <5> HIDE DEF x
        <5>1. QED
          BY <1>1, <2>3, <4>1, LowHigh
      <4>3. QED
        BY <3>3, <4>1, <4>2
    <3>5. QED
      BY <1>1, <1>4, <2>1, <2>5, <3>1, <3>3, <3>4, Leaving
  <2>6. QED
    BY <2>4, <2>5
<1>7. QED
  BY <1>5, <1>6

-----------------------------------------------------------------------------
(* bignum_modadd, bignum_modsub, bignum_moddouble and bignum_modoptneg.     *)

\* The pass that corrects z by the modulus under a mask, over what an earlier
\* pass left (old): T is the number that pass computed, R what it comes to.
Correcting(sign, T, R) ==
  /\ phase = "correct" /\ pos <= call.k
  /\ \E old \in Memory, e \in Int :
       /\ Untouched(old, memory0, call.z, call.k)
       /\ Value(old, call.z, call.k) + e * Pow[call.k] = T
       /\ Pass(call, memory, old, pos, Mix(1, 0, 0, sign * Bitval(h # 0), 0, 0), sign * flag)
  /\ T + sign * Bitval(h # 0) * Was(call.m, call.k) = R
  /\ 0 <= R /\ R < Was(call.m, call.k)

\* The modulus is not in the output buffer: its words are what they were.
LEMMA ModulusWord ==
  ASSUME LoopTypes, call.op \in {"modadd", "modsub", "moddouble"}, NEW old \in Memory,
         Untouched(old, memory0, call.z, call.k), NEW j \in Nat, j < call.k
  PROVE  DigitAt(old, call.m + j) = DigitAt(memory0, call.m + j)
<1>1. /\ call.k \in Nat /\ call.m \in Nat
      /\ NonOverlapping(call.m, call.k, call.z, call.k)
  BY LoopCallFacts DEF LoopTypes, GoodLoopCall
<1>2. call.m + j \in Region(call.m, call.k)
  BY <1>1 DEF Region
<1>3. call.m + j \notin Region(call.z, call.k)
  BY <1>1, <1>2 DEF NonOverlapping
<1>4. QED
  BY <1>3 DEF DigitAt, Untouched

\* So is its value.
LEMMA ModulusKept ==
  ASSUME LoopTypes, call.op \in {"modadd", "modsub", "moddouble"}, NEW old \in Memory,
         Untouched(old, memory0, call.z, call.k)
  PROVE  Value(old, call.m, call.k) = Was(call.m, call.k)
<1>1. call.k \in Nat /\ call.m \in Nat /\ memory0 \in Memory
  BY LoopCallFacts DEF LoopTypes
<1>2. ASSUME NEW j \in 0 .. (call.k - 1) PROVE DigitAt(old, call.m + j) = DigitAt(memory0, call.m + j)
  <2>1. j \in Nat /\ j < call.k
    BY <1>1
  <2>2. QED
    BY <2>1, ModulusWord
<1> DEFINE ptr == call.m
           len == call.k
<1>3. ptr \in Nat /\ len \in Nat /\ \A j \in 0 .. (len - 1) : DigitAt(old, ptr + j) = DigitAt(memory0, ptr + j)
  BY <1>1, <1>2
<1> HIDE DEF ptr, len
<1>4. Value(old, ptr, len) = Value(memory0, ptr, len)
  <2>1. /\ memory0 \in [Addr -> Digit] /\ old \in [Addr -> Digit] /\ ptr \in Nat /\ len \in Nat
        /\ \A j \in 0 .. (len - 1) : DigitAt(old, ptr + j) = DigitAt(memory0, ptr + j)
    BY <1>1, <1>3 DEF Memory
  <2>2. QED
    BY <2>1, ValueCongruence
<1>5. QED
  BY <1>4 DEF Was, ptr, len

\* The buffer that earlier passes wrote and this one rewrites is all that
\* differs from the memory at the call.
LEMMA FrameComposes ==
  ASSUME LoopTypes, NEW old \in Memory, Untouched(old, memory0, call.z, call.k),
         Untouched(memory, old, call.z, call.k)
  PROVE  Untouched(memory, memory0, call.z, call.k)
BY DEF Untouched

\* The correcting pass leaves R, which is below the modulus.
LEMMA CorrectKeeps ==
  ASSUME LoopTypes, call.op \in {"modadd", "modsub", "moddouble"},
         NEW sign \in {1, -1}, NEW T \in Int, NEW R \in Int,
         Correcting(sign, T, R), Correct(sign, h # 0),
         Promised[1] = R, Promised[2] = NoWord
  PROVE  /\ LoopTypes' /\ MeetsContract'
         /\ phase' # "done" =>
              /\ phase' = "correct" /\ call' = call /\ memory0' = memory0
              /\ Correcting(sign, T, R)'
<1> DEFINE b == Bitval(h # 0)
           g == sign * b
           q == Mix(1, 0, 0, g, 0, 0)
           D == Was(call.m, call.k)
<1>1. PICK old \in Memory, e \in Int :
        /\ Untouched(old, memory0, call.z, call.k)
        /\ Value(old, call.z, call.k) + e * Pow[call.k] = T
        /\ Pass(call, memory, old, pos, q, sign * flag)
  BY DEF Correcting
<1>2. phase = "correct" /\ pos <= call.k /\ T + g * D = R /\ 0 <= R /\ R < D
  BY DEF Correcting
<1>3. /\ b \in Int /\ g \in Int /\ sign \in Int /\ sign * flag \in Int /\ call.k \in Nat
      /\ flag \in Int /\ pos \in Nat /\ phase # "done" /\ call.n = call.k
      /\ call.z \in Nat /\ call.m \in Nat /\ memory \in Memory /\ memory0 \in Memory
      /\ call \in LoopCalls /\ h \in Int
  BY <1>2, LoopCallFacts DEF Bitval, LoopTypes, GoodLoopCall, OneLength
<1>4. q \in Mixes
  <2> HIDE DEF g
  <2>1. QED
    BY <1>3, MixType
<1>5. CASE pos < call.k
  <2> DEFINE s == Zi + sign * If(h # 0, Mi) + sign * flag
  <2>1. Emit(Lo(s)) /\ flag' = sign * Hi(s) /\ h' = h
    BY <1>5 DEF Correct
  <2>2. /\ Zi = DigitAt(old, call.z + pos) /\ Mi = DigitAt(old, call.m + pos)
        /\ Zi \in Int /\ Mi \in Int
        /\ DigitAt(old, call.x + pos) \in Int /\ DigitAt(old, call.y + pos) \in Int
    <3>1. Untouched(memory, old, call.z, pos)
      BY <1>1 DEF Pass
    <3>2. /\ DigitAt(memory, call.z + pos) = DigitAt(old, call.z + pos)
          /\ call.op \in ModularOps => DigitAt(memory, call.m + pos) = DigitAt(old, call.m + pos)
          /\ DigitAt(old, call.z + pos) \in Digit /\ DigitAt(old, call.x + pos) \in Digit
          /\ DigitAt(old, call.y + pos) \in Digit /\ DigitAt(old, call.m + pos) \in Digit
      BY <1>3, <1>5, <3>1, PassLoads
    <3>3. QED
      BY <3>2 DEF ModularOps, Digit, Zi, Mi
  <2>3. s = Column5(call, old, pos, q) + sign * flag
    <3>1. sign * If(h # 0, Mi) = g * Mi
      BY <1>3, <2>2 DEF If, Bitval
    <3> HIDE DEF g
    <3>2. QED
      BY <1>3, <2>2, <3>1, BaseAssumption DEF Column5, Mix
  <2>4. s \in Int
    BY <1>3, <2>2 DEF If
  <2> HIDE DEF s, q
  <2>5. /\ Lo(s) \in Digit /\ Hi(s) \in Int /\ flag' \in Int /\ h' \in Int
        /\ Lo(s) + B * Hi(s) = Column5(call, old, pos, q) + sign * flag
    BY <1>3, <2>1, <2>3, <2>4, HiLo
  <2>6. sign * flag' = Hi(s)
    BY <2>1, <2>5
  <2>7. /\ LoopTypes' /\ MeetsContract' /\ phase' = phase /\ call' = call /\ memory0' = memory0
        /\ memory' = Store(memory, call.z + pos, Lo(s)) /\ pos' = pos + 1
        /\ pos + 1 <= call.k
    BY <1>3, <1>5, <2>1, <2>5, Emitting
  <2>8. Pass(call, Store(memory, call.z + pos, Lo(s)), old, pos + 1, q, Hi(s))
    BY <1>1, <1>3, <1>4, <1>5, <2>5, PassStep
  <2>9. Pass(call', memory', old, pos', q, sign * flag')
    BY <2>6, <2>7, <2>8
  <2>10. Correcting(sign, T, R)'
    <3>1. /\ Untouched(old, memory0', call'.z, call'.k)
          /\ Value(old, call'.z, call'.k) + e * Pow[call'.k] = T
      BY <1>1, <2>7
    <3>2. Pass(call', memory', old, pos', Mix(1, 0, 0, sign * Bitval(h' # 0), 0, 0), sign * flag')
      BY <2>1, <2>9 DEF q
    <3>3. T + sign * Bitval(h' # 0) * Was(call.m, call.k)' = R
      BY <1>2, <2>1, <2>7 DEF Was
    <3>4. R < Was(call.m, call.k)'
      BY <1>2, <2>7 DEF Was
    <3>5. QED
      BY <1>2, <2>7, <3>1, <3>2, <3>3, <3>4 DEF Correcting
  <2>11. QED
    BY <1>2, <2>7, <2>10
<1>6. CASE ~(pos < call.k)
  <2> DEFINE V == Value(memory, call.z, call.k)
             O == Value(old, call.z, call.k)
             P == Pow[call.k]
             f == sign * flag
  <2>1. pos = call.k /\ Leave(NoWord)
    BY <1>2, <1>3, <1>6 DEF Correct
  <2>2. Untouched(memory, old, call.z, call.k) /\ V + f * P = Total(call, old, call.k, q)
    BY <1>1, <2>1 DEF Pass
  <2>3. /\ O \in Int /\ V \in Int /\ 0 <= V /\ V < P /\ P \in Int /\ D \in Int /\ D < P
    <3>1. O \in Nat /\ P \in Nat
      BY <1>3, ValueBound, PowFacts
    <3>2. V \in Nat /\ V < P
      BY <1>3, ValueBound
    <3>3. D \in Nat /\ D < P
      BY <1>3, ValueBound DEF Was
    <3>4. QED
      BY <3>1, <3>2, <3>3
  <2>4. Total(call, old, call.k, q) = O + g * D
    <3>1. /\ Value(old, call.x, call.k) \in Int /\ Value(old, call.y, call.k) \in Int
      <4>1. call.x \in Nat /\ call.y \in Nat
        BY <1>3, LoopCallFacts
      <4>2. Value(old, call.x, call.k) \in Nat
        BY <1>3, <4>1, ValueBound
      <4>3. Value(old, call.y, call.k) \in Nat
        BY <1>3, <4>1, ValueBound
      <4>4. QED
        BY <4>2, <4>3
    <3>2. Value(old, call.m, call.k) = D
      BY <1>1, ModulusKept
    <3> HIDE DEF g, D
    <3>3. QED
      BY <1>3, <2>3, <3>1, <3>2 DEF Total, Mix
  <2>5. V = R
    <3>1. V + (f + e) * P = R
      <4>1. f \in Int /\ O + e * P = T /\ V + f * P = O + g * D /\ T + g * D = R
        BY <1>1, <1>2, <1>3, <2>2, <2>4
      <4> HIDE DEF V, O, P, f, g, D
      <4>2. (f + e) * P = f * P + e * P /\ f * P \in Int /\ e * P \in Int /\ g * D \in Int
        BY <1>3, <2>3, <4>1
      <4>3. QED
        BY <2>3, <4>1, <4>2
    <3>2. Low(call.k, R) = V
      <4>1. f + e \in Int
        BY <1>3
      <4>2. QED
        BY <3>1, <4>1, ResultIs
    <3>3. Low(call.k, R + 0 * Pow[call.k]) = R
      <4>1. R >= 0 /\ R < Pow[call.k] /\ 0 \in Int
        BY <1>2, <2>3
      <4>2. QED
        BY <1>3, <4>1, LowHigh
    <3>4. R + 0 * P = R
      <4> HIDE DEF P
      <4>1. QED
        BY <2>3
    <3>5. QED
      BY <3>2, <3>3, <3>4
  <2>6. Untouched(memory, memory0, call.z, call.k)
    BY <1>1, <2>2, FrameComposes
  <2>7. NoWord \in Int
    BY DEF NoWord
  <2>8. QED
    BY <2>1, <2>5, <2>6, <2>7, Leaving
<1>7. QED
  BY <1>5, <1>6

\* The number a first pass leaves and the modulus decide the mask; the first
\* word of the correcting pass is the first word of the buffer.
LEMMA CorrectStarts ==
  ASSUME LoopTypes, NEW sign \in {1, -1}, NEW T \in Int, NEW R \in Int, NEW e \in Int,
         Untouched(memory, memory0, call.z, call.k),
         Value(memory, call.z, call.k) + e * Pow[call.k] = T,
         phase' = "correct", UNCHANGED <<memory, result, call, memory0>>,
         pos' = 0, flag' = 0, h' \in Int,
         T + sign * Bitval(h' # 0) * Was(call.m, call.k) = R,
         0 <= R, R < Was(call.m, call.k)
  PROVE  /\ LoopTypes' /\ MeetsContract' /\ phase' # "done" /\ call' = call /\ memory0' = memory0
         /\ Correcting(sign, T, R)'
<1> DEFINE g == sign * Bitval(h' # 0)
<1>1. /\ call \in LoopCalls /\ call.k \in Nat /\ memory \in Memory /\ memory0 \in Memory
      /\ g \in Int /\ sign * flag' = 0
  BY LoopCallFacts DEF LoopTypes, Bitval
<1>2. LoopTypes' /\ MeetsContract'
  BY Moving
<1>3. Mix(1, 0, 0, g, 0, 0) \in Mixes /\ Mix(1, 0, 0, g, 0, 0).start = 0
  <2> HIDE DEF g
  <2>1. Mix(1, 0, 0, g, 0, 0) \in Mixes
    BY <1>1, MixType
  <2>2. QED
    BY <2>1 DEF Mix
<1>4. Pass(call, memory, memory, 0, Mix(1, 0, 0, g, 0, 0), 0)
  <2> DEFINE q == Mix(1, 0, 0, g, 0, 0)
  <2>1. q \in Mixes /\ q.start = 0
    BY <1>3
  <2> HIDE DEF q
  <2>2. Pass(call, memory, memory, 0, q, 0)
    BY <1>1, <2>1, PassStart
  <2>3. QED
    BY <2>2 DEF q
<1>5. /\ Untouched(memory, memory0', call'.z, call'.k)
      /\ Value(memory, call'.z, call'.k) + e * Pow[call'.k] = T
      /\ Pass(call', memory', memory, pos', Mix(1, 0, 0, sign * Bitval(h' # 0), 0, 0), sign * flag')
  BY <1>1, <1>4
<1>6. Was(call.m, call.k)' = Was(call.m, call.k)
  BY DEF Was
<1>7. QED
  BY <1>1, <1>2, <1>5, <1>6 DEF Correcting

\* The operands of a modular function are reduced.
LEMMA ModOperands ==
  ASSUME LoopTypes, call.op \in ModularOps
  PROVE  /\ call.n = call.k /\ call.k \in Nat /\ Pow[call.k] \in Int
         /\ Was(call.x, call.k) \in Int /\ Was(call.y, call.k) \in Int /\ Was(call.m, call.k) \in Int
         /\ 0 <= Was(call.x, call.k) /\ Was(call.x, call.k) < Was(call.m, call.k)
         /\ 0 <= Was(call.y, call.k)
         /\ call.op \in {"modadd", "modsub"} => Was(call.y, call.k) < Was(call.m, call.k)
         /\ Was(call.m, call.k) < Pow[call.k]
<1>1. /\ call.n = call.k /\ call.k \in Nat /\ call.x \in Nat /\ call.y \in Nat /\ call.m \in Nat
      /\ memory0 \in Memory
  BY LoopCallFacts DEF LoopTypes, GoodLoopCall, OneLength, ModularOps
<1>2. /\ Was(call.x, call.k) \in Nat /\ Was(call.y, call.k) \in Nat /\ Was(call.m, call.k) \in Nat
      /\ Was(call.m, call.k) < Pow[call.k]
  BY <1>1, ValueBound DEF Was
<1>3. Pow[call.k] \in Nat
  BY <1>1, PowFacts
<1>4. /\ Was(call.x, call.k) < Was(call.m, call.k)
      /\ call.op \in {"modadd", "modsub"} => Was(call.y, call.k) < Was(call.m, call.k)
  BY DEF LoopTypes, Admissible, Was
<1>5. QED
  BY <1>1, <1>2, <1>3, <1>4

\* A carry out of k words is known from the number that was computed.
LEMMA CarryIs ==
  ASSUME LoopTypes, NEW v \in Int, 0 <= v, v < Pow[call.k], NEW e \in Int, NEW T \in Int,
         v + e * Pow[call.k] = T
  PROVE  /\ 0 <= T /\ T < Pow[call.k] => e = 0
         /\ 0 - Pow[call.k] <= T /\ T < 0 => e = -1
<1> DEFINE P == Pow[call.k]
           k == call.k
<1>1. k \in Nat /\ P \in Nat
  BY LoopCallFacts, PowFacts DEF LoopTypes
<1>2. High(k, T) = e
  <2>1. k \in Nat /\ v >= 0 /\ v < Pow[k] /\ T = v + e * Pow[k]
    BY <1>1
  <2> HIDE DEF k
  <2>2. QED
    BY <2>1, LowHigh
<1>3. ASSUME 0 <= T, T < P PROVE e = 0
  <2>1. High(k, T + 0 * Pow[k]) = 0
    <3>1. T >= 0 /\ T < Pow[k] /\ 0 \in Int
      BY <1>3
    <3> HIDE DEF k
    <3>2. QED
      BY <1>1, <3>1, LowHigh
  <2>2. T + 0 * P = T
    <3> HIDE DEF P
    <3>1. QED
      BY <1>1
  <2>3. QED
    BY <1>2, <2>1, <2>2
<1>4. ASSUME 0 - P <= T, T < 0 PROVE e = -1
  <2> DEFINE u == T + P
  <2>1. u \in Int /\ u >= 0 /\ u < P /\ u + (-1) * P = T
    <3> HIDE DEF P
    <3>1. QED
      BY <1>1, <1>4
  <2>2. High(k, u + (-1) * Pow[k]) = -1
    <3>1. u >= 0 /\ u < Pow[k] /\ -1 \in Int /\ u \in Int
      BY <2>1
    <3> HIDE DEF k, u
    <3>2. QED
      BY <1>1, <3>1, LowHigh
  <2>3. QED
    BY <1>2, <2>1, <2>2
<1>5. QED
  BY <1>3, <1>4

\* The masks: no borrow is all zeros, a borrow all ones.
LEMMA Masks == Lo(0) = 0 /\ Lo(-1) = B - 1 /\ Not(0) = B - 1 /\ Not(B - 1) = 0 /\ B - 1 # 0
<1>1. B \in Nat /\ B >= 2
  BY BaseAssumption
<1>2. (B * 0 + 0) % B = 0
  BY <1>1, DivUnique
<1>3. (B * (-1) + (B - 1)) % B = B - 1
  <2>1. B > 0 /\ -1 \in Int /\ B - 1 \in 0 .. (B - 1)
    BY <1>1
  <2>2. QED
    BY <1>1, <2>1, DivUnique
<1>4. B * 0 + 0 = 0 /\ B * (-1) + (B - 1) = -1
  BY <1>1
<1>5. QED
  BY <1>1, <1>2, <1>3, <1>4 DEF Lo, Not

\* A number that is a residue plus a multiple of the modulus has that residue.
LEMMA ResidueIs ==
  ASSUME NEW D \in Int, NEW r \in Int, 0 <= r, r < D, NEW e \in Int, NEW v, v = r + e * D
  PROVE  v % D = r
<1>1. D \in Nat /\ D > 0 /\ r \in 0 .. (D - 1)
  OBVIOUS
<1>2. (D * e + r) % D = r
  BY <1>1, DivUnique
<1>3. D * e + r = r + e * D
  OBVIOUS
<1>4. QED
  BY <1>2, <1>3

ModSubInv ==
  LET x == Was(call.x, call.k)
      y == Was(call.y, call.k)
  IN  \/ phase = "main" /\ Passing(Mix(0, 1, -1, 0, 0, 0), -flag)
      \/ Correcting(1, x - y, (x - y) % Was(call.m, call.k))

\* bignum_modsub subtracts, then adds the modulus after a borrow.
LEMMA ModSubKeeps ==
  ASSUME LoopTypes, call.op = "modsub", ModSubInv, ModSub
  PROVE  LoopTypes' /\ MeetsContract' /\ (phase' # "done" => ModSubInv')
<1> DEFINE x == Was(call.x, call.k)
           y == Was(call.y, call.k)
           D == Was(call.m, call.k)
           P == Pow[call.k]
           V == Value(memory, call.z, call.k)
           q == Mix(0, 1, -1, 0, 0, 0)
           T == x - y
           R == (x - y) % D
<1>1. /\ call.n = call.k /\ call.k \in Nat /\ P \in Int /\ x \in Int /\ y \in Int /\ D \in Int
      /\ 0 <= x /\ x < D /\ 0 <= y /\ y < D /\ D < P
  BY ModOperands DEF ModularOps
<1>2. /\ T \in Int /\ R \in Int /\ 0 <= R /\ R < D
      /\ x >= y => R = x - y
      /\ x < y => R = x - y + D
  <2> HIDE DEF x, y, D
  <2>1. x >= y => R = x - y
    <3>1. ASSUME x >= y PROVE R = x - y
      <4> DEFINE v == x - y
      <4>1. v \in Int /\ 0 <= v /\ v < D /\ v = v + 0 * D /\ 0 \in Int
        BY <1>1, <3>1
      <4> HIDE DEF v
      <4>2. v % D = v
        BY <1>1, <4>1, ResidueIs
      <4>3. QED
        BY <4>2 DEF v
    <3>2. QED
      BY <3>1
  <2>2. x < y => R = x - y + D
    <3>1. ASSUME x < y PROVE R = x - y + D
      <4> DEFINE v == x - y
                 u == x - y + D
      <4>1. u \in Int /\ 0 <= u /\ u < D /\ v = u + (-1) * D /\ -1 \in Int
        BY <1>1, <3>1
      <4> HIDE DEF u, v
      <4>2. v % D = u
        BY <1>1, <4>1, ResidueIs
      <4>3. QED
        BY <4>2 DEF u, v
    <3>2. QED
      BY <3>1
  <2>3. QED
    BY <1>1, <2>1, <2>2
<1>0. PICK T0 \in Int, R0 \in Int : T0 = T /\ R0 = R
  BY <1>2
<1>3. Promised[1] = R0 /\ Promised[2] = NoWord
  BY <1>0, <1>1 DEF Promised, bignum_modsub, Was
<1>4. CASE phase = "main" /\ Passing(q, -flag)
  <2>1. /\ flag \in Int /\ pos \in Nat /\ phase # "done" /\ q \in Mixes /\ -flag \in Int
        /\ Untouched(memory, memory0, call.z, pos) /\ pos <= call.k
    BY <1>4, MixType DEF LoopTypes, Passing, Pass
  <2>2. CASE pos < call.k
    <3> DEFINE s == Xi - Yi - flag
    <3>1. Emit(Lo(s)) /\ flag' = -Hi(s) /\ h' = h
      BY <1>4, <2>2 DEF ModSub, Correct
    <3>2. /\ Xi = DigitAt(memory0, call.x + pos) /\ Yi = DigitAt(memory0, call.y + pos)
          /\ Xi \in Int /\ Yi \in Int
          /\ DigitAt(memory0, call.z + pos) \in Int /\ DigitAt(memory0, call.m + pos) \in Int
      BY <1>1, <2>1, <2>2, PassingLoads
    <3>3. s = Column5(call, memory0, pos, q) + (-flag) /\ s \in Int
      BY <2>1, <3>2, BaseAssumption DEF Column5, Mix
    <3> HIDE DEF s, q
    <3>4. /\ Lo(s) \in Digit /\ Hi(s) \in Int /\ -flag' = Hi(s) /\ h' \in Int
          /\ flag' \in Int /\ Lo(s) + B * Hi(s) = Column5(call, memory0, pos, q) + (-flag)
      BY <3>1, <3>3, HiLo DEF LoopTypes
    <3>5. /\ LoopTypes' /\ MeetsContract' /\ phase' = phase /\ call' = call
          /\ pos' <= call'.k /\ Pass(call', memory', memory0', pos', q, Hi(s))
      BY <1>4, <2>1, <2>2, <3>1, <3>4, PassingStep
    <3>6. QED
      BY <1>4, <3>4, <3>5 DEF ModSubInv, Passing, q
  <2>3. CASE ~(pos < call.k)
    <3>1. pos = call.k /\ Goto("correct") /\ pos' = 0 /\ h' = Lo(-flag) /\ flag' = 0
      BY <1>1, <1>4, <2>1, <2>3 DEF ModSub
    <3>2. V + (-flag) * P = T
      <4>1. V + (-flag) * P = Total(call, memory0, call.k, q)
        BY <1>4, <3>1 DEF Passing, Pass
      <4>2. Total(call, memory0, call.k, q) = T
        <5>1. Was(call.z, call.k) \in Int
          BY <1>1, <2>1, TotalOf
        <5>2. QED
          BY <1>1, <2>1, <5>1, TotalOf DEF Mix
      <4>3. QED
        BY <4>1, <4>2
    <3>3. V \in Int /\ 0 <= V /\ V < P
      <4>1. V \in Nat /\ V < P
        BY <1>1, ValueBound, LoopCallFacts DEF LoopTypes
      <4>2. QED
        BY <4>1
    <3>4. /\ 0 <= T => -flag = 0
          /\ T < 0 => -flag = -1
      <4>1. T < P /\ 0 - P <= T
        <5> HIDE DEF x, y, D, P
        <5>1. QED
          BY <1>1
      <4>2. QED
        BY <1>2, <2>1, <3>2, <3>3, <4>1, CarryIs
    <3>5. T + 1 * Bitval(h' # 0) * D = R /\ h' \in Int
      <4>1. CASE 0 <= T
        <5>1. h' = 0 /\ x >= y
          BY <1>1, <3>1, <3>4, <4>1, Masks
        <5>2. QED
          BY <1>1, <1>2, <5>1 DEF Bitval
      <4>2. CASE T < 0
        <5>0. x < y
          BY <1>1, <4>2
        <5>1. h' # 0 /\ x < y /\ h' = B - 1
          <6> HIDE DEF T
          <6>1. Lo(-flag) = Lo(-1)
            BY <3>4, <4>2
          <6>2. QED
            BY <3>1, <5>0, <6>1, Masks
        <5>2. QED
          BY <1>1, <1>2, <5>1, BaseAssumption DEF Bitval
      <4>3. QED
        BY <1>2, <4>1, <4>2
    <3> HIDE DEF T, R
    <3>6. /\ LoopTypes' /\ MeetsContract' /\ phase' # "done" /\ call' = call /\ memory0' = memory0
          /\ Correcting(1, T0, R0)'
      BY <1>0, <1>2, <2>1, <3>1, <3>2, <3>5, CorrectStarts DEF Goto
    <3>7. QED
      BY <1>0, <3>6 DEF ModSubInv, Correcting, Was, T, R
  <2>4. QED
    BY <2>2, <2>3
<1>5. CASE Correcting(1, T, R)
  <2>1. Correct(1, h # 0)
    BY <1>5 DEF ModSub, Correcting
  <2>2. Correcting(1, T0, R0)
    BY <1>0, <1>5
  <2>3. /\ LoopTypes' /\ MeetsContract'
        /\ phase' # "done" =>
              /\ phase' = "correct" /\ call' = call /\ memory0' = memory0
              /\ Correcting(1, T0, R0)'
    BY <1>3, <2>1, <2>2, CorrectKeeps
  <2>4. QED
    BY <1>0, <2>3 DEF ModSubInv, Correcting, Was
<1>6. QED
  BY <1>4, <1>5 DEF ModSubInv

\* h is the previous word of x; its top bit is part of what is carried.
ModDoubleInv ==
  LET x == Was(call.x, call.k)
      D == Was(call.m, call.k)
  IN  \/ phase = "main" /\ h \in Digit /\ Passing(Mix(0, 2, 0, -1, 0, 0), Hi(2 * h) - flag)
      \/ Correcting(1, 2 * x - D, (2 * x) % D)

\* bignum_moddouble computes 2 x - m, then adds the modulus after a borrow.
LEMMA ModDoubleKeeps ==
  ASSUME LoopTypes, call.op = "moddouble", ModDoubleInv, ModDouble
  PROVE  LoopTypes' /\ MeetsContract' /\ (phase' # "done" => ModDoubleInv')
<1> DEFINE x == Was(call.x, call.k)
           D == Was(call.m, call.k)
           P == Pow[call.k]
           V == Value(memory, call.z, call.k)
           q == Mix(0, 2, 0, -1, 0, 0)
           T == 2 * x - D
           R == (2 * x) % D
<1>1. /\ call.n = call.k /\ call.k \in Nat /\ P \in Int /\ x \in Int /\ D \in Int
      /\ 0 <= x /\ x < D /\ D < P
  BY ModOperands DEF ModularOps
<1>2. /\ T \in Int /\ R \in Int /\ 0 <= R /\ R < D
      /\ T >= 0 => R = T
      /\ T < 0 => R = T + D
  <2> DEFINE t == 2 * x
  <2>0. t \in Int /\ T = t - D /\ R = t % D /\ T \in Int /\ t >= 0 /\ t < D + D
    BY <1>1
  <2> HIDE DEF x, D, t, T, R
  <2>1. T >= 0 => R = T
    <3>1. ASSUME T >= 0 PROVE R = T
      <4> DEFINE e == 1
      <4>1. T \in Int /\ 0 <= T /\ T < D /\ t = T + e * D /\ e \in Int
        BY <1>1, <2>0, <3>1
      <4> HIDE DEF e
      <4>2. t % D = T
        BY <1>1, <4>1, ResidueIs
      <4>3. QED
        BY <2>0, <4>2
    <3>2. QED
      BY <3>1
  <2>2. T < 0 => R = t
    <3>1. T < 0 => 0 <= t /\ t < D /\ t = t + 0 * D /\ 0 \in Int
      BY <1>1, <2>0
    <3>2. QED
      BY <1>1, <2>0, <3>1, ResidueIs
  <2>3. QED
    BY <1>1, <2>0, <2>1, <2>2
<1>0. PICK T0 \in Int, R0 \in Int : T0 = T /\ R0 = R
  BY <1>2
<1>3. Promised[1] = R0 /\ Promised[2] = NoWord
  BY <1>0, <1>1 DEF Promised, bignum_moddouble, Was
<1>4. CASE phase = "main" /\ h \in Digit /\ Passing(q, Hi(2 * h) - flag)
  <2> DEFINE in == Hi(2 * h) - flag
  <2>1. /\ flag \in Int /\ pos \in Nat /\ phase # "done" /\ q \in Mixes /\ in \in Int
        /\ Untouched(memory, memory0, call.z, pos) /\ pos <= call.k
        /\ h \in Int /\ 2 * h \in Int /\ Hi(2 * h) \in Int
    <3>1. flag \in Int /\ pos \in Nat /\ h \in Int /\ 2 * h \in Int
      BY DEF LoopTypes
    <3>2. Hi(2 * h) \in Int
      BY <3>1, HiLo
    <3>3. q \in Mixes
      BY MixType
    <3>4. QED
      BY <1>4, <3>1, <3>2, <3>3 DEF Passing, Pass
  <2>2. CASE pos < call.k
    <3> DEFINE s == Lo(2 * Xi) + (2 * h) \div B - Mi - flag
    <3>1. Emit(Lo(s)) /\ flag' = -Hi(s) /\ h' = Xi
      BY <1>4, <2>2 DEF ModDouble, Correct
    <3>2. /\ Xi = DigitAt(memory0, call.x + pos) /\ Mi = DigitAt(memory0, call.m + pos)
          /\ Xi \in Int /\ Mi \in Int /\ Xi \in Digit
          /\ DigitAt(memory0, call.z + pos) \in Int /\ DigitAt(memory0, call.y + pos) \in Int
      BY <1>1, <2>1, <2>2, PassingLoads DEF ModularOps
    <3>3. Lo(2 * Xi) \in Int /\ Hi(2 * Xi) \in Int /\ 2 * Xi = Lo(2 * Xi) + B * Hi(2 * Xi) /\ 2 * Xi \in Int
      <4>1. 2 * Xi \in Int
        BY <3>2
      <4>2. QED
        BY <4>1, HiLo
    <3>4. s + B * Hi(2 * Xi) = Column5(call, memory0, pos, q) + in /\ s \in Int
      <4>1. Column5(call, memory0, pos, q) = 2 * Xi - Mi
        BY <3>2, BaseAssumption DEF Column5, Mix
      <4>2. B * Hi(2 * Xi) \in Int /\ (2 * h) \div B = Hi(2 * h)
        BY <3>3, BaseAssumption DEF Hi
      <4> DEFINE lx == Lo(2 * Xi)
                 hx == B * Hi(2 * Xi)
                 d == 2 * Xi
                 hh == Hi(2 * h)
      <4>3. lx \in Int /\ hx \in Int /\ d \in Int /\ hh \in Int /\ d = lx + hx /\ s = lx + hh - Mi - flag
            /\ in = hh - flag /\ Column5(call, memory0, pos, q) = d - Mi
        BY <2>1, <3>3, <4>1, <4>2
      <4> HIDE DEF lx, hx, d, hh, s, in
      <4>4. s + hx = d - Mi + in /\ s \in Int
        BY <2>1, <3>2, <4>3
      <4>5. QED
        BY <4>3, <4>4 DEF hx
    <3> HIDE DEF s, q, in
    <3>5. /\ Lo(s) \in Digit /\ Hi(s) \in Int /\ Lo(s) \in Int /\ s = Lo(s) + B * Hi(s)
      BY <3>4, HiLo
    <3> DEFINE out == Hi(2 * Xi) + Hi(s)
    <3>6. /\ out \in Int /\ h' \in Int /\ flag' \in Int
          /\ Lo(s) + B * out = Column5(call, memory0, pos, q) + in
      <4>1. B * out = B * Hi(2 * Xi) + B * Hi(s)
        BY <3>3, <3>5, BaseAssumption
      <4>2. B * Hi(2 * Xi) \in Int /\ B * Hi(s) \in Int
        BY <3>3, <3>5, BaseAssumption
      <4> DEFINE hx == B * Hi(2 * Xi)
                 hs == B * Hi(s)
                 c == Column5(call, memory0, pos, q) + in
                 bo == B * out
      <4>3. hx \in Int /\ hs \in Int /\ bo = hx + hs /\ s = Lo(s) + hs /\ s + hx = c
        BY <3>4, <3>5, <4>1, <4>2
      <4> HIDE DEF hx, hs, c, bo
      <4>4. Lo(s) + bo = c
        BY <3>5, <4>3
      <4>5. QED
        BY <3>1, <3>2, <3>3, <3>5, <4>4 DEF bo, c
    <3>7. out = Hi(2 * h') - flag'
      BY <3>1, <3>3, <3>5
    <3> HIDE DEF out
    <3>8. /\ LoopTypes' /\ MeetsContract' /\ phase' = phase /\ call' = call
          /\ pos' <= call'.k /\ Pass(call', memory', memory0', pos', q, out)
      <4>1. Passing(q, in)
        BY <1>4 DEF q, in
      <4>2. QED
        BY <2>1, <2>2, <3>1, <3>5, <3>6, <4>1, PassingStep
    <3>9. Pass(call', memory', memory0', pos', q, Hi(2 * h') - flag') /\ h' \in Digit
      BY <3>1, <3>2, <3>7, <3>8
    <3>10. QED
      BY <1>4, <3>8, <3>9 DEF ModDoubleInv, Passing, q
  <2>3. CASE ~(pos < call.k)
    <3>1. pos = call.k /\ Goto("correct") /\ pos' = 0 /\ h' = Lo(in) /\ flag' = 0
      BY <1>1, <1>4, <2>1, <2>3 DEF ModDouble, Hi
    <3>2. V + in * P = T
      <4>1. V + in * P = Total(call, memory0, call.k, q)
        BY <1>4, <3>1 DEF Passing, Pass
      <4>2. Total(call, memory0, call.k, q) = T
        <5>1. Was(call.z, call.k) \in Int /\ Was(call.y, call.k) \in Int
          BY <1>1, <2>1, TotalOf
        <5>2. QED
          BY <1>1, <2>1, <5>1, TotalOf DEF Mix
      <4>3. QED
        BY <4>1, <4>2
    <3>3. V \in Int /\ 0 <= V /\ V < P
      <4>1. V \in Nat /\ V < P
        BY <1>1, ValueBound, LoopCallFacts DEF LoopTypes
      <4>2. QED
        BY <4>1
    <3>4. /\ 0 <= T => in = 0
          /\ T < 0 => in = -1
      <4>1. T < P /\ 0 - P <= T
        <5> HIDE DEF x, D, P
        <5>1. QED
          BY <1>1
      <4>2. QED
        BY <1>2, <2>1, <3>2, <3>3, <4>1, CarryIs
    <3>5. T + 1 * Bitval(h' # 0) * D = R /\ h' \in Int
      <4>1. CASE 0 <= T
        <5>1. h' = 0
          BY <3>1, <3>4, <4>1, Masks
        <5>2. QED
          BY <1>1, <1>2, <4>1, <5>1 DEF Bitval
      <4>2. CASE T < 0
        <5>1. h' # 0 /\ h' = B - 1
          <6> HIDE DEF T
          <6>1. Lo(in) = Lo(-1)
            BY <3>4, <4>2
          <6>2. QED
            BY <3>1, <6>1, Masks
        <5>2. QED
          BY <1>1, <1>2, <4>2, <5>1, BaseAssumption DEF Bitval
      <4>3. QED
        BY <1>2, <4>1, <4>2
    <3> HIDE DEF T, R
    <3>6. /\ LoopTypes' /\ MeetsContract' /\ phase' # "done" /\ call' = call /\ memory0' = memory0
          /\ Correcting(1, T0, R0)'
      BY <1>0, <1>2, <2>1, <3>1, <3>2, <3>5, CorrectStarts DEF Goto
    <3>7. QED
      BY <1>0, <3>6 DEF ModDoubleInv, Correcting, Was, T, R
  <2>4. QED
    BY <2>2, <2>3
<1>5. CASE Correcting(1, T, R)
  <2>1. Correct(1, h # 0)
    BY <1>5 DEF ModDouble, Correcting
  <2>2. Correcting(1, T0, R0)
    BY <1>0, <1>5
  <2>3. /\ LoopTypes' /\ MeetsContract'
        /\ phase' # "done" =>
              /\ phase' = "correct" /\ call' = call /\ memory0' = memory0
              /\ Correcting(1, T0, R0)'
    BY <1>3, <2>1, <2>2, CorrectKeeps
  <2>4. QED
    BY <1>0, <2>3 DEF ModDoubleInv, Correcting, Was
<1>6. QED
  BY <1>4, <1>5 DEF ModDoubleInv

\* In the second pass d is the difference of the words compared so far, with
\* the borrow that they left.
ModAddInv ==
  LET x == Was(call.x, call.k)
      y == Was(call.y, call.k)
      d == Value(memory, call.z, pos) - Was(call.m, pos) + flag * Pow[pos]
  IN  \/ phase = "main" /\ Passing(Mix(0, 1, 1, 0, 0, 0), flag)
      \/ /\ phase = "compare" /\ pos <= call.k /\ Untouched(memory, memory0, call.z, call.k)
         /\ Value(memory, call.z, call.k) + h * Pow[call.k] = x + y
         /\ 0 <= d /\ d < Pow[pos]
      \/ Correcting(-1, x + y, (x + y) % Was(call.m, call.k))

\* bignum_modadd adds, compares the sum with the modulus and subtracts it.
LEMMA ModAddKeeps ==
  ASSUME LoopTypes, call.op = "modadd", ModAddInv, ModAdd
  PROVE  LoopTypes' /\ MeetsContract' /\ (phase' # "done" => ModAddInv')
<1> DEFINE x == Was(call.x, call.k)
           y == Was(call.y, call.k)
           D == Was(call.m, call.k)
           P == Pow[call.k]
           V == Value(memory, call.z, call.k)
           q == Mix(0, 1, 1, 0, 0, 0)
           d == Value(memory, call.z, pos) - Was(call.m, pos) + flag * Pow[pos]
           T == x + y
           R == (x + y) % D
<1>1. /\ call.n = call.k /\ call.k \in Nat /\ P \in Int /\ x \in Int /\ y \in Int /\ D \in Int
      /\ 0 <= x /\ x < D /\ 0 <= y /\ y < D /\ D < P
  BY ModOperands DEF ModularOps
<1>2. /\ T \in Int /\ R \in Int /\ 0 <= R /\ R < D
      /\ T >= D => R = T - D
      /\ T < D => R = T
  <2>0. T \in Int /\ R = T % D /\ T >= 0 /\ T < D + D
    BY <1>1
  <2> HIDE DEF x, y, D, T, R
  <2>1. ASSUME T >= D PROVE R = T - D
    <3> DEFINE e == 1
               t == T - D
    <3>1. t \in Int /\ 0 <= t /\ t < D /\ T = t + e * D /\ e \in Int
      BY <1>1, <2>0, <2>1
    <3> HIDE DEF e, t
    <3>2. T % D = t
      BY <1>1, <3>1, ResidueIs
    <3>3. QED
      BY <2>0, <3>2 DEF t
  <2>2. ASSUME T < D PROVE R = T
    <3> DEFINE e == 0
    <3>1. T \in Int /\ 0 <= T /\ T < D /\ T = T + e * D /\ e \in Int
      BY <1>1, <2>0, <2>2
    <3> HIDE DEF e
    <3>2. T % D = T
      BY <1>1, <3>1, ResidueIs
    <3>3. QED
      BY <2>0, <3>2
  <2>3. QED
    BY <1>1, <2>0, <2>1, <2>2
<1>0. PICK T0 \in Int, R0 \in Int : T0 = T /\ R0 = R
  BY <1>2
<1>3. Promised[1] = R0 /\ Promised[2] = NoWord
  BY <1>0, <1>1 DEF Promised, bignum_modadd, Was
<1>4. CASE phase = "main" /\ Passing(q, flag)
  <2>1. /\ flag \in Int /\ pos \in Nat /\ phase # "done" /\ q \in Mixes
        /\ Untouched(memory, memory0, call.z, pos) /\ pos <= call.k
    BY <1>4, MixType DEF LoopTypes, Passing, Pass
  <2>2. CASE pos < call.k
    <3> DEFINE s == Xi + Yi + flag
    <3>1. Emit(Lo(s)) /\ flag' = Hi(s) /\ h' = h
      BY <1>4, <2>2 DEF ModAdd, Correct
    <3>2. /\ Xi = DigitAt(memory0, call.x + pos) /\ Yi = DigitAt(memory0, call.y + pos)
          /\ Xi \in Int /\ Yi \in Int
          /\ DigitAt(memory0, call.z + pos) \in Int /\ DigitAt(memory0, call.m + pos) \in Int
      BY <1>1, <2>1, <2>2, PassingLoads
    <3>3. s = Column5(call, memory0, pos, q) + flag /\ s \in Int
      BY <2>1, <3>2, BaseAssumption DEF Column5, Mix
    <3> HIDE DEF s, q
    <3>4. /\ Lo(s) \in Digit /\ Hi(s) \in Int /\ h' \in Int
          /\ flag' \in Int /\ Lo(s) + B * Hi(s) = Column5(call, memory0, pos, q) + flag
      BY <3>1, <3>3, HiLo DEF LoopTypes
    <3>5. /\ LoopTypes' /\ MeetsContract' /\ phase' = phase /\ call' = call
          /\ pos' <= call'.k /\ Pass(call', memory', memory0', pos', q, flag')
      BY <1>4, <2>1, <2>2, <3>1, <3>4, PassingStep
    <3>6. QED
      BY <1>4, <3>4, <3>5 DEF ModAddInv, Passing, q
  <2>3. CASE ~(pos < call.k)
    <3>1. pos = call.k /\ Goto("compare") /\ pos' = 0 /\ h' = flag /\ flag' = 0
      BY <1>1, <1>4, <2>1, <2>3 DEF ModAdd
    <3>2. V + flag * P = T
      <4>1. V + flag * P = Total(call, memory0, call.k, q)
        BY <1>4, <3>1 DEF Passing, Pass
      <4>2. Total(call, memory0, call.k, q) = T
        <5>1. Was(call.z, call.k) \in Int
          BY <1>1, <2>1, TotalOf
        <5>2. QED
          BY <1>1, <2>1, <5>1, TotalOf DEF Mix
      <4>3. QED
        BY <4>1, <4>2
    <3>3. /\ phase' = "compare" /\ memory' = memory /\ result' = result /\ call' = call
          /\ memory0' = memory0
      BY <3>1 DEF Goto
    <3>4. LoopTypes' /\ MeetsContract'
      BY <2>1, <3>1, <3>3, Moving
    <3>5. Value(memory, call.z, 0) = 0 /\ Was(call.m, 0) = 0 /\ Pow[0] = 1
      BY LoopCallFacts, ValueFacts, PowFacts DEF LoopTypes, Was, Memory
    <3>6. 0 <= d' /\ d' < Pow[pos']
      BY <3>1, <3>3, <3>5 DEF Was
    <3>7. Value(memory', call'.z, call'.k) + h' * Pow[call'.k] = (x + y)'
      BY <3>1, <3>2, <3>3 DEF Was
    <3>8. pos' <= call'.k /\ Untouched(memory', memory0', call'.z, call'.k)
      BY <1>1, <2>1, <3>1, <3>3
    <3>9. QED
      BY <3>3, <3>4, <3>6, <3>7, <3>8 DEF ModAddInv
  <2>4. QED
    BY <2>2, <2>3
<1>5. CASE /\ phase = "compare" /\ pos <= call.k /\ Untouched(memory, memory0, call.z, call.k)
           /\ V + h * P = T /\ 0 <= d /\ d < Pow[pos]
  <2>1. /\ flag \in Int /\ pos \in Nat /\ phase # "done" /\ h \in Int
        /\ memory \in Memory /\ memory0 \in Memory /\ call.z \in Nat /\ call.m \in Nat
    BY <1>5, LoopCallFacts DEF LoopTypes
  <2>2. CASE pos < call.k
    <3> DEFINE s == Zi - Mi - flag
    <3>1. Skip /\ flag' = -Hi(s) /\ h' = h
      BY <1>5, <2>2 DEF ModAdd, Correct
    <3>2. /\ phase' = phase /\ memory' = memory /\ result' = result /\ call' = call
          /\ memory0' = memory0 /\ pos' = pos + 1
      BY <3>1 DEF Skip
    <3>3. Zi \in Int /\ Mi = DigitAt(memory0, call.m + pos) /\ Mi \in Int
      <4>1. Zi \in Digit /\ Mi \in Digit
        BY <2>1, DigitAtType DEF Zi, Mi, Memory
      <4>2. QED
        BY <1>5, <2>1, <2>2, <4>1, ModulusWord DEF Mi, Digit
    <3>4. s \in Int
      BY <2>1, <3>3
    <3>5. Lo(s) \in Digit /\ Lo(s) \in Int /\ Hi(s) \in Int /\ s = Lo(s) + B * Hi(s)
      <4> HIDE DEF s
      <4>1. QED
        BY <3>4, HiLo
    <3>6. LoopTypes' /\ MeetsContract' /\ flag' \in Int
      BY <1>5, <2>1, <3>1, <3>2, <3>5, Moving
    <3>7. 0 <= d' /\ d' < Pow[pos']
      <4> DEFINE Vp == Value(memory, call.z, pos)
                 Mp == Was(call.m, pos)
                 Pp == Pow[pos]
                 hi == Hi(s)
                 lo == Lo(s)
                 zi == Zi
                 mi == Mi
      <4>1. Vp \in Int /\ Value(memory, call.z, pos + 1) = Vp + zi * Pp
        <5>1. Vp \in Nat /\ Value(memory, call.z, pos + 1) = Vp + zi * Pp
          BY <2>1, ValueFacts DEF Memory, Zi
        <5>2. QED
          BY <5>1
      <4>2. Mp \in Int /\ Was(call.m, pos + 1) = Mp + mi * Pp
        <5>1. Mp \in Nat /\ Was(call.m, pos + 1) = Mp + mi * Pp
          BY <2>1, <3>3, ValueFacts DEF Memory, Was
        <5>2. QED
          BY <5>1
      <4>3. Pp \in Nat /\ Pp >= 1 /\ Pow[pos + 1] = B * Pp /\ B \in Nat /\ B >= 2
        BY <2>1, PowPositive, BaseAssumption
      <4>4. d' = (Vp + zi * Pp) - (Mp + mi * Pp) + (-hi) * (B * Pp)
        <5>1. d' = Value(memory, call.z, pos + 1) - Was(call.m, pos + 1) + flag' * Pow[pos + 1]
          BY <3>2 DEF Was
        <5>2. flag' = -hi
          BY <3>1
        <5> DEFINE w1 == Value(memory, call.z, pos + 1)
                   w2 == Was(call.m, pos + 1)
                   w3 == Pow[pos + 1]
        <5>3. w1 = Vp + zi * Pp /\ w2 = Mp + mi * Pp /\ w3 = B * Pp
          BY <4>1, <4>2, <4>3
        <5>4. d' = w1 - w2 + (-hi) * w3
          BY <5>1, <5>2
        <5> HIDE DEF d, w1, w2, w3
        <5>5. d' = (Vp + zi * Pp) - (Mp + mi * Pp) + (-hi) * (B * Pp)
          BY <5>3, <5>4
        <5>6. QED
          BY <5>5
      <4>5. d = Vp - Mp + flag * Pp /\ 0 <= d /\ d < Pp
        BY <1>5
      <4> DEFINE dd == d
                 dn == d'
      <4>6. dn = (Vp + zi * Pp) - (Mp + mi * Pp) + (-hi) * (B * Pp)
        BY <4>4
      <4>7. dd = Vp - Mp + flag * Pp /\ 0 <= dd /\ dd < Pp
        BY <4>5
      <4>8. hi \in Int /\ lo \in Int /\ lo >= 0 /\ lo <= B - 1 /\ zi \in Int /\ mi \in Int
            /\ zi - mi - flag = lo + B * hi
        BY <3>3, <3>5, <4>3 DEF Digit
      <4> HIDE DEF dd, dn, Vp, Mp, Pp, hi, lo, zi, mi
      <4>9. (zi - mi - flag) * Pp = (lo + B * hi) * Pp
        BY <4>8
      <4>10. /\ (zi - mi - flag) * Pp = zi * Pp - mi * Pp - flag * Pp
             /\ (lo + B * hi) * Pp = lo * Pp + hi * (B * Pp)
             /\ (-hi) * (B * Pp) = -(hi * (B * Pp))
             /\ zi * Pp \in Int /\ mi * Pp \in Int /\ flag * Pp \in Int
             /\ lo * Pp \in Int /\ hi * (B * Pp) \in Int
        BY <2>1, <4>3, <4>8
      <4> DEFINE zP == zi * Pp
                 mP == mi * Pp
                 fP == flag * Pp
                 lP == lo * Pp
                 hP == hi * (B * Pp)
      <4>11. /\ zP - mP - fP = lP + hP /\ dn = (Vp + zP) - (Mp + mP) + (-hP) /\ dd = Vp - Mp + fP
             /\ zP \in Int /\ mP \in Int /\ fP \in Int /\ lP \in Int /\ hP \in Int
        BY <4>6, <4>7, <4>9, <4>10
      <4> HIDE DEF zP, mP, fP, lP, hP
      <4>12. dn = dd + lP
        BY <4>1, <4>2, <4>11
      <4>13. lP >= 0 /\ lP <= (B - 1) * Pp
        BY <4>3, <4>8 DEF lP
      <4>14. (B - 1) * Pp = B * Pp - Pp /\ B * Pp \in Int
        BY <4>3
      <4>15. dd \in Int
        BY <4>1, <4>2, <4>11
      <4>16. 0 <= dn /\ dn < B * Pp
        BY <4>3, <4>7, <4>11, <4>12, <4>13, <4>14, <4>15
      <4>17. QED
        BY <3>2, <4>3, <4>16 DEF dn
    <3>8. Value(memory', call'.z, call'.k) + h' * Pow[call'.k] = (x + y)'
      BY <1>5, <3>1, <3>2 DEF Was
    <3>9. pos' <= call'.k /\ Untouched(memory', memory0', call'.z, call'.k)
      BY <1>1, <1>5, <2>1, <2>2, <3>2
    <3>10. QED
      BY <1>5, <3>2, <3>6, <3>7, <3>8, <3>9 DEF ModAddInv
  <2>3. CASE ~(pos < call.k)
    <3> DEFINE e == h - flag
    <3>1. pos = call.k /\ Goto("correct") /\ pos' = 0 /\ h' = Not(Lo(e)) /\ flag' = 0
      BY <1>1, <1>5, <2>1, <2>3 DEF ModAdd
    <3>2. /\ d \in Int /\ 0 <= d /\ d < P /\ e \in Int /\ d + e * P = T - D /\ T - D \in Int
          /\ V \in Int
      <4>1. V \in Nat
        BY <1>1, <2>1, ValueBound
      <4>2. d = V - D + flag * P /\ 0 <= d /\ d < P /\ V + h * P = T
        BY <1>5, <3>1
      <4> DEFINE dd == d
      <4>3. dd = V - D + flag * P /\ 0 <= dd /\ dd < P
        BY <4>2
      <4> HIDE DEF dd, V, D, P, T
      <4>4. flag * P \in Int /\ h * P \in Int /\ e * P = h * P - flag * P
        BY <1>1, <2>1
      <4>5. dd \in Int /\ e \in Int /\ dd + e * P = T - D /\ T - D \in Int /\ V \in Int
        BY <1>1, <1>2, <2>1, <4>1, <4>2, <4>3, <4>4
      <4>6. QED
        BY <4>3, <4>5 DEF dd
    <3>3. /\ T >= D => e = 0
          /\ T < D => e = -1
      <4> DEFINE t == T - D
                 v == d
      <4>1. t < P /\ 0 - P <= t /\ t \in Int
        <5> HIDE DEF x, y, D, P
        <5>1. QED
          BY <1>1
      <4>2. v \in Int /\ 0 <= v /\ v < P /\ e \in Int /\ v + e * P = t
        BY <3>2
      <4>3. (T >= D <=> 0 <= t) /\ (T < D <=> t < 0)
        <5> HIDE DEF D, T
        <5>1. QED
          BY <1>1, <1>2
      <4> HIDE DEF t, v, e
      <4>4. /\ 0 <= t /\ t < P => e = 0
            /\ 0 - P <= t /\ t < 0 => e = -1
        BY <4>1, <4>2, CarryIs
      <4>5. QED
        BY <4>1, <4>3, <4>4
    <3>4. T + (-1) * Bitval(h' # 0) * D = R /\ h' \in Int
      <4>1. CASE T >= D
        <5>1. h' = B - 1 /\ h' # 0
          <6> HIDE DEF e, T
          <6>1. Lo(e) = 0
            BY <3>3, <4>1, Masks
          <6>2. QED
            BY <3>1, <6>1, Masks
        <5>2. Bitval(h' # 0) = 1 /\ h' \in Int
          BY <5>1, BaseAssumption DEF Bitval
        <5>3. R = T - D
          BY <1>2, <4>1
        <5> HIDE DEF T, R, D
        <5>4. QED
          BY <1>1, <1>2, <5>2, <5>3
      <4>2. CASE T < D
        <5>1. h' = 0
          <6> HIDE DEF e, T
          <6>1. Lo(e) = B - 1
            BY <3>3, <4>2, Masks
          <6>2. QED
            BY <3>1, <6>1, Masks
        <5>2. Bitval(h' # 0) = 0 /\ h' \in Int
          BY <5>1 DEF Bitval
        <5>3. R = T
          BY <1>2, <4>2
        <5> HIDE DEF T, R, D
        <5>4. QED
          BY <1>1, <1>2, <5>2, <5>3
      <4>3. QED
        BY <1>1, <1>2, <4>1, <4>2
    <3>5. V + h * P = T /\ Untouched(memory, memory0, call.z, call.k)
      BY <1>5
    <3> HIDE DEF T, R, e
    <3>6. /\ LoopTypes' /\ MeetsContract' /\ phase' # "done" /\ call' = call /\ memory0' = memory0
          /\ Correcting(-1, T0, R0)'
      BY <1>0, <1>2, <2>1, <3>1, <3>4, <3>5, CorrectStarts DEF Goto
    <3>7. QED
      BY <1>0, <3>6 DEF ModAddInv, Correcting, Was, T, R
  <2>4. QED
    BY <2>2, <2>3
<1>6. CASE Correcting(-1, T, R)
  <2>1. Correct(-1, h # 0)
    BY <1>6 DEF ModAdd, Correcting
  <2>2. Correcting(-1, T0, R0)
    BY <1>0, <1>6
  <2>3. /\ LoopTypes' /\ MeetsContract'
        /\ phase' # "done" =>
              /\ phase' = "correct" /\ call' = call /\ memory0' = memory0
              /\ Correcting(-1, T0, R0)'
    BY <1>3, <2>1, <2>2, CorrectKeeps
  <2>4. QED
    BY <1>0, <2>3 DEF ModAddInv, Correcting, Was
<1>7. QED
  BY <1>4, <1>5, <1>6 DEF ModAddInv

\* h tells whether the words of x seen so far are not all zero; in the second
\* pass whether x is to be negated.
ModOptNegInv ==
  \/ /\ phase = "main" /\ pos <= call.k /\ memory = memory0 /\ flag = 0
     /\ h = Bitval(Was(call.x, pos) # 0)
  \/ /\ phase = "negate" /\ h = Bitval(Was(call.x, call.k) # 0 /\ call.w # 0)
     /\ Passing(Mix(0, 1 - 2 * h, 0, h, h, h), flag)

\* bignum_modoptneg computes m + ~x + 1 when there is something to negate.
LEMMA ModOptNegKeeps ==
  ASSUME LoopTypes, call.op = "modoptneg", ModOptNegInv, ModOptNeg
  PROVE  LoopTypes' /\ MeetsContract' /\ (phase' # "done" => ModOptNegInv')
<1> DEFINE x == Was(call.x, call.k)
           D == Was(call.m, call.k)
           P == Pow[call.k]
           V == Value(memory, call.z, call.k)
           g == 1 - 2 * h
           q == Mix(0, g, 0, h, h, h)
<1>1. /\ call.n = call.k /\ call.k \in Nat /\ P \in Int /\ x \in Int /\ D \in Int
      /\ 0 <= x /\ x < D /\ D < P
  BY ModOperands DEF ModularOps
<1>2. /\ call.x \in Nat /\ call.z \in Nat /\ flag \in Int /\ pos \in Nat /\ h \in Int /\ g \in Int
      /\ memory \in Memory /\ memory0 \in Memory /\ call \in LoopCalls
  BY LoopCallFacts DEF LoopTypes
<1>3. q \in Mixes /\ q.start = h
  <2>1. q \in Mixes
    <3> HIDE DEF g
    <3>1. QED
      BY <1>2, MixType
  <2>2. QED
    BY <2>1 DEF Mix
<1>4. CASE /\ phase = "main" /\ pos <= call.k /\ memory = memory0 /\ flag = 0
           /\ h = Bitval(Was(call.x, pos) # 0)
  <2>1. CASE pos < call.k
    <3>1. Skip /\ h' = Bitval(h # 0 \/ Xi # 0) /\ flag' = flag
      BY <1>4, <2>1 DEF ModOptNeg
    <3>2. /\ phase' = phase /\ memory' = memory /\ result' = result /\ call' = call
          /\ memory0' = memory0 /\ pos' = pos + 1
      BY <3>1 DEF Skip
    <3>3. LoopTypes' /\ MeetsContract'
      <4>1. h' \in Int /\ flag' \in Int /\ pos' \in Nat
        BY <1>2, <3>1, <3>2 DEF Bitval
      <4>2. QED
        BY <1>4, <3>2, <4>1, Moving
    <3>4. h' = Bitval(Was(call.x, pos + 1) # 0)
      <4> DEFINE w0 == Was(call.x, pos)
                 w1 == Was(call.x, pos + 1)
                 Q == Pow[pos]
                 d == DigitAt(memory0, call.x + pos)
      <4>1. w0 \in Nat /\ w1 = w0 + d * Q /\ d \in Nat /\ Q \in Nat /\ Q >= 1 /\ d = Xi
        <5>1. d \in Nat
          BY <1>2, DigitAtType, BaseAssumption DEF Memory, Digit
        <5>2. w0 \in Nat /\ w1 = w0 + d * Q
          BY <1>2, ValueFacts DEF Memory, Was
        <5>3. QED
          BY <1>2, <1>4, <5>1, <5>2, PowPositive DEF Xi
      <4>2. w1 # 0 <=> (w0 # 0 \/ d # 0)
        <5> HIDE DEF w0, w1, Q, d
        <5>1. CASE d = 0
          <6>1. d * Q = 0
            BY <4>1, <5>1
          <6>2. QED
            BY <4>1, <5>1, <6>1
        <5>2. CASE d # 0
          <6>1. d * Q >= Q /\ d * Q \in Int
            BY <4>1, <5>2
          <6>2. QED
            BY <4>1, <5>2, <6>1
        <5>3. QED
          BY <5>1, <5>2
      <4>3. h # 0 <=> w0 # 0
        BY <1>4 DEF Bitval
      <4> HIDE DEF w0, w1, d
      <4>4. h' = Bitval(w1 # 0)
        BY <3>1, <4>1, <4>2, <4>3 DEF Bitval
      <4>5. QED
        BY <4>4 DEF w1
    <3>6. pos' <= call'.k /\ memory' = memory0' /\ flag' = 0
      BY <1>1, <1>2, <1>4, <2>1, <3>1, <3>2
    <3>7. QED
      BY <1>4, <3>2, <3>3, <3>4, <3>6 DEF ModOptNegInv, Was
  <2>2. CASE ~(pos < call.k)
    <3> DEFINE neg == Bitval(h # 0 /\ call.w # 0)
    <3>1. Goto("negate") /\ pos' = 0 /\ h' = neg /\ flag' = neg /\ pos = call.k
      BY <1>1, <1>2, <1>4, <2>2 DEF ModOptNeg
    <3>2. /\ phase' = "negate" /\ memory' = memory /\ result' = result /\ call' = call
          /\ memory0' = memory0
      BY <3>1 DEF Goto
    <3>3. LoopTypes' /\ MeetsContract' /\ neg \in Int
      <4>1. h' \in Int /\ flag' \in Int /\ pos' \in Nat /\ neg \in Int
        BY <3>1 DEF Bitval
      <4>2. QED
        BY <3>2, <4>1, Moving
    <3>4. neg = Bitval(x # 0 /\ call.w # 0)
      BY <1>4, <3>1 DEF Bitval
    <3>5. Pass(call, memory, memory0, 0, Mix(0, 1 - 2 * neg, 0, neg, neg, neg), neg)
      <4> DEFINE e == 1 - 2 * neg
                 r == Mix(0, e, 0, neg, neg, neg)
      <4>1. e \in Int
        BY <3>3
      <4> HIDE DEF e, neg
      <4>2. r \in Mixes
        BY <3>3, <4>1, MixType
      <4>3. r.start = neg
        BY DEF Mix
      <4> HIDE DEF r
      <4>4. Pass(call, memory0, memory0, 0, r, neg)
        BY <1>2, <4>2, <4>3, PassStart
      <4>5. QED
        BY <1>4, <4>4 DEF e, r
    <3>6. h' = Bitval(Was(call.x, call.k)' # 0 /\ call'.w # 0)
      BY <3>1, <3>2, <3>4 DEF Was
    <3> HIDE DEF neg
    <3>7. Pass(call', memory', memory0', pos', Mix(0, 1 - 2 * h', 0, h', h', h'), flag') /\ pos' <= call'.k
      BY <1>1, <3>1, <3>2, <3>5
    <3>8. QED
      BY <3>2, <3>3, <3>6, <3>7 DEF ModOptNegInv, Passing
  <2>3. QED
    BY <2>1, <2>2
<1>5. CASE phase = "negate" /\ h = Bitval(x # 0 /\ call.w # 0) /\ Passing(q, flag)
  <2>1. /\ phase # "done" /\ pos <= call.k /\ Untouched(memory, memory0, call.z, pos) /\ h \in {0, 1}
    BY <1>5 DEF Passing, Pass, Bitval
  <2>2. CASE pos < call.k
    <3> DEFINE s == If(h # 0, Mi) + (IF h # 0 THEN Not(Xi) ELSE Xi) + flag
    <3>1. Emit(Lo(s)) /\ flag' = Hi(s) /\ h' = h
      BY <1>5, <2>2 DEF ModOptNeg
    <3>2. /\ Xi = DigitAt(memory0, call.x + pos) /\ Mi = DigitAt(memory0, call.m + pos)
          /\ Xi \in Int /\ Mi \in Int
          /\ DigitAt(memory0, call.z + pos) \in Int /\ DigitAt(memory0, call.y + pos) \in Int
      BY <1>1, <2>1, <2>2, PassingLoads DEF ModularOps
    <3>3. s = Column5(call, memory0, pos, q) + flag /\ s \in Int
      <4>1. Column5(call, memory0, pos, q) = g * Xi + h * Mi + h * (B - 1)
        <5> HIDE DEF g
        <5>1. QED
          BY <1>2, <3>2, BaseAssumption DEF Column5, Mix
      <4>2. If(h # 0, Mi) + (IF h # 0 THEN Not(Xi) ELSE Xi) = g * Xi + h * Mi + h * (B - 1)
        <5>1. CASE h = 0
          <6>1. g = 1
            BY <5>1
          <6>2. QED
            BY <3>2, <5>1, <6>1, BaseAssumption DEF If
        <5>2. CASE h = 1
          <6>1. g = -1
            BY <5>2
          <6>2. QED
            BY <3>2, <5>2, <6>1, BaseAssumption DEF If, Not
        <5>3. QED
          BY <2>1, <5>1, <5>2
      <4>3. If(h # 0, Mi) \in Int /\ (IF h # 0 THEN Not(Xi) ELSE Xi) \in Int
        BY <3>2, BaseAssumption DEF If, Not
      <4>4. QED
        BY <1>2, <4>1, <4>2, <4>3
    <3> HIDE DEF s, q
    <3>4. /\ Lo(s) \in Digit /\ Hi(s) \in Int /\ h' \in Int
          /\ flag' \in Int /\ Lo(s) + B * Hi(s) = Column5(call, memory0, pos, q) + flag
      BY <1>2, <3>1, <3>3, HiLo
    <3>5. /\ LoopTypes' /\ MeetsContract' /\ phase' = phase /\ call' = call /\ memory0' = memory0
          /\ pos' <= call'.k /\ Pass(call', memory', memory0', pos', q, flag')
      BY <1>2, <1>3, <1>5, <2>1, <2>2, <3>1, <3>4, PassingStep
    <3>6. Pass(call', memory', memory0', pos', Mix(0, 1 - 2 * h', 0, h', h', h'), flag')
      BY <3>1, <3>5 DEF q
    <3>7. h' = Bitval(Was(call.x, call.k)' # 0 /\ call'.w # 0)
      BY <1>5, <3>1, <3>5 DEF Was
    <3>8. QED
      BY <1>5, <3>5, <3>6, <3>7 DEF ModOptNegInv, Passing
  <2>3. CASE ~(pos < call.k)
    <3>1. pos = call.k /\ Leave(NoWord)
      BY <1>1, <1>2, <1>5, <2>1, <2>3 DEF ModOptNeg
    <3>2. V + flag * P = g * x + h * D + h * (P - 1) + h
      <4>1. V + flag * P = Total(call, memory0, call.k, q)
        BY <1>5, <3>1 DEF Passing, Pass
      <4>2. Total(call, memory0, call.k, q) = g * x + h * D + h * (P - 1) + h
        <5>1. Was(call.z, call.k) \in Int /\ Was(call.y, call.k) \in Int
          BY <1>1, <1>3, TotalOf
        <5> HIDE DEF g
        <5>2. QED
          BY <1>1, <1>2, <1>3, <5>1, TotalOf DEF Mix
      <4>3. QED
        BY <4>1, <4>2
    <3>3. V \in Int
      <4>1. V \in Nat
        BY <1>1, <1>2, ValueBound
      <4>2. QED
        BY <4>1
    <3>4. \A t \in Int, e \in Int : t >= 0 /\ t < P /\ V + e * P = t => V = t
      <4> TAKE t \in Int, e \in Int
      <4> HAVE t >= 0 /\ t < P /\ V + e * P = t
      <4>1. Low(call.k, t) = V
        BY ResultIs
      <4>2. Low(call.k, t + 0 * Pow[call.k]) = t
        <5>1. t >= 0 /\ t < Pow[call.k] /\ 0 \in Int
          OBVIOUS
        <5>2. QED
          BY <1>1, <5>1, LowHigh
      <4>3. t + 0 * P = t
        <5> HIDE DEF P
        <5>1. QED
          BY <1>1
      <4>4. QED
        BY <4>1, <4>2, <4>3
    <3>5. CASE h = 1
      <4> DEFINE t == D - x
                 e == flag - 1
      <4>1. x # 0 /\ call.w # 0
        BY <1>5, <3>5 DEF Bitval
      <4>2. t \in Int /\ t >= 0 /\ t < P /\ t < D /\ e \in Int /\ V + e * P = t
        <5>1. g = -1
          BY <3>5
        <5> HIDE DEF V, x, D, P, g
        <5>2. V + flag * P = (D - x) + P
          BY <1>1, <3>2, <3>3, <3>5, <5>1
        <5>3. e * P = flag * P - P /\ flag * P \in Int
          BY <1>1, <1>2
        <5>4. QED
          BY <1>1, <1>2, <3>3, <4>1, <5>2, <5>3
      <4>3. V = t
        <5> HIDE DEF V, t, e, P
        <5>1. QED
          BY <3>4, <4>2
      <4>4. (-x) % D = t
        <5> DEFINE u == -x
                   f == -1
        <5>1. u = t + f * D /\ f \in Int
          <6> HIDE DEF x, D
          <6>1. QED
            BY <1>1
        <5>2. t \in Int /\ 0 <= t /\ t < D /\ D \in Int
          BY <1>1, <4>2
        <5> HIDE DEF u, f, t, D
        <5>3. u % D = t
          BY <5>1, <5>2, ResidueIs
        <5>4. QED
          BY <5>3 DEF u
      <4>5. Promised[1] = V /\ Promised[2] = NoWord
        BY <1>1, <4>1, <4>3, <4>4 DEF Promised, bignum_modoptneg, Was
      <4>6. NoWord \in Int
        BY DEF NoWord
      <4>7. QED
        BY <2>1, <3>1, <4>5, <4>6, Leaving
    <3>6. CASE h = 0
      <4>1. x = 0 \/ call.w = 0
        BY <1>5, <3>6 DEF Bitval
      <4>2. V = x
        <5>1. g = 1
          BY <3>6
        <5>2. V + flag * P = x
          <6> HIDE DEF V, x, D, P, g
          <6>1. QED
            BY <1>1, <1>2, <3>2, <3>3, <3>6, <5>1
        <5>3. x >= 0 /\ x < P
          BY <1>1
        <5> HIDE DEF V, x, P
        <5>4. QED
          BY <1>1, <1>2, <3>4, <5>2, <5>3
      <4>3. (IF call.w # 0 THEN -x ELSE x) % D = x
        <5> DEFINE u == IF call.w # 0 THEN -x ELSE x
                   f == 0
        <5>1. u = x
          <6>1. x = 0 => -x = x
            <7> HIDE DEF x
            <7>1. \A t \in Int : t + (-t) = 0
              OBVIOUS
            <7>2. \A t \in Int : -t \in Int
              OBVIOUS
            <7>3. x + (-x) = 0 /\ -x \in Int
              BY <1>1, <7>1, <7>2
            <7> DEFINE y == -x
            <7>4. x + y = 0 /\ y \in Int
              BY <7>3
            <7> HIDE DEF y
            <7>5. x = 0 => y = x
              BY <1>1, <7>4
            <7>6. QED
              BY <7>5 DEF y
          <6>2. QED
            BY <4>1, <6>1
        <5>2. x \in Int /\ 0 <= x /\ x < D /\ D \in Int /\ f \in Int /\ x = x + f * D
          BY <1>1
        <5> HIDE DEF u, f, x, D
        <5>3. x % D = x
          BY <5>2, ResidueIs
        <5>4. QED
          BY <5>1, <5>3 DEF u
      <4>4. Promised[1] = V /\ Promised[2] = NoWord
        BY <1>1, <4>2, <4>3 DEF Promised, bignum_modoptneg, Was
      <4>5. NoWord \in Int
        BY DEF NoWord
      <4>6. QED
        BY <2>1, <3>1, <4>4, <4>5, Leaving
    <3>7. QED
      BY <2>1, <3>5, <3>6
  <2>4. QED
    BY <2>2, <2>3
<1>6. QED
  BY <1>4, <1>5 DEF ModOptNegInv

-----------------------------------------------------------------------------
(* bignum_cmul, bignum_cmadd, bignum_cmnegadd and bignum_muladd10.          *)

\* What is carried out of a column below B^2 is a word.
LEMMA CarryBound ==
  ASSUME NEW v \in Digit, NEW out \in Int, NEW t \in Int, 0 <= t, t < B * B, v + B * out = t
  PROVE  out \in Digit
<1>1. B \in Nat /\ B >= 2 /\ v \in Int /\ 0 <= v /\ v <= B - 1
  BY BaseAssumption DEF Digit
<1>2. out >= 0
  <2>1. ASSUME out <= -1 PROVE FALSE
    <3>1. B * out <= -B /\ B * out \in Int
      BY <1>1, <2>1
    <3>2. QED
      BY <1>1, <3>1
  <2>2. QED
    BY <2>1
<1>3. out <= B - 1
  <2>1. ASSUME out >= B PROVE FALSE
    <3>1. B * out >= B * B /\ B * out \in Int /\ B * B \in Int
      BY <1>1, <2>1
    <3>2. QED
      BY <1>1, <3>1
  <2>2. QED
    BY <1>1, <2>1
<1>4. QED
  BY <1>1, <1>2, <1>3 DEF Digit

\* A product of two words and two more words: what is carried is a word.
LEMMA MultiplyCarry ==
  ASSUME NEW v \in Digit, NEW out \in Int, NEW d1 \in Digit, NEW d2 \in Digit,
         NEW d3 \in Digit, NEW d4 \in Digit, v + B * out = d1 * d2 + d3 + d4
  PROVE  out \in Digit
<1>1. /\ B \in Nat /\ B >= 2
      /\ d1 \in Int /\ 0 <= d1 /\ d1 <= B - 1 /\ d2 \in Int /\ 0 <= d2 /\ d2 <= B - 1
      /\ d3 \in Int /\ 0 <= d3 /\ d3 <= B - 1 /\ d4 \in Int /\ 0 <= d4 /\ d4 <= B - 1
  BY BaseAssumption DEF Digit
<1>2. d1 * d2 \in Int /\ 0 <= d1 * d2 /\ d1 * d2 <= (B - 1) * (B - 1)
  <2>1. d1 * d2 \in Int /\ 0 <= d1 * d2
    BY <1>1
  <2>2. d1 * d2 <= (B - 1) * d2
    BY <1>1
  <2>3. (B - 1) * d2 <= (B - 1) * (B - 1)
    BY <1>1
  <2>4. (B - 1) * d2 \in Int /\ (B - 1) * (B - 1) \in Int
    BY <1>1
  <2>5. QED
    BY <2>1, <2>2, <2>3, <2>4
<1>3. (B - 1) * (B - 1) = (B * B - 2 * B) + 1 /\ B * B \in Int
  BY <1>1
<1> DEFINE t == d1 * d2 + d3 + d4
<1>4. t \in Int /\ 0 <= t /\ t < B * B /\ v + B * out = t
  BY <1>1, <1>2, <1>3
<1> HIDE DEF t
<1>5. QED
  BY <1>4, CarryBound

\* The shorter of the operand and the result; what lies above it does not reach
\* the result.
LEMMA OperandLow ==
  ASSUME LoopTypes
  PROVE  /\ Common \in Nat /\ Common <= call.k /\ Common <= call.n
         /\ call.n <= call.k => Common = call.n
         /\ \E r \in Nat : /\ Was(call.x, call.n) = Was(call.x, Common) + r * Pow[call.k]
                           /\ call.n <= call.k => r = 0
<1>1. call.k \in Nat /\ call.n \in Nat /\ call.x \in Nat /\ memory0 \in Memory
  BY LoopCallFacts DEF LoopTypes
<1>2. /\ Common \in Nat /\ Common <= call.k /\ Common <= call.n
      /\ call.n <= call.k => Common = call.n
      /\ ~(call.n <= call.k) => Common = call.k
  BY <1>1 DEF Common, Lesser
<1>3. Pow[call.k] \in Nat /\ Was(call.x, Common) \in Nat
  BY <1>1, <1>2, PowFacts, ValueBound DEF Was
<1>4. CASE call.n <= call.k
  <2>1. Was(call.x, Common) + 0 * Pow[call.k] = Was(call.x, Common)
    BY <1>3
  <2>2. QED
    BY <1>2, <1>4, <2>1
<1>5. CASE ~(call.n <= call.k)
  <2> DEFINE k == call.k
             x == call.x
             more == call.n - call.k
             r == Value(memory0, x + k, more)
  <2>1. k \in Nat /\ x \in Nat /\ more \in Nat /\ k + more = call.n
    BY <1>1, <1>5
  <2>2. r \in Nat
    <3>1. x + k \in Nat
      BY <2>1
    <3> HIDE DEF more, k, x
    <3>2. QED
      BY <1>1, <2>1, <3>1, ValueBound
  <2>3. Value(memory0, x, k + more) = Value(memory0, x, k) + Pow[k] * r
    <3> HIDE DEF more, k, x
    <3>1. QED
      BY <1>1, <2>1, ValueAbove
  <2>4. Was(call.x, call.n) = Was(call.x, Common) + r * Pow[call.k]
    <3>1. Was(call.x, call.n) = Was(call.x, Common) + Pow[call.k] * r
      BY <1>2, <1>5, <2>1, <2>3 DEF Was
    <3>2. Pow[call.k] * r = r * Pow[call.k]
      <4> HIDE DEF r
      <4>1. QED
        BY <1>3, <2>2
    <3>3. QED
      BY <3>1, <3>2
  <2> HIDE DEF r
  <2>5. QED
    BY <1>2, <1>5, <2>2, <2>4
<1>6. QED
  BY <1>2, <1>4, <1>5

\* The result of a multiple of the longer operand, from the pass over the words
\* it has in common with the output.
LEMMA LongEnd ==
  ASSUME LoopTypes, NEW e \in Int, NEW A \in Int, NEW f \in Int, NEW U,
         Value(memory, call.z, call.k) + e * Pow[call.k] = A + f * Was(call.x, Common),
         U = A + f * Was(call.x, call.n)
  PROVE  /\ Low(call.k, U) = Value(memory, call.z, call.k)
         /\ call.n <= call.k => High(call.k, U) = e
<1> DEFINE x == Was(call.x, Common)
           P == Pow[call.k]
<1>1. PICK r \in Nat : /\ Was(call.x, call.n) = x + r * P
                       /\ call.n <= call.k => r = 0
  BY OperandLow
<1>2. P \in Nat /\ x \in Nat
  <2>1. call.k \in Nat /\ call.x \in Nat /\ Common \in Nat /\ memory0 \in Memory
    BY LoopCallFacts, OperandLow DEF LoopTypes
  <2>2. x \in Nat
    BY <2>1, ValueBound DEF Was
  <2>3. QED
    BY <2>1, <2>2, PowFacts
<1> DEFINE V == Value(memory, call.z, call.k)
           u == A + f * Was(call.x, call.n)
           g == e + f * r
<1>3. V + g * P = u /\ g \in Int /\ (r = 0 => g = e)
  <2>1. u = A + f * (x + r * P)
    BY <1>1
  <2>2. V + e * P = A + f * x
    OBVIOUS
  <2>3. V \in Int
    <3>1. V \in Nat
      BY LoopCallFacts, ValueBound DEF LoopTypes
    <3>2. QED
      BY <3>1
  <2>4. r = 0 => e + f * r = e
    OBVIOUS
  <2>5. /\ f * (x + r * P) = f * x + (f * r) * P /\ f * r \in Int /\ f * x \in Int /\ (f * r) * P \in Int
        /\ (e + f * r) * P = e * P + (f * r) * P /\ e * P \in Int
    <3> HIDE DEF x, P
    <3>1. QED
      BY <1>2
  <2> DEFINE fx == f * x
             fP == (f * r) * P
             eP == e * P
             gP == g * P
  <2>6. /\ u = A + (fx + fP) /\ V + eP = A + fx /\ gP = eP + fP
        /\ fx \in Int /\ fP \in Int /\ eP \in Int
    BY <2>1, <2>2, <2>5
  <2> HIDE DEF fx, fP, eP, gP, u, V
  <2>7. V + gP = u
    BY <2>3, <2>6
  <2>8. QED
    BY <2>4, <2>5, <2>7 DEF gP
<1>4. U = u
  OBVIOUS
<1> HIDE DEF u, g
<1>5. Low(call.k, u) = V /\ High(call.k, u) = g
  BY <1>3, ResultIs
<1>6. QED
  BY <1>1, <1>3, <1>4, <1>5

\* h + flag is carried; in the tail the operand is used up.
CMulInv ==
  \/ /\ phase = "main" /\ pos <= Common /\ h + flag \in Digit
     /\ Passing(Mix(0, call.w, 0, 0, 0, 0), h + flag)
  \/ /\ phase = "tail" /\ Common <= pos /\ flag = 0 /\ h \in Digit
     /\ Passing(Mix(0, 0, 0, 0, 0, call.w * Was(call.x, Common)), h)

\* bignum_cmul multiplies by a word.
LEMMA CMulKeeps ==
  ASSUME LoopTypes, call.op = "cmul", CMulInv, CMul
  PROVE  LoopTypes' /\ MeetsContract' /\ (phase' # "done" => CMulInv')
<1> DEFINE x == Was(call.x, Common)
           w == call.w
           S == w * x
           V == Value(memory, call.z, call.k)
           q == Mix(0, w, 0, 0, 0, 0)
           r == Mix(0, 0, 0, 0, 0, S)
<1>1. /\ call.k \in Nat /\ call.n \in Nat /\ flag \in Int /\ h \in Int /\ pos \in Nat /\ w \in Int
      /\ w \in Digit
  BY LoopCallFacts DEF LoopTypes, GoodLoopCall, Digit
<1>2. Common \in Nat /\ Common <= call.k /\ Common <= call.n
  BY OperandLow
<1>3. x \in Int /\ S \in Int
  <2>1. x \in Nat
    BY <1>2, LoopCallFacts, ValueBound DEF LoopTypes, Was
  <2> HIDE DEF x, w
  <2>2. QED
    BY <1>1, <2>1
<1>4. q \in Mixes /\ r \in Mixes
  <2> HIDE DEF S, w
  <2>1. QED
    BY <1>1, <1>3, MixType
<1>5. CASE phase = "main" /\ pos <= Common /\ h + flag \in Digit /\ Passing(q, h + flag)
  <2> DEFINE in == h + flag
  <2>1. /\ phase # "done" /\ Untouched(memory, memory0, call.z, pos) /\ in \in Int
    BY <1>1, <1>5 DEF Passing, Pass
  <2>2. CASE pos < Common
    <3> DEFINE l == Lo(w * Xi) + h + flag
    <3>1. Emit(Lo(l)) /\ flag' = Hi(l) /\ h' = Hi(w * Xi)
      BY <1>5, <2>2 DEF CMul
    <3>2. /\ Xi = DigitAt(memory0, call.x + pos) /\ Xi \in Int /\ Xi \in Digit
          /\ DigitAt(memory0, call.z + pos) \in Int /\ DigitAt(memory0, call.y + pos) \in Int
          /\ DigitAt(memory0, call.m + pos) \in Int
      BY <1>1, <1>2, <2>1, <2>2, PassingLoads
    <3>3. /\ w * Xi \in Int /\ Lo(w * Xi) \in Int /\ Hi(w * Xi) \in Int
          /\ w * Xi = Lo(w * Xi) + B * Hi(w * Xi)
      <4> DEFINE v == w * Xi
      <4>1. v \in Int
        BY <1>1, <3>2
      <4> HIDE DEF v
      <4>2. QED
        BY <4>1, HiLo DEF v
    <3>4. l \in Int
      BY <1>1, <3>3
    <3>5. Lo(l) \in Digit /\ Hi(l) \in Int /\ Lo(l) \in Int /\ l = Lo(l) + B * Hi(l)
      <4> HIDE DEF l
      <4>1. QED
        BY <3>4, HiLo
    <3> DEFINE out == Hi(w * Xi) + Hi(l)
    <3>6. Column5(call, memory0, pos, q) = w * Xi
      <4> HIDE DEF w
      <4>1. QED
        BY <1>1, <3>2, <3>3, BaseAssumption DEF Column5, Mix
    <3>7. out \in Int /\ Lo(l) + B * out = w * Xi + in
      <4> DEFINE hx == Hi(w * Xi)
                 lx == Lo(w * Xi)
                 hl == Hi(l)
                 ll == Lo(l)
                 wx == w * Xi
      <4>1. /\ hx \in Int /\ lx \in Int /\ hl \in Int /\ ll \in Int /\ wx \in Int
            /\ wx = lx + B * hx /\ l = lx + h + flag /\ l = ll + B * hl
        BY <3>3, <3>5
      <4>2. B \in Int
        BY BaseAssumption
      <4> HIDE DEF hx, lx, hl, ll, wx, l
      <4>3. B * (hx + hl) = B * hx + B * hl /\ B * hx \in Int /\ B * hl \in Int
        BY <4>1, <4>2
      <4>4. ll + B * (hx + hl) = wx + (h + flag) /\ hx + hl \in Int
        BY <1>1, <4>1, <4>3
      <4>5. QED
        BY <4>4 DEF hx, lx, hl, ll, wx
    <3>8. out \in Digit
      <4> DEFINE ll == Lo(l)
                 d1 == w
                 d2 == Xi
                 d3 == in
                 d4 == 0
      <4>1. /\ ll \in Digit /\ d1 \in Digit /\ d2 \in Digit /\ d3 \in Digit /\ d4 \in Digit
        BY <1>1, <1>5, <3>2, <3>5, BaseAssumption DEF Digit
      <4>2. d1 * d2 + d3 + d4 = d1 * d2 + d3
        BY <2>1, <3>3
      <4>3. ll + B * out = d1 * d2 + d3 + d4 /\ out \in Int
        BY <3>7, <4>2
      <4> HIDE DEF ll, d1, d2, d3, d4, out
      <4>4. QED
        BY <4>1, <4>3, MultiplyCarry
    <3> HIDE DEF l, q
    <3>9. /\ LoopTypes' /\ MeetsContract' /\ phase' = phase /\ call' = call /\ memory0' = memory0
          /\ pos' = pos + 1 /\ pos' <= call'.k /\ Pass(call', memory', memory0', pos', q, out)
      <4>1. h' \in Int /\ flag' \in Int /\ Lo(l) + B * out = Column5(call, memory0, pos, q) + in
        BY <3>1, <3>3, <3>5, <3>6, <3>7
      <4>2. Passing(q, in) /\ pos < call.k
        BY <1>1, <1>2, <1>5, <2>2
      <4> HIDE DEF out, in
      <4>3. QED
        BY <1>4, <2>1, <3>1, <3>5, <3>7, <4>1, <4>2, PassingStep
    <3>10. h' + flag' = out
      BY <3>1
    <3>11. pos' <= Common'
      BY <1>1, <1>2, <2>2, <3>9 DEF Common
    <3> HIDE DEF out
    <3>12. QED
      BY <1>5, <3>8, <3>9, <3>10, <3>11 DEF CMulInv, Passing, q
  <2>3. CASE ~(pos < Common)
    <3>1. pos = Common /\ Goto("tail") /\ h' = h + flag /\ flag' = 0 /\ pos' = pos
      BY <1>1, <1>2, <1>5, <2>3 DEF CMul
    <3>2. /\ phase' = "tail" /\ memory' = memory /\ result' = result /\ call' = call
          /\ memory0' = memory0
      BY <3>1 DEF Goto
    <3>3. LoopTypes' /\ MeetsContract'
      BY <1>1, <2>1, <3>1, <3>2, Moving
    <3>4. Pass(call, memory, memory0, pos, r, in)
      <4>1. Total(call, memory0, pos, q) = S
        <5> HIDE DEF w
        <5>1. QED
          BY <1>1, <1>3, <1>4, <3>1, TotalOf DEF Mix
      <4>2. Total(call, memory0, pos, r) = S
        <5> HIDE DEF S
        <5>1. QED
          BY <1>1, <1>3, <1>4, <3>1, TotalOf DEF Mix
      <4>3. QED
        BY <1>5, <4>1, <4>2 DEF Passing, Pass
    <3>5. S' = S /\ Common' = Common
      BY <3>2 DEF Was, Common
    <3>6. Pass(call', memory', memory0', pos', r', h') /\ pos' <= call'.k
      BY <1>2, <3>1, <3>2, <3>4, <3>5
    <3>7. Common' <= pos' /\ h' \in Digit
      BY <1>5, <1>2, <3>1, <3>5
    <3>8. QED
      BY <3>1, <3>2, <3>3, <3>6, <3>7 DEF CMulInv, Passing
  <2>4. QED
    BY <2>2, <2>3
<1>6. CASE phase = "tail" /\ Common <= pos /\ flag = 0 /\ h \in Digit /\ Passing(r, h)
  <2>1. /\ phase # "done" /\ pos <= call.k /\ Untouched(memory, memory0, call.z, pos)
    BY <1>6 DEF Passing, Pass
  <2>2. CASE pos < call.k
    <3>1. Emit(h) /\ flag' = flag /\ h' = 0
      BY <1>6, <2>2 DEF CMul
    <3>2. Column5(call, memory0, pos, r) = 0
      <4>1. /\ DigitAt(memory0, call.z + pos) \in Int /\ DigitAt(memory0, call.y + pos) \in Int
            /\ DigitAt(memory0, call.x + pos) \in Int /\ DigitAt(memory0, call.m + pos) \in Int
        BY <2>1, <2>2, PassingLoads
      <4> HIDE DEF S
      <4>2. QED
        BY <4>1, BaseAssumption DEF Column5, Mix
    <3> DEFINE out == 0
    <3>3. h + B * out = Column5(call, memory0, pos, r) + h /\ out \in Int
      BY <1>1, <3>2, BaseAssumption
    <3> HIDE DEF out, r
    <3>4. /\ LoopTypes' /\ MeetsContract' /\ phase' = phase /\ call' = call /\ memory0' = memory0
          /\ pos' = pos + 1 /\ pos' <= call'.k /\ Pass(call', memory', memory0', pos', r, out)
      BY <1>1, <1>4, <1>6, <2>1, <2>2, <3>1, <3>3, PassingStep
    <3>5. S' = S /\ Common' = Common
      BY <3>4 DEF Was, Common
    <3>6. Pass(call', memory', memory0', pos', r', h')
      BY <3>1, <3>4, <3>5 DEF out, r
    <3>7. Common' <= pos' /\ h' \in Digit /\ flag' = 0
      BY <1>1, <1>2, <1>6, <3>1, <3>4, <3>5, BaseAssumption DEF Digit
    <3>8. QED
      BY <1>6, <3>4, <3>6, <3>7 DEF CMulInv, Passing, r
  <2>3. CASE ~(pos < call.k)
    <3>1. pos = call.k /\ Leave(h)
      BY <1>1, <1>6, <2>1, <2>3 DEF CMul
    <3>2. V + h * Pow[call.k] = S
      <4>1. V + h * Pow[call.k] = Total(call, memory0, call.k, r)
        BY <1>6, <3>1 DEF Passing, Pass
      <4>2. Total(call, memory0, call.k, r) = S
        <5> HIDE DEF S
        <5>1. QED
          BY <1>1, <1>3, <1>4, TotalOf DEF Mix
      <4>3. QED
        BY <4>1, <4>2
    <3> DEFINE U == w * Was(call.x, call.n)
               A == 0
    <3>3. Was(call.x, call.n) \in Int
      <4>1. Was(call.x, call.n) \in Nat
        BY LoopCallFacts, ValueBound DEF LoopTypes, Was
      <4>2. QED
        BY <4>1
    <3>4. A \in Int /\ U = A + w * Was(call.x, call.n) /\ V + h * Pow[call.k] = A + w * x
      <4>1. U \in Int
        BY <1>1, <3>3
      <4>2. QED
        BY <1>3, <3>2, <4>1
    <3> HIDE DEF U, A
    <3>5. Low(call.k, U) = V /\ (call.n <= call.k => High(call.k, U) = h)
      <4> HIDE DEF w
      <4>1. QED
        BY <1>1, <3>4, LongEnd
    <3>6. /\ Promised[1] = Low(call.k, U)
          /\ Promised[2] = IF call.n <= call.k THEN High(call.k, U) ELSE NoWord
      BY <1>6 DEF Promised, bignum_cmul, Was, U
    <3>7. QED
      BY <1>1, <2>1, <3>1, <3>5, <3>6, Leaving
  <2>4. QED
    BY <2>2, <2>3
<1>7. QED
  BY <1>5, <1>6 DEF CMulInv

\* Nothing stored is nothing changed.
LEMMA NothingStored ==
  ASSUME NEW after \in Memory, NEW old \in Memory, NEW z \in Nat, Untouched(after, old, z, 0)
  PROVE  after = old
<1>1. ASSUME NEW t \in Addr PROVE after[t] = old[t]
  <2>1. t \notin Region(z, 0)
    BY DEF Region
  <2>2. QED
    BY <2>1 DEF Untouched
<1>2. QED
  BY <1>1 DEF Memory

\* The word, the high word and the carry of a multiply-add make up its operands.
LEMMA MulAddSum ==
  ASSUME LoopTypes, NEW b \in Int, NEW t \in Int, NEW c \in Int
  PROVE  /\ MulAdd(b, t, c).word \in Digit
         /\ MulAdd(b, t, c).high \in Int /\ MulAdd(b, t, c).carry \in Int
         /\ MulAdd(b, t, c).word + B * (MulAdd(b, t, c).high + MulAdd(b, t, c).carry) = b + t + (h + c)
<1> DEFINE s == b + h + c
           u == Lo(s) + Lo(t)
           hs == Hi(s)
           ls == Lo(s)
           ht == Hi(t)
           lt == Lo(t)
           hu == Hi(u)
           lu == Lo(u)
<1>1. h \in Int /\ s \in Int
  BY DEF LoopTypes
<1>2. hs \in Int /\ ls \in Int /\ s = ls + B * hs
  <2> HIDE DEF s
  <2>1. QED
    BY <1>1, HiLo
<1>3. ht \in Int /\ lt \in Int /\ t = lt + B * ht
  BY HiLo
<1>4. hu \in Int /\ lu \in Int /\ u = lu + B * hu /\ lu \in Digit
  <2>1. u \in Int
    BY <1>2, <1>3
  <2> HIDE DEF u
  <2>2. QED
    BY <2>1, HiLo
<1>5. MulAdd(b, t, c) = [word |-> lu, high |-> ht + hs, carry |-> hu]
  BY DEF MulAdd
<1>6. u = ls + lt /\ s = b + h + c /\ B \in Int
  BY BaseAssumption
<1> HIDE DEF s, u, hs, ls, ht, lt, hu, lu
<1>7. lu + B * ((ht + hs) + hu) = b + t + (h + c)
  <2>1. B * ((ht + hs) + hu) = B * ht + B * hs + B * hu
        /\ B * ht \in Int /\ B * hs \in Int /\ B * hu \in Int
    BY <1>2, <1>3, <1>4, <1>6
  <2>2. QED
    BY <1>1, <1>2, <1>3, <1>4, <1>6, <2>1
<1>8. QED
  BY <1>2, <1>3, <1>4, <1>5, <1>7

\* The product of the word and what there is of the operand.
LEMMA CommonProduct ==
  ASSUME LoopTypes
  PROVE  /\ Was(call.x, Common) \in Int /\ Was(call.x, Common) >= 0
         /\ call.w * Was(call.x, Common) \in Int
         /\ Common = 0 => call.w * Was(call.x, Common) = 0
         /\ Was(call.x, call.n) \in Int /\ Was(call.z, call.k) \in Int
         /\ call.k \in Nat /\ call.n \in Nat /\ call.w \in Int
<1>1. /\ call.x \in Nat /\ call.z \in Nat /\ call.n \in Nat /\ call.k \in Nat /\ call.w \in Nat
      /\ Common \in Nat /\ memory0 \in Memory
  BY LoopCallFacts, OperandLow DEF LoopTypes
<1>2. Was(call.x, Common) \in Nat
  BY <1>1, ValueBound DEF Was
<1>3. Was(call.x, call.n) \in Nat
  BY <1>1, ValueBound DEF Was
<1>4. Was(call.z, call.k) \in Nat
  BY <1>1, ValueBound DEF Was
<1>5. Common = 0 => Was(call.x, Common) = 0
  <2>1. Was(call.x, 0) = 0
    BY <1>1, ValueFacts DEF Memory, Was
  <2>2. QED
    BY <2>1
<1> DEFINE x == Was(call.x, Common)
           w == call.w
<1>6. w * x \in Int /\ (x = 0 => w * x = 0)
  <2>1. x \in Nat /\ w \in Nat
    BY <1>1, <1>2
  <2> HIDE DEF x, w
  <2>2. QED
    BY <2>1
<1>7. QED
  BY <1>1, <1>2, <1>3, <1>4, <1>5, <1>6

\* The tail of an accumulating function ends with its sum: without an operand
\* there is nothing to add, and no word has been stored.
LEMMA TailEnds ==
  ASSUME LoopTypes, NEW S \in Int, NEW e \in Int, Common = 0 => S = 0 /\ pos = 0,
         Passing(Mix(1, 0, 0, 0, 0, S), e), ~(pos < call.k /\ Common > 0)
  PROVE  /\ Value(memory, call.z, call.k) + e * Pow[call.k] = Was(call.z, call.k) + S
         /\ Untouched(memory, memory0, call.z, call.k)
<1> DEFINE r == Mix(1, 0, 0, 0, 0, S)
<1>1. r \in Mixes
  BY MixType
<1>2. /\ call.k \in Nat /\ pos \in Nat /\ call.z \in Nat /\ memory \in Memory /\ memory0 \in Memory
      /\ Common \in Nat /\ call \in LoopCalls
  BY LoopCallFacts, OperandLow DEF LoopTypes
<1>3. ASSUME NEW j \in Nat PROVE Total(call, memory0, j, r) = Was(call.z, j) + S
  BY <1>1, <1>3, TotalOf DEF Mix
<1>4. pos <= call.k /\ Pass(call, memory, memory0, pos, r, e)
  BY DEF Passing
<1> HIDE DEF r
<1>5. CASE Common > 0
  <2>1. pos = call.k
    BY <1>2, <1>4, <1>5
  <2>2. QED
    BY <1>2, <1>3, <1>4, <2>1 DEF Pass
<1>6. CASE Common = 0
  <2>1. pos = 0 /\ S = 0
    BY <1>6
  <2>2. Untouched(memory, memory0, call.z, 0)
    BY <1>4, <2>1 DEF Pass
  <2>3. memory = memory0
    BY <1>2, <2>2, NothingStored
  <2>4. Value(memory, call.z, 0) + e * Pow[0] = Was(call.z, 0) + 0
    <3>1. 0 \in Nat /\ Total(call, memory0, 0, r) = Was(call.z, 0) + 0
      BY <1>3, <2>1
    <3>2. QED
      BY <1>4, <2>1, <3>1 DEF Pass
  <2>5. e = 0
    <3>1. Value(memory, call.z, 0) = 0 /\ Was(call.z, 0) = 0 /\ Pow[0] = 1
      BY <1>2, <2>3, ValueFacts, PowFacts DEF Was, Memory
    <3>2. QED
      BY <2>4, <3>1
  <2>6. Value(memory, call.z, call.k) + e * Pow[call.k] = Was(call.z, call.k) + S
    <3>1. Value(memory, call.z, call.k) \in Nat /\ Pow[call.k] \in Nat
      BY <1>2, ValueBound, PowFacts
    <3>2. Value(memory, call.z, call.k) = Was(call.z, call.k)
      BY <2>3 DEF Was
    <3>3. QED
      BY <2>1, <2>5, <3>1, <3>2
  <2>7. QED
    BY <2>3, <2>6 DEF Untouched
<1>7. QED
  BY <1>2, <1>5, <1>6

CMAddInv ==
  \/ /\ phase = "main" /\ pos <= Common /\ h + flag \in Digit
     /\ Passing(Mix(1, call.w, 0, 0, 0, 0), h + flag)
  \/ /\ phase = "tail" /\ Common <= pos /\ (Common = 0 => pos = 0)
     /\ Passing(Mix(1, 0, 0, 0, 0, call.w * Was(call.x, Common)), h + flag)

\* bignum_cmadd adds a multiple of x to z and carries on.
LEMMA CMAddKeeps ==
  ASSUME LoopTypes, call.op = "cmadd", CMAddInv, CMAdd
  PROVE  LoopTypes' /\ MeetsContract' /\ (phase' # "done" => CMAddInv')
<1> DEFINE x == Was(call.x, Common)
           w == call.w
           S == w * x
           V == Value(memory, call.z, call.k)
           q == Mix(1, w, 0, 0, 0, 0)
           r == Mix(1, 0, 0, 0, 0, S)
           in == h + flag
<1>1. /\ call.k \in Nat /\ call.n \in Nat /\ flag \in Int /\ h \in Int /\ pos \in Nat /\ w \in Int
      /\ w \in Digit /\ in \in Int
  BY LoopCallFacts DEF LoopTypes, GoodLoopCall, Digit
<1>2. Common \in Nat /\ Common <= call.k /\ Common <= call.n
  BY OperandLow
<1>3. x \in Int /\ S \in Int /\ (Common = 0 => S = 0)
  BY CommonProduct
<1>4. q \in Mixes /\ r \in Mixes
  <2> HIDE DEF S, w
  <2>1. QED
    BY <1>1, <1>3, MixType
<1>5. CASE phase = "main" /\ pos <= Common /\ in \in Digit /\ Passing(q, in)
  <2>1. /\ phase # "done" /\ Untouched(memory, memory0, call.z, pos)
    BY <1>5 DEF Passing, Pass
  <2>2. CASE pos < Common
    <3> DEFINE l == MulAdd(Zi, w * Xi, flag)
               out == l.high + l.carry
    <3>1. Emit(l.word) /\ h' = l.high /\ flag' = l.carry
      BY <1>5, <2>2 DEF CMAdd
    <3>2. /\ Xi = DigitAt(memory0, call.x + pos) /\ Zi = DigitAt(memory0, call.z + pos)
          /\ Xi \in Int /\ Xi \in Digit /\ Zi \in Int /\ Zi \in Digit
          /\ DigitAt(memory0, call.m + pos) \in Int /\ DigitAt(memory0, call.y + pos) \in Int
      BY <1>1, <1>2, <2>1, <2>2, PassingLoads
    <3>3. w * Xi \in Int
      BY <1>1, <3>2
    <3>4. Column5(call, memory0, pos, q) = Zi + w * Xi
      <4> HIDE DEF w
      <4>1. QED
        BY <1>1, <3>2, <3>3, BaseAssumption DEF Column5, Mix
    <3>5. /\ l.word \in Digit /\ l.high \in Int /\ l.carry \in Int /\ out \in Int
          /\ l.word + B * out = Zi + w * Xi + in
      <4> DEFINE t == w * Xi
                 b == Zi
                 c == flag
      <4>1. t \in Int /\ b \in Int /\ c \in Int
        BY <1>1, <3>2, <3>3
      <4> HIDE DEF t, b, c
      <4>2. /\ MulAdd(b, t, c).word \in Digit
            /\ MulAdd(b, t, c).high \in Int /\ MulAdd(b, t, c).carry \in Int
            /\ MulAdd(b, t, c).word + B * (MulAdd(b, t, c).high + MulAdd(b, t, c).carry)
                 = b + t + (h + c)
        BY <4>1, MulAddSum
      <4>3. QED
        BY <4>2 DEF b, c, t
    <3> HIDE DEF l
    <3>6. out \in Digit
      <4> DEFINE v == l.word
                 zi == Zi
                 xi == Xi
      <4>1. v \in Digit /\ zi \in Digit /\ xi \in Digit /\ zi \in Int /\ w * xi \in Int
            /\ v + B * out = zi + w * xi + in
        BY <3>2, <3>3, <3>5
      <4>2. zi + w * xi + in = w * xi + zi + in
        <5> DEFINE t == w * xi
        <5> HIDE DEF t, zi, in
        <5>1. QED
          BY <1>1, <4>1 DEF t
      <4>3. v + B * out = w * xi + zi + in
        BY <4>1, <4>2
      <4> HIDE DEF v, zi, xi, out, w, in
      <4>4. QED
        BY <1>1, <1>5, <3>5, <4>1, <4>3, MultiplyCarry
    <3>7. /\ LoopTypes' /\ MeetsContract' /\ phase' = phase /\ call' = call /\ memory0' = memory0
          /\ pos' = pos + 1 /\ pos' <= call'.k /\ Pass(call', memory', memory0', pos', q, out)
      <4>1. h' \in Int /\ flag' \in Int /\ l.word + B * out = Column5(call, memory0, pos, q) + in
        BY <3>1, <3>4, <3>5
      <4>2. pos < call.k
        BY <1>1, <1>2, <2>2
      <4> DEFINE v == l.word
      <4>3. v \in Digit /\ Emit(v) /\ v + B * out = Column5(call, memory0, pos, q) + in
        BY <3>1, <3>5, <4>1
      <4> HIDE DEF out, in, q, v
      <4>4. QED
        BY <1>1, <1>4, <1>5, <2>1, <3>5, <4>1, <4>2, <4>3, PassingStep
    <3>8. h' + flag' = out
      BY <3>1
    <3>9. pos' <= Common'
      BY <1>1, <1>2, <2>2, <3>7 DEF Common
    <3> HIDE DEF out
    <3>10. QED
      BY <1>5, <3>6, <3>7, <3>8, <3>9 DEF CMAddInv, Passing, q
  <2>3. CASE ~(pos < Common)
    <3>1. pos = Common /\ Goto("tail") /\ h' = h /\ flag' = flag /\ pos' = pos
      BY <1>1, <1>2, <1>5, <2>3 DEF CMAdd
    <3>2. /\ phase' = "tail" /\ memory' = memory /\ result' = result /\ call' = call
          /\ memory0' = memory0
      BY <3>1 DEF Goto
    <3>3. LoopTypes' /\ MeetsContract'
      BY <1>1, <2>1, <3>1, <3>2, Moving
    <3>4. Pass(call, memory, memory0, pos, r, in)
      <4>1. Total(call, memory0, pos, q) = Was(call.z, pos) + S
        <5> HIDE DEF w
        <5>1. QED
          BY <1>1, <1>3, <1>4, <3>1, TotalOf DEF Mix
      <4>2. Total(call, memory0, pos, r) = Was(call.z, pos) + S
        <5> HIDE DEF S
        <5>1. QED
          BY <1>1, <1>3, <1>4, <3>1, TotalOf DEF Mix
      <4>3. QED
        BY <1>5, <4>1, <4>2 DEF Passing, Pass
    <3>5. S' = S /\ Common' = Common
      BY <3>2 DEF Was, Common
    <3>6. Pass(call', memory', memory0', pos', r', h' + flag') /\ pos' <= call'.k
      BY <1>2, <3>1, <3>2, <3>4, <3>5
    <3>7. Common' <= pos' /\ (Common' = 0 => pos' = 0)
      BY <1>2, <3>1, <3>5
    <3>8. QED
      BY <3>2, <3>3, <3>6, <3>7 DEF CMAddInv, Passing
  <2>4. QED
    BY <2>2, <2>3
<1>6. CASE phase = "tail" /\ Common <= pos /\ (Common = 0 => pos = 0) /\ Passing(r, in)
  <2>1. /\ phase # "done" /\ pos <= call.k /\ Untouched(memory, memory0, call.z, pos)
    BY <1>6 DEF Passing, Pass
  <2>2. CASE pos < call.k /\ Common > 0
    <3> DEFINE s == Zi + h + flag
    <3>1. Emit(Lo(s)) /\ h' = 0 /\ flag' = Hi(s)
      BY <1>6, <2>2 DEF CMAdd
    <3>2. /\ Zi = DigitAt(memory0, call.z + pos) /\ Zi \in Int
          /\ DigitAt(memory0, call.x + pos) \in Int /\ DigitAt(memory0, call.y + pos) \in Int
          /\ DigitAt(memory0, call.m + pos) \in Int
      BY <2>1, <2>2, PassingLoads
    <3>3. s = Column5(call, memory0, pos, r) + in /\ s \in Int
      <4> HIDE DEF S
      <4>1. QED
        BY <1>1, <3>2, BaseAssumption DEF Column5, Mix
    <3> HIDE DEF s, r, in
    <3>4. /\ Lo(s) \in Digit /\ Hi(s) \in Int /\ h' \in Int /\ flag' \in Int
          /\ Lo(s) + B * Hi(s) = Column5(call, memory0, pos, r) + in
      BY <3>1, <3>3, HiLo
    <3>5. /\ LoopTypes' /\ MeetsContract' /\ phase' = phase /\ call' = call /\ memory0' = memory0
          /\ pos' = pos + 1 /\ pos' <= call'.k /\ Pass(call', memory', memory0', pos', r, Hi(s))
      BY <1>1, <1>4, <1>6, <2>1, <2>2, <3>1, <3>4, PassingStep
    <3>6. S' = S /\ Common' = Common
      BY <3>5 DEF Was, Common
    <3>7. Hi(s) = h' + flag'
      BY <3>1, <3>4
    <3>8. Pass(call', memory', memory0', pos', r', h' + flag')
      BY <3>5, <3>6, <3>7 DEF r
    <3>9. Common' <= pos' /\ (Common' = 0 => pos' = 0)
      BY <1>1, <1>2, <1>6, <2>2, <3>5, <3>6
    <3>10. QED
      BY <1>6, <3>5, <3>8, <3>9 DEF CMAddInv, Passing, r
  <2>3. CASE ~(pos < call.k /\ Common > 0)
    <3>1. Leave(in)
      BY <1>6, <2>3 DEF CMAdd
    <3>2. /\ V + in * Pow[call.k] = Was(call.z, call.k) + S
          /\ Untouched(memory, memory0, call.z, call.k)
      <4> HIDE DEF S, in
      <4>1. QED
        BY <1>1, <1>3, <1>6, <2>3, TailEnds
    <3> DEFINE U == Was(call.z, call.k) + w * Was(call.x, call.n)
    <3>3. Low(call.k, U) = V /\ (call.n <= call.k => High(call.k, U) = in)
      <4> DEFINE A == Was(call.z, call.k)
      <4>1. A \in Int /\ V + in * Pow[call.k] = A + w * x /\ U = A + w * Was(call.x, call.n)
        BY <3>2, CommonProduct
      <4> HIDE DEF w, A, U, in
      <4>2. QED
        BY <1>1, <4>1, LongEnd
    <3>4. /\ Promised[1] = Low(call.k, U)
          /\ Promised[2] = IF call.n <= call.k THEN High(call.k, U) ELSE NoWord
      BY <1>6 DEF Promised, bignum_cmadd, Was
    <3> HIDE DEF in, U
    <3>5. QED
      BY <1>1, <2>1, <3>1, <3>2, <3>3, <3>4, Leaving
  <2>4. QED
    BY <2>2, <2>3
<1>7. QED
  BY <1>5, <1>6 DEF CMAddInv

\* The low word of a word.
LEMMA LoOfDigit ==
  ASSUME NEW v \in Digit
  PROVE  Lo(v) = v
<1>1. B \in Nat /\ B >= 2 /\ v \in 0 .. (B - 1) /\ v \in Int
  BY BaseAssumption DEF Digit
<1>2. (B * 0 + v) % B = v
  <2>1. 0 \in Int /\ B > 0
    BY <1>1
  <2>2. QED
    BY <1>1, <2>1, DivUnique
<1>3. B * 0 + v = v
  BY <1>1
<1>4. QED
  BY <1>2, <1>3 DEF Lo

\* The pass adds c times the complement of x and c: c times B^pos - x.
CMNegAddInv ==
  \/ /\ phase = "main" /\ pos <= Common /\ h + flag + If(pos = 0, call.w) \in Digit
     /\ Passing(Mix(1, 0 - call.w, 0, 0, call.w, call.w), h + flag + If(pos = 0, call.w))
  \/ /\ phase = "tail" /\ Common <= pos /\ (Common = 0 => pos = 0)
     /\ Passing(Mix(1, 0, 0, 0, 0, 0 - call.w * Was(call.x, Common)), 0 - (h + flag))

\* bignum_cmnegadd subtracts a multiple of x from z.
LEMMA CMNegAddKeeps ==
  ASSUME LoopTypes, call.op = "cmnegadd", CMNegAddInv, CMNegAdd
  PROVE  LoopTypes' /\ MeetsContract' /\ (phase' # "done" => CMNegAddInv')
<1> DEFINE x == Was(call.x, Common)
           w == call.w
           S == w * x
           mS == 0 - S
           mw == 0 - w
           V == Value(memory, call.z, call.k)
           q == Mix(1, mw, 0, 0, w, w)
           r == Mix(1, 0, 0, 0, 0, mS)
           in == h + flag + If(pos = 0, w)
           hf == h + flag
           back == 0 - hf
<1>1. /\ call.k \in Nat /\ call.n \in Nat /\ flag \in Int /\ h \in Int /\ pos \in Nat /\ w \in Int
      /\ w \in Digit /\ in \in Int /\ mw \in Int /\ hf \in Int /\ back \in Int
  BY LoopCallFacts DEF LoopTypes, GoodLoopCall, Digit, If
<1>2. Common \in Nat /\ Common <= call.k /\ Common <= call.n
  BY OperandLow
<1>3. x \in Int /\ x >= 0 /\ S \in Int /\ mS \in Int /\ (Common = 0 => mS = 0)
  BY CommonProduct
<1>4. q \in Mixes /\ r \in Mixes
  <2>0. w \in Int /\ mw \in Int /\ mS \in Int /\ 0 \in Int /\ 1 \in Int
    BY <1>1, <1>3
  <2> HIDE DEF mS, mw, w
  <2>1. Mix(1, mw, 0, 0, w, w) \in Mixes
    BY <2>0, MixType
  <2>2. Mix(1, 0, 0, 0, 0, mS) \in Mixes
    BY <2>0, MixType
  <2>3. QED
    BY <2>1, <2>2
<1>5. CASE phase = "main" /\ pos <= Common /\ in \in Digit /\ Passing(q, in)
  <2>1. /\ phase # "done" /\ Untouched(memory, memory0, call.z, pos)
    BY <1>5 DEF Passing, Pass
  <2>2. CASE pos < Common
    <3> DEFINE first == If(pos = 0, w)
               prod == w * Not(Xi)
               prd == prod + first
               l == MulAdd(Zi, prd, flag)
               out == l.high + l.carry
    <3>1. Emit(l.word) /\ h' = l.high /\ flag' = l.carry
      BY <1>5, <2>2 DEF CMNegAdd
    <3>2. /\ Xi = DigitAt(memory0, call.x + pos) /\ Zi = DigitAt(memory0, call.z + pos)
          /\ Xi \in Int /\ Xi \in Digit /\ Zi \in Int /\ Zi \in Digit
          /\ DigitAt(memory0, call.m + pos) \in Int /\ DigitAt(memory0, call.y + pos) \in Int
      BY <1>1, <1>2, <2>1, <2>2, PassingLoads
    <3>3. Not(Xi) \in Digit /\ Not(Xi) \in Int /\ prod \in Int /\ first \in Int /\ prd \in Int
      <4>1. Not(Xi) \in Digit /\ Not(Xi) \in Int
        BY <3>2, BaseAssumption DEF Not, Digit
      <4> HIDE DEF w
      <4>2. prod \in Int
        BY <1>1, <4>1
      <4>3. first \in Int
        BY <1>1 DEF If
      <4>4. QED
        BY <4>1, <4>2, <4>3
    <3>4. Column5(call, memory0, pos, q) = Zi + prod
      <4>1. mw * Xi + w * (B - 1) = prod
        <5> HIDE DEF w
        <5>1. (0 - w) * Xi + w * (B - 1) = w * (B - 1 - Xi)
          BY <1>1, <3>2, BaseAssumption
        <5>2. QED
          BY <5>1 DEF Not
      <4>2. mw * Xi \in Int /\ w * (B - 1) \in Int
        <5> HIDE DEF mw, w
        <5>1. QED
          BY <1>1, <3>2, BaseAssumption
      <4>3. Column5(call, memory0, pos, q) = Zi + (mw * Xi + w * (B - 1))
        <5> HIDE DEF w, mw
        <5>1. QED
          BY <1>1, <3>2, <4>2, BaseAssumption DEF Column5, Mix
      <4>4. QED
        BY <4>1, <4>3
    <3>5. /\ l.word \in Digit /\ l.high \in Int /\ l.carry \in Int /\ out \in Int
          /\ l.word + B * out = Zi + prod + in
      <4> DEFINE b == Zi
                 c == flag
      <4>1. prd \in Int /\ b \in Int /\ c \in Int
        BY <1>1, <3>2, <3>3
      <4> HIDE DEF prd, b, c
      <4>2. /\ MulAdd(b, prd, c).word \in Digit
            /\ MulAdd(b, prd, c).high \in Int /\ MulAdd(b, prd, c).carry \in Int
            /\ MulAdd(b, prd, c).word + B * (MulAdd(b, prd, c).high + MulAdd(b, prd, c).carry)
                 = b + prd + (h + c)
        BY <4>1, MulAddSum
      <4>3. b + prd + (h + c) = Zi + prod + in
        <5> HIDE DEF prod, first
        <5>1. QED
          BY <1>1, <3>2, <3>3 DEF b, c, prd, first
      <4>4. QED
        BY <4>2, <4>3 DEF b, c
    <3> HIDE DEF l, prd
    <3>6. out \in Digit
      <4> DEFINE v == l.word
                 zi == Zi
                 ni == Not(Xi)
      <4>1. v \in Digit /\ zi \in Digit /\ ni \in Digit /\ zi \in Int /\ w * ni \in Int
            /\ v + B * out = zi + w * ni + in
        BY <3>2, <3>3, <3>5
      <4>2. zi + w * ni + in = w * ni + zi + in
        <5> DEFINE t == w * ni
        <5> HIDE DEF t, zi, in
        <5>1. QED
          BY <1>1, <4>1 DEF t
      <4>3. v + B * out = w * ni + zi + in
        BY <4>1, <4>2
      <4> HIDE DEF v, zi, ni, out, w, in
      <4>4. QED
        BY <1>1, <1>5, <3>5, <4>1, <4>3, MultiplyCarry
    <3>7. /\ LoopTypes' /\ MeetsContract' /\ phase' = phase /\ call' = call /\ memory0' = memory0
          /\ pos' = pos + 1 /\ pos' <= call'.k /\ Pass(call', memory', memory0', pos', q, out)
      <4>1. h' \in Int /\ flag' \in Int /\ l.word + B * out = Column5(call, memory0, pos, q) + in
        BY <3>1, <3>4, <3>5
      <4>2. pos < call.k
        BY <1>1, <1>2, <2>2
      <4> DEFINE v == l.word
      <4>3. v \in Digit /\ Emit(v) /\ v + B * out = Column5(call, memory0, pos, q) + in
        BY <3>1, <3>5, <4>1
      <4> HIDE DEF out, in, q, v
      <4>4. QED
        BY <1>1, <1>4, <1>5, <2>1, <3>5, <4>1, <4>2, <4>3, PassingStep
    <3>8. h' + flag' + If(pos' = 0, call'.w) = out
      <4>1. If(pos' = 0, call'.w) = 0
        BY <1>1, <3>7 DEF If
      <4>2. QED
        BY <3>1, <3>5, <4>1
    <3>9. pos' <= Common'
      BY <1>1, <1>2, <2>2, <3>7 DEF Common
    <3> HIDE DEF out
    <3>10. Pass(call', memory', memory0', pos', Mix(1, 0 - call'.w, 0, 0, call'.w, call'.w),
                h' + flag' + If(pos' = 0, call'.w))
      BY <3>7, <3>8 DEF q
    <3>11. QED
      BY <1>5, <3>6, <3>7, <3>8, <3>9, <3>10 DEF CMNegAddInv, Passing
  <2>3. CASE ~(pos < Common)
    <3>1. /\ pos = Common /\ Goto("tail") /\ h' = If(Common > 0, Lo(w - hf)) /\ flag' = 0
          /\ pos' = pos
      BY <1>1, <1>2, <1>5, <2>3 DEF CMNegAdd
    <3>2. /\ phase' = "tail" /\ memory' = memory /\ result' = result /\ call' = call
          /\ memory0' = memory0
      BY <3>1 DEF Goto
    <3>3. h' \in Int /\ Pass(call, memory, memory0, pos, r, 0 - h')
      <4> DEFINE P == Pow[pos]
                 Vp == Value(memory, call.z, pos)
                 Z == Was(call.z, pos)
      <4>1. /\ P \in Int /\ P >= 1 /\ Vp \in Int /\ Vp >= 0 /\ Z \in Int /\ Z < P /\ Z >= 0
        <5>1. Vp \in Nat
          BY <1>1, LoopCallFacts, ValueBound DEF LoopTypes
        <5>2. QED
          BY <1>1, <1>4, <5>1, TotalOf
      <4>2. Vp + in * P = (Z + mw * x) + w * (P - 1) + w
        <5>1. Vp + in * P = Total(call, memory0, pos, q)
          BY <1>5 DEF Passing, Pass
        <5>2. Total(call, memory0, pos, q) = (Z + mw * x) + w * (P - 1) + w
          <6>1. Was(call.y, pos) \in Int /\ Was(call.m, pos) \in Int
            BY <1>1, <1>4, TotalOf
          <6>2. /\ q.z = 1 /\ q.x = mw /\ q.y = 0 /\ q.m = 0 /\ q.not = w /\ q.start = w
            BY DEF Mix
          <6> HIDE DEF q
          <6>3. Total(call, memory0, pos, q)
                  = q.z * Z + q.x * Was(call.x, pos) + q.y * Was(call.y, pos)
                    + q.m * Was(call.m, pos) + q.not * (P - 1) + q.start
            BY <1>1, <1>4, TotalOf
          <6>4. Was(call.x, pos) = x /\ mw * x \in Int /\ w * (P - 1) \in Int
            <7> HIDE DEF mw, w
            <7>1. Was(call.x, pos) = x
              BY <3>1
            <7> HIDE DEF x, P
            <7>2. QED
              BY <1>1, <1>3, <4>1, <7>1
          <6> DEFINE mx == mw * x
                     wP == w * (P - 1)
          <6>5. Total(call, memory0, pos, q)
                  = 1 * Z + mx + 0 * Was(call.y, pos) + 0 * Was(call.m, pos) + wP + w
            BY <6>2, <6>3, <6>4
          <6>6. mx \in Int /\ wP \in Int
            BY <6>4
          <6> HIDE DEF mx, wP, w, Z
          <6>7. Total(call, memory0, pos, q) = (Z + mx) + wP + w
            BY <1>1, <4>1, <6>1, <6>5, <6>6
          <6>8. QED
            BY <6>7 DEF mx, wP
        <5>3. QED
          BY <5>1, <5>2
      <4>3. Total(call, memory0, pos, r) = Z + mS
        <5> HIDE DEF mS
        <5>1. QED
          BY <1>1, <1>3, <1>4, <3>1, TotalOf DEF Mix
      <4>4. CASE Common > 0
        <5> DEFINE d == w - hf
        <5>1. in = hf
          BY <1>1, <3>1, <4>4 DEF If
        <5>2. Vp - d * P = Z - S /\ d \in Int /\ d * P \in Int
          <6> HIDE DEF P, Vp, Z, x, w, hf, in
          <6>1. /\ (0 - w) * x = 0 - S /\ w * (P - 1) = w * P - w /\ d * P = w * P - hf * P
                /\ w * P \in Int /\ hf * P \in Int /\ d \in Int /\ d * P \in Int
            BY <1>1, <1>3, <4>1
          <6>2. Vp + hf * P = (Z + (0 - S)) + (w * P - w) + w
            BY <4>2, <5>1, <6>1
          <6> DEFINE wP == w * P
                     hP == hf * P
                     dP == d * P
          <6>3. Vp + hP = (Z + (0 - S)) + (wP - w) + w /\ dP = wP - hP /\ wP \in Int /\ hP \in Int
            BY <6>1, <6>2
          <6> HIDE DEF wP, hP, dP, S, d
          <6>4. Vp - dP = Z - S
            BY <1>1, <1>3, <4>1, <6>3
          <6>5. QED
            BY <6>1, <6>4 DEF dP
        <5>3. d \in Digit
          <6>1. S >= 0
            <7>1. w >= 0
              BY <1>1 DEF Digit
            <7> HIDE DEF w, x
            <7>2. QED
              BY <1>1, <1>3, <7>1
          <6>2. d <= B - 1
            <7>1. w <= B - 1 /\ hf >= 0 /\ B \in Nat
              BY <1>1, <1>5, <5>1, BaseAssumption DEF Digit
            <7> HIDE DEF w, hf
            <7>2. QED
              BY <1>1, <7>1
          <6>3. d >= 0
            <7> HIDE DEF d, P, Vp, Z, S
            <7>1. d * P > 0 - P
              BY <1>3, <4>1, <5>2, <6>1
            <7>2. ASSUME d <= -1 PROVE FALSE
              <8>1. d * P <= 0 - P
                BY <4>1, <5>2, <7>2
              <8>2. QED
                BY <4>1, <5>2, <7>1, <8>1
            <7>3. QED
              BY <5>2, <7>2
          <6>4. QED
            BY <5>2, <6>2, <6>3, BaseAssumption DEF Digit
        <5>4. h' = d
          <6> HIDE DEF d
          <6>1. Lo(d) = d
            BY <5>3, LoOfDigit
          <6>2. QED
            BY <3>1, <4>4, <6>1 DEF If, d
        <5>5. Vp + (0 - h') * P = Z + mS
          <6> HIDE DEF d, P, Vp, Z, S
          <6>1. (0 - d) * P = 0 - d * P
            BY <4>1, <5>2
          <6>2. QED
            BY <1>3, <4>1, <5>2, <5>4, <6>1
        <5>6. QED
          BY <2>1, <4>3, <5>2, <5>4, <5>5 DEF Pass
      <4>5. CASE Common = 0
        <5>1. h' = 0 /\ mS = 0 /\ pos = 0
          BY <1>3, <3>1, <4>5 DEF If
        <5>2. Vp = 0 /\ Z = 0
          <6>1. /\ call.z \in Nat /\ memory \in [Addr -> Digit] /\ memory0 \in [Addr -> Digit]
            BY LoopCallFacts DEF LoopTypes, Memory
          <6>2. Value(memory, call.z, 0) = 0 /\ Value(memory0, call.z, 0) = 0
            BY <6>1, ValueFacts
          <6>3. QED
            BY <5>1, <6>2 DEF Was
        <5>3. Vp + (0 - h') * P = Z + mS
          <6> HIDE DEF P, Vp, Z, mS
          <6>1. QED
            BY <4>1, <5>1, <5>2
        <5>4. QED
          BY <2>1, <4>3, <5>1, <5>3 DEF Pass
      <4>6. QED
        BY <1>2, <4>4, <4>5
    <3>4. LoopTypes' /\ MeetsContract'
      BY <1>1, <2>1, <3>1, <3>2, <3>3, Moving
    <3>5. mS' = mS /\ Common' = Common
      BY <3>2 DEF Was, Common
    <3>6. 0 - (h' + flag') = 0 - h'
      BY <3>1, <3>3
    <3>7. Pass(call', memory', memory0', pos', r', 0 - (h' + flag')) /\ pos' <= call'.k
      BY <1>2, <3>1, <3>2, <3>3, <3>5, <3>6
    <3>8. Common' <= pos' /\ (Common' = 0 => pos' = 0)
      BY <1>2, <3>1, <3>5
    <3>9. QED
      BY <3>2, <3>4, <3>7, <3>8 DEF CMNegAddInv, Passing
  <2>4. QED
    BY <2>2, <2>3
<1>6. CASE phase = "tail" /\ Common <= pos /\ (Common = 0 => pos = 0) /\ Passing(r, back)
  <2>1. /\ phase # "done" /\ pos <= call.k /\ Untouched(memory, memory0, call.z, pos)
    BY <1>6 DEF Passing, Pass
  <2>2. CASE pos < call.k /\ Common > 0
    <3> DEFINE s == Zi - h - flag
    <3>1. Emit(Lo(s)) /\ h' = 0 /\ flag' = -Hi(s)
      BY <1>6, <2>2 DEF CMNegAdd
    <3>2. /\ Zi = DigitAt(memory0, call.z + pos) /\ Zi \in Int
          /\ DigitAt(memory0, call.x + pos) \in Int /\ DigitAt(memory0, call.y + pos) \in Int
          /\ DigitAt(memory0, call.m + pos) \in Int
      BY <2>1, <2>2, PassingLoads
    <3>3. s = Column5(call, memory0, pos, r) + back /\ s \in Int
      <4> HIDE DEF mS
      <4>1. QED
        BY <1>1, <3>2, BaseAssumption DEF Column5, Mix
    <3> HIDE DEF s, r, back
    <3>4. /\ Lo(s) \in Digit /\ Hi(s) \in Int /\ h' \in Int /\ flag' \in Int
          /\ Lo(s) + B * Hi(s) = Column5(call, memory0, pos, r) + back
      BY <3>1, <3>3, HiLo
    <3>5. /\ LoopTypes' /\ MeetsContract' /\ phase' = phase /\ call' = call /\ memory0' = memory0
          /\ pos' = pos + 1 /\ pos' <= call'.k /\ Pass(call', memory', memory0', pos', r, Hi(s))
      BY <1>1, <1>4, <1>6, <2>1, <2>2, <3>1, <3>4, PassingStep
    <3>6. mS' = mS /\ Common' = Common
      BY <3>5 DEF Was, Common
    <3>7. Hi(s) = 0 - (h' + flag')
      BY <3>1, <3>4
    <3>8. Pass(call', memory', memory0', pos', r', 0 - (h' + flag'))
      BY <3>5, <3>6, <3>7 DEF r
    <3>9. Common' <= pos' /\ (Common' = 0 => pos' = 0)
      BY <1>1, <1>2, <1>6, <2>2, <3>5, <3>6
    <3>10. QED
      BY <1>6, <3>5, <3>8, <3>9 DEF CMNegAddInv, Passing, r
  <2>3. CASE ~(pos < call.k /\ Common > 0)
    <3>1. Leave(hf)
      BY <1>6, <2>3 DEF CMNegAdd
    <3>2. /\ V + back * Pow[call.k] = Was(call.z, call.k) + mS
          /\ Untouched(memory, memory0, call.z, call.k)
      <4> HIDE DEF mS, back
      <4>1. QED
        BY <1>1, <1>3, <1>6, <2>3, TailEnds
    <3> DEFINE U == Was(call.z, call.k) - w * Was(call.x, call.n)
    <3>3. Low(call.k, U) = V /\ (call.n <= call.k => High(call.k, U) = back)
      <4> DEFINE A == Was(call.z, call.k)
      <4>1. A \in Int /\ V + back * Pow[call.k] = A + mw * x /\ U = A + mw * Was(call.x, call.n)
        <5> DEFINE xn == Was(call.x, call.n)
        <5>1. A \in Int /\ xn \in Int
          BY CommonProduct
        <5>2. V + back * Pow[call.k] = A + mS
          BY <3>2
        <5> HIDE DEF A, xn, w, x
        <5>3. mw * x = mS /\ A + mw * xn = A - w * xn
          BY <1>1, <1>3, <5>1
        <5>4. QED
          BY <5>1, <5>2, <5>3 DEF A, xn
      <4> HIDE DEF mw, A, U, back
      <4>2. QED
        BY <1>1, <4>1, LongEnd
    <3>4. /\ Promised[1] = Low(call.k, U)
          /\ Promised[2] = IF call.n <= call.k THEN -High(call.k, U) ELSE NoWord
      BY <1>6 DEF Promised, bignum_cmnegadd, Was
    <3>5. -back = hf
      <4> HIDE DEF hf
      <4>1. QED
        BY <1>1
    <3> HIDE DEF back, hf, U
    <3>6. QED
      BY <1>1, <2>1, <3>1, <3>2, <3>3, <3>4, <3>5, Leaving
  <2>4. QED
    BY <2>2, <2>3
<1>7. QED
  BY <1>5, <1>6 DEF CMNegAddInv

\* A quotient and a remainder are known when they fit.
LEMMA QuotientIs ==
  ASSUME NEW D \in Nat, NEW e \in Int, NEW v \in Int, 0 <= v, v < D, NEW t, t = D * e + v
  PROVE  t \div D = e /\ t % D = v
<1>1. D > 0 /\ v \in 0 .. (D - 1)
  OBVIOUS
<1>2. (D * e + v) \div D = e /\ (D * e + v) % D = v
  BY <1>1, DivUnique
<1>3. QED
  BY <1>2

\* The word of 8 d is top, the low part of 2 d four times over is the low part
\* of 8 d: ten times a word from its double.
LEMMA TimesTen ==
  ASSUME W >= 3, NEW d \in Digit, NEW top, NEW l,
         top = d \div TwoTo[W - 3], l = Lo(2 * d)
  PROVE  /\ l \in Int /\ top \in Int /\ top \div 4 \in Int /\ Lo(4 * l) \in Int
         /\ l + Lo(4 * l) + B * (top + top \div 4) = 10 * d
<1> DEFINE E == TwoTo[W - 3]
           t == d \div E
           r == d % E
           u == t \div 4
           v == t % 4
<1>1. B \in Nat /\ B >= 2 /\ B = TwoTo[W] /\ W \in Nat /\ d \in Int /\ 0 <= d /\ d <= B - 1
  BY BaseAssumption, WordBitsAssumption DEF Digit
<1>2. E \in Nat /\ E >= 1 /\ B = 8 * E
  <2> DEFINE c == W - 3
  <2>1. c \in Nat /\ c + 1 \in Nat /\ c + 1 + 1 \in Nat /\ c + 1 + 1 + 1 = W
    BY <1>1
  <2>2. TwoTo[c] \in Nat /\ TwoTo[c] >= 1 /\ TwoTo[c + 1] = 2 * TwoTo[c]
        /\ TwoTo[c + 1 + 1] = 2 * TwoTo[c + 1] /\ TwoTo[c + 1 + 1 + 1] = 2 * TwoTo[c + 1 + 1]
    BY <2>1, TwoToFacts
  <2> HIDE DEF c
  <2>3. B = 8 * TwoTo[c]
    BY <1>1, <2>1, <2>2
  <2>4. QED
    BY <2>2, <2>3 DEF c
<1> HIDE DEF E
<1>3. t \in Int /\ r \in Int /\ d = E * t + r /\ 0 <= r /\ r < E
  BY <1>1, <1>2, DivMod
<1> HIDE DEF t, r
<1>4. u \in Int /\ v \in Int /\ t = 4 * u + v /\ 0 <= v /\ v < 4
  BY <1>3, DivMod
<1> HIDE DEF u, v
<1> DEFINE s == E * v
           g == E * u
<1>5. s \in Int /\ g \in Int /\ 0 <= s /\ s <= 3 * E
  BY <1>2, <1>4
<1>6. E * t = 4 * g + s
  BY <1>2, <1>3, <1>4
<1>7. B * u = 8 * g /\ B * v = 8 * s /\ B * t = 32 * g + 8 * s
  <2>1. B * u = 8 * (E * u) /\ B * v = 8 * (E * v) /\ B * t = 8 * (E * t)
    BY <1>2, <1>3, <1>4
  <2>2. QED
    BY <1>3, <1>5, <1>6, <2>1
<1> HIDE DEF s, g
<1>8. d = (4 * g + s) + r
  BY <1>3, <1>6
<1>9. Lo(2 * d) = 2 * s + 2 * r
  <2> DEFINE x == 2 * d
             y == 2 * s + 2 * r
  <2>1. x = B * u + y /\ 0 <= y /\ y < B /\ y \in Int
    BY <1>2, <1>3, <1>5, <1>7, <1>8
  <2>2. B \in Nat /\ u \in Int
    BY <1>1, <1>4
  <2> HIDE DEF x, y
  <2>3. x % B = y
    BY <2>1, <2>2, QuotientIs
  <2>4. QED
    BY <2>3 DEF Lo, x, y
<1>10. Lo(4 * l) = 8 * r
  <2> DEFINE x == 4 * l
             y == 8 * r
  <2>0. l = 2 * s + 2 * r
    BY <1>9
  <2>1. x = B * v + y /\ 0 <= y /\ y < B /\ y \in Int
    BY <1>2, <1>3, <1>5, <1>7, <2>0
  <2>2. B \in Nat /\ v \in Int
    BY <1>1, <1>4
  <2> HIDE DEF x, y
  <2>3. x % B = y
    BY <2>1, <2>2, QuotientIs
  <2>4. QED
    BY <2>3 DEF Lo, x, y
<1>11. top = t /\ top \div 4 = u /\ l = 2 * s + 2 * r
  BY <1>9 DEF t, u, E
<1>12. B * (t + u) = (32 * g + 8 * s) + 8 * g
  <2>1. B * (t + u) = B * t + B * u
    BY <1>1, <1>3, <1>4
  <2>2. QED
    BY <1>7, <2>1
<1> DEFINE lo4 == Lo(4 * l)
           tt == B * (t + u)
<1>13. lo4 = 8 * r /\ tt = (32 * g + 8 * s) + 8 * g
  BY <1>10, <1>12
<1> HIDE DEF lo4, tt
<1>14. lo4 \in Int /\ (2 * s + 2 * r) + lo4 + tt = 10 * d
  BY <1>3, <1>5, <1>8, <1>13
<1>15. B * (top + top \div 4) = tt
  BY <1>11 DEF tt
<1>16. l \in Int /\ top \in Int /\ top \div 4 \in Int
  BY <1>3, <1>4, <1>5, <1>11
<1>17. l + lo4 + tt = 10 * d
  BY <1>11, <1>14
<1>18. l + Lo(4 * l) + B * (top + top \div 4) = 10 * d
  BY <1>15, <1>17 DEF lo4
<1>19. QED
  BY <1>14, <1>16, <1>18 DEF lo4

MulAdd10Inv ==
  phase = "main" /\ Passing(Mix(10, 0, 0, 0, 0, call.w), IF pos = 0 THEN call.w ELSE h)

\* bignum_muladd10 multiplies by ten in place and adds a word.
LEMMA MulAdd10Keeps ==
  ASSUME LoopTypes, call.op = "muladd10", MulAdd10Inv, MulAdd10
  PROVE  LoopTypes' /\ MeetsContract' /\ (phase' # "done" => MulAdd10Inv')
<1> DEFINE w == call.w
           q == Mix(10, 0, 0, 0, 0, w)
           V == Value(memory, call.z, call.k)
           d == IF pos = 0 THEN w ELSE h
<1>1. /\ call.k \in Nat /\ flag \in Int /\ h \in Int /\ pos \in Nat /\ w \in Int
      /\ w \in Digit /\ d \in Int /\ W >= 3
  BY LoopCallFacts DEF LoopTypes, GoodLoopCall, Digit
<1>2. q \in Mixes
  <2> HIDE DEF w
  <2>1. QED
    BY <1>1, MixType
<1>3. Passing(q, d) /\ phase = "main"
  BY DEF MulAdd10Inv
<1>4. Untouched(memory, memory0, call.z, pos) /\ pos <= call.k /\ phase # "done"
  BY <1>3 DEF Passing, Pass
<1>5. CASE pos < call.k
  <2> DEFINE top == Zi \div TwoTo[W - 3]
             l == Lo(2 * Zi)
             s == l + Lo(4 * l)
             t == Lo(s) + d
             out == top + top \div 4 + Hi(s) + Hi(t)
  <2>1. Emit(Lo(t)) /\ h' = out /\ flag' = flag
    BY <1>5 DEF MulAdd10
  <2>2. /\ Zi = DigitAt(memory0, call.z + pos) /\ Zi \in Int /\ Zi \in Digit
        /\ DigitAt(memory0, call.x + pos) \in Int /\ DigitAt(memory0, call.y + pos) \in Int
        /\ DigitAt(memory0, call.m + pos) \in Int
    BY <1>4, <1>5, PassingLoads
  <2>3. Column5(call, memory0, pos, q) = 10 * Zi
    <3> HIDE DEF w
    <3>1. QED
      BY <1>1, <2>2, BaseAssumption DEF Column5, Mix
  <2>4. /\ l \in Int /\ top \in Int /\ top \div 4 \in Int /\ Lo(4 * l) \in Int
        /\ s + B * (top + top \div 4) = 10 * Zi
    <3> DEFINE zi == Zi
    <3>1. zi \in Digit /\ top = zi \div TwoTo[W - 3] /\ l = Lo(2 * zi)
      BY <2>2
    <3> HIDE DEF zi, top, l
    <3>2. /\ l \in Int /\ top \in Int /\ top \div 4 \in Int /\ Lo(4 * l) \in Int
          /\ l + Lo(4 * l) + B * (top + top \div 4) = 10 * zi
      BY <1>1, <3>1, TimesTen
    <3>3. QED
      BY <3>2 DEF zi
  <2>5. s \in Int
    BY <2>4
  <2> HIDE DEF top, l, s
  <2>6. Lo(s) \in Int /\ Hi(s) \in Int /\ s = Lo(s) + B * Hi(s)
    BY <2>5, HiLo
  <2>7. t \in Int
    BY <1>1, <2>6
  <2> HIDE DEF t, d
  <2>8. Lo(t) \in Int /\ Hi(t) \in Int /\ t = Lo(t) + B * Hi(t) /\ Lo(t) \in Digit
    BY <2>7, HiLo
  <2>9. t = Lo(s) + d
    BY DEF t
  <2>10. out \in Int /\ Lo(t) + B * out = Column5(call, memory0, pos, q) + d
    <3> DEFINE tt == top + top \div 4
               hs == Hi(s)
               ls == Lo(s)
               ht == Hi(t)
               lt == Lo(t)
               zz == 10 * Zi
               top4 == top \div 4
    <3>1. /\ tt \in Int /\ hs \in Int /\ ls \in Int /\ ht \in Int /\ lt \in Int /\ zz \in Int
          /\ s = ls + B * hs /\ t = lt + B * ht /\ t = ls + d /\ s + B * tt = zz
          /\ top \in Int /\ top4 \in Int /\ tt = top + top4 /\ out = top + top4 + hs + ht /\ B \in Int
      BY <2>2, <2>4, <2>6, <2>8, <2>9, BaseAssumption
    <3> HIDE DEF tt, hs, ls, ht, lt, zz, top4, out
    <3>2. out = tt + (hs + ht)
      BY <3>1
    <3>3. B * out = B * tt + B * hs + B * ht /\ B * tt \in Int /\ B * hs \in Int /\ B * ht \in Int
      BY <3>1, <3>2
    <3>4. lt + B * out = zz + d
      BY <1>1, <2>5, <3>1, <3>3
    <3>5. out \in Int
      BY <3>1
    <3>6. QED
      BY <2>3, <3>4, <3>5 DEF zz, lt
  <2> HIDE DEF out, q
  <2>11. /\ LoopTypes' /\ MeetsContract' /\ phase' = phase /\ call' = call
         /\ pos' = pos + 1 /\ pos' <= call'.k /\ Pass(call', memory', memory0', pos', q, out)
    <3>1. h' \in Int /\ flag' \in Int
      BY <1>1, <2>1, <2>10
    <3>2. QED
      BY <1>1, <1>2, <1>3, <1>4, <1>5, <2>1, <2>8, <2>10, <3>1, PassingStep DEF d
  <2>12. (IF pos' = 0 THEN call'.w ELSE h') = out
    BY <1>1, <2>1, <2>11
  <2>13. QED
    BY <1>3, <2>11, <2>12 DEF MulAdd10Inv, Passing, q
<1>6. CASE ~(pos < call.k)
  <2>1. pos = call.k /\ Leave(d)
    BY <1>1, <1>4, <1>6 DEF MulAdd10
  <2>2. V + d * Pow[call.k] = 10 * Was(call.z, call.k) + w
    <3>1. V + d * Pow[call.k] = Total(call, memory0, call.k, q)
      BY <1>3, <2>1 DEF Passing, Pass
    <3>2. Total(call, memory0, call.k, q) = 10 * Was(call.z, call.k) + w
      <4> HIDE DEF w
      <4>1. QED
        BY <1>1, <1>2, TotalOf DEF Mix
    <3>3. QED
      BY <3>1, <3>2
  <2>3. /\ Promised[1] = Low(call.k, 10 * Was(call.z, call.k) + w)
        /\ Promised[2] = High(call.k, 10 * Was(call.z, call.k) + w)
    BY DEF Promised, bignum_muladd10, Was
  <2> HIDE DEF d
  <2>4. Promised[1] = V /\ Promised[2] = d
    BY <1>1, <2>2, <2>3, ResultIs
  <2>5. QED
    BY <1>1, <1>4, <2>1, <2>4, Leaving
<1>7. QED
  BY <1>5, <1>6

-----------------------------------------------------------------------------
(* bignum_shl_small, bignum_shr_small and bignum_normalize.                 *)

\* A word is cut in two by a shift: 2^s 2^(W-s) = B.
LEMMA ShiftParts ==
  ASSUME NEW s \in Nat, s < W
  PROVE  /\ TwoTo[s] \in Nat /\ TwoTo[s] >= 1 /\ TwoTo[W - s] \in Nat /\ TwoTo[W - s] >= 1
         /\ TwoTo[s] * TwoTo[W - s] = B /\ TwoTo[s] <= B
         /\ s = 0 => TwoTo[s] = 1
<1> DEFINE c == W - s
<1>1. W \in Nat /\ W >= 1 /\ B = TwoTo[W] /\ c \in Nat /\ s + c = W
  BY WordBitsAssumption
<1> HIDE DEF c
<1>2. TwoTo[s] \in Nat /\ TwoTo[s] >= 1 /\ TwoTo[c] \in Nat /\ TwoTo[c] >= 1 /\ TwoTo[0] = 1
  BY <1>1, TwoToFacts
<1>3. TwoTo[s] * TwoTo[c] = B
  BY <1>1, TwoToAdds
<1> DEFINE D == TwoTo[s]
           E == TwoTo[c]
<1>4. D \in Nat /\ D >= 1 /\ E \in Nat /\ E >= 1 /\ D * E = B
  BY <1>2, <1>3
<1> HIDE DEF D, E
<1>5. D <= B
  <2>1. D * E >= D * 1
    BY <1>4
  <2>2. QED
    BY <1>4, <2>1
<1>6. QED
  BY <1>2, <1>3, <1>5 DEF c, D

\* A word shifted to the left, over the bits that the word below it sent up:
\* the word stored and the bits sent up in turn.
LEMMA ShiftWord ==
  ASSUME NEW s \in Nat, s < W, NEW d \in Digit, NEW c \in Int, 0 <= c, c < TwoTo[s],
         NEW out, out = If(s # 0, d \div TwoTo[W - s])
  PROVE  /\ Lo(d * TwoTo[s]) + c \in Digit /\ out \in Int /\ 0 <= out /\ out < TwoTo[s]
         /\ (Lo(d * TwoTo[s]) + c) + B * out = TwoTo[s] * d + c
<1> DEFINE D == TwoTo[s]
           E == TwoTo[W - s]
<1>1. /\ B \in Nat /\ B >= 2 /\ d \in Int /\ 0 <= d /\ d <= B - 1
      /\ D \in Nat /\ D >= 1 /\ E \in Nat /\ E >= 1 /\ D * E = B /\ (s = 0 => D = 1)
  BY BaseAssumption, ShiftParts DEF Digit
<1>2. c < D
  OBVIOUS
<1>3. out = If(s # 0, d \div E)
  OBVIOUS
<1> HIDE DEF D, E
<1>4. CASE s = 0
  <2>1. D = 1 /\ c = 0 /\ d * D = d /\ D * d = d
    BY <1>1, <1>2, <1>4
  <2>2. out = 0 /\ Lo(d) = d
    BY <1>3, <1>4, LoOfDigit DEF If
  <2>3. Lo(d * D) + c = d
    BY <1>1, <2>1, <2>2
  <2>4. /\ Lo(d * D) + c \in Digit /\ 0 <= 0 /\ 0 < D
        /\ (Lo(d * D) + c) + B * 0 = D * d + c
    BY <1>1, <2>1, <2>3
  <2>5. QED
    BY <2>2, <2>4 DEF D
<1>5. CASE s # 0
  <2> DEFINE u == d \div E
             v == d % E
  <2>1. u \in Int /\ v \in Int /\ d = E * u + v /\ 0 <= v /\ v <= E - 1
    BY <1>1, DivMod
  <2>2. out = u
    BY <1>3, <1>5 DEF If
  <2> HIDE DEF u, v
  <2>3. d * D = B * u + v * D
    <3>1. (E * u + v) * D = (D * E) * u + v * D
      BY <1>1, <2>1
    <3>2. QED
      BY <1>1, <2>1, <3>1
  <2>4. v * D \in Int /\ 0 <= v * D /\ v * D <= B - D
    <3>1. v * D <= (E - 1) * D /\ (E - 1) * D = D * E - D
      BY <1>1, <2>1
    <3>2. QED
      BY <1>1, <2>1, <3>1
  <2>5. Lo(d * D) = v * D
    <3> DEFINE x == d * D
               y == v * D
    <3>1. x = B * u + y /\ y \in Int /\ 0 <= y /\ y < B
      BY <1>1, <2>3, <2>4
    <3>2. B \in Nat /\ u \in Int
      BY <1>1, <2>1
    <3> HIDE DEF x, y
    <3>3. x % B = y
      BY <3>1, <3>2, QuotientIs
    <3>4. QED
      BY <3>3 DEF Lo, x, y
  <2>6. 0 <= u /\ u < D
    <3>1. ASSUME u <= -1 PROVE FALSE
      <4>1. E * u <= -E /\ E * u \in Int
        BY <1>1, <2>1, <3>1
      <4>2. QED
        BY <1>1, <2>1, <4>1
    <3>2. ASSUME u >= D PROVE FALSE
      <4>1. E * u >= E * D /\ E * D = B /\ E * u \in Int
        BY <1>1, <2>1, <3>2
      <4>2. QED
        BY <1>1, <2>1, <4>1
    <3>3. QED
      BY <1>1, <2>1, <3>1, <3>2
  <2>7. Lo(d * D) + c \in Digit
    <3> DEFINE y == v * D
    <3>1. y \in Int /\ 0 <= y /\ y <= B - D /\ Lo(d * D) = y
      BY <2>4, <2>5
    <3> HIDE DEF y
    <3>2. QED
      BY <1>1, <1>2, <3>1 DEF Digit
  <2>8. (Lo(d * D) + c) + B * u = D * d + c
    <3> DEFINE y == v * D
               x == B * u
    <3>1. D * d = x + y /\ Lo(d * D) = y /\ x \in Int /\ y \in Int
      <4>1. D * d = d * D /\ B * u \in Int
        BY <1>1, <2>1
      <4>2. QED
        BY <2>3, <2>4, <2>5, <4>1
    <3> HIDE DEF x, y
    <3>2. QED
      BY <3>1 DEF x
  <2>9. QED
    BY <2>1, <2>2, <2>6, <2>7, <2>8 DEF D
<1>6. QED
  BY <1>4, <1>5

\* h holds the bits that go to the next word.
ShlSmallInv ==
  \/ /\ phase = "main" /\ pos <= Common /\ 0 <= h /\ h < TwoTo[Count]
     /\ Passing(Mix(0, TwoTo[Count], 0, 0, 0, 0), h)
  \/ /\ phase = "tail" /\ Common <= pos /\ h \in Digit
     /\ Passing(Mix(0, 0, 0, 0, 0, TwoTo[Count] * Was(call.x, Common)), h)

\* bignum_shl_small shifts to the left by less than a word.
LEMMA ShlSmallKeeps ==
  ASSUME LoopTypes, call.op = "shl_small", ShlSmallInv, ShlSmall
  PROVE  LoopTypes' /\ MeetsContract' /\ (phase' # "done" => ShlSmallInv')
<1> DEFINE x == Was(call.x, Common)
           w == TwoTo[Count]
           S == w * x
           V == Value(memory, call.z, call.k)
           q == Mix(0, w, 0, 0, 0, 0)
           r == Mix(0, 0, 0, 0, 0, S)
<1>1. /\ call.k \in Nat /\ call.n \in Nat /\ flag \in Int /\ h \in Int /\ pos \in Nat /\ w \in Int
      /\ Count \in Nat /\ Count < W /\ w >= 1 /\ w <= B
  <2>1. /\ call.k \in Nat /\ call.n \in Nat /\ flag \in Int /\ h \in Int /\ pos \in Nat
        /\ call.w \in Nat
    BY LoopCallFacts DEF LoopTypes
  <2>2. Count \in Nat /\ Count < W
    BY <2>1, WordBitsAssumption DEF Count
  <2>3. w \in Nat /\ w >= 1 /\ w <= B
    BY <2>2, ShiftParts
  <2>4. QED
    BY <2>1, <2>2, <2>3
<1>2. Common \in Nat /\ Common <= call.k /\ Common <= call.n
  BY OperandLow
<1>3. x \in Int /\ S \in Int
  <2>1. x \in Nat
    BY <1>2, LoopCallFacts, ValueBound DEF LoopTypes, Was
  <2> HIDE DEF x, w
  <2>2. QED
    BY <1>1, <2>1
<1>4. q \in Mixes /\ r \in Mixes
  <2> HIDE DEF S, w
  <2>1. QED
    BY <1>1, <1>3, MixType
<1>5. CASE phase = "main" /\ pos <= Common /\ 0 <= h /\ h < w /\ Passing(q, h)
  <2>1. /\ phase # "done" /\ Untouched(memory, memory0, call.z, pos)
    BY <1>5 DEF Passing, Pass
  <2>2. CASE pos < Common
    <3> DEFINE d == Xi
               out == If(Count # 0, d \div TwoTo[W - Count])
               v == Lo(d * w) + h
    <3>1. Emit(v) /\ h' = out /\ flag' = flag
      <4>1. Count # 0 => Down = W - Count
        <5>1. ASSUME Count # 0 PROVE Down = W - Count
          <6> DEFINE c == W - Count
          <6>1. c \in Nat /\ c < W /\ W \in Nat
            BY <1>1, <5>1, WordBitsAssumption
          <6> HIDE DEF c
          <6>2. c % W = c
            BY <6>1
          <6>3. QED
            BY <6>2 DEF Down, c
        <5>2. QED
          BY <5>1
      <4>2. ShiftLeft(Xi).out = out
        BY <4>1 DEF ShiftLeft, If
      <4>3. ShiftLeft(Xi).word = v
        BY DEF ShiftLeft
      <4>4. QED
        BY <1>5, <2>2, <4>2, <4>3 DEF ShlSmall
    <3>2. /\ d = DigitAt(memory0, call.x + pos) /\ d \in Int /\ d \in Digit
          /\ DigitAt(memory0, call.z + pos) \in Int /\ DigitAt(memory0, call.y + pos) \in Int
          /\ DigitAt(memory0, call.m + pos) \in Int
      BY <1>1, <1>2, <2>1, <2>2, PassingLoads
    <3>3. /\ v \in Digit /\ out \in Int /\ 0 <= out /\ out < w
          /\ v + B * out = w * d + h
      <4> DEFINE s == Count
                 c == h
      <4>1. /\ s \in Nat /\ s < W /\ d \in Digit /\ c \in Int /\ 0 <= c /\ c < TwoTo[s]
            /\ out = If(s # 0, d \div TwoTo[W - s])
        BY <1>1, <1>5, <3>2
      <4> HIDE DEF s, c, d, out
      <4>2. /\ Lo(d * TwoTo[s]) + c \in Digit /\ out \in Int /\ 0 <= out /\ out < TwoTo[s]
            /\ (Lo(d * TwoTo[s]) + c) + B * out = TwoTo[s] * d + c
        BY <4>1, ShiftWord
      <4>3. QED
        BY <4>2 DEF s, c
    <3>4. Column5(call, memory0, pos, q) = w * d
      <4> HIDE DEF w
      <4>1. w * d \in Int
        BY <1>1, <3>2
      <4>2. QED
        BY <1>1, <3>2, <4>1, BaseAssumption DEF Column5, Mix
    <3> HIDE DEF out, q, v
    <3>5. /\ LoopTypes' /\ MeetsContract' /\ phase' = phase /\ call' = call /\ memory0' = memory0
          /\ pos' = pos + 1 /\ pos' <= call'.k /\ Pass(call', memory', memory0', pos', q, out)
      <4>1. h' \in Int /\ flag' \in Int /\ v + B * out = Column5(call, memory0, pos, q) + h
        BY <1>1, <3>1, <3>3, <3>4
      <4>2. Passing(q, h) /\ pos < call.k
        BY <1>1, <1>2, <1>5, <2>2
      <4>3. QED
        BY <1>1, <1>4, <2>1, <3>1, <3>3, <4>1, <4>2, PassingStep
    <3>6. pos' <= Common' /\ TwoTo[Count'] = w
      BY <1>1, <1>2, <2>2, <3>5 DEF Common, Count
    <3>7. Pass(call', memory', memory0', pos', Mix(0, TwoTo[Count'], 0, 0, 0, 0), h')
      BY <3>1, <3>5, <3>6 DEF q
    <3>8. 0 <= h' /\ h' < TwoTo[Count']
      BY <3>1, <3>3, <3>6
    <3>9. QED
      BY <1>5, <3>5, <3>6, <3>7, <3>8 DEF ShlSmallInv, Passing
  <2>3. CASE ~(pos < Common)
    <3>1. pos = Common /\ Goto("tail") /\ h' = h /\ flag' = flag /\ pos' = pos
      BY <1>1, <1>2, <1>5, <2>3 DEF ShlSmall
    <3>2. /\ phase' = "tail" /\ memory' = memory /\ result' = result /\ call' = call
          /\ memory0' = memory0
      BY <3>1 DEF Goto
    <3>3. LoopTypes' /\ MeetsContract'
      BY <1>1, <2>1, <3>1, <3>2, Moving
    <3>4. Pass(call, memory, memory0, pos, r, h)
      <4>1. Total(call, memory0, pos, q) = S
        <5>1. /\ q.z = 0 /\ q.x = w /\ q.y = 0 /\ q.m = 0 /\ q.not = 0 /\ q.start = 0
          BY DEF Mix
        <5>2. /\ Was(call.x, pos) = x /\ S = w * x
              /\ x \in Int /\ w * x \in Int
          BY <1>3, <3>1
        <5> HIDE DEF w, x, S, q
        <5>3. /\ Total(call, memory0, pos, q)
                    = q.z * Was(call.z, pos) + q.x * Was(call.x, pos) + q.y * Was(call.y, pos)
                        + q.m * Was(call.m, pos) + q.not * (Pow[pos] - 1) + q.start
              /\ Was(call.z, pos) \in Int /\ Was(call.y, pos) \in Int /\ Was(call.m, pos) \in Int
              /\ Pow[pos] \in Int
          BY <1>1, <1>4, TotalOf
        <5>4. QED
          BY <5>1, <5>2, <5>3
      <4>2. Total(call, memory0, pos, r) = S
        <5> HIDE DEF S
        <5>1. QED
          BY <1>1, <1>3, <1>4, <3>1, TotalOf DEF Mix
      <4>3. QED
        BY <1>5, <4>1, <4>2 DEF Passing, Pass
    <3>5. S' = S /\ Common' = Common
      BY <3>2 DEF Was, Common, Count
    <3>6. Pass(call', memory', memory0', pos', r', h') /\ pos' <= call'.k
      BY <1>2, <3>1, <3>2, <3>4, <3>5
    <3>7. Common' <= pos' /\ h' \in Digit
      <4>1. h \in Digit
        <5> HIDE DEF w
        <5>1. QED
          BY <1>1, <1>5, BaseAssumption DEF Digit
      <4>2. QED
        BY <1>2, <3>1, <3>5, <4>1
    <3>8. QED
      BY <3>1, <3>2, <3>3, <3>6, <3>7 DEF ShlSmallInv, Passing
  <2>4. QED
    BY <2>2, <2>3
<1>6. CASE phase = "tail" /\ Common <= pos /\ h \in Digit /\ Passing(r, h)
  <2>1. /\ phase # "done" /\ pos <= call.k /\ Untouched(memory, memory0, call.z, pos)
    BY <1>6 DEF Passing, Pass
  <2>2. CASE pos < call.k
    <3>1. Emit(h) /\ flag' = flag /\ h' = 0
      BY <1>6, <2>2 DEF ShlSmall
    <3>2. Column5(call, memory0, pos, r) = 0
      <4>1. /\ DigitAt(memory0, call.z + pos) \in Int /\ DigitAt(memory0, call.y + pos) \in Int
            /\ DigitAt(memory0, call.x + pos) \in Int /\ DigitAt(memory0, call.m + pos) \in Int
        BY <2>1, <2>2, PassingLoads
      <4> HIDE DEF S
      <4>2. QED
        BY <4>1, BaseAssumption DEF Column5, Mix
    <3> DEFINE out == 0
    <3>3. h + B * out = Column5(call, memory0, pos, r) + h /\ out \in Int
      BY <1>1, <3>2, BaseAssumption
    <3> HIDE DEF out, r
    <3>4. /\ LoopTypes' /\ MeetsContract' /\ phase' = phase /\ call' = call /\ memory0' = memory0
          /\ pos' = pos + 1 /\ pos' <= call'.k /\ Pass(call', memory', memory0', pos', r, out)
      BY <1>1, <1>4, <1>6, <2>1, <2>2, <3>1, <3>3, PassingStep
    <3>5. S' = S /\ Common' = Common
      BY <3>4 DEF Was, Common, Count
    <3>6. Pass(call', memory', memory0', pos', r', h')
      BY <3>1, <3>4, <3>5 DEF out, r
    <3>7. Common' <= pos' /\ h' \in Digit
      BY <1>1, <1>2, <1>6, <3>1, <3>4, <3>5, BaseAssumption DEF Digit
    <3>8. QED
      BY <1>6, <3>4, <3>6, <3>7 DEF ShlSmallInv, Passing, r
  <2>3. CASE ~(pos < call.k)
    <3>1. pos = call.k /\ Leave(h)
      BY <1>1, <1>6, <2>1, <2>3 DEF ShlSmall
    <3>2. V + h * Pow[call.k] = S
      <4>1. V + h * Pow[call.k] = Total(call, memory0, call.k, r)
        BY <1>6, <3>1 DEF Passing, Pass
      <4>2. Total(call, memory0, call.k, r) = S
        <5> HIDE DEF S
        <5>1. QED
          BY <1>1, <1>3, <1>4, TotalOf DEF Mix
      <4>3. QED
        BY <4>1, <4>2
    <3> DEFINE U == w * Was(call.x, call.n)
               A == 0
    <3>3. Was(call.x, call.n) \in Int
      <4>1. Was(call.x, call.n) \in Nat
        BY LoopCallFacts, ValueBound DEF LoopTypes, Was
      <4>2. QED
        BY <4>1
    <3>4. A \in Int /\ U = A + w * Was(call.x, call.n) /\ V + h * Pow[call.k] = A + w * x
      <4>1. U \in Int
        BY <1>1, <3>3
      <4>2. QED
        BY <1>3, <3>2, <4>1
    <3> HIDE DEF U, A
    <3>5. Low(call.k, U) = V /\ (call.n <= call.k => High(call.k, U) = h)
      <4> HIDE DEF w
      <4>1. QED
        BY <1>1, <3>4, LongEnd
    <3>6. /\ Promised[1] = Low(call.k, U)
          /\ Promised[2] = IF call.n <= call.k THEN High(call.k, U) ELSE NoWord
      <4>1. Was(call.x, call.n) * w = w * Was(call.x, call.n)
        <5> HIDE DEF w
        <5>1. QED
          BY <1>1, <3>3
      <4>2. QED
        BY <1>6, <4>1 DEF Promised, bignum_shl_small, Was, U, Count
    <3>7. QED
      BY <1>1, <2>1, <3>1, <3>5, <3>6, Leaving
  <2>4. QED
    BY <2>2, <2>3
<1>7. QED
  BY <1>5, <1>6 DEF ShlSmallInv

-----------------------------------------------------------------------------
(* bignum_copy, bignum_mux, bignum_pow2 and bignum_of_word.                 *)

\* The words of the operand as far as it goes, then zeros.
CopyInv ==
  /\ phase = "main" /\ pos <= call.k /\ Untouched(memory, memory0, call.z, pos)
  /\ Value(memory, call.z, pos) = Was(call.x, Lesser(pos, Common))

\* bignum_copy copies the operand, cut off or extended with zeros.
LEMMA CopyKeeps ==
  ASSUME LoopTypes, call.op = "copy", CopyInv, Copy
  PROVE  LoopTypes' /\ MeetsContract' /\ (phase' # "done" => CopyInv')
<1>1. /\ call.k \in Nat /\ call.n \in Nat /\ call.z \in Nat /\ call.x \in Nat /\ pos \in Nat
      /\ phase = "main" /\ phase # "done" /\ pos <= call.k /\ call.z + call.k <= MemSize
      /\ memory \in Memory /\ memory0 \in Memory /\ h \in Int /\ flag \in Int
      /\ Untouched(memory, memory0, call.z, pos)
  BY LoopCallFacts DEF LoopTypes, CopyInv
<1>2. Common \in Nat /\ Common <= call.k /\ Common <= call.n
  BY OperandLow
<1>3. CASE pos < call.k
  <2> DEFINE v == If(pos < Common, Xi)
             u == Was(call.x, Lesser(pos, Common))
  <2>1. Emit(v) /\ h' = h /\ flag' = flag
    BY <1>3 DEF Copy
  <2>2. /\ Lesser(pos + 1, Common) \in Nat /\ v \in Digit /\ Pow[pos] \in Nat /\ u \in Nat
        /\ Was(call.x, Lesser(pos + 1, Common)) = u + v * Pow[pos]
    <3>1. Pow[pos] \in Nat /\ u \in Nat
      BY <1>1, <1>2, PowFacts, ValueBound DEF Was, Lesser
    <3>2. CASE pos < Common
      <4>1. Xi = DigitAt(memory0, call.x + pos) /\ Xi \in Digit /\ pos < call.n
        BY <1>1, <1>2, <1>3, <3>2, PassingLoads
      <4>2. Lesser(pos, Common) = pos /\ Lesser(pos + 1, Common) = pos + 1 /\ v = Xi
        BY <1>1, <1>2, <3>2 DEF Lesser, If
      <4>3. Value(memory0, call.x, pos + 1)
              = Value(memory0, call.x, pos) + DigitAt(memory0, call.x + pos) * Pow[pos]
        BY <1>1, ValueFacts DEF Memory
      <4>4. QED
        BY <1>1, <3>1, <4>1, <4>2, <4>3 DEF Was
    <3>3. CASE ~(pos < Common)
      <4>1. Lesser(pos, Common) = Common /\ Lesser(pos + 1, Common) = Common /\ v = 0
        BY <1>1, <1>2, <3>3 DEF Lesser, If
      <4>2. 0 * Pow[pos] = 0 /\ 0 \in Digit
        BY <3>1, BaseAssumption DEF Digit
      <4>3. QED
        BY <1>2, <3>1, <4>1, <4>2
    <3>4. QED
      BY <3>2, <3>3
  <2> HIDE DEF v
  <2>3. /\ LoopTypes' /\ MeetsContract' /\ phase' = phase /\ call' = call /\ memory0' = memory0
        /\ memory' = Store(memory, call.z + pos, v) /\ pos' = pos + 1
    BY <1>1, <1>3, <2>1, <2>2, Emitting
  <2>4. call.z + pos < MemSize
    BY <1>1, <1>3, MemSizeAssumption
  <2>5. Untouched(Store(memory, call.z + pos, v), memory0, call.z, pos + 1)
    BY <1>1, <2>2, <2>4, StoredFrame
  <2>6. Value(Store(memory, call.z + pos, v), call.z, pos + 1) = Value(memory, call.z, pos) + v * Pow[pos]
    BY <1>1, <2>2, <2>4, OutputStep DEF Memory
  <2>7. Value(memory, call.z, pos) = u
    BY DEF CopyInv
  <2>8. Value(Store(memory, call.z + pos, v), call.z, pos + 1) = Was(call.x, Lesser(pos + 1, Common))
    BY <2>2, <2>6, <2>7
  <2>9. pos + 1 <= call.k
    BY <1>1, <1>3
  <2>10. QED
    BY <1>1, <2>3, <2>5, <2>8, <2>9 DEF CopyInv, Was, Common
<1>4. CASE ~(pos < call.k)
  <2>1. pos = call.k /\ Leave(NoWord)
    BY <1>1, <1>4 DEF Copy
  <2>2. Value(memory, call.z, call.k) = Was(call.x, Common)
    <3>1. Lesser(pos, Common) = Common
      BY <1>1, <1>2, <2>1 DEF Lesser
    <3>2. QED
      BY <2>1, <3>1 DEF CopyInv
  <2>3. Low(call.k, Was(call.x, call.n)) = Value(memory, call.z, call.k)
    <3> DEFINE e == 0
               A == 0
               f == 1
               U == Was(call.x, call.n)
               V == Value(memory, call.z, call.k)
               u == Was(call.x, Common)
    <3>1. u \in Int /\ U \in Int /\ Pow[call.k] \in Int
      <4>1. u \in Nat /\ U \in Nat
        BY <1>1, <1>2, ValueBound DEF Was
      <4>2. QED
        BY <1>1, <4>1, PowFacts
    <3>2. V = u
      BY <2>2
    <3> HIDE DEF u, U, V
    <3>3. V + e * Pow[call.k] = A + f * u /\ U = A + f * U /\ e \in Int /\ A \in Int /\ f \in Int
      BY <3>1, <3>2
    <3> HIDE DEF e, A, f
    <3>4. /\ e \in Int /\ A \in Int /\ f \in Int
          /\ Value(memory, call.z, call.k) + e * Pow[call.k] = A + f * Was(call.x, Common)
          /\ U = A + f * Was(call.x, call.n)
      BY <3>3 DEF U, V, u
    <3>5. Low(call.k, U) = Value(memory, call.z, call.k)
      BY <3>4, LongEnd
    <3>6. QED
      BY <3>5 DEF U
  <2>4. Promised[1] = Low(call.k, Was(call.x, call.n)) /\ Promised[2] = NoWord
    BY DEF Promised, bignum_copy, Was
  <2>5. QED
    BY <1>1, <2>1, <2>3, <2>4, Leaving DEF NoWord
<1>5. QED
  BY <1>3, <1>4

\* The bit n is in the word n / 64.
Pow2Inv ==
  /\ phase = "main" /\ pos <= call.k /\ Untouched(memory, memory0, call.z, pos)
  /\ Value(memory, call.z, pos) = If(call.w \div W < pos, TwoTo[call.w])

\* A power of two by the word and the bit of its exponent.
LEMMA PowerOfTwo ==
  ASSUME NEW e \in Nat
  PROVE  /\ e \div W \in Nat /\ e % W \in Nat /\ e % W < W
         /\ TwoTo[e] = TwoTo[e % W] * Pow[e \div W]
         /\ \A k \in Nat : k <= e \div W => \E t \in Nat : TwoTo[e] = t * Pow[k]
<1> DEFINE q == e \div W
           c == e % W
<1>1. W \in Nat /\ W >= 1
  BY WordBitsAssumption
<1>2. q \in Int /\ c \in Int /\ e = W * q + c /\ 0 <= c /\ c <= W - 1
  BY <1>1, DivMod
<1> HIDE DEF q, c
<1>3. q \in Nat /\ c \in Nat /\ c < W
  <2>1. ASSUME q <= -1 PROVE FALSE
    <3>1. W * q <= -W /\ W * q \in Int
      BY <1>1, <1>2, <2>1
    <3>2. QED
      BY <1>1, <1>2, <3>1
  <2>2. QED
    BY <1>1, <1>2, <2>1
<1>4. TwoTo[e] = TwoTo[c] * Pow[q]
  <2>1. W * q \in Nat /\ TwoTo[W * q] = Pow[q]
    BY <1>3, PowIsTwoTo
  <2>2. e = c + W * q
    BY <1>2, <1>3, <2>1
  <2>3. TwoTo[c + W * q] = TwoTo[c] * TwoTo[W * q]
    BY <1>3, <2>1, TwoToAdds
  <2>4. QED
    BY <2>1, <2>2, <2>3
<1>5. ASSUME NEW k \in Nat, k <= q PROVE \E t \in Nat : TwoTo[e] = t * Pow[k]
  <2> DEFINE d == e - W * k
  <2>1. W * k \in Nat /\ TwoTo[W * k] = Pow[k]
    BY <1>5, PowIsTwoTo
  <2>2. d \in Nat /\ e = d + W * k
    <3>1. W * k <= W * q /\ W * q \in Int
      BY <1>1, <1>3, <1>5
    <3>2. QED
      BY <1>2, <1>3, <2>1, <3>1
  <2> HIDE DEF d
  <2>3. TwoTo[d + W * k] = TwoTo[d] * TwoTo[W * k] /\ TwoTo[d] \in Nat
    BY <2>1, <2>2, TwoToAdds, TwoToFacts
  <2>4. QED
    BY <2>1, <2>2, <2>3
<1>6. QED
  BY <1>3, <1>4, <1>5 DEF q, c

\* bignum_pow2 writes the power of two, or zero when it does not fit.
LEMMA Pow2Keeps ==
  ASSUME LoopTypes, call.op = "pow2", Pow2Inv, Pow2
  PROVE  LoopTypes' /\ MeetsContract' /\ (phase' # "done" => Pow2Inv')
<1> DEFINE q == call.w \div W
<1>1. /\ call.k \in Nat /\ call.w \in Nat /\ call.z \in Nat /\ pos \in Nat
      /\ phase = "main" /\ phase # "done" /\ pos <= call.k /\ call.z + call.k <= MemSize
      /\ memory \in Memory /\ memory0 \in Memory /\ h \in Int /\ flag \in Int
      /\ Untouched(memory, memory0, call.z, pos)
      /\ Value(memory, call.z, pos) = If(q < pos, TwoTo[call.w])
  BY LoopCallFacts DEF LoopTypes, Pow2Inv
<1>2. /\ q \in Nat /\ Count \in Nat /\ Count < W /\ TwoTo[call.w] = TwoTo[Count] * Pow[q]
      /\ TwoTo[call.w] \in Nat
      /\ \A k \in Nat : k <= q => \E t \in Nat : TwoTo[call.w] = t * Pow[k]
  BY <1>1, PowerOfTwo, TwoToFacts DEF Count
<1>3. CASE pos < call.k
  <2> DEFINE v == If(pos = q, TwoTo[Count])
  <2>1. Emit(v) /\ h' = h /\ flag' = flag
    BY <1>3 DEF Pow2
  <2>2. v \in Digit /\ Pow[pos] \in Nat
    <3>1. TwoTo[Count] \in Nat /\ TwoTo[Count] < B
      <4> DEFINE D == TwoTo[Count]
                 E == TwoTo[W - Count]
      <4>1. W - Count \in Nat /\ W - Count >= 1 /\ D * E = B /\ D \in Nat /\ D >= 1 /\ E \in Nat
        BY <1>2, ShiftParts, WordBitsAssumption
      <4>2. E >= 2
        <5> DEFINE c == W - Count - 1
        <5>1. c \in Nat /\ W - Count = c + 1
          BY <4>1, WordBitsAssumption, <1>2
        <5> HIDE DEF c
        <5>2. TwoTo[c] >= 1 /\ TwoTo[c] \in Nat /\ TwoTo[c + 1] = 2 * TwoTo[c]
          BY <5>1, TwoToFacts
        <5>3. QED
          BY <5>1, <5>2
      <4> HIDE DEF D, E
      <4>3. D * E >= D * 2
        BY <4>1, <4>2
      <4>4. D < B
        BY <4>1, <4>3
      <4>5. QED
        BY <4>1, <4>4 DEF D
    <3>2. QED
      BY <1>1, <3>1, BaseAssumption, PowFacts DEF If, Digit
  <2>3. If(q < pos + 1, TwoTo[call.w]) = If(q < pos, TwoTo[call.w]) + v * Pow[pos]
    <3>1. CASE pos = q
      <4>1. If(q < pos + 1, TwoTo[call.w]) = TwoTo[call.w] /\ If(q < pos, TwoTo[call.w]) = 0
        BY <1>1, <1>2, <3>1 DEF If
      <4>2. v * Pow[pos] = TwoTo[call.w]
        BY <1>2, <3>1 DEF If
      <4>3. QED
        BY <1>2, <4>1, <4>2
    <3>2. CASE pos # q
      <4>1. If(q < pos + 1, TwoTo[call.w]) = If(q < pos, TwoTo[call.w])
        BY <1>1, <1>2, <3>2 DEF If
      <4>2. v * Pow[pos] = 0
        BY <2>2, <3>2 DEF If
      <4>3. If(q < pos, TwoTo[call.w]) \in Int
        BY <1>2 DEF If
      <4>4. QED
        BY <4>1, <4>2, <4>3
    <3>3. QED
      BY <3>1, <3>2
  <2> HIDE DEF v
  <2>4. /\ LoopTypes' /\ MeetsContract' /\ phase' = phase /\ call' = call /\ memory0' = memory0
        /\ memory' = Store(memory, call.z + pos, v) /\ pos' = pos + 1
    BY <1>1, <1>3, <2>1, <2>2, Emitting
  <2>5. call.z + pos < MemSize /\ pos + 1 <= call.k
    BY <1>1, <1>3, MemSizeAssumption
  <2>6. Untouched(Store(memory, call.z + pos, v), memory0, call.z, pos + 1)
    BY <1>1, <2>2, <2>5, StoredFrame
  <2>7. Value(Store(memory, call.z + pos, v), call.z, pos + 1) = Value(memory, call.z, pos) + v * Pow[pos]
    BY <1>1, <2>2, <2>5, OutputStep DEF Memory
  <2>8. Value(Store(memory, call.z + pos, v), call.z, pos + 1) = If(q < pos + 1, TwoTo[call.w])
    BY <1>1, <2>3, <2>7
  <2>9. QED
    BY <1>1, <2>4, <2>5, <2>6, <2>8 DEF Pow2Inv
<1>4. CASE ~(pos < call.k)
  <2>1. pos = call.k /\ Leave(NoWord)
    BY <1>1, <1>4 DEF Pow2
  <2> DEFINE V == Value(memory, call.z, call.k)
             T == TwoTo[call.w]
             P == Pow[call.k]
  <2>2. \E e \in Int : V + e * P = T
    <3>1. P \in Nat /\ T \in Nat /\ V \in Nat /\ V = If(q < call.k, T)
      BY <1>1, <1>2, <2>1, PowFacts, ValueBound
    <3>2. CASE q < call.k
      <4>1. V + 0 * P = T
        <5> HIDE DEF V, T, P
        <5>1. QED
          BY <3>1, <3>2 DEF If
      <4>2. QED
        BY <4>1
    <3>3. CASE ~(q < call.k)
      <4>1. PICK e \in Nat : T = e * P
        BY <1>1, <1>2, <3>3
      <4>2. V + e * P = T
        <5> HIDE DEF V, T, P
        <5>1. QED
          BY <3>1, <3>3, <4>1 DEF If
      <4>3. QED
        BY <4>2
    <3>4. QED
      BY <3>2, <3>3
  <2>3. PICK e \in Int : V + e * P = T
    BY <2>2
  <2>4. Low(call.k, T) = V
    BY <2>3, ResultIs
  <2>5. Promised[1] = Low(call.k, T) /\ Promised[2] = NoWord
    BY DEF Promised, bignum_pow2
  <2>6. QED
    BY <1>1, <2>1, <2>4, <2>5, Leaving DEF NoWord
<1>5. QED
  BY <1>3, <1>4

-----------------------------------------------------------------------------
(* Loops from the top down: the words from j on have been stored.           *)

\* A word of an operand below the words stored is the one found at the call.
LEMMA LoadedDown ==
  ASSUME NEW after \in Memory, NEW old \in Memory, NEW x \in Nat, NEW len \in Nat,
         NEW z \in Nat, NEW k \in Nat, NEW j \in Nat, 1 <= j, j <= len, j <= k,
         SameOrDisjoint(x, len, z, k), Untouched(after, old, z + j, k - j)
  PROVE  /\ DigitAt(after, x + (j - 1)) = DigitAt(old, x + (j - 1))
         /\ DigitAt(old, x + (j - 1)) \in Digit
<1>1. CASE x + (j - 1) \in Addr
  <2>1. x + (j - 1) \notin Region(z + j, k - j)
    <3>1. CASE x = z
      BY <3>1 DEF Region
    <3>2. CASE NonOverlapping(x, len, z, k)
      <4>1. x + (j - 1) \in Region(x, len)
        BY DEF Region
      <4>2. x + (j - 1) \notin Region(z, k)
        BY <3>2, <4>1 DEF NonOverlapping
      <4>3. QED
        BY <4>2 DEF Region
    <3>3. QED
      BY <3>1, <3>2 DEF SameOrDisjoint
  <2>2. QED
    BY <1>1, <2>1 DEF Untouched, DigitAt, Memory
<1>2. CASE x + (j - 1) \notin Addr
  BY <1>2, BaseAssumption DEF DigitAt, Digit
<1>3. QED
  BY <1>1, <1>2

\* The next store from the top down: the rest of memory is kept, and the words
\* stored make up a number with one more word at its foot.
LEMMA StoredDown ==
  ASSUME NEW after \in Memory, NEW old \in Memory, NEW z \in Nat, NEW k \in Nat,
         NEW j \in Nat, 1 <= j, j <= k, z + k <= MemSize, NEW v \in Digit,
         Untouched(after, old, z + j, k - j)
  PROVE  /\ Store(after, z + (j - 1), v) \in Memory
         /\ Untouched(Store(after, z + (j - 1), v), old, z + (j - 1), k - (j - 1))
         /\ Value(Store(after, z + (j - 1), v), z + (j - 1), k - (j - 1))
              = v + B * Value(after, z + j, k - j)
<1> DEFINE i0 == j - 1
           new == Store(after, z + i0, v)
           len == k - j
<1>1. /\ i0 \in Nat /\ j = i0 + 1 /\ z + i0 \in Nat /\ z + i0 < MemSize /\ len \in Nat
      /\ k - i0 = len + 1 /\ z + j = (z + i0) + 1 /\ z + i0 \in Addr
  BY MemSizeAssumption DEF Addr
<1>2. new \in Memory
  BY DEF Store, Memory
<1>3. ASSUME NEW t \in Addr \ Region(z + i0, k - i0) PROVE new[t] = old[t]
  <2>1. t \in Int
    BY MemSizeAssumption DEF Addr
  <2>2. t \in Addr \ Region(z + j, k - j) /\ t # z + i0
    BY <1>1, <2>1 DEF Region
  <2>3. after[t] = old[t]
    BY <2>2 DEF Untouched
  <2>4. QED
    BY <2>2, <2>3 DEF Store, Memory
<1>4. DigitAt(new, z + i0) = v
  BY <1>1 DEF DigitAt, Store, Memory
<1>5. Value(new, z + j, len) = Value(after, z + j, len)
  <2>1. ASSUME NEW s \in 0 .. (len - 1) PROVE DigitAt(new, (z + j) + s) = DigitAt(after, (z + j) + s)
    <3>1. (z + j) + s # z + i0
      BY <1>1
    <3> HIDE DEF i0
    <3>2. QED
      BY <3>1 DEF DigitAt, Store, Memory
  <2> DEFINE zj == z + j
  <2>2. zj \in Nat
    OBVIOUS
  <2>3. \A s \in 0 .. (len - 1) : DigitAt(new, zj + s) = DigitAt(after, zj + s)
    BY <2>1
  <2> HIDE DEF new, len, zj
  <2>4. new \in [Addr -> Digit] /\ after \in [Addr -> Digit] /\ zj \in Nat /\ len \in Nat
    BY <1>1, <1>2, <2>2 DEF Memory
  <2>5. Value(new, zj, len) = Value(after, zj, len)
    BY <2>3, <2>4, ValueCongruence
  <2>6. QED
    BY <2>5 DEF zj
<1>6. Value(new, z + i0, len + 1) = v + B * Value(after, z + j, len)
  <2> HIDE DEF new, len, i0
  <2>1. Value(new, z + i0, len + 1) = DigitAt(new, z + i0) + B * Value(new, (z + i0) + 1, len)
    BY <1>1, <1>2, ValueFromBelow
  <2>2. QED
    BY <1>1, <1>4, <1>5, <2>1
<1>7. QED
  BY <1>1, <1>2, <1>3, <1>6 DEF Untouched

\* No words make up zero.
LEMMA NoWords ==
  ASSUME NEW mm \in Memory, NEW ptr \in Nat, NEW k \in Nat
  PROVE  Value(mm, ptr, k - k) = 0
BY ValueFacts DEF Memory

\* An iteration that stores a word below those stored keeps the types.
LEMMA EmittingDown ==
  ASSUME LoopTypes, phase # "done", NEW v \in Digit, 1 <= pos, pos <= call.k,
         memory' = Store(memory, call.z + (pos - 1), v), pos' = pos - 1,
         phase' = phase, h' \in Int, UNCHANGED <<call, memory0, flag, result>>
  PROVE  /\ LoopTypes' /\ MeetsContract' /\ phase' # "done"
         /\ pos - 1 \in Nat /\ pos - 1 <= call.k
<1>1. memory' \in Memory
  BY DEF Store, LoopTypes, Memory
<1>2. pos - 1 \in Nat /\ pos - 1 <= call.k
  BY LoopCallFacts DEF LoopTypes
<1>3. LoopTypes'
  BY <1>1, <1>2 DEF LoopTypes, Admissible
<1>4. QED
  BY <1>2, <1>3 DEF MeetsContract

\* The operand that is chosen, from the top down.
Chosen == IF call.w # 0 THEN call.x ELSE call.y
MuxInv ==
  /\ phase = "main" /\ pos <= call.k
  /\ Untouched(memory, memory0, call.z + pos, call.k - pos)
  /\ Value(memory, call.z + pos, call.k - pos) = Value(memory0, Chosen + pos, call.k - pos)

\* bignum_mux copies the operand that is chosen.
LEMMA MuxKeeps ==
  ASSUME LoopTypes, call.op = "mux", MuxInv, Mux
  PROVE  LoopTypes' /\ MeetsContract' /\ (phase' # "done" => MuxInv')
<1> DEFINE c == Chosen
<1>1. /\ call.k \in Nat /\ call.n = call.k /\ call.z \in Nat /\ call.x \in Nat /\ call.y \in Nat
      /\ pos \in Nat /\ phase = "main" /\ phase # "done" /\ pos <= call.k
      /\ call.z + call.k <= MemSize /\ memory \in Memory /\ memory0 \in Memory
      /\ h \in Int /\ flag \in Int
      /\ Untouched(memory, memory0, call.z + pos, call.k - pos)
      /\ c \in Nat /\ SameOrDisjoint(c, call.k, call.z, call.k)
      /\ Value(memory, call.z + pos, call.k - pos) = Value(memory0, c + pos, call.k - pos)
  BY LoopCallFacts DEF LoopTypes, MuxInv, Chosen, GoodLoopCall, OneLength
<1>2. CASE pos > 0
  <2> DEFINE v == DigitAt(memory, c + (pos - 1))
  <2>1. /\ memory' = Store(memory, call.z + (pos - 1), v) /\ pos' = pos - 1
        /\ UNCHANGED <<call, memory0, phase, h, flag, result>>
    BY <1>2 DEF Mux, Chosen
  <2>2. v = DigitAt(memory0, c + (pos - 1)) /\ v \in Digit
    <3> DEFINE k == call.k
    <3>1. /\ memory \in Memory /\ memory0 \in Memory /\ c \in Nat /\ k \in Nat /\ call.z \in Nat
          /\ pos \in Nat /\ 1 <= pos /\ pos <= k /\ SameOrDisjoint(c, k, call.z, k)
          /\ Untouched(memory, memory0, call.z + pos, k - pos)
      BY <1>1, <1>2
    <3> HIDE DEF c, k
    <3>2. /\ DigitAt(memory, c + (pos - 1)) = DigitAt(memory0, c + (pos - 1))
          /\ DigitAt(memory0, c + (pos - 1)) \in Digit
      BY <3>1, LoadedDown
    <3>3. QED
      BY <3>2
  <2> HIDE DEF v
  <2>3. LoopTypes' /\ MeetsContract' /\ pos - 1 \in Nat /\ pos - 1 <= call.k
    <3>1. 1 <= pos
      BY <1>1, <1>2
    <3>2. QED
      BY <1>1, <2>1, <2>2, <3>1, EmittingDown
  <2>4. /\ Untouched(memory', memory0, call.z + (pos - 1), call.k - (pos - 1))
        /\ Value(memory', call.z + (pos - 1), call.k - (pos - 1))
             = v + B * Value(memory, call.z + pos, call.k - pos)
    <3>1. 1 <= pos
      BY <1>1, <1>2
    <3>2. QED
      BY <1>1, <2>1, <2>2, <3>1, StoredDown
  <2>5. Value(memory0, c + (pos - 1), call.k - (pos - 1)) = v + B * Value(memory0, c + pos, call.k - pos)
    <3> DEFINE ptr == c + (pos - 1)
               len == call.k - pos
    <3>1. ptr \in Nat /\ len \in Nat /\ len + 1 = call.k - (pos - 1) /\ ptr + 1 = c + pos
      BY <1>1, <1>2
    <3>2. v = DigitAt(memory0, ptr)
      BY <2>2
    <3> HIDE DEF ptr, len, c
    <3>3. Value(memory0, ptr, len + 1) = DigitAt(memory0, ptr) + B * Value(memory0, ptr + 1, len)
      BY <1>1, <3>1, ValueFromBelow
    <3>4. QED
      BY <3>1, <3>2, <3>3 DEF ptr, len
  <2>6. Value(memory', call.z + (pos - 1), call.k - (pos - 1)) = Value(memory0, c + (pos - 1), call.k - (pos - 1))
    BY <1>1, <2>4, <2>5
  <2>7. QED
    BY <1>1, <2>1, <2>3, <2>4, <2>6 DEF MuxInv, Chosen
<1>3. CASE ~(pos > 0)
  <2>1. pos = 0 /\ Leave(NoWord)
    BY <1>1, <1>3 DEF Mux
  <2>2. call.z + 0 = call.z /\ call.k - 0 = call.k /\ c + 0 = c
    BY <1>1
  <2>3. Value(memory, call.z, call.k) = Value(memory0, c, call.k)
    BY <1>1, <2>1, <2>2
  <2>4. Untouched(memory, memory0, call.z, call.k)
    BY <1>1, <2>1, <2>2
  <2>5. Promised[1] = Value(memory0, c, call.k) /\ Promised[2] = NoWord
    BY <1>1 DEF Promised, bignum_mux, Chosen
  <2>6. QED
    BY <2>1, <2>3, <2>4, <2>5, Leaving DEF NoWord
<1>4. QED
  BY <1>2, <1>3

\* The word, and above it the zeros stored so far.
OfWordInv ==
  \/ phase = "main" /\ memory = memory0
  \/ /\ phase = "zeros" /\ pos + 1 <= call.k
     /\ Untouched(memory, Store(memory0, call.z, call.w), call.z + (pos + 1), call.k - (pos + 1))
     /\ Value(memory, call.z + (pos + 1), call.k - (pos + 1)) = 0

\* bignum_of_word extends a word with zeros.
LEMMA OfWordKeeps ==
  ASSUME LoopTypes, call.op = "of_word", OfWordInv, OfWord
  PROVE  LoopTypes' /\ MeetsContract' /\ (phase' # "done" => OfWordInv')
<1>1. /\ call.k \in Nat /\ call.z \in Nat /\ call.w \in Digit /\ pos \in Nat
      /\ phase # "done" /\ call.z + call.k <= MemSize /\ memory \in Memory /\ memory0 \in Memory
      /\ h \in Int /\ flag \in Int
  BY LoopCallFacts DEF LoopTypes, OfWordInv, GoodLoopCall
<1>2. Promised[1] = Low(call.k, call.w) /\ Promised[2] = NoWord
  BY DEF Promised, bignum_of_word
<1> DEFINE old == Store(memory0, call.z, call.w)
<1>3. old \in Memory
  BY <1>1 DEF Store, Memory
<1>4. CASE phase = "main" /\ memory = memory0
  <2>1. CASE call.k > 0
    <3>1. /\ memory' = old /\ phase' = "zeros" /\ pos' = call.k - 1
          /\ UNCHANGED <<call, memory0, h, flag, result>>
      BY <1>4, <2>1 DEF OfWord
    <3>2. pos' \in Nat /\ pos' + 1 = call.k
      BY <1>1, <2>1, <3>1
    <3>3. LoopTypes' /\ MeetsContract'
      <4>1. memory' \in Memory
        BY <1>3, <3>1
      <4>2. QED
        BY <3>1, <3>2, <4>1 DEF LoopTypes, Admissible, MeetsContract
    <3>4. Value(memory', call.z + call.k, call.k - call.k) = 0
      <4>1. call.z + call.k \in Nat
        BY <1>1
      <4>2. QED
        BY <1>1, <1>3, <3>1, <4>1, NoWords
    <3>5. Untouched(memory', old, call.z + call.k, call.k - call.k)
      BY <3>1 DEF Untouched
    <3>6. QED
      BY <1>1, <3>1, <3>2, <3>3, <3>4, <3>5 DEF OfWordInv
  <2>2. CASE ~(call.k > 0)
    <3>1. call.k = 0 /\ Leave(NoWord)
      BY <1>1, <1>4, <2>2 DEF OfWord
    <3>2. Low(0, call.w) = 0
      <4>1. Pow[0] = 1 /\ call.w \in Int
        BY <1>1, PowFacts, BaseAssumption DEF Digit
      <4>2. QED
        BY <4>1 DEF Low
    <3>3. Value(memory, call.z, 0) = 0
      BY <1>1, ValueFacts DEF Memory
    <3>4. Untouched(memory, memory0, call.z, call.k)
      BY <1>4 DEF Untouched
    <3>5. QED
      BY <1>2, <3>1, <3>2, <3>3, <3>4, Leaving DEF NoWord
  <2>3. QED
    BY <2>1, <2>2
<1>5. CASE /\ phase = "zeros" /\ pos + 1 <= call.k
           /\ Untouched(memory, old, call.z + (pos + 1), call.k - (pos + 1))
           /\ Value(memory, call.z + (pos + 1), call.k - (pos + 1)) = 0
  <2> DEFINE j == pos + 1
  <2>1. j \in Nat /\ 1 <= j /\ j <= call.k /\ pos = j - 1
    BY <1>1, <1>5
  <2>2. CASE pos > 0
    <3>1. /\ memory' = Store(memory, call.z + pos, 0) /\ pos' = pos - 1
          /\ UNCHANGED <<call, memory0, phase, h, flag, result>>
      BY <1>5, <2>2 DEF OfWord
    <3>2. 0 \in Digit /\ pos - 1 \in Nat /\ (pos - 1) + 1 = pos
      BY <1>1, <2>2, BaseAssumption DEF Digit
    <3>3. LoopTypes' /\ MeetsContract'
      <4>1. memory' \in Memory
        BY <1>1, <3>1, <3>2 DEF Store, Memory
      <4>2. QED
        BY <1>1, <3>1, <3>2, <4>1 DEF LoopTypes, Admissible, MeetsContract
    <3>4. /\ Untouched(memory', old, call.z + (j - 1), call.k - (j - 1))
          /\ Value(memory', call.z + (j - 1), call.k - (j - 1)) = 0 + B * Value(memory, call.z + j, call.k - j)
      <4>1. memory' = Store(memory, call.z + (j - 1), 0)
        BY <2>1, <3>1
      <4>2. Untouched(memory, old, call.z + j, call.k - j)
        BY <1>5
      <4> HIDE DEF j, old
      <4>3. QED
        BY <1>1, <1>3, <2>1, <3>2, <4>1, <4>2, StoredDown
    <3>5. 0 + B * Value(memory, call.z + j, call.k - j) = 0
      BY <1>5, BaseAssumption
    <3>6. QED
      BY <1>1, <1>5, <2>1, <3>1, <3>2, <3>3, <3>4, <3>5 DEF OfWordInv
  <2>3. CASE ~(pos > 0)
    <3>1. pos = 0 /\ j = 1 /\ Leave(NoWord)
      BY <1>1, <1>5, <2>3 DEF OfWord
    <3> DEFINE len == call.k - 1
    <3>2. len \in Nat /\ len + 1 = call.k /\ call.z \in Addr
      BY <1>1, <2>1, MemSizeAssumption DEF Addr
    <3>3. Untouched(memory, old, call.z + 1, len) /\ Value(memory, call.z + 1, len) = 0
      BY <1>5, <3>1
    <3> HIDE DEF len, j
    <3>4. DigitAt(memory, call.z) = call.w
      <4>1. call.z \notin Region(call.z + 1, len)
        BY <1>1, <3>2 DEF Region
      <4>2. memory[call.z] = old[call.z]
        BY <3>2, <3>3, <4>1 DEF Untouched
      <4>3. QED
        BY <1>1, <3>2, <4>2 DEF DigitAt, Store, Memory
    <3>5. Value(memory, call.z, call.k) = call.w
      <4>1. Value(memory, call.z, len + 1) = DigitAt(memory, call.z) + B * Value(memory, call.z + 1, len)
        BY <1>1, <3>2, ValueFromBelow
      <4>2. call.w \in Int
        BY <1>1, BaseAssumption DEF Digit
      <4>3. QED
        BY <3>2, <3>3, <3>4, <4>1, <4>2, BaseAssumption
    <3>6. Low(call.k, call.w) = call.w
      <4> DEFINE e == 0
      <4>1. Pow[call.k] \in Nat /\ call.w \in Int
        BY <1>1, PowFacts, BaseAssumption DEF Digit
      <4>2. Value(memory, call.z, call.k) + e * Pow[call.k] = call.w /\ e \in Int
        BY <3>5, <4>1
      <4> HIDE DEF e
      <4>3. Low(call.k, call.w) = Value(memory, call.z, call.k)
        BY <4>2, ResultIs
      <4>4. QED
        BY <3>5, <4>3
    <3>7. Untouched(memory, memory0, call.z, call.k)
      <4>1. ASSUME NEW t \in Addr \ Region(call.z, call.k) PROVE memory[t] = memory0[t]
        <5>1. t \in Int
          BY MemSizeAssumption DEF Addr
        <5>2. t \in Addr \ Region(call.z + 1, len) /\ t # call.z
          BY <1>1, <3>2, <5>1 DEF Region
        <5>3. memory[t] = old[t]
          BY <3>3, <5>2 DEF Untouched
        <5>4. QED
          BY <1>1, <5>2, <5>3 DEF Store, Memory
      <4>2. QED
        BY <4>1 DEF Untouched
    <3>8. QED
      BY <1>2, <3>1, <3>5, <3>6, <3>7, Leaving DEF NoWord
  <2>4. QED
    BY <2>2, <2>3
<1>6. QED
  BY <1>4, <1>5 DEF OfWordInv

-----------------------------------------------------------------------------
(* bignum_shr_small.                                                        *)

\* The shift that brings the bits shifted out to the top of a word.
LEMMA DownIs ==
  ASSUME NEW c \in Nat, c < W
  PROVE  (c # 0 => (W - c) % W = W - c) /\ (c = 0 => (W - c) % W = 0)
<1>1. W \in Nat /\ W >= 1
  BY WordBitsAssumption
<1>2. ASSUME c # 0 PROVE (W - c) % W = W - c
  <2> DEFINE d == W - c
  <2>1. d \in Int /\ 0 <= d /\ d < W
    BY <1>1, <1>2
  <2> HIDE DEF d
  <2>2. d % W = d
    BY <1>1, <2>1
  <2>3. QED
    BY <2>2 DEF d
<1>3. ASSUME c = 0 PROVE (W - c) % W = 0
  <2>1. W - c = W /\ W % W = 0
    <3> DEFINE e == 1
               z == 0
    <3>1. W = W * e + z /\ e \in Int /\ z \in Int /\ 0 <= z /\ z < W
      BY <1>1
    <3>2. W - c = W
      BY <1>1, <1>3
    <3> HIDE DEF e, z
    <3>3. W % W = z
      BY <1>1, <3>1, QuotientIs
    <3>4. QED
      BY <3>2, <3>3 DEF z
  <2>2. QED
    BY <2>1
<1>4. QED
  BY <1>2, <1>3

\* The low bits of a word, moved to its top.
LEMMA BitsToTop ==
  ASSUME NEW s \in Nat, s < W, s # 0, NEW t \in Digit
  PROVE  Lo(t * TwoTo[W - s]) = (t % TwoTo[s]) * TwoTo[W - s]
<1> DEFINE D == TwoTo[s]
           E == TwoTo[W - s]
           u == t \div D
           r == t % D
<1>1. B \in Nat /\ t \in Int /\ D \in Nat /\ D >= 1 /\ E \in Nat /\ E >= 1 /\ D * E = B
  BY BaseAssumption, ShiftParts DEF Digit
<1> HIDE DEF D, E
<1>2. u \in Int /\ r \in Int /\ t = D * u + r /\ 0 <= r /\ r <= D - 1
  BY <1>1, DivMod
<1> HIDE DEF u, r
<1> DEFINE x == t * E
           y == r * E
<1>3. x = B * u + y
  <2>1. (D * u + r) * E = (D * E) * u + r * E
    BY <1>1, <1>2
  <2>2. QED
    BY <1>1, <1>2, <2>1
<1>4. y \in Int /\ 0 <= y /\ y < B
  <2>1. r * E <= (D - 1) * E /\ (D - 1) * E = D * E - E /\ r * E >= 0
    BY <1>1, <1>2
  <2>2. QED
    BY <1>1, <1>2, <2>1
<1> HIDE DEF x, y
<1>5. x % B = y
  BY <1>1, <1>2, <1>3, <1>4, QuotientIs
<1>6. QED
  BY <1>5 DEF Lo, x, y, r, D, E

\* A word shifted to the right, below the bits that the word above it sent down.
LEMMA ShiftDownWord ==
  ASSUME NEW s \in Nat, s < W, NEW t \in Digit, NEW r \in Int, 0 <= r, r < TwoTo[s],
         NEW b, b = If(s # 0, r * TwoTo[W - s])
  PROVE  /\ b \in Int /\ t \div TwoTo[s] + b \in Digit
         /\ t % TwoTo[s] \in Int /\ 0 <= t % TwoTo[s] /\ t % TwoTo[s] < TwoTo[s]
         /\ TwoTo[s] * (t \div TwoTo[s] + b) + (t % TwoTo[s]) = t + B * r
<1> DEFINE D == TwoTo[s]
           E == TwoTo[W - s]
           u == t \div D
           v == t % D
<1>1. /\ B \in Nat /\ t \in Int /\ 0 <= t /\ t <= B - 1
      /\ D \in Nat /\ D >= 1 /\ E \in Nat /\ E >= 1 /\ D * E = B /\ (s = 0 => D = 1)
  BY BaseAssumption, ShiftParts DEF Digit
<1>2. r < D /\ b = If(s # 0, r * E)
  OBVIOUS
<1> HIDE DEF D, E
<1>3. u \in Int /\ v \in Int /\ t = D * u + v /\ 0 <= v /\ v <= D - 1
  BY <1>1, DivMod
<1> HIDE DEF u, v
<1>4. b = r * E \/ (b = 0 /\ r = 0)
  BY <1>1, <1>2 DEF If
<1>5. b = r * E /\ b \in Int
  BY <1>1, <1>4
<1>6. 0 <= u /\ u <= E - 1
  <2>1. ASSUME u <= -1 PROVE FALSE
    <3>1. D * u <= -D /\ D * u \in Int
      BY <1>1, <1>3, <2>1
    <3>2. QED
      BY <1>1, <1>3, <3>1
  <2>2. ASSUME u >= E PROVE FALSE
    <3>1. D * u >= D * E /\ D * u \in Int
      BY <1>1, <1>3, <2>2
    <3>2. QED
      BY <1>1, <1>3, <3>1
  <2>3. QED
    BY <1>1, <1>3, <2>1, <2>2
<1>7. 0 <= b /\ b <= B - E
  <2>1. r * E <= (D - 1) * E /\ (D - 1) * E = D * E - E /\ r * E >= 0
    BY <1>1, <1>2
  <2>2. QED
    BY <1>1, <1>5, <2>1
<1>8. u + b \in Digit
  BY <1>1, <1>3, <1>5, <1>6, <1>7 DEF Digit
<1>9. D * (u + b) + v = t + B * r
  <2>1. D * (u + b) = D * u + D * b
    BY <1>1, <1>3, <1>5
  <2>2. D * b = B * r
    <3>1. D * (r * E) = (D * E) * r
      BY <1>1
    <3>2. QED
      BY <1>1, <1>5, <3>1
  <2>3. D * u \in Int /\ B * r \in Int
    BY <1>1, <1>3
  <2> DEFINE Du == D * u
             Br == B * r
             Db == D * b
             Duv == D * (u + b)
  <2>4. Duv = Du + Db /\ Db = Br /\ Du \in Int /\ Br \in Int /\ t = Du + v
    BY <1>3, <2>1, <2>2, <2>3
  <2> HIDE DEF Du, Br, Db, Duv
  <2>5. Duv + v = t + Br
    BY <1>3, <2>4
  <2>6. QED
    BY <2>5 DEF Duv, Br
<1>10. QED
  BY <1>1, <1>3, <1>5, <1>8, <1>9 DEF u, v, D

\* The bits of the word just above the output that are shifted into it.
Incoming == If(call.n > call.k, DigitAt(memory0, call.x + call.k) % TwoTo[Count])

\* r is what is left of the words above pos; h holds it at the top of a word.
Shifting(r) ==
  /\ pos <= Common /\ Untouched(memory, memory0, call.z + pos, call.k - pos)
  /\ 0 <= r /\ r < TwoTo[Count] /\ h = If(Count # 0, r * TwoTo[W - Count])
  /\ TwoTo[Count] * Value(memory, call.z + pos, call.k - pos) + r
       = Value(memory0, call.x + pos, Common - pos) + Incoming * Pow[Common - pos]
ShrSmallInv ==
  \/ /\ phase = "main" /\ Common <= pos /\ pos <= call.k
     /\ Untouched(memory, memory0, call.z + pos, call.k - pos)
     /\ Value(memory, call.z + pos, call.k - pos) = 0
  \/ phase = "shift" /\ \E r \in Int : Shifting(r)

\* Nothing stored so far: the memory is the one at the call.
LEMMA NothingStoredDown ==
  ASSUME NEW after \in Memory, NEW old \in Memory, NEW ptr \in Nat, NEW k \in Nat,
         Untouched(after, old, ptr, k - k)
  PROVE  after = old
<1>1. ASSUME NEW t \in Addr PROVE after[t] = old[t]
  <2>1. t \notin Region(ptr, k - k)
    BY DEF Region
  <2>2. QED
    BY <2>1 DEF Untouched
<1>2. QED
  BY <1>1 DEF Memory

\* What the first pass leaves to the shift.
LEMMA ShrSmallClears ==
  ASSUME LoopTypes, call.op = "shr_small", phase = "main", Common <= pos, pos <= call.k,
         Untouched(memory, memory0, call.z + pos, call.k - pos),
         Value(memory, call.z + pos, call.k - pos) = 0, ShrSmall
  PROVE  LoopTypes' /\ MeetsContract' /\ (phase' # "done" => ShrSmallInv')
<1>1. /\ call.k \in Nat /\ call.n \in Nat /\ call.z \in Nat /\ call.x \in Nat /\ call.w \in Nat
      /\ pos \in Nat /\ phase # "done" /\ call.z + call.k <= MemSize
      /\ memory \in Memory /\ memory0 \in Memory /\ h \in Int /\ flag \in Int
  BY LoopCallFacts DEF LoopTypes
<1>2. /\ Common \in Nat /\ Common <= call.k /\ Common <= call.n
      /\ call.n <= call.k => Common = call.n
      /\ ~(call.n <= call.k) => Common = call.k
  BY <1>1 DEF Common, Lesser
<1>3. CASE pos > call.n
  <2>1. /\ memory' = Store(memory, call.z + (pos - 1), 0) /\ pos' = pos - 1
        /\ UNCHANGED <<call, memory0, phase, h, flag, result>>
    BY <1>3 DEF ShrSmall
  <2>2. 0 \in Digit /\ 1 <= pos
    BY <1>1, <1>3, BaseAssumption DEF Digit
  <2>3. LoopTypes' /\ MeetsContract' /\ pos - 1 \in Nat /\ pos - 1 <= call.k
    BY <1>1, <2>1, <2>2, EmittingDown
  <2>4. /\ Untouched(memory', memory0, call.z + (pos - 1), call.k - (pos - 1))
        /\ Value(memory', call.z + (pos - 1), call.k - (pos - 1))
             = 0 + B * Value(memory, call.z + pos, call.k - pos)
    BY <1>1, <2>1, <2>2, StoredDown
  <2>5. 0 + B * Value(memory, call.z + pos, call.k - pos) = 0
    BY BaseAssumption
  <2>6. Common <= pos - 1
    BY <1>1, <1>2, <1>3
  <2>7. QED
    BY <2>1, <2>3, <2>4, <2>5, <2>6 DEF ShrSmallInv, Common
<1>4. CASE ~(pos > call.n)
  <2>1. /\ phase' = "shift" /\ pos' = pos /\ flag' = flag
        /\ UNCHANGED <<memory, result, call, memory0>>
        /\ h' = If(Count # 0, Lo(If(call.n # pos, Xi) * TwoTo[Down]))
    BY <1>4 DEF ShrSmall, Goto
  <2>2. pos = Common /\ (call.n > call.k => pos = call.k) /\ (~(call.n > call.k) => pos = call.n)
    BY <1>1, <1>2, <1>4
  <2> DEFINE t == If(call.n # pos, Xi)
             r == t % TwoTo[Count]
  <2>3. t \in Digit /\ r = Incoming
    <3>1. CASE call.n > call.k
      <4>1. memory = memory0
        <5> DEFINE ptr == call.z + pos
                   k == call.k
        <5>1. Untouched(memory, memory0, ptr, k - k) /\ ptr \in Nat /\ k \in Nat
          BY <1>1, <2>2, <3>1
        <5> HIDE DEF ptr, k
        <5>2. QED
          BY <1>1, <5>1, NothingStoredDown
      <4>2. t = DigitAt(memory0, call.x + call.k)
        <5>1. call.n # pos /\ pos = call.k
          BY <1>1, <2>2, <3>1
        <5>2. QED
          BY <4>1, <5>1 DEF If, Xi
      <4>3. QED
        BY <1>1, <3>1, <4>2, DigitAtType DEF Incoming, If, Memory
    <3>2. CASE ~(call.n > call.k)
      <4>1. t = 0
        BY <2>2, <3>2 DEF If
      <4>2. 0 \in Digit /\ 0 % TwoTo[Count] = 0
        <5>1. Count \in Nat /\ TwoTo[Count] \in Nat /\ TwoTo[Count] >= 1
          BY <1>1, TwoToFacts, WordBitsAssumption DEF Count
        <5>2. QED
          BY <5>1, BaseAssumption DEF Digit
      <4>3. QED
        BY <3>2, <4>1, <4>2 DEF Incoming, If
    <3>3. QED
      BY <3>1, <3>2
  <2>4. Count \in Nat /\ Count < W
    BY <1>1, WordBitsAssumption DEF Count
  <2> HIDE DEF t
  <2>5. r \in Int /\ 0 <= r /\ r < TwoTo[Count] /\ h' = If(Count # 0, r * TwoTo[W - Count])
    <3>1. h' = If(Count # 0, Lo(t * TwoTo[Down]))
      BY <2>1 DEF t
    <3>2. Count # 0 => Down = W - Count
      BY <2>4, DownIs DEF Down
    <3>3. Count # 0 => Lo(t * TwoTo[W - Count]) = r * TwoTo[W - Count]
      BY <2>3, <2>4, BitsToTop
    <3>4. r \in Int /\ 0 <= r /\ r < TwoTo[Count]
      <4>1. TwoTo[Count] \in Nat /\ TwoTo[Count] >= 1 /\ t \in Int
        BY <2>3, <2>4, TwoToFacts, BaseAssumption DEF Digit
      <4>2. QED
        BY <4>1, DivMod
    <3>5. QED
      BY <3>1, <3>2, <3>3, <3>4 DEF If
  <2> HIDE DEF r
  <2>6. TwoTo[Count] * Value(memory, call.z + pos, call.k - pos) + r
          = Value(memory0, call.x + pos, Common - pos) + Incoming * Pow[Common - pos]
    <3>1. TwoTo[Count] \in Nat
      BY <2>4, TwoToFacts
    <3>2. Common - pos = 0
      BY <1>2, <2>2
    <3>3. Value(memory0, call.x + pos, Common - pos) = 0
      <4> DEFINE ptr == call.x + pos
      <4>1. ptr \in Nat
        BY <1>1
      <4> HIDE DEF ptr
      <4>2. Value(memory0, ptr, 0) = 0
        BY <1>1, <4>1, ValueFacts DEF Memory
      <4>3. QED
        BY <3>2, <4>2 DEF ptr
    <3>4. Pow[Common - pos] = 1
      BY <3>2, PowFacts
    <3>5. QED
      BY <2>3, <2>5, <3>1, <3>3, <3>4
  <2>7. LoopTypes' /\ MeetsContract'
    <3>1. h' \in Int
      <4>1. TwoTo[W - Count] \in Nat
        BY <2>4, ShiftParts
      <4>2. QED
        BY <2>5, <4>1 DEF If
    <3>2. QED
      BY <1>1, <2>1, <3>1, Moving
  <2>8. Common <= pos /\ pos <= Common
    BY <1>1, <2>2
  <2>9. /\ pos' <= Common' /\ Untouched(memory', memory0', call'.z + pos', call'.k - pos')
        /\ 0 <= r /\ r < TwoTo[Count'] /\ h' = If(Count' # 0, r * TwoTo[W - Count'])
        /\ TwoTo[Count'] * Value(memory', call'.z + pos', call'.k - pos') + r
             = Value(memory0', call'.x + pos', Common' - pos') + Incoming' * Pow[Common' - pos']
    BY <2>1, <2>5, <2>6, <2>8 DEF Common, Count, Incoming
  <2>10. \E r0 \in Int : Shifting(r0)'
    BY <2>5, <2>9 DEF Shifting
  <2>11. QED
    BY <2>1, <2>7, <2>10 DEF ShrSmallInv
<1>5. QED
  BY <1>3, <1>4

\* The bits on their way as a word, shifted out of the last word at the end.
LEMMA BitsOut ==
  ASSUME NEW s \in Nat, s < W, NEW r \in Int, 0 <= r, r < TwoTo[s],
         NEW b, b = If(s # 0, r * TwoTo[W - s])
  PROVE  b \div TwoTo[(W - s) % W] = r
<1>1. /\ TwoTo[s] \in Nat /\ TwoTo[W - s] \in Nat /\ TwoTo[W - s] >= 1 /\ (s = 0 => TwoTo[s] = 1)
      /\ (s # 0 => (W - s) % W = W - s) /\ (s = 0 => (W - s) % W = 0)
  BY ShiftParts, DownIs
<1>2. CASE s = 0
  <2>1. b = 0 /\ r = 0 /\ TwoTo[(W - s) % W] = 1
    BY <1>1, <1>2, TwoToFacts DEF If
  <2>2. QED
    BY <2>1
<1>3. CASE s # 0
  <2> DEFINE E == TwoTo[W - s]
             z == 0
  <2>1. E \in Nat /\ E >= 1 /\ b = r * E /\ (W - s) % W = W - s
    BY <1>1, <1>3 DEF If
  <2> HIDE DEF E
  <2>2. b = E * r + z /\ z \in Int /\ 0 <= z /\ z < E
    BY <2>1
  <2> HIDE DEF z
  <2>3. b \div E = r
    BY <2>1, <2>2, QuotientIs
  <2>4. QED
    BY <2>1, <2>3 DEF E
<1>4. QED
  BY <1>2, <1>3

\* The number above the words that fit, shifted: what the output cannot hold.
LEMMA ShiftedEnd ==
  ASSUME LoopTypes, call.op = "shr_small", NEW r \in Int, 0 <= r, r < TwoTo[Count],
         TwoTo[Count] * Value(memory, call.z, call.k) + r
           = Was(call.x, Common) + Incoming * Pow[Common]
  PROVE  Promised[1] = Value(memory, call.z, call.k) /\ Promised[2] = r
<1> DEFINE D == TwoTo[Count]
           V == Value(memory, call.z, call.k)
           P == Pow[call.k]
           x == Was(call.x, call.n)
<1>1. /\ call.k \in Nat /\ call.n \in Nat /\ call.z \in Nat /\ call.x \in Nat /\ call.w \in Nat
      /\ memory \in Memory /\ memory0 \in Memory
  BY LoopCallFacts DEF LoopTypes
<1>2. Count \in Nat /\ Count < W
  BY <1>1, WordBitsAssumption DEF Count
<1>3. /\ D \in Nat /\ D >= 1 /\ P \in Nat /\ P >= 1 /\ V \in Nat /\ V < P
  BY <1>1, <1>2, TwoToFacts, PowPositive, ValueBound
<1>4. Promised[1] = Low(call.k, x \div D) /\ Promised[2] = x % D
  BY DEF Promised, bignum_shr_small, Was, Count
<1>5. \E e \in Int : x = D * (V + e * P) + r
  <2>1. CASE call.n <= call.k
    <3>1. Common = call.n /\ Incoming = 0
      BY <1>1, <2>1 DEF Common, Lesser, Incoming, If
    <3>2. x \in Nat /\ Pow[Common] \in Nat
      BY <1>1, <3>1, ValueBound, PowFacts DEF Was
    <3>3. D * V + r = x
      <4>1. D * V + r = x + Incoming * Pow[Common]
        BY <3>1
      <4>2. Incoming * Pow[Common] = 0
        BY <3>1, <3>2
      <4> HIDE DEF x, D, V
      <4>3. QED
        BY <3>2, <4>1, <4>2
    <3>4. V + 0 * P = V
      BY <1>3
    <3>5. QED
      BY <3>3, <3>4
  <2>2. CASE ~(call.n <= call.k)
    <3> DEFINE k == call.k
               more1 == call.n - call.k
               d == DigitAt(memory0, call.x + call.k)
               u == d \div D
               v == d % D
               E == TwoTo[W - Count]
               L == Was(call.x, k)
    <3>1. /\ more1 = call.n - k /\ more1 \in Nat /\ more1 >= 1 /\ Common = k /\ Incoming = v
      BY <1>1, <2>2 DEF Common, Lesser, Incoming, If
    <3>2. PICK j \in Nat : more1 = j + 1 /\ call.n = k + (j + 1)
      <4> DEFINE j0 == more1 - 1
      <4>1. j0 \in Nat /\ more1 = j0 + 1 /\ call.n = k + (j0 + 1)
        BY <1>1, <3>1
      <4> HIDE DEF j0
      <4>2. QED
        BY <4>1
    <3> DEFINE G == Value(memory0, (call.x + k) + 1, j)
    <3>3. x = L + P * (d + B * G)
      <4> DEFINE xk == call.x + k
                 j1 == j + 1
      <4>1. xk \in Nat /\ k \in Nat /\ j1 \in Nat
        BY <1>1
      <4>2. Value(memory0, call.x, k + j1) = Value(memory0, call.x, k) + Pow[k] * Value(memory0, call.x + k, j1)
        <5> DEFINE x0 == call.x
        <5>1. memory0 \in Memory /\ x0 \in Nat /\ k \in Nat /\ j1 \in Nat
          BY <1>1, <4>1
        <5> HIDE DEF x0, j1, k
        <5>2. Value(memory0, x0, k + j1) = Value(memory0, x0, k) + Pow[k] * Value(memory0, x0 + k, j1)
          BY <5>1, ValueAbove
        <5>3. QED
          BY <5>2 DEF x0
      <4>3. Value(memory0, xk, j + 1) = DigitAt(memory0, xk) + B * Value(memory0, xk + 1, j)
        <5> HIDE DEF xk, j1, k
        <5>1. QED
          BY <1>1, <4>1, ValueFromBelow
      <4>4. QED
        BY <3>2, <4>2, <4>3 DEF Was
    <3>4. d \in Nat /\ L \in Nat /\ G \in Nat /\ B \in Nat /\ E \in Nat /\ D * E = B
      <4>1. d \in Digit
        BY <1>1, DigitAtType DEF Memory
      <4>2. (call.x + k) + 1 \in Nat /\ k \in Nat
        BY <1>1
      <4>3. L \in Nat /\ G \in Nat
        <5> DEFINE c1 == (call.x + k) + 1
        <5>1. c1 \in Nat
          BY <4>2
        <5> HIDE DEF c1, k
        <5>2. Value(memory0, c1, j) \in Nat /\ Value(memory0, call.x, k) \in Nat
          BY <1>1, <4>2, <5>1, ValueBound
        <5>3. QED
          BY <5>2 DEF c1, Was
      <4>4. E \in Nat /\ D * E = B
        BY <1>2, ShiftParts
      <4>5. QED
        BY <4>1, <4>3, <4>4, BaseAssumption DEF Digit
    <3>5. D * V + r = L + v * P
      BY <3>1
    <3> HIDE DEF d, L, G, E, D, V, P, x
    <3>6. u \in Int /\ v \in Int /\ d = D * u + v
      BY <1>3, <3>4, DivMod
    <3> HIDE DEF u, v
    <3>7. x = D * (V + (u + E * G) * P) + r
      <4> DEFINE PD == P * (D * u)
                 Pv == P * v
                 PG == P * (B * G)
                 DV == D * V
                 PX == D * ((u + E * G) * P)
      <4>1. P * (d + B * G) = PD + Pv + PG /\ PD \in Int /\ Pv \in Int /\ PG \in Int /\ DV \in Int
        BY <1>3, <3>4, <3>6
      <4>2. D * (V + (u + E * G) * P) = DV + PX
        <5> DEFINE Y == (u + E * G) * P
        <5>1. Y \in Int
          BY <1>3, <3>4, <3>6
        <5> HIDE DEF Y
        <5>2. D * (V + Y) = D * V + D * Y
          BY <1>3, <5>1
        <5>3. QED
          BY <5>2 DEF Y
      <4>3. PX = PD + PG
        <5>1. PX = P * (D * u) + P * ((D * E) * G)
          BY <1>3, <3>4, <3>6
        <5>2. QED
          BY <3>4, <5>1
      <4>4. v * P = Pv
        BY <1>3, <3>6
      <4> HIDE DEF PD, Pv, PG, DV, PX
      <4>5. x = L + (PD + Pv + PG) /\ DV + r = L + Pv
        BY <3>3, <3>5, <4>1, <4>4 DEF DV
      <4>6. x = (DV + PX) + r
        BY <3>4, <4>1, <4>3, <4>5
      <4>7. QED
        BY <4>2, <4>6
    <3>8. u + E * G \in Int
      BY <3>4, <3>6
    <3>9. QED
      BY <3>7, <3>8 DEF D, V, P, x
  <2>3. QED
    BY <2>1, <2>2
<1>6. PICK e \in Int : x = D * (V + e * P) + r
  BY <1>5
<1> DEFINE y == V + e * P
<1>7. y \in Int
  BY <1>3
<1>8. x = D * y + r /\ r < D
  BY <1>6
<1>9. Low(call.k, y) = V
  <2>1. Value(memory, call.z, call.k) + e * Pow[call.k] = y
    OBVIOUS
  <2> HIDE DEF y
  <2>2. QED
    BY <2>1, ResultIs
<1> HIDE DEF y, D, V, x
<1>10. x \div D = y /\ x % D = r
  BY <1>3, <1>7, <1>8, QuotientIs
<1>11. QED
  BY <1>4, <1>9, <1>10 DEF V

\* The words that the second pass reads, shifts and stores.
LEMMA ShrSmallShifts ==
  ASSUME LoopTypes, call.op = "shr_small", phase = "shift", NEW r \in Int, Shifting(r), ShrSmall
  PROVE  LoopTypes' /\ MeetsContract' /\ (phase' # "done" => ShrSmallInv')
<1> DEFINE D == TwoTo[Count]
           E == TwoTo[W - Count]
<1>1. /\ call.k \in Nat /\ call.n \in Nat /\ call.z \in Nat /\ call.x \in Nat /\ call.w \in Nat
      /\ pos \in Nat /\ phase # "done" /\ call.z + call.k <= MemSize
      /\ memory \in Memory /\ memory0 \in Memory /\ h \in Int /\ flag \in Int
      /\ SameOrDisjoint(call.x, call.n, call.z, call.k)
  BY LoopCallFacts DEF LoopTypes, GoodLoopCall
<1>2. Common \in Nat /\ Common <= call.k /\ Common <= call.n
  BY OperandLow
<1>3. Count \in Nat /\ Count < W
  BY <1>1, WordBitsAssumption DEF Count
<1>4. /\ pos <= Common /\ Untouched(memory, memory0, call.z + pos, call.k - pos)
      /\ 0 <= r /\ r < D /\ h = If(Count # 0, r * E)
      /\ D * Value(memory, call.z + pos, call.k - pos) + r
           = Value(memory0, call.x + pos, Common - pos) + Incoming * Pow[Common - pos]
  BY DEF Shifting
<1>5. CASE pos > 0
  <2> DEFINE d == DigitAt(memory, call.x + (pos - 1))
             v == d \div D + h
             t == d % D
             q == Common - pos
             Vold == Value(memory, call.z + pos, call.k - pos)
             Xold == Value(memory0, call.x + pos, q)
  <2>1. /\ memory' = Store(memory, call.z + (pos - 1), v) /\ pos' = pos - 1
        /\ h' = If(Count # 0, Lo(d * TwoTo[Down]))
        /\ UNCHANGED <<call, memory0, phase, flag, result>>
    BY <1>5 DEF ShrSmall
  <2>2. d = DigitAt(memory0, call.x + (pos - 1)) /\ d \in Digit
    <3> DEFINE k == call.k
               len == call.n
               x == call.x
    <3>1. /\ memory \in Memory /\ memory0 \in Memory /\ x \in Nat /\ k \in Nat /\ len \in Nat
          /\ call.z \in Nat /\ pos \in Nat /\ 1 <= pos /\ pos <= len /\ pos <= k
          /\ SameOrDisjoint(x, len, call.z, k) /\ Untouched(memory, memory0, call.z + pos, k - pos)
      BY <1>1, <1>2, <1>4, <1>5
    <3> HIDE DEF x, k, len
    <3>2. /\ DigitAt(memory, x + (pos - 1)) = DigitAt(memory0, x + (pos - 1))
          /\ DigitAt(memory0, x + (pos - 1)) \in Digit
      BY <3>1, LoadedDown
    <3>3. QED
      BY <3>2 DEF x
  <2>3. /\ v \in Digit /\ t \in Int /\ 0 <= t /\ t < D /\ D * v + t = d + B * r
    <3> DEFINE s == Count
               b == h
    <3>1. s \in Nat /\ s < W /\ 0 <= r /\ r < TwoTo[s] /\ b = If(s # 0, r * TwoTo[W - s])
      BY <1>3, <1>4
    <3> HIDE DEF s, b, d
    <3>2. /\ d \div TwoTo[s] + b \in Digit
          /\ d % TwoTo[s] \in Int /\ 0 <= d % TwoTo[s] /\ d % TwoTo[s] < TwoTo[s]
          /\ TwoTo[s] * (d \div TwoTo[s] + b) + (d % TwoTo[s]) = d + B * r
      BY <2>2, <3>1, ShiftDownWord
    <3>3. QED
      BY <3>2 DEF s, b
  <2>4. h' = If(Count # 0, t * E)
    <3>1. Count # 0 => Down = W - Count
      BY <1>3, DownIs DEF Down
    <3>2. Count # 0 => Lo(d * E) = t * E
      <4> HIDE DEF d
      <4>1. QED
        BY <1>3, <2>2, BitsToTop
    <3>3. QED
      BY <2>1, <3>1, <3>2 DEF If
  <2> HIDE DEF v, t, d
  <2>5. LoopTypes' /\ MeetsContract' /\ pos - 1 \in Nat
    <3>1. h' \in Int /\ 1 <= pos /\ pos <= call.k
      <4>1. E \in Nat
        BY <1>3, ShiftParts
      <4> HIDE DEF E
      <4>2. QED
        BY <1>1, <1>2, <1>4, <1>5, <2>3, <2>4, <4>1 DEF If
    <3>2. QED
      BY <1>1, <2>1, <2>3, <3>1, EmittingDown
  <2>6. /\ Untouched(memory', memory0, call.z + (pos - 1), call.k - (pos - 1))
        /\ Value(memory', call.z + (pos - 1), call.k - (pos - 1)) = v + B * Vold
    <3>1. 1 <= pos /\ pos <= call.k
      BY <1>1, <1>2, <1>4, <1>5
    <3>2. QED
      BY <1>1, <1>4, <2>1, <2>3, <3>1, StoredDown
  <2>7. /\ q \in Nat /\ Common - (pos - 1) = q + 1
        /\ Value(memory0, call.x + (pos - 1), q + 1) = d + B * Xold
        /\ Pow[q + 1] = B * Pow[q] /\ Pow[q] \in Nat /\ Vold \in Nat /\ Xold \in Nat
    <3> DEFINE ptr == call.x + (pos - 1)
               zp == call.z + pos
               lp == call.k - pos
    <3>1. /\ ptr \in Nat /\ q \in Nat /\ q + 1 = Common - (pos - 1) /\ ptr + 1 = call.x + pos
          /\ zp \in Nat /\ lp \in Nat
      BY <1>1, <1>2, <1>4, <1>5
    <3>2. d = DigitAt(memory0, ptr)
      BY <2>2
    <3> HIDE DEF ptr, q, zp, lp
    <3>3. Value(memory0, ptr, q + 1) = DigitAt(memory0, ptr) + B * Value(memory0, ptr + 1, q)
      BY <1>1, <3>1, ValueFromBelow
    <3>4. Value(memory0, ptr + 1, q) \in Nat /\ Value(memory, zp, lp) \in Nat
      <4>1. ptr + 1 \in Nat
        BY <3>1
      <4>2. QED
        BY <1>1, <3>1, <4>1, ValueBound
    <3>5. Pow[q + 1] = B * Pow[q] /\ Pow[q] \in Nat
      BY <3>1, PowFacts
    <3>6. QED
      BY <3>1, <3>2, <3>3, <3>4, <3>5 DEF ptr, zp, lp
  <2>8. D * (v + B * Vold) + t = (d + B * Xold) + Incoming * Pow[q + 1]
    <3> DEFINE Pq == Pow[q]
               I0 == Incoming
    <3>1. D * Vold + r = Xold + I0 * Pq
      BY <1>4
    <3>2. D \in Nat /\ I0 \in Int
      <4>1. D \in Nat /\ D >= 1
        BY <1>3, TwoToFacts
      <4>2. DigitAt(memory0, call.x + call.k) \in Int
        <5>1. DigitAt(memory0, call.x + call.k) \in Digit
          BY <1>1, DigitAtType DEF Memory
        <5>2. QED
          BY <5>1, BaseAssumption DEF Digit
      <4> HIDE DEF D
      <4>3. DigitAt(memory0, call.x + call.k) % D \in Int
        BY <4>1, <4>2, DivMod
      <4>4. QED
        BY <4>1, <4>3 DEF Incoming, If, D
    <3>3. B \in Nat /\ v \in Int /\ d \in Int
      BY <2>2, <2>3, BaseAssumption DEF Digit
    <3>4. Pq \in Nat /\ Pow[q + 1] = B * Pq /\ Vold \in Nat /\ Xold \in Nat /\ D * v + t = d + B * r
      BY <2>3, <2>7
    <3> HIDE DEF Pq, I0, D, Vold, Xold, q
    <3> DEFINE DV == D * Vold
               IP == I0 * Pq
               Dv == D * v
               Br == B * r
               BX == B * Xold
               BIP == B * (I0 * Pq)
               BDV == B * (D * Vold)
    <3>5. D * (v + B * Vold) = Dv + BDV /\ I0 * (B * Pq) = BIP /\ BIP \in Int /\ BDV \in Int
          /\ BX \in Int /\ Br \in Int /\ Dv \in Int
      BY <3>2, <3>3, <3>4
    <3>6. BDV + Br = BX + BIP
      <4>1. B * (D * Vold + r) = B * (Xold + I0 * Pq)
        BY <3>1
      <4>2. B * (D * Vold + r) = BDV + Br /\ B * (Xold + I0 * Pq) = BX + BIP
        <5>1. DV \in Int /\ IP \in Int
          BY <3>2, <3>4
        <5> HIDE DEF DV, IP
        <5>2. B * (DV + r) = B * DV + B * r /\ B * (Xold + IP) = B * Xold + B * IP
          BY <3>3, <3>4, <5>1
        <5>3. QED
          BY <5>2 DEF DV, IP
      <4>3. QED
        BY <4>1, <4>2
    <3>7. Dv + t = d + Br
      BY <3>4
    <3> HIDE DEF Dv, Br, BX, BIP, BDV
    <3>8. (Dv + BDV) + t = (d + BX) + BIP
      BY <2>3, <3>3, <3>5, <3>6, <3>7
    <3>9. Incoming * Pow[q + 1] = BIP
      BY <3>4, <3>5 DEF I0
    <3>10. QED
      BY <3>5, <3>8, <3>9 DEF BX
  <2>9. /\ pos' <= Common' /\ Untouched(memory', memory0', call'.z + pos', call'.k - pos')
        /\ 0 <= t /\ t < TwoTo[Count'] /\ h' = If(Count' # 0, t * TwoTo[W - Count'])
        /\ TwoTo[Count'] * Value(memory', call'.z + pos', call'.k - pos') + t
             = Value(memory0', call'.x + pos', Common' - pos') + Incoming' * Pow[Common' - pos']
    <3>1. Common' = Common /\ Count' = Count /\ Incoming' = Incoming /\ pos - 1 <= Common
      BY <1>1, <1>2, <1>4, <2>1 DEF Common, Count, Incoming
    <3>2. Common' - pos' = q + 1
      BY <2>1, <2>7, <3>1
    <3> HIDE DEF q, Vold, Xold
    <3>3. QED
      BY <2>1, <2>3, <2>4, <2>6, <2>7, <2>8, <3>1, <3>2
  <2>10. \E r0 \in Int : Shifting(r0)'
    BY <2>3, <2>9 DEF Shifting
  <2>11. QED
    BY <2>1, <2>5, <2>10 DEF ShrSmallInv
<1>6. CASE ~(pos > 0)
  <2>1. pos = 0 /\ Leave(h \div TwoTo[Down])
    BY <1>1, <1>6 DEF ShrSmall
  <2>2. call.z + 0 = call.z /\ call.k - 0 = call.k /\ call.x + 0 = call.x /\ Common - 0 = Common
    BY <1>1, <1>2
  <2>3. /\ D * Value(memory, call.z, call.k) + r = Was(call.x, Common) + Incoming * Pow[Common]
        /\ Untouched(memory, memory0, call.z, call.k)
    BY <1>4, <2>1, <2>2 DEF Was
  <2>4. Promised[1] = Value(memory, call.z, call.k) /\ Promised[2] = r
    BY <1>4, <2>3, ShiftedEnd
  <2>5. h \div TwoTo[Down] = r
    <3> DEFINE s == Count
               b == h
    <3>1. s \in Nat /\ s < W /\ 0 <= r /\ r < TwoTo[s] /\ b = If(s # 0, r * TwoTo[W - s])
      BY <1>3, <1>4
    <3> HIDE DEF s, b
    <3>2. b \div TwoTo[(W - s) % W] = r
      BY <3>1, BitsOut
    <3>3. QED
      BY <3>2 DEF s, b, Down
  <2>6. QED
    BY <2>1, <2>3, <2>4, <2>5, Leaving
<1>7. QED
  BY <1>5, <1>6

\* bignum_shr_small shifts to the right by less than a word.
LEMMA ShrSmallKeeps ==
  ASSUME LoopTypes, call.op = "shr_small", ShrSmallInv, ShrSmall
  PROVE  LoopTypes' /\ MeetsContract' /\ (phase' # "done" => ShrSmallInv')
BY ShrSmallClears, ShrSmallShifts DEF ShrSmallInv

-----------------------------------------------------------------------------
(* bignum_normalize.                                                        *)

\* LeadingZeros chooses a number that exists.
LEMMA LeadingZerosIs ==
  ASSUME NEW t \in Digit
  PROVE  /\ LeadingZeros(t) \in 0 .. W
         /\ t < TwoTo[W - LeadingZeros(t)]
         /\ LeadingZeros(t) = W \/ 2 * t >= TwoTo[W - LeadingZeros(t)]
<1>1. W \in Nat /\ W >= 1 /\ B = TwoTo[W] /\ t \in Nat /\ t < B
  BY WordBitsAssumption, BaseAssumption DEF Digit
<1> DEFINE T == {l \in Nat : t < TwoTo[l]}
<1>2. PICK l \in T : \A e \in T : l <= e
  <2>1. T \in SUBSET Nat /\ W \in T
    BY <1>1
  <2> HIDE DEF T
  <2>2. QED
    BY <2>1, LeastElement
<1> DEFINE s == W - l
<1>3. l \in Nat /\ t < TwoTo[l] /\ l <= W
  BY <1>1, <1>2
<1>4. s \in 0 .. W /\ W - s = l /\ (s = W <=> l = 0)
  BY <1>1, <1>3
<1>5. l = 0 \/ 2 * t >= TwoTo[l]
  <2>1. CASE l # 0
    <3> DEFINE e == l - 1
    <3>1. e \in Nat /\ l = e + 1 /\ ~(l <= e)
      BY <1>3, <2>1
    <3>2. e \notin T
      BY <1>2, <3>1
    <3> HIDE DEF e
    <3>3. TwoTo[e] \in Nat /\ TwoTo[e + 1] = 2 * TwoTo[e] /\ ~(t < TwoTo[e])
      BY <3>1, <3>2, TwoToFacts
    <3>4. QED
      BY <1>1, <3>1, <3>3
  <2>2. QED
    BY <2>1
<1>6. t < TwoTo[W - s] /\ (s = W \/ 2 * t >= TwoTo[W - s])
  BY <1>3, <1>4, <1>5
<1> HIDE DEF s
<1>7. \E e \in 0 .. W : t < TwoTo[W - e] /\ (e = W \/ 2 * t >= TwoTo[W - e])
  BY <1>4, <1>6
<1>8. QED
  BY <1>7 DEF LeadingZeros

\* S is z with its leading zeros shifted out, s of them; all of them when z is 0.
Scaled(S, z, s, k) ==
  /\ s \in Nat /\ S = z * TwoTo[s] /\ S < Pow[k]
  /\ IF z = 0 THEN s = W * k ELSE s < W * k /\ 2 * S >= Pow[k]

\* No two shifts are both the shift of bignum_normalize.
LEMMA ShiftUnique ==
  ASSUME NEW z \in Nat, NEW P \in Nat, NEW s \in Nat, NEW t \in Nat, s < t,
         2 * (z * TwoTo[s]) >= P, z * TwoTo[t] < P
  PROVE  FALSE
<1> DEFINE e == t - (s + 1)
<1>1. e \in Nat /\ t = (s + 1) + e /\ s + 1 \in Nat
  OBVIOUS
<1> HIDE DEF e
<1>2. TwoTo[(s + 1) + e] = TwoTo[s + 1] * TwoTo[e] /\ TwoTo[s + 1] = 2 * TwoTo[s]
      /\ TwoTo[s] \in Nat /\ TwoTo[e] \in Nat /\ TwoTo[e] >= 1
  BY <1>1, TwoToAdds, TwoToFacts
<1> DEFINE u == TwoTo[s]
           v == TwoTo[e]
           y == z * u
           x == z * TwoTo[t]
<1>3. TwoTo[t] = (2 * u) * v /\ u \in Nat /\ v \in Nat /\ v >= 1
  BY <1>1, <1>2
<1> HIDE DEF u, v
<1>4. x = (2 * y) * v /\ y \in Nat
  <2>1. z * ((2 * u) * v) = (2 * (z * u)) * v
    BY <1>3
  <2>2. QED
    BY <1>3, <2>1
<1>5. 2 * y >= P /\ x < P
  BY DEF u
<1> HIDE DEF x, y
<1>6. (2 * y) * v >= 2 * y
  BY <1>3, <1>4
<1>7. QED
  BY <1>4, <1>5, <1>6

\* What bignum_normalize promises is what a scaled number is.
LEMMA NormalizePromise ==
  ASSUME NEW k \in Nat, NEW z \in Nat, NEW S, NEW s, Scaled(S, z, s, k)
  PROVE  bignum_normalize(k, z)[1] = Low(k, S) /\ bignum_normalize(k, z)[2] = s
<1> DEFINE sh == IF z = 0 THEN W * k
                 ELSE CHOOSE u \in 0..(W * k - 1) :
                        z * TwoTo[u] < Pow[k] /\ 2 * z * TwoTo[u] >= Pow[k]
<1>1. bignum_normalize(k, z)[1] = Low(k, z * TwoTo[sh]) /\ bignum_normalize(k, z)[2] = sh
  BY DEF bignum_normalize
<1>2. s \in Nat /\ S = z * TwoTo[s] /\ W * k \in Nat /\ Pow[k] \in Nat
  BY PowIsTwoTo, PowFacts DEF Scaled
<1>3. sh = s
  <2>1. CASE z = 0
    BY <2>1 DEF Scaled
  <2>2. CASE z # 0
    <3>1. s \in 0 .. (W * k - 1) /\ z * TwoTo[s] < Pow[k] /\ 2 * (z * TwoTo[s]) >= Pow[k]
      BY <1>2, <2>2 DEF Scaled
    <3>2. ASSUME NEW u \in Nat PROVE 2 * z * TwoTo[u] = 2 * (z * TwoTo[u])
      <4> DEFINE x == TwoTo[u]
      <4>1. x \in Nat
        BY TwoToFacts
      <4> HIDE DEF x
      <4>2. 2 * z * x = 2 * (z * x)
        BY <4>1
      <4>3. QED
        BY <4>2 DEF x
    <3>3. \E u \in 0..(W * k - 1) : z * TwoTo[u] < Pow[k] /\ 2 * z * TwoTo[u] >= Pow[k]
      BY <1>2, <3>1, <3>2
    <3>4. sh \in 0..(W * k - 1) /\ z * TwoTo[sh] < Pow[k] /\ 2 * z * TwoTo[sh] >= Pow[k]
      BY <2>2, <3>3
    <3> HIDE DEF sh
    <3>5. sh \in Nat /\ 2 * (z * TwoTo[sh]) >= Pow[k]
      BY <1>2, <3>2, <3>4
    <3>6. ~(sh < s) /\ ~(s < sh)
      BY <1>2, <3>1, <3>4, <3>5, ShiftUnique
    <3>7. QED
      BY <1>2, <3>5, <3>6
  <2>3. QED
    BY <2>1, <2>2
<1>4. QED
  BY <1>1, <1>2, <1>3

\* After k - 1 passes over the words, the leading zeros of the top word are all
\* that is left to shift out.
LEMMA TopWordScales ==
  ASSUME NEW k \in Nat, NEW hh \in Nat, hh <= k, NEW t \in Digit, NEW L \in Nat, L < Pow[k],
         NEW z \in Nat, NEW V, V = L + t * Pow[k], V = z * Pow[hh], hh < k => t # 0,
         NEW s, s = W * hh + LeadingZeros(t)
  PROVE  Scaled(TwoTo[s % W] * V, z, s, k + 1) /\ s % W \in Nat /\ s % W < W /\ s \in Nat
<1> DEFINE c == LeadingZeros(t)
           Q == Pow[k]
<1>1. /\ W \in Nat /\ W >= 1 /\ B \in Nat /\ B >= 2 /\ t \in Nat
      /\ Q \in Nat /\ Q >= 1 /\ Pow[k + 1] = B * Q
  BY WordBitsAssumption, BaseAssumption, PowPositive DEF Digit
<1>2. c \in 0 .. W /\ t < TwoTo[W - c] /\ (c = W \/ 2 * t >= TwoTo[W - c])
  BY LeadingZerosIs
<1>3. s = W * hh + c
  OBVIOUS
<1> HIDE DEF c
<1>4. W * hh \in Nat /\ s \in Nat
  BY <1>1, <1>2, <1>3
<1>5. CASE t = 0
  <2>1. c = W
    <3>1. W - c \in Nat
      BY <1>1, <1>2
    <3>2. TwoTo[W - c] >= 1
      BY <3>1, TwoToFacts
    <3>3. W - c \in Nat => TwoTo[W - c] \in Nat
      BY TwoToFacts
    <3>4. QED
      BY <1>2, <1>5, <3>1, <3>2, <3>3
  <2>2. hh = k /\ V = L
    <3>1. 0 * Pow[k] = 0
      BY <1>1
    <3>2. QED
      BY <1>5, <3>1
  <2>3. z = 0
    <3>1. ASSUME z >= 1 PROVE FALSE
      <4>1. z * Q >= 1 * Q /\ z * Q < Q
        BY <1>1, <2>2, <3>1
      <4>2. QED
        BY <1>1, <4>1
    <3>2. QED
      BY <3>1
  <2>4. V = 0
    <3>1. V = z * Q
      BY <2>2
    <3>2. QED
      BY <1>1, <2>3, <3>1
  <2>5. s = W * (k + 1)
    <3>1. W * (k + 1) = W * k + W
      BY <1>1
    <3>2. QED
      BY <1>3, <2>1, <2>2, <3>1
  <2>6. s % W = 0
    <3> DEFINE e == k + 1
               v == 0
    <3>1. e \in Int /\ v \in Int /\ 0 <= v /\ v < W
      BY <1>1
    <3>2. W * (k + 1) = W * e + v
      BY <1>1
    <3>3. PICK sc \in Nat : sc = W * (k + 1) /\ sc = s
      BY <1>4, <2>5
    <3>4. sc = W * e + v
      BY <3>2, <3>3
    <3> HIDE DEF e, v
    <3>5. sc % W = v
      BY <1>1, <3>1, <3>4, QuotientIs
    <3>6. QED
      BY <3>3, <3>5 DEF v
  <2>7. TwoTo[s % W] * V = 0 /\ z * TwoTo[s] = 0 /\ 0 < Pow[k + 1]
    <3>1. TwoTo[s % W] \in Nat /\ TwoTo[s] \in Nat
      BY <1>4, <2>6, TwoToFacts
    <3>2. Pow[k + 1] >= 1 /\ Pow[k + 1] \in Nat
      BY PowPositive
    <3>3. QED
      BY <2>3, <2>4, <3>1, <3>2
  <2>8. QED
    BY <1>1, <1>4, <2>3, <2>5, <2>6, <2>7 DEF Scaled
<1>6. CASE t # 0
  <2>1. c \in Nat /\ c < W
    <3>1. ASSUME c = W PROVE FALSE
      <4>1. TwoTo[W - c] = 1
        BY <1>1, <3>1, TwoToFacts
      <4>2. QED
        BY <1>1, <1>2, <1>6, <4>1
    <3>2. QED
      BY <1>1, <1>2, <3>1
  <2>2. s % W = c
    <3>1. PICK sc \in Nat : sc = W * hh + c /\ sc = s
      BY <1>3, <1>4
    <3>2. hh \in Int /\ c \in Int /\ 0 <= c /\ c < W /\ W \in Nat
      BY <1>1, <2>1
    <3>3. sc = W * hh + c
      BY <3>1
    <3> HIDE DEF c
    <3>4. sc % W = c
      BY ONLY <3>2, <3>3, QuotientIs
    <3>5. QED
      BY <3>1, <3>4
  <2> DEFINE D == TwoTo[c]
             E == TwoTo[W - c]
             H == Pow[hh]
             F == TwoTo[s]
  <2>3. D \in Nat /\ D >= 1 /\ E \in Nat /\ E >= 1 /\ D * E = B /\ t < E /\ 2 * t >= E
    BY <1>2, <2>1, ShiftParts
  <2>4. H \in Nat /\ F = D * H
    <3>1. TwoTo[W * hh] = H /\ H \in Nat
      BY PowIsTwoTo, PowFacts
    <3>2. TwoTo[c + W * hh] = D * TwoTo[W * hh]
      BY <1>4, <2>1, TwoToAdds
    <3>3. s = c + W * hh
      BY <1>3, <1>4, <2>1
    <3>4. QED
      BY <3>1, <3>2, <3>3
  <2>5. V = L + t * Q /\ V = z * H /\ L < Q
    OBVIOUS
  <2> DEFINE S == D * V
  <2> HIDE DEF D, E, H, F, Q
  <2>6. V \in Nat
    BY <1>1, <2>5
  <2>7. S = z * F
    <3>1. D * (z * H) = z * (D * H)
      BY <2>3, <2>4
    <3>2. QED
      BY <2>4, <2>5, <3>1
  <2>8. S < B * Q
    <3>1. V <= E * Q - 1
      <4>1. t * Q <= (E - 1) * Q /\ (E - 1) * Q = E * Q - Q /\ t * Q \in Int /\ E * Q \in Int
        BY <1>1, <2>3
      <4>2. QED
        BY <1>1, <2>5, <4>1
    <3>2. D * V <= D * (E * Q - 1)
      <4> DEFINE y == E * Q - 1
      <4>1. y \in Int /\ V <= y
        BY <1>1, <2>3, <3>1
      <4> HIDE DEF y
      <4>2. D * V <= D * y
        BY <2>3, <2>6, <4>1
      <4>3. QED
        BY <4>2 DEF y
    <3>3. D * (E * Q - 1) = B * Q - D
      <4>1. D * (E * Q - 1) = (D * E) * Q - D
        BY <1>1, <2>3
      <4>2. QED
        BY <2>3, <4>1
    <3>4. S \in Int /\ B * Q \in Int
      BY <1>1, <2>3, <2>6
    <3> DEFINE BQ == B * Q
    <3>5. S <= BQ - D /\ BQ \in Int
      BY <3>2, <3>3, <3>4
    <3> HIDE DEF BQ, S
    <3>6. S < BQ
      BY <2>3, <3>4, <3>5
    <3>7. QED
      BY <3>6 DEF BQ, S
  <2>9. 2 * S >= B * Q
    <3>1. 2 * V >= E * Q
      <4>1. (2 * t) * Q >= E * Q /\ (2 * t) * Q = 2 * (t * Q) /\ t * Q \in Int /\ E * Q \in Int
        BY <1>1, <2>3
      <4>2. QED
        BY <1>1, <2>5, <4>1
    <3>2. D * (2 * V) >= D * (E * Q)
      <4> DEFINE y == E * Q
                 x == 2 * V
      <4>1. y \in Int /\ x \in Int /\ x >= y
        BY <1>1, <2>3, <2>6, <3>1
      <4> HIDE DEF y, x
      <4>2. D * x >= D * y
        BY <2>3, <4>1
      <4>3. QED
        BY <4>2 DEF y, x
    <3>3. D * (2 * V) = 2 * S
      BY <2>3, <2>6
    <3>4. D * (E * Q) = B * Q
      <4>1. D * (E * Q) = (D * E) * Q
        BY <1>1, <2>3
      <4>2. QED
        BY <2>3, <4>1
    <3>5. QED
      BY <3>2, <3>3, <3>4
  <2>10. z # 0
    <3>1. ASSUME z = 0 PROVE FALSE
      <4>1. V = 0
        BY <2>4, <2>5, <3>1
      <4>2. t * Q >= 1 * Q
        BY <1>1, <1>6
      <4>3. QED
        BY <1>1, <2>5, <4>1, <4>2
    <3>2. QED
      BY <3>1
  <2>11. s < W * (k + 1)
    <3>1. W * hh <= W * k /\ W * (k + 1) = W * k + W /\ W * k \in Int
      BY <1>1
    <3>2. QED
      BY <1>1, <1>3, <1>4, <2>1, <3>1
  <2>12. s % W \in Nat /\ s % W < W /\ TwoTo[s % W] * V = S
    BY <2>1, <2>2 DEF D
  <2>13. Scaled(S, z, s, k + 1)
    <3> HIDE DEF S
    <3>1. QED
      BY <1>1, <1>4, <2>7, <2>8, <2>9, <2>10, <2>11 DEF Scaled, F, Q
  <2>14. QED
    BY <1>4, <2>12, <2>13
<1>7. QED
  BY <1>5, <1>6

\* The value of a number whose words have moved up by one.
LEMMA ValueMovedUp ==
  ASSUME NEW mm \in Memory, NEW z \in Nat, NEW k \in Nat, NEW new \in Memory,
         DigitAt(mm, z + k) = 0, DigitAt(new, z) = 0,
         \A t \in 0 .. (k - 1) : DigitAt(new, (z + 1) + t) = DigitAt(mm, z + t)
  PROVE  Value(new, z, k + 1) = B * Value(mm, z, k + 1)
<1> DEFINE z1 == z + 1
<1>1. z1 \in Nat /\ \A t \in 0 .. (k - 1) : DigitAt(new, z1 + t) = DigitAt(mm, z + t)
  OBVIOUS
<1> HIDE DEF z1
<1>2. Value(new, z1, k) = Value(mm, z, k)
  <2>1. Copied(new, z1, mm, z, k)
    BY <1>1 DEF Copied
  <2>2. QED
    BY <1>1, <2>1, ValueOfCopy
<1>3. Value(new, z, k + 1) = DigitAt(new, z) + B * Value(new, z + 1, k)
  BY ValueFromBelow
<1>4. Value(mm, z, k + 1) = Value(mm, z, k) + DigitAt(mm, z + k) * Pow[k] /\ Value(mm, z, k) \in Nat
      /\ Pow[k] \in Nat
  BY ValueFacts, PowFacts DEF Memory
<1>5. QED
  BY <1>2, <1>3, <1>4, BaseAssumption DEF z1

\* Moving every word up by one, when the top word is zero.
LEMMA WordsUp ==
  ASSUME NEW mm \in Memory, NEW z \in Nat, NEW k \in Nat, (z + k) + 1 <= MemSize,
         DigitAt(mm, z + k) = 0, NEW new,
         new = [a0 \in Addr |-> IF a0 = z THEN 0
                               ELSE IF a0 \in Region(z, k + 1) THEN mm[a0 - 1] ELSE mm[a0]]
  PROVE  /\ new \in Memory /\ \A t \in Addr \ Region(z, k + 1) : new[t] = mm[t]
         /\ Value(new, z, k + 1) = B * Value(mm, z, k + 1)
<1>1. ASSUME NEW t \in Addr
      PROVE  t \in Int /\ (t \in Region(z, k + 1) /\ t # z => t - 1 \in Addr)
  BY MemSizeAssumption DEF Addr, Region
<1>2. new \in Memory
  <2>1. 0 \in Digit
    BY BaseAssumption DEF Digit
  <2>2. QED
    BY <1>1, <2>1 DEF Memory
<1>3. ASSUME NEW t \in Addr \ Region(z, k + 1) PROVE new[t] = mm[t]
  <2>1. t # z
    BY DEF Region
  <2>2. QED
    BY <2>1
<1>4. DigitAt(new, z) = 0
  BY DEF DigitAt
<1>5. \A t \in 0 .. (k - 1) : DigitAt(new, (z + 1) + t) = DigitAt(mm, z + t)
  <2>1. ASSUME NEW t \in 0 .. (k - 1) PROVE DigitAt(new, (z + 1) + t) = DigitAt(mm, z + t)
    <3> DEFINE b == (z + 1) + t
    <3>1. b \in Addr /\ b # z /\ b \in Region(z, k + 1) /\ b - 1 = z + t /\ z + t \in Addr
      BY MemSizeAssumption DEF Addr, Region
    <3> HIDE DEF b
    <3>2. new[b] = mm[b - 1]
      BY <3>1
    <3>3. DigitAt(new, b) = DigitAt(mm, z + t)
      BY <3>1, <3>2 DEF DigitAt
    <3>4. QED
      BY <3>3 DEF b
  <2>2. QED
    BY <2>1
<1>6. Value(new, z, k + 1) = B * Value(mm, z, k + 1)
  <2>1. PICK g \in Memory : g = new
    BY <1>2
  <2>2. /\ DigitAt(g, z) = 0
        /\ \A t \in 0 .. (k - 1) : DigitAt(g, (z + 1) + t) = DigitAt(mm, z + t)
    BY <1>4, <1>5, <2>1
  <2>3. Value(g, z, k + 1) = B * Value(mm, z, k + 1)
    BY <2>2, ValueMovedUp
  <2>4. QED
    BY <2>1, <2>3
<1>7. QED
  BY <1>2, <1>3, <1>6

\* First the words are moved up, h of them; then the bits are, over the words
\* old that the first part left.
Raised ==
  /\ h \in Nat /\ h <= pos /\ Untouched(memory, memory0, call.z, call.k)
  /\ Value(memory, call.z, call.k) = Was(call.z, call.k) * Pow[h]
  /\ call.k = 0 \/ /\ pos + 1 <= call.k
                   /\ h < pos => DigitAt(memory, call.z + (call.k - 1)) # 0
Raising(old) ==
  /\ pos <= call.k /\ Untouched(old, memory0, call.z, call.k)
  /\ Pass(call, memory, old, pos, Mix(TwoTo[result % W], 0, 0, 0, 0, 0), h)
  /\ 0 <= h /\ h < TwoTo[result % W] /\ result % W \in Nat /\ result % W < W
  /\ Scaled(TwoTo[result % W] * Value(old, call.z, call.k), Was(call.z, call.k), result, call.k)
NormalizeInv ==
  \/ phase = "main" /\ Raised
  \/ phase = "bits" /\ \E old \in Memory : Raising(old)

\* The passes that move words.
LEMMA NormalizeRaises ==
  ASSUME LoopTypes, call.op = "normalize", phase = "main", Raised, Normalize
  PROVE  LoopTypes' /\ MeetsContract' /\ (phase' # "done" => NormalizeInv')
<1> DEFINE z == call.z
           w0 == Was(call.z, call.k)
           V == Value(memory, call.z, call.k)
           top == DigitAt(memory, call.z + call.k - 1)
<1>1. /\ call.k \in Nat /\ z \in Nat /\ pos \in Nat /\ phase # "done" /\ z + call.k <= MemSize
      /\ memory \in Memory /\ memory0 \in Memory /\ h \in Nat /\ flag \in Int /\ call \in LoopCalls
      /\ w0 \in Nat /\ V \in Nat /\ MemSize \in Nat
  BY LoopCallFacts, ValueBound, MemSizeAssumption DEF LoopTypes, Raised, Was
<1>2. h <= pos /\ Untouched(memory, memory0, z, call.k) /\ V = w0 * Pow[h]
  BY DEF Raised
<1>3. CASE call.k = 0
  <2>1. Leave(0)
    BY <1>3 DEF Normalize
  <2>2. Value(memory, z, 0) = 0 /\ w0 = 0
    BY <1>1, <1>3, ValueFacts DEF Memory, Was
  <2>3. W * 0 = 0 /\ 0 * TwoTo[0] = 0 /\ 0 % Pow[0] = 0 /\ TwoTo[0] = 1 /\ Pow[0] = 1
    BY WordBitsAssumption, TwoToFacts, PowFacts
  <2>4. Promised[1] = 0 /\ Promised[2] = 0
    <3>1. Promised[1] = bignum_normalize(0, 0)[1] /\ Promised[2] = bignum_normalize(0, 0)[2]
      BY <1>3, <2>2 DEF Promised, Was
    <3>2. bignum_normalize(0, 0)[1] = 0 /\ bignum_normalize(0, 0)[2] = 0
      <4>1. bignum_normalize(0, 0)[1] = Low(0, 0 * TwoTo[W * 0]) /\ bignum_normalize(0, 0)[2] = W * 0
        BY DEF bignum_normalize
      <4>2. QED
        BY <2>3, <4>1 DEF Low
    <3>3. QED
      BY <3>1, <3>2
  <2>5. QED
    BY <1>2, <1>3, <2>1, <2>2, <2>4, Leaving
<1>4. CASE call.k # 0
  <2>1. PICK k \in Nat : call.k = k + 1 /\ call.k - 1 = k
    <3> DEFINE j == call.k - 1
    <3>1. j \in Nat /\ call.k = j + 1 /\ call.k - 1 = j
      BY <1>1, <1>4
    <3> HIDE DEF j
    <3>2. QED
      BY <3>1
  <2>2. /\ pos <= k /\ top = DigitAt(memory, z + k) /\ (h < pos => top # 0) /\ top \in Digit
        /\ (z + k) + 1 <= MemSize
    <3>1. pos + 1 <= call.k /\ (h < pos => DigitAt(memory, call.z + (call.k - 1)) # 0)
      BY <1>4 DEF Raised
    <3>2. top = DigitAt(memory, z + k) /\ z + k \in Int
      BY <1>1, <2>1
    <3>3. DigitAt(memory, z + k) \in Digit
      BY <1>1, <3>2, DigitAtType DEF Memory
    <3>4. pos <= k /\ (z + k) + 1 <= MemSize
      BY <1>1, <2>1, <3>1
    <3>5. QED
      BY <2>1, <3>1, <3>2, <3>3, <3>4
  <2> HIDE DEF top
  <2>3. CASE pos < k
    <3>1. /\ memory' = IF top # 0 THEN memory
                       ELSE [a0 \in Addr |->
                               IF a0 = z THEN 0
                               ELSE IF a0 \in Region(z, k + 1) THEN memory[a0 - 1]
                               ELSE memory[a0]]
          /\ h' = h + Bitval(top = 0) /\ pos' = pos + 1
          /\ UNCHANGED <<call, memory0, phase, flag, result>>
      <4>1. call.k > 0 /\ pos < call.k - 1
        BY <1>1, <2>1, <2>3
      <4>2. QED
        BY <2>1, <4>1 DEF Normalize, top
    <3>2. h' \in Nat /\ h' <= pos' /\ pos' + 1 <= call.k /\ pos' \in Nat
      BY <1>1, <1>2, <2>1, <2>3, <3>1 DEF Bitval
    <3>3. CASE top # 0
      <4>1. memory' = memory /\ h' = h
        BY <1>1, <3>1, <3>3 DEF Bitval
      <4>2. LoopTypes' /\ MeetsContract'
        BY <1>1, <3>1, <3>2, <4>1 DEF LoopTypes, Admissible, MeetsContract
      <4>3. DigitAt(memory', call'.z + (call'.k - 1)) # 0
        BY <2>1, <2>2, <3>1, <3>3, <4>1
      <4>4. Raised'
        BY <1>2, <3>1, <3>2, <4>1, <4>3 DEF Raised, Was
      <4>5. QED
        BY <3>1, <4>2, <4>4 DEF NormalizeInv
    <3>4. CASE top = 0
      <4>1. /\ memory' \in Memory /\ \A t \in Addr \ Region(z, k + 1) : memory'[t] = memory[t]
            /\ Value(memory', z, k + 1) = B * Value(memory, z, k + 1)
        <5> DEFINE new == [a0 \in Addr |->
                             IF a0 = z THEN 0
                             ELSE IF a0 \in Region(z, k + 1) THEN memory[a0 - 1]
                             ELSE memory[a0]]
        <5>1. memory' = new /\ DigitAt(memory, z + k) = 0
          BY <2>2, <3>1, <3>4
        <5>2. /\ new \in Memory /\ \A t \in Addr \ Region(z, k + 1) : new[t] = memory[t]
              /\ Value(new, z, k + 1) = B * Value(memory, z, k + 1)
          BY <1>1, <2>2, <5>1, WordsUp
        <5> HIDE DEF new
        <5>3. QED
          BY <5>1, <5>2
      <4>2. h' = h + 1 /\ h = pos
        BY <1>1, <1>2, <2>2, <3>1, <3>4 DEF Bitval
      <4>3. LoopTypes' /\ MeetsContract'
        BY <1>1, <3>1, <3>2, <4>1 DEF LoopTypes, Admissible, MeetsContract
      <4>4. Untouched(memory', memory0, z, call.k)
        BY <1>2, <2>1, <4>1 DEF Untouched
      <4>5. Value(memory', z, call.k) = w0 * Pow[h + 1]
        <5> DEFINE P == Pow[h]
        <5>1. Pow[h + 1] = B * P /\ P \in Nat /\ B \in Nat
          BY <1>1, PowFacts, BaseAssumption
        <5>2. Value(memory', z, call.k) = B * (w0 * P)
          BY <1>2, <2>1, <4>1
        <5> HIDE DEF P, w0
        <5>3. B * (w0 * P) = w0 * (B * P)
          BY <1>1, <5>1
        <5>4. QED
          BY <5>1, <5>2, <5>3
      <4>6. Raised'
        BY <1>2, <3>1, <3>2, <4>2, <4>4, <4>5 DEF Raised, Was
      <4>7. QED
        BY <3>1, <4>3, <4>6 DEF NormalizeInv
    <3>5. QED
      BY <3>3, <3>4
  <2>4. CASE ~(pos < k)
    <3> DEFINE s == W * h + LeadingZeros(top)
    <3>1. pos = k
      BY <1>1, <2>2, <2>4
    <3>2. /\ phase' = "bits" /\ pos' = 0 /\ h' = 0 /\ result' = s
          /\ UNCHANGED <<call, memory0, memory, flag>>
      <4>1. ~(call.k > 0 /\ pos < call.k - 1)
        BY <1>1, <2>1, <2>4
      <4>2. QED
        BY <1>4, <4>1 DEF Normalize, top
    <3>3. Scaled(TwoTo[s % W] * V, w0, s, k + 1) /\ s % W \in Nat /\ s % W < W /\ s \in Nat
      <4> DEFINE L == Value(memory, z, k)
      <4>1. L \in Nat /\ L < Pow[k]
        BY <1>1, ValueBound
      <4>2. Value(memory, z, k + 1) = Value(memory, z, k) + DigitAt(memory, z + k) * Pow[k]
        BY <1>1, ValueFacts DEF Memory
      <4>3. V = L + top * Pow[k]
        BY <2>1, <2>2, <4>2
      <4>4. PICK t \in Digit, v \in Nat, w1 \in Nat, l \in Nat, hh \in Nat :
              t = top /\ v = V /\ w1 = w0 /\ l = L /\ hh = h
        BY <1>1, <2>2, <4>1
      <4>5. v = l + t * Pow[k] /\ v = w1 * Pow[hh] /\ hh <= k /\ (hh < k => t # 0) /\ l < Pow[k]
        BY <1>2, <2>2, <3>1, <4>1, <4>3, <4>4
      <4> DEFINE u == W * hh + LeadingZeros(t)
      <4>6. u = s
        BY <4>4
      <4> HIDE DEF L, V, w0, s
      <4>7. Scaled(TwoTo[u % W] * v, w1, u, k + 1) /\ u % W \in Nat /\ u % W < W /\ u \in Nat
        BY <4>5, TopWordScales
      <4> HIDE DEF u
      <4>8. QED
        BY <4>4, <4>6, <4>7
    <3> DEFINE D == TwoTo[s % W]
               q == Mix(D, 0, 0, 0, 0, 0)
    <3> HIDE DEF s
    <3>4. LoopTypes' /\ MeetsContract'
      BY <1>1, <3>2, <3>3 DEF LoopTypes, Admissible, MeetsContract
    <3>5. Pass(call, memory, memory, 0, q, 0) /\ D >= 1 /\ D \in Nat
      <4>1. D \in Nat /\ D >= 1
        BY <3>3, TwoToFacts
      <4>2. D \in Int
        BY <4>1
      <4> HIDE DEF D
      <4>3. q \in Mixes /\ q.start = 0
        BY <4>2, MixType DEF Mix
      <4> HIDE DEF q
      <4>4. Pass(call, memory, memory, 0, q, q.start)
        BY <1>1, <4>3, PassStart
      <4>5. QED
        BY <4>1, <4>3, <4>4
    <3>6. /\ pos' <= call'.k /\ Untouched(memory, memory0', call'.z, call'.k)
          /\ Pass(call', memory', memory, pos', Mix(TwoTo[result' % W], 0, 0, 0, 0, 0), h')
          /\ 0 <= h' /\ h' < TwoTo[result' % W] /\ result' % W \in Nat /\ result' % W < W
          /\ Scaled(TwoTo[result' % W] * Value(memory, call'.z, call'.k), Was(call.z, call.k)', result', call'.k)
      <4>1. /\ pos' <= call'.k /\ Untouched(memory, memory0', call'.z, call'.k)
            /\ 0 <= h' /\ h' < TwoTo[result' % W] /\ result' % W \in Nat /\ result' % W < W
        BY <1>1, <1>2, <3>2, <3>3, <3>5
      <4>2. Pass(call', memory', memory, pos', Mix(TwoTo[result' % W], 0, 0, 0, 0, 0), h')
        BY <3>2, <3>5
      <4>3. Was(call.z, call.k)' = w0
        BY <3>2 DEF Was
      <4> HIDE DEF w0
      <4>4. QED
        BY <2>1, <3>2, <3>3, <4>1, <4>2, <4>3
    <3>7. \E old \in Memory : Raising(old)'
      BY <1>1, <3>6 DEF Raising
    <3>8. QED
      BY <3>2, <3>4, <3>7 DEF NormalizeInv
  <2>5. QED
    BY <2>3, <2>4
<1>5. QED
  BY <1>3, <1>4

\* The pass that shifts every word to the left.
LEMMA NormalizeShifts ==
  ASSUME LoopTypes, call.op = "normalize", phase = "bits", NEW old \in Memory, Raising(old), Normalize
  PROVE  LoopTypes' /\ MeetsContract' /\ (phase' # "done" => NormalizeInv')
<1> DEFINE s == result % W
           D == TwoTo[s]
           q == Mix(D, 0, 0, 0, 0, 0)
           w0 == Was(call.z, call.k)
           S == D * Value(old, call.z, call.k)
<1>1. /\ call.k \in Nat /\ call.z \in Nat /\ pos \in Nat /\ phase # "done"
      /\ memory \in Memory /\ memory0 \in Memory /\ h \in Int /\ flag \in Int /\ call \in LoopCalls
      /\ w0 \in Nat /\ result \in Int
  BY LoopCallFacts, ValueBound DEF LoopTypes, Was
<1>2. /\ pos <= call.k /\ Untouched(old, memory0, call.z, call.k)
      /\ Pass(call, memory, old, pos, q, h)
      /\ 0 <= h /\ h < D /\ s \in Nat /\ s < W
      /\ Scaled(S, w0, result, call.k)
  BY DEF Raising
<1>3. D \in Nat /\ D \in Int
  BY <1>2, TwoToFacts
<1>4. q \in Mixes
  <2> HIDE DEF D
  <2>1. QED
    BY <1>3, MixType
<1>5. CASE pos < call.k
  <2> DEFINE d == Zi
             out == If(s # 0, d \div TwoTo[W - s])
             v == Lo(d * D) + h
  <2>1. Emit(v) /\ h' = out /\ flag' = flag
    BY <1>5 DEF Normalize
  <2>2. /\ d = DigitAt(old, call.z + pos) /\ d \in Digit /\ d \in Int
        /\ DigitAt(old, call.x + pos) \in Int /\ DigitAt(old, call.y + pos) \in Int
        /\ DigitAt(old, call.m + pos) \in Int
    <3>1. Untouched(memory, old, call.z, pos)
      BY <1>2 DEF Pass
    <3>2. /\ DigitAt(memory, call.z + pos) = DigitAt(old, call.z + pos)
          /\ DigitAt(old, call.z + pos) \in Digit /\ DigitAt(old, call.x + pos) \in Digit
          /\ DigitAt(old, call.y + pos) \in Digit /\ DigitAt(old, call.m + pos) \in Digit
      BY <1>1, <1>5, <3>1, PassLoads
    <3>3. QED
      BY <3>2 DEF Digit, Zi
  <2>3. /\ v \in Digit /\ out \in Int /\ 0 <= out /\ out < D
        /\ v + B * out = D * d + h
    <3> DEFINE c == h
    <3>1. /\ s \in Nat /\ s < W /\ d \in Digit /\ c \in Int /\ 0 <= c /\ c < TwoTo[s]
          /\ out = If(s # 0, d \div TwoTo[W - s])
      BY <1>1, <1>2, <2>2
    <3> HIDE DEF s, c, d, out
    <3>2. /\ Lo(d * TwoTo[s]) + c \in Digit /\ out \in Int /\ 0 <= out /\ out < TwoTo[s]
          /\ (Lo(d * TwoTo[s]) + c) + B * out = TwoTo[s] * d + c
      BY <3>1, ShiftWord
    <3>3. QED
      BY <3>2 DEF c
  <2>4. Column5(call, old, pos, q) = D * d
    <3> HIDE DEF D
    <3>1. D * d \in Int
      BY <1>3, <2>2
    <3>2. QED
      BY <1>3, <2>2, <3>1, BaseAssumption DEF Column5, Mix
  <2> HIDE DEF out, v, d
  <2>5. /\ LoopTypes' /\ MeetsContract' /\ phase' = phase /\ call' = call /\ memory0' = memory0
        /\ memory' = Store(memory, call.z + pos, v) /\ pos' = pos + 1 /\ pos + 1 <= call.k
    <3>1. h' \in Int /\ flag' \in Int
      BY <1>1, <2>1, <2>3
    <3>2. QED
      BY <1>1, <1>5, <2>1, <2>3, <3>1, Emitting
  <2>6. Pass(call, Store(memory, call.z + pos, v), old, pos + 1, q, out)
    <3>1. v + B * out = Column5(call, old, pos, q) + h
      BY <2>3, <2>4
    <3> HIDE DEF q, D
    <3>2. QED
      BY <1>1, <1>2, <1>4, <1>5, <2>3, <3>1, PassStep
  <2>7. result' = result
    BY <2>1 DEF Emit
  <2>8. /\ pos' <= call'.k /\ Untouched(old, memory0', call'.z, call'.k)
        /\ Pass(call', memory', old, pos', Mix(TwoTo[result' % W], 0, 0, 0, 0, 0), h')
        /\ 0 <= h' /\ h' < TwoTo[result' % W] /\ result' % W \in Nat /\ result' % W < W
        /\ Scaled(TwoTo[result' % W] * Value(old, call'.z, call'.k), Was(call.z, call.k)', result', call'.k)
    BY <1>2, <2>1, <2>3, <2>5, <2>6, <2>7 DEF Was
  <2>9. \E older \in Memory : Raising(older)'
    BY <2>8 DEF Raising
  <2>10. QED
    BY <2>5, <2>9 DEF NormalizeInv
<1>6. CASE ~(pos < call.k)
  <2>1. pos = call.k /\ Leave(result)
    BY <1>1, <1>2, <1>6 DEF Normalize
  <2> DEFINE V == Value(memory, call.z, call.k)
  <2>2. V + h * Pow[call.k] = S
    <3>1. V + h * Pow[call.k] = Total(call, old, call.k, q)
      BY <1>2, <2>1 DEF Pass
    <3>2. Total(call, old, call.k, q) = S
      <4>1. /\ call.x \in Nat /\ call.y \in Nat /\ call.m \in Nat
        BY <1>1, LoopCallFacts
      <4>2. /\ Value(old, call.z, call.k) \in Nat /\ Value(old, call.x, call.k) \in Nat
            /\ Value(old, call.y, call.k) \in Nat /\ Value(old, call.m, call.k) \in Nat
            /\ Pow[call.k] \in Nat
        BY <1>1, <4>1, ValueBound, PowFacts
      <4>3. S \in Int
        <5> HIDE DEF D
        <5>1. QED
          BY <1>3, <4>2
      <4>4. q.z * Value(old, call.z, call.k) = S /\ q.x = 0 /\ q.y = 0 /\ q.m = 0 /\ q.not = 0 /\ q.start = 0
        BY DEF Mix
      <4> HIDE DEF S, q
      <4>5. QED
        BY <4>2, <4>3, <4>4 DEF Total
    <3>3. QED
      BY <3>1, <3>2
  <2> HIDE DEF S
  <2>3. Low(call.k, S) = V
    BY <1>1, <2>2, ResultIs
  <2>4. Promised[1] = bignum_normalize(call.k, w0)[1] /\ Promised[2] = bignum_normalize(call.k, w0)[2]
    BY DEF Promised, Was
  <2>5. bignum_normalize(call.k, w0)[1] = Low(call.k, S) /\ bignum_normalize(call.k, w0)[2] = result
    <3> HIDE DEF w0
    <3>1. QED
      BY <1>1, <1>2, NormalizePromise
  <2>6. Untouched(memory, memory0, call.z, call.k)
    <3>1. Untouched(memory, old, call.z, call.k)
      BY <1>2, <2>1 DEF Pass
    <3>2. QED
      BY <1>2, <3>1, FrameComposes
  <2>7. QED
    BY <1>1, <2>1, <2>3, <2>4, <2>5, <2>6, Leaving
<1>7. QED
  BY <1>5, <1>6

\* bignum_normalize shifts a number until its top bit is set.
LEMMA NormalizeKeeps ==
  ASSUME LoopTypes, call.op = "normalize", NormalizeInv, Normalize
  PROVE  LoopTypes' /\ MeetsContract' /\ (phase' # "done" => NormalizeInv')
BY NormalizeRaises, NormalizeShifts DEF NormalizeInv

-----------------------------------------------------------------------------
(* The invariant of DigitLoops: of each function, its own.                  *)

FunctionInv ==
  /\ call.op = "optadd" => OptAddInv
  /\ call.op = "optsub" => OptSubInv
  /\ call.op = "optsubadd" => OptSubAddInv
  /\ call.op = "optneg" => OptNegInv
  /\ call.op = "modadd" => ModAddInv
  /\ call.op = "modsub" => ModSubInv
  /\ call.op = "moddouble" => ModDoubleInv
  /\ call.op = "modoptneg" => ModOptNegInv
  /\ call.op = "cmul" => CMulInv
  /\ call.op = "cmadd" => CMAddInv
  /\ call.op = "cmnegadd" => CMNegAddInv
  /\ call.op = "muladd10" => MulAdd10Inv
  /\ call.op = "shl_small" => ShlSmallInv
  /\ call.op = "shr_small" => ShrSmallInv
  /\ call.op = "normalize" => NormalizeInv
  /\ call.op = "copy" => CopyInv
  /\ call.op = "mux" => MuxInv
  /\ call.op = "pow2" => Pow2Inv
  /\ call.op = "of_word" => OfWordInv
LoopInv == LoopTypes /\ MeetsContract /\ (phase # "done" => FunctionInv)

\* A pass starts with what its carry is loaded with.
LEMMA Starting ==
  ASSUME LoopTypes, memory = memory0, pos = 0, NEW q \in Mixes, NEW in, in = q.start
  PROVE  Passing(q, in)
<1>1. call.k \in Nat /\ call \in LoopCalls /\ memory0 \in Memory
  BY LoopCallFacts DEF LoopTypes
<1>2. Pass(call, memory0, memory0, 0, q, q.start)
  BY <1>1, PassStart
<1>3. QED
  BY <1>1, <1>2 DEF Passing

\* The state at the call.
AtCall == /\ LoopTypes /\ memory = memory0 /\ phase = "main" /\ h = 0
          /\ pos = IF call.op \in {"mux", "shr_small"} THEN call.k ELSE 0
          /\ flag = CASE call.op = "optneg" -> Bitval(call.w # 0)
                     [] call.op = "optsubadd" -> Bitval(Negative(call.w))
                     [] OTHER -> 0

\* A call starts with operands in memory and nothing stored.
LEMMA StartTypes == LoopInit => AtCall
<1>1. SUFFICES ASSUME LoopInit PROVE AtCall
  OBVIOUS
<1>2. memory \in Memory
  <2>1. PICK v \in [Operands(call) -> LoopWords] :
          memory = [a0 \in Addr |-> IF a0 \in DOMAIN v THEN v[a0] ELSE B - 1]
    BY <1>1 DEF LoopInit
  <2>2. B - 1 \in Digit
    BY BaseAssumption DEF Digit
  <2>3. ASSUME NEW a0 \in Addr PROVE (IF a0 \in DOMAIN v THEN v[a0] ELSE B - 1) \in Digit
    BY <2>1, <2>2, LoopWordsAssumption
  <2>4. QED
    BY <2>1, <2>3 DEF Memory
<1>3. /\ call \in LoopCalls /\ Admissible(call, memory) /\ memory0 = memory /\ phase = "main"
      /\ pos = (IF call.op \in {"mux", "shr_small"} THEN call.k ELSE 0) /\ h = 0 /\ result = NoWord
      /\ flag = CASE call.op = "optneg" -> Bitval(call.w # 0)
                 [] call.op = "optsubadd" -> Bitval(Negative(call.w))
                 [] OTHER -> 0
  BY <1>1 DEF LoopInit
<1>4. pos \in Nat /\ h \in Int /\ result \in Int
  BY <1>3, LoopCallFacts DEF NoWord
<1>5. flag \in Int
  BY <1>3 DEF Bitval
<1>6. QED
  BY <1>2, <1>3, <1>4, <1>5 DEF LoopTypes, AtCall

\* Every function starts with its invariant.
LEMMA FunctionsStart == AtCall => FunctionInv
<1>1. SUFFICES ASSUME AtCall PROVE FunctionInv
  OBVIOUS
<1>2. /\ LoopTypes /\ memory = memory0 /\ phase = "main" /\ h = 0 /\ call \in LoopCalls
      /\ call.k \in Nat /\ call.n \in Nat /\ call.z \in Nat /\ call.x \in Nat /\ call.w \in Nat
      /\ memory0 \in Memory
      /\ call.op \notin {"mux", "shr_small"} => pos = 0
      /\ call.op \in {"mux", "shr_small"} => pos = call.k
      /\ call.op \notin {"optneg", "optsubadd"} => flag = 0
      /\ call.op = "optneg" => flag = Bitval(call.w # 0)
      /\ call.op = "optsubadd" => flag = Bitval(Negative(call.w))
  BY <1>1, LoopCallFacts DEF AtCall, LoopTypes
<1>3. 0 \in Int /\ 1 \in Int /\ 2 \in Int /\ 10 \in Int /\ -1 \in Int /\ -0 = 0 /\ 0 \in Digit
  <2>1. -0 = 0
    <3> DEFINE x == 0
               y == -x
    <3>1. x \in Int
      OBVIOUS
    <3> HIDE DEF x
    <3>2. x + y = 0 /\ y \in Int
      BY <3>1
    <3> HIDE DEF y
    <3>3. x = 0 => y = 0
      BY <3>1, <3>2
    <3>4. QED
      BY <3>3 DEF x, y
  <2>2. QED
    BY <2>1, BaseAssumption DEF Digit
<1>4. /\ Untouched(memory, memory0, call.z, 0)
      /\ Value(memory, call.z, 0) = 0 /\ Was(call.x, 0) = 0
  BY <1>2, ValueFacts DEF Untouched, Was, Memory
<1>5. ASSUME call.op = "optadd" PROVE OptAddInv
  <2> DEFINE q == Mix(0, 1, Bitval(call.w # 0), 0, 0, 0)
  <2>1. q \in Mixes /\ q.start = flag
    BY <1>2, <1>3, <1>5, MixType DEF Mix, Bitval
  <2> HIDE DEF q
  <2>2. Passing(q, flag)
    BY <1>2, <1>5, <2>1, Starting
  <2>3. QED
    BY <1>2, <1>5, <2>2 DEF q, OptAddInv
<1>6. ASSUME call.op = "optsub" PROVE OptSubInv
  <2> DEFINE q == Mix(0, 1, -Bitval(call.w # 0), 0, 0, 0)
  <2>1. q \in Mixes /\ q.start = -flag
    BY <1>2, <1>3, <1>6, MixType DEF Mix, Bitval
  <2> HIDE DEF q
  <2>2. Passing(q, -flag)
    BY <1>2, <1>6, <2>1, Starting
  <2>3. QED
    BY <1>2, <1>6, <2>2 DEF q, OptSubInv
<1>7. ASSUME call.op = "optsubadd" PROVE OptSubAddInv
  <2> DEFINE down == Bitval(Negative(call.w))
             b == Bitval(call.w # 0)
             q == Mix(0, 1, b - 2 * down, 0, down, down)
  <2>1. q \in Mixes /\ q.start = flag
    BY <1>2, <1>3, <1>7, MixType DEF Mix, Bitval
  <2> HIDE DEF q
  <2>2. Passing(q, flag)
    BY <1>2, <1>7, <2>1, Starting
  <2>3. QED
    BY <1>2, <1>7, <2>2 DEF q, OptSubAddInv
<1>8. ASSUME call.op = "optneg" PROVE OptNegInv
  <2> DEFINE b == Bitval(call.w # 0)
             q == Mix(0, 1 - 2 * b, 0, 0, b, b)
  <2>1. q \in Mixes /\ q.start = flag
    BY <1>2, <1>3, <1>8, MixType DEF Mix, Bitval
  <2> HIDE DEF q
  <2>2. Passing(q, flag)
    BY <1>2, <1>8, <2>1, Starting
  <2>3. QED
    BY <1>2, <1>8, <2>2 DEF q, OptNegInv
<1>9. ASSUME call.op = "modadd" PROVE ModAddInv
  <2> DEFINE q == Mix(0, 1, 1, 0, 0, 0)
  <2>1. q \in Mixes /\ q.start = flag
    BY <1>2, <1>3, <1>9, MixType DEF Mix
  <2> HIDE DEF q
  <2>2. Passing(q, flag)
    BY <1>2, <1>9, <2>1, Starting
  <2>3. QED
    BY <1>2, <1>9, <2>2 DEF q, ModAddInv
<1>10. ASSUME call.op = "modsub" PROVE ModSubInv
  <2> DEFINE q == Mix(0, 1, -1, 0, 0, 0)
  <2>1. q \in Mixes /\ q.start = -flag
    BY <1>2, <1>3, <1>10, MixType DEF Mix
  <2> HIDE DEF q
  <2>2. Passing(q, -flag)
    BY <1>2, <1>10, <2>1, Starting
  <2>3. QED
    BY <1>2, <1>10, <2>2 DEF q, ModSubInv
<1>11. ASSUME call.op = "moddouble" PROVE ModDoubleInv
  <2> DEFINE q == Mix(0, 2, 0, -1, 0, 0)
  <2>1. q \in Mixes /\ q.start = Hi(2 * h) - flag
    <3>1. Hi(2 * h) - flag = 0
      <4>1. 2 * h = 0 /\ flag = 0 /\ 0 \div B = 0
        BY <1>2, <1>11, BaseAssumption
      <4>2. QED
        BY <4>1 DEF Hi
    <3>2. QED
      BY <1>3, <3>1, MixType DEF Mix
  <2> HIDE DEF q
  <2>2. Passing(q, Hi(2 * h) - flag)
    BY <1>2, <1>11, <2>1, Starting
  <2>3. QED
    BY <1>2, <1>11, <2>2, <1>3 DEF q, ModDoubleInv
<1>12. ASSUME call.op = "modoptneg" PROVE ModOptNegInv
  BY <1>2, <1>4, <1>12 DEF ModOptNegInv, Bitval
<1>13. ASSUME call.op = "cmul" PROVE CMulInv
  <2> DEFINE q == Mix(0, call.w, 0, 0, 0, 0)
  <2>1. q \in Mixes /\ q.start = h + flag
    BY <1>2, <1>3, <1>13, MixType DEF Mix
  <2> HIDE DEF q
  <2>2. Passing(q, h + flag)
    BY <1>2, <1>13, <2>1, Starting
  <2>3. QED
    BY <1>2, <1>13, <2>2, <1>3, OperandLow DEF q, CMulInv
<1>14. ASSUME call.op = "cmadd" PROVE CMAddInv
  <2> DEFINE q == Mix(1, call.w, 0, 0, 0, 0)
  <2>1. q \in Mixes /\ q.start = h + flag
    BY <1>2, <1>3, <1>14, MixType DEF Mix
  <2> HIDE DEF q
  <2>2. Passing(q, h + flag)
    BY <1>2, <1>14, <2>1, Starting
  <2>3. QED
    BY <1>2, <1>14, <2>2, <1>3, OperandLow DEF q, CMAddInv
<1>15. ASSUME call.op = "cmnegadd" PROVE CMNegAddInv
  <2> DEFINE q == Mix(1, 0 - call.w, 0, 0, call.w, call.w)
             c == h + flag + If(pos = 0, call.w)
  <2>1. q \in Mixes /\ q.start = c /\ c = call.w
    <3>1. c = call.w
      BY <1>2, <1>15 DEF If
    <3> HIDE DEF c
    <3>2. QED
      BY <1>2, <1>3, <3>1, MixType DEF Mix
  <2> HIDE DEF q, c
  <2>2. Passing(q, c)
    BY <1>2, <1>15, <2>1, Starting
  <2>3. call.w \in Digit /\ pos <= Common
    BY <1>2, <1>15, LoopCallFacts, OperandLow DEF GoodLoopCall
  <2>4. QED
    BY <1>2, <2>1, <2>2, <2>3 DEF q, c, CMNegAddInv
<1>16. ASSUME call.op = "muladd10" PROVE MulAdd10Inv
  <2> DEFINE q == Mix(10, 0, 0, 0, 0, call.w)
             c == IF pos = 0 THEN call.w ELSE h
  <2>1. q \in Mixes /\ q.start = c
    BY <1>2, <1>3, <1>16, MixType DEF Mix
  <2> HIDE DEF q, c
  <2>2. Passing(q, c)
    BY <1>2, <1>16, <2>1, Starting
  <2>3. QED
    BY <1>2, <2>2 DEF q, c, MulAdd10Inv
<1>17. ASSUME call.op = "shl_small" PROVE ShlSmallInv
  <2> DEFINE D == TwoTo[Count]
             q == Mix(0, D, 0, 0, 0, 0)
  <2>1. D \in Nat /\ D >= 1
    BY <1>2, TwoToFacts, WordBitsAssumption DEF Count
  <2> HIDE DEF D
  <2>2. q \in Mixes /\ q.start = h
    BY <1>2, <1>3, <2>1, MixType DEF Mix
  <2> HIDE DEF q
  <2>3. Passing(q, h)
    BY <1>2, <1>17, <2>2, Starting
  <2>4. pos <= Common /\ 0 <= h /\ h < D
    BY <1>2, <1>17, <2>1, OperandLow
  <2>5. QED
    BY <1>2, <2>3, <2>4 DEF q, D, ShlSmallInv
<1>18. ASSUME call.op = "shr_small" PROVE ShrSmallInv
  <2>1. Untouched(memory, memory0, call.z + call.k, call.k - call.k)
    BY <1>2 DEF Untouched
  <2>2. call.z + call.k \in Nat
    BY <1>2
  <2>3. Value(memory, call.z + call.k, call.k - call.k) = 0
    BY <1>2, <2>2, NoWords
  <2>4. pos = call.k /\ Common <= pos
    BY <1>2, <1>18, OperandLow
  <2>5. QED
    BY <1>2, <2>1, <2>3, <2>4 DEF ShrSmallInv
<1>19. ASSUME call.op = "normalize" PROVE NormalizeInv
  <2> DEFINE V == Value(memory, call.z, call.k)
  <2>1. V = Was(call.z, call.k) /\ V \in Nat
    BY <1>2, ValueBound DEF Was
  <2>2. V = Was(call.z, call.k) * Pow[0]
    <3> HIDE DEF V
    <3>1. QED
      BY <2>1, PowFacts
  <2>3. Untouched(memory, memory0, call.z, call.k) /\ pos = 0
    BY <1>2, <1>19 DEF Untouched
  <2>4. Raised
    BY <1>2, <2>2, <2>3 DEF Raised
  <2>5. QED
    BY <1>2, <2>4 DEF NormalizeInv
<1>20. ASSUME call.op = "copy" PROVE CopyInv
  <2>1. Common \in Nat /\ pos = 0 /\ Lesser(0, Common) = 0
    BY <1>2, <1>20, OperandLow DEF Lesser
  <2>2. QED
    BY <1>2, <1>4, <2>1 DEF CopyInv
<1>21. ASSUME call.op = "mux" PROVE MuxInv
  <2>1. Untouched(memory, memory0, call.z + call.k, call.k - call.k)
    BY <1>2 DEF Untouched
  <2>2. call.z + call.k \in Nat
    BY <1>2
  <2>3. Value(memory, call.z + call.k, call.k - call.k) = 0
    BY <1>2, <2>2, NoWords
  <2>4. Chosen + call.k \in Nat
    BY <1>2, LoopCallFacts DEF Chosen
  <2>5. Value(memory0, Chosen + call.k, call.k - call.k) = 0
    BY <1>2, <2>4, NoWords
  <2>6. QED
    BY <1>2, <1>21, <2>1, <2>3, <2>5 DEF MuxInv
<1>22. ASSUME call.op = "pow2" PROVE Pow2Inv
  <2>1. call.w \div W \in Nat /\ pos = 0
    BY <1>2, <1>22, PowerOfTwo
  <2>2. If(call.w \div W < 0, TwoTo[call.w]) = 0
    BY <2>1 DEF If
  <2>3. QED
    BY <1>2, <1>4, <2>1, <2>2 DEF Pow2Inv
<1>23. ASSUME call.op = "of_word" PROVE OfWordInv
  BY <1>2 DEF OfWordInv
<1>24. QED
  BY <1>5, <1>6, <1>7, <1>8, <1>9, <1>10, <1>11, <1>12, <1>13, <1>14, <1>15, <1>16, <1>17, <1>18, <1>19, <1>20, <1>21, <1>22, <1>23 DEF FunctionInv

\* No step changes the call.
LEMMA CallKept == LoopNext => call' = call
<1>1. SUFFICES ASSUME LoopNext PROVE call' = call
  OBVIOUS
<1>2. CASE OptAdd
  BY <1>2 DEF OptAdd, Emit, Skip, Goto, Leave, Correct
<1>3. CASE OptSub
  BY <1>3 DEF OptSub, Emit, Skip, Goto, Leave, Correct
<1>4. CASE OptSubAdd
  BY <1>4 DEF OptSubAdd, Emit, Skip, Goto, Leave, Correct
<1>5. CASE OptNeg
  BY <1>5 DEF OptNeg, Emit, Skip, Goto, Leave, Correct
<1>6. CASE ModAdd
  BY <1>6 DEF ModAdd, Emit, Skip, Goto, Leave, Correct
<1>7. CASE ModSub
  BY <1>7 DEF ModSub, Emit, Skip, Goto, Leave, Correct
<1>8. CASE ModDouble
  BY <1>8 DEF ModDouble, Emit, Skip, Goto, Leave, Correct
<1>9. CASE ModOptNeg
  BY <1>9 DEF ModOptNeg, Emit, Skip, Goto, Leave, Correct
<1>10. CASE CMul
  BY <1>10 DEF CMul, Emit, Skip, Goto, Leave, Correct
<1>11. CASE CMAdd
  BY <1>11 DEF CMAdd, Emit, Skip, Goto, Leave, Correct
<1>12. CASE CMNegAdd
  BY <1>12 DEF CMNegAdd, Emit, Skip, Goto, Leave, Correct
<1>13. CASE MulAdd10
  BY <1>13 DEF MulAdd10, Emit, Skip, Goto, Leave, Correct
<1>14. CASE ShlSmall
  BY <1>14 DEF ShlSmall, Emit, Skip, Goto, Leave, Correct
<1>15. CASE ShrSmall
  BY <1>15 DEF ShrSmall, Emit, Skip, Goto, Leave, Correct
<1>16. CASE Normalize
  BY <1>16 DEF Normalize, Emit, Skip, Goto, Leave, Correct
<1>17. CASE Copy
  BY <1>17 DEF Copy, Emit, Skip, Goto, Leave, Correct
<1>18. CASE Mux
  BY <1>18 DEF Mux, Emit, Skip, Goto, Leave, Correct
<1>19. CASE Pow2
  BY <1>19 DEF Pow2, Emit, Skip, Goto, Leave, Correct
<1>20. CASE OfWord
  BY <1>20 DEF OfWord, Emit, Skip, Goto, Leave, Correct
<1>21. QED
  BY <1>1, <1>2, <1>3, <1>4, <1>5, <1>6, <1>7, <1>8, <1>9, <1>10, <1>11, <1>12, <1>13, <1>14, <1>15, <1>16, <1>17, <1>18, <1>19, <1>20 DEF LoopNext

\* The invariant of the function that is running is all there is to keep.
LEMMA LoopNextKeeps ==
  ASSUME LoopInv, LoopNext
  PROVE  LoopInv'
<1>1. call' = call
  BY CallKept
<1>2. LoopTypes /\ (phase # "done" => FunctionInv)
  BY DEF LoopInv
<1>3. CASE OptAdd
  <2>1. phase # "done" /\ call.op = "optadd"
    BY <1>3 DEF OptAdd, Op
  <2>2. OptAddInv
    BY <1>2, <2>1 DEF FunctionInv
  <2>3. LoopTypes' /\ MeetsContract' /\ (phase' # "done" => OptAddInv')
    BY <1>2, <1>3, <2>1, <2>2, OptAddKeeps
  <2>4. QED
    BY <1>1, <2>1, <2>3 DEF LoopInv, FunctionInv
<1>4. CASE OptSub
  <2>1. phase # "done" /\ call.op = "optsub"
    BY <1>4 DEF OptSub, Op
  <2>2. OptSubInv
    BY <1>2, <2>1 DEF FunctionInv
  <2>3. LoopTypes' /\ MeetsContract' /\ (phase' # "done" => OptSubInv')
    BY <1>2, <1>4, <2>1, <2>2, OptSubKeeps
  <2>4. QED
    BY <1>1, <2>1, <2>3 DEF LoopInv, FunctionInv
<1>5. CASE OptSubAdd
  <2>1. phase # "done" /\ call.op = "optsubadd"
    BY <1>5 DEF OptSubAdd, Op
  <2>2. OptSubAddInv
    BY <1>2, <2>1 DEF FunctionInv
  <2>3. LoopTypes' /\ MeetsContract' /\ (phase' # "done" => OptSubAddInv')
    BY <1>2, <1>5, <2>1, <2>2, OptSubAddKeeps
  <2>4. QED
    BY <1>1, <2>1, <2>3 DEF LoopInv, FunctionInv
<1>6. CASE OptNeg
  <2>1. phase # "done" /\ call.op = "optneg"
    BY <1>6 DEF OptNeg, Op
  <2>2. OptNegInv
    BY <1>2, <2>1 DEF FunctionInv
  <2>3. LoopTypes' /\ MeetsContract' /\ (phase' # "done" => OptNegInv')
    BY <1>2, <1>6, <2>1, <2>2, OptNegKeeps
  <2>4. QED
    BY <1>1, <2>1, <2>3 DEF LoopInv, FunctionInv
<1>7. CASE ModAdd
  <2>1. phase # "done" /\ call.op = "modadd"
    BY <1>7 DEF ModAdd, Op
  <2>2. ModAddInv
    BY <1>2, <2>1 DEF FunctionInv
  <2>3. LoopTypes' /\ MeetsContract' /\ (phase' # "done" => ModAddInv')
    BY <1>2, <1>7, <2>1, <2>2, ModAddKeeps
  <2>4. QED
    BY <1>1, <2>1, <2>3 DEF LoopInv, FunctionInv
<1>8. CASE ModSub
  <2>1. phase # "done" /\ call.op = "modsub"
    BY <1>8 DEF ModSub, Op
  <2>2. ModSubInv
    BY <1>2, <2>1 DEF FunctionInv
  <2>3. LoopTypes' /\ MeetsContract' /\ (phase' # "done" => ModSubInv')
    BY <1>2, <1>8, <2>1, <2>2, ModSubKeeps
  <2>4. QED
    BY <1>1, <2>1, <2>3 DEF LoopInv, FunctionInv
<1>9. CASE ModDouble
  <2>1. phase # "done" /\ call.op = "moddouble"
    BY <1>9 DEF ModDouble, Op
  <2>2. ModDoubleInv
    BY <1>2, <2>1 DEF FunctionInv
  <2>3. LoopTypes' /\ MeetsContract' /\ (phase' # "done" => ModDoubleInv')
    BY <1>2, <1>9, <2>1, <2>2, ModDoubleKeeps
  <2>4. QED
    BY <1>1, <2>1, <2>3 DEF LoopInv, FunctionInv
<1>10. CASE ModOptNeg
  <2>1. phase # "done" /\ call.op = "modoptneg"
    BY <1>10 DEF ModOptNeg, Op
  <2>2. ModOptNegInv
    BY <1>2, <2>1 DEF FunctionInv
  <2>3. LoopTypes' /\ MeetsContract' /\ (phase' # "done" => ModOptNegInv')
    BY <1>2, <1>10, <2>1, <2>2, ModOptNegKeeps
  <2>4. QED
    BY <1>1, <2>1, <2>3 DEF LoopInv, FunctionInv
<1>11. CASE CMul
  <2>1. phase # "done" /\ call.op = "cmul"
    BY <1>11 DEF CMul, Op
  <2>2. CMulInv
    BY <1>2, <2>1 DEF FunctionInv
  <2>3. LoopTypes' /\ MeetsContract' /\ (phase' # "done" => CMulInv')
    BY <1>2, <1>11, <2>1, <2>2, CMulKeeps
  <2>4. QED
    BY <1>1, <2>1, <2>3 DEF LoopInv, FunctionInv
<1>12. CASE CMAdd
  <2>1. phase # "done" /\ call.op = "cmadd"
    BY <1>12 DEF CMAdd, Op
  <2>2. CMAddInv
    BY <1>2, <2>1 DEF FunctionInv
  <2>3. LoopTypes' /\ MeetsContract' /\ (phase' # "done" => CMAddInv')
    BY <1>2, <1>12, <2>1, <2>2, CMAddKeeps
  <2>4. QED
    BY <1>1, <2>1, <2>3 DEF LoopInv, FunctionInv
<1>13. CASE CMNegAdd
  <2>1. phase # "done" /\ call.op = "cmnegadd"
    BY <1>13 DEF CMNegAdd, Op
  <2>2. CMNegAddInv
    BY <1>2, <2>1 DEF FunctionInv
  <2>3. LoopTypes' /\ MeetsContract' /\ (phase' # "done" => CMNegAddInv')
    BY <1>2, <1>13, <2>1, <2>2, CMNegAddKeeps
  <2>4. QED
    BY <1>1, <2>1, <2>3 DEF LoopInv, FunctionInv
<1>14. CASE MulAdd10
  <2>1. phase # "done" /\ call.op = "muladd10"
    BY <1>14 DEF MulAdd10, Op
  <2>2. MulAdd10Inv
    BY <1>2, <2>1 DEF FunctionInv
  <2>3. LoopTypes' /\ MeetsContract' /\ (phase' # "done" => MulAdd10Inv')
    BY <1>2, <1>14, <2>1, <2>2, MulAdd10Keeps
  <2>4. QED
    BY <1>1, <2>1, <2>3 DEF LoopInv, FunctionInv
<1>15. CASE ShlSmall
  <2>1. phase # "done" /\ call.op = "shl_small"
    BY <1>15 DEF ShlSmall, Op
  <2>2. ShlSmallInv
    BY <1>2, <2>1 DEF FunctionInv
  <2>3. LoopTypes' /\ MeetsContract' /\ (phase' # "done" => ShlSmallInv')
    BY <1>2, <1>15, <2>1, <2>2, ShlSmallKeeps
  <2>4. QED
    BY <1>1, <2>1, <2>3 DEF LoopInv, FunctionInv
<1>16. CASE ShrSmall
  <2>1. phase # "done" /\ call.op = "shr_small"
    BY <1>16 DEF ShrSmall, Op
  <2>2. ShrSmallInv
    BY <1>2, <2>1 DEF FunctionInv
  <2>3. LoopTypes' /\ MeetsContract' /\ (phase' # "done" => ShrSmallInv')
    BY <1>2, <1>16, <2>1, <2>2, ShrSmallKeeps
  <2>4. QED
    BY <1>1, <2>1, <2>3 DEF LoopInv, FunctionInv
<1>17. CASE Normalize
  <2>1. phase # "done" /\ call.op = "normalize"
    BY <1>17 DEF Normalize, Op
  <2>2. NormalizeInv
    BY <1>2, <2>1 DEF FunctionInv
  <2>3. LoopTypes' /\ MeetsContract' /\ (phase' # "done" => NormalizeInv')
    BY <1>2, <1>17, <2>1, <2>2, NormalizeKeeps
  <2>4. QED
    BY <1>1, <2>1, <2>3 DEF LoopInv, FunctionInv
<1>18. CASE Copy
  <2>1. phase # "done" /\ call.op = "copy"
    BY <1>18 DEF Copy, Op
  <2>2. CopyInv
    BY <1>2, <2>1 DEF FunctionInv
  <2>3. LoopTypes' /\ MeetsContract' /\ (phase' # "done" => CopyInv')
    BY <1>2, <1>18, <2>1, <2>2, CopyKeeps
  <2>4. QED
    BY <1>1, <2>1, <2>3 DEF LoopInv, FunctionInv
<1>19. CASE Mux
  <2>1. phase # "done" /\ call.op = "mux"
    BY <1>19 DEF Mux, Op
  <2>2. MuxInv
    BY <1>2, <2>1 DEF FunctionInv
  <2>3. LoopTypes' /\ MeetsContract' /\ (phase' # "done" => MuxInv')
    BY <1>2, <1>19, <2>1, <2>2, MuxKeeps
  <2>4. QED
    BY <1>1, <2>1, <2>3 DEF LoopInv, FunctionInv
<1>20. CASE Pow2
  <2>1. phase # "done" /\ call.op = "pow2"
    BY <1>20 DEF Pow2, Op
  <2>2. Pow2Inv
    BY <1>2, <2>1 DEF FunctionInv
  <2>3. LoopTypes' /\ MeetsContract' /\ (phase' # "done" => Pow2Inv')
    BY <1>2, <1>20, <2>1, <2>2, Pow2Keeps
  <2>4. QED
    BY <1>1, <2>1, <2>3 DEF LoopInv, FunctionInv
<1>21. CASE OfWord
  <2>1. phase # "done" /\ call.op = "of_word"
    BY <1>21 DEF OfWord, Op
  <2>2. OfWordInv
    BY <1>2, <2>1 DEF FunctionInv
  <2>3. LoopTypes' /\ MeetsContract' /\ (phase' # "done" => OfWordInv')
    BY <1>2, <1>21, <2>1, <2>2, OfWordKeeps
  <2>4. QED
    BY <1>1, <2>1, <2>3 DEF LoopInv, FunctionInv
<1>22. QED
  BY <1>3, <1>4, <1>5, <1>6, <1>7, <1>8, <1>9, <1>10, <1>11, <1>12, <1>13, <1>14, <1>15, <1>16, <1>17, <1>18, <1>19, <1>20, <1>21 DEF LoopNext

\* The invariant of the nineteen functions.
THEOREM LoopInvariance == LoopSpec => []LoopInv
<1>1. LoopInit => LoopInv
  <2>1. LoopInit => LoopTypes /\ phase = "main" /\ FunctionInv
    BY StartTypes, FunctionsStart DEF AtCall
  <2>2. QED
    BY <2>1 DEF LoopInv, MeetsContract
<1>2. LoopInv /\ [LoopNext \/ LoopReturned]_loopVars => LoopInv'
  <2>1. SUFFICES ASSUME LoopInv, [LoopNext \/ LoopReturned]_loopVars PROVE LoopInv'
    OBVIOUS
  <2>2. CASE LoopNext
    BY <2>1, <2>2, LoopNextKeeps
  <2>3. CASE UNCHANGED loopVars
    <3>1. /\ call' = call /\ memory' = memory /\ phase' = phase /\ pos' = pos /\ h' = h
          /\ flag' = flag /\ result' = result /\ memory0' = memory0
      BY <2>3 DEF loopVars
    <3>2. LoopTypes' /\ MeetsContract'
      <4>1. Promised' = Promised
        BY <3>1 DEF Promised
      <4>2. QED
        BY <2>1, <3>1, <4>1 DEF LoopInv, LoopTypes, MeetsContract, Admissible
    <3>3. FunctionInv => FunctionInv'
      <4>1. OptAddInv => OptAddInv'
        BY <3>1 DEF OptAddInv, Passing, Was, Common, Count
      <4>2. OptSubInv => OptSubInv'
        BY <3>1 DEF OptSubInv, Passing, Was, Common, Count
      <4>3. OptSubAddInv => OptSubAddInv'
        BY <3>1 DEF OptSubAddInv, Passing, Was, Common, Count
      <4>4. OptNegInv => OptNegInv'
        BY <3>1 DEF OptNegInv, Passing, Was, Common, Count
      <4>5. ModAddInv => ModAddInv'
        BY <3>1 DEF ModAddInv, Passing, Was, Common, Count, Correcting
      <4>6. ModSubInv => ModSubInv'
        BY <3>1 DEF ModSubInv, Passing, Was, Common, Count, Correcting
      <4>7. ModDoubleInv => ModDoubleInv'
        BY <3>1 DEF ModDoubleInv, Passing, Was, Common, Count, Correcting
      <4>8. ModOptNegInv => ModOptNegInv'
        BY <3>1 DEF ModOptNegInv, Passing, Was, Common, Count
      <4>9. CMulInv => CMulInv'
        BY <3>1 DEF CMulInv, Passing, Was, Common, Count
      <4>10. CMAddInv => CMAddInv'
        BY <3>1 DEF CMAddInv, Passing, Was, Common, Count
      <4>11. CMNegAddInv => CMNegAddInv'
        BY <3>1 DEF CMNegAddInv, Passing, Was, Common, Count
      <4>12. MulAdd10Inv => MulAdd10Inv'
        BY <3>1 DEF MulAdd10Inv, Passing, Was, Common, Count
      <4>13. ShlSmallInv => ShlSmallInv'
        BY <3>1 DEF ShlSmallInv, Passing, Was, Common, Count
      <4>14. ShrSmallInv => ShrSmallInv'
        BY <3>1 DEF ShrSmallInv, Passing, Was, Common, Count, Shifting, Incoming
      <4>15. NormalizeInv => NormalizeInv'
        BY <3>1 DEF NormalizeInv, Passing, Was, Common, Count, Raised, Raising
      <4>16. CopyInv => CopyInv'
        BY <3>1 DEF CopyInv, Passing, Was, Common, Count
      <4>17. MuxInv => MuxInv'
        BY <3>1 DEF MuxInv, Passing, Was, Common, Count, Chosen
      <4>18. Pow2Inv => Pow2Inv'
        BY <3>1 DEF Pow2Inv, Passing, Was, Common, Count
      <4>19. OfWordInv => OfWordInv'
        BY <3>1 DEF OfWordInv, Passing, Was, Common, Count
      <4>20. QED
        BY <3>1, <4>1, <4>2, <4>3, <4>4, <4>5, <4>6, <4>7, <4>8, <4>9, <4>10, <4>11, <4>12, <4>13, <4>14, <4>15, <4>16, <4>17, <4>18, <4>19 DEF FunctionInv
    <3>4. QED
      BY <2>1, <3>1, <3>2, <3>3 DEF LoopInv
  <2>4. QED
    BY <2>1, <2>2, <2>3 DEF LoopReturned
<1>3. QED
  BY <1>1, <1>2, PTL DEF LoopSpec

\* Registers, flags and memory words of the nineteen functions stay in their
\* ranges, and the operands at the call are the ones the interface allows.
THEOREM LoopTypesHold == LoopSpec => []LoopTypes
<1>1. LoopInv => LoopTypes
  BY DEF LoopInv
<1>2. QED
  BY <1>1, LoopInvariance, PTL

\* When one of the nineteen functions returns, its buffer and its result are
\* what the interface promises for the operands found at the call, whichever of
\* them the buffer has overwritten, and no other word of memory has changed.
THEOREM LoopsMeetContract == LoopSpec => []MeetsContract
<1>1. LoopInv => MeetsContract
  BY DEF LoopInv
<1>2. QED
  BY <1>1, LoopInvariance, PTL
=============================================================================

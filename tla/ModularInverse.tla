--------------------------- MODULE ModularInverse ---------------------------
(***************************************************************************)
(* bignum_modinv and bignum_coprime of arm/generic: a binary greatest      *)
(* common divisor in chunks.  ChunkBits steps are done on two words, the   *)
(* lowest and the leading bits of m and n, and recorded in a matrix, which *)
(* is then applied to the numbers themselves.  The comparisons of leading  *)
(* bits can be wrong: then a number comes out negative and is negated.     *)
(* The outer loop runs a fixed number of times, which rests on the product *)
(* of m and n losing ChunkBits bits each time in spite of that.            *)
(*                                                                         *)
(* One step is one iteration of the outer loop.                            *)
(***************************************************************************)
EXTENDS BignumInterface, SequencesExt

CONSTANTS ChunkBits,   \* 58
          Questions    \* the calls: op, k, x and y, or op, m, x, n and y

VARIABLES query,
          buf,         \* the loop counter t and the buffers m and n, with w and z for the inverse
          answer

vars == <<query, buf, answer>>
Unset == <<>>

Size == IF query.op = "modinv" THEN query.k ELSE IF query.m < query.n THEN query.n ELSE query.m

Bits(v) == bignum_bitsize(Size, v)

-----------------------------------------------------------------------------
(* The matrix of a chunk. *)

Scaled(v, bits) == IF bits >= W THEN v \div 2 ^ (bits - W) ELSE v * 2 ^ (W - bits)

\* Mutant: the leading word of a number is aligned with its own top bit.
UpperUnaligned(v, other) == Scaled(v, Bits(v))

\* The leading word, aligned with the top bit of the longer number.
Upper(v, other) == Scaled(v, IF v < other THEN Bits(other) ELSE Bits(v))

Swapped(s) == [s EXCEPT !.m_hi = s.n_hi, !.m_lo = s.n_lo, !.n_hi = s.m_hi, !.n_lo = s.m_lo,
                        !.m_m = s.n_m, !.m_n = s.n_n, !.n_m = s.m_m, !.n_n = s.m_n]

\* The larger less the smaller when m is odd, and half of that.
InnerLoop(s) ==
  LET odd == s.m_lo % 2 = 1
      u == IF odd /\ s.m_hi < s.n_hi THEN Swapped(s) ELSE s
      v == IF odd THEN [u EXCEPT !.m_hi = @ - u.n_hi, !.m_lo = Low(1, @ - u.n_lo),
                                 !.m_m = @ + u.n_m, !.m_n = @ + u.n_n]
                  ELSE u
  IN  [v EXCEPT !.m_hi = @ \div 2, !.m_lo = @ \div 2, !.n_m = Low(1, 2 * @), !.n_n = Low(1, 2 * @)]

Matrix(m, n) ==
  FoldLeft(LAMBDA s, c : InnerLoop(s),
           [m_hi |-> Upper(m, n), n_hi |-> Upper(n, m), m_lo |-> Low(1, m), n_lo |-> Low(1, n),
            m_m |-> 1, m_n |-> 0, n_m |-> 0, n_n |-> 1],
           [c \in 1 .. ChunkBits |-> c])

\* Words l and above of the buffer v keep their contents; the others get the
\* combination x less its ChunkBits low bits and its sign.
Shifted(v, x, l) ==
  LET shifted == x \div 2 ^ ChunkBits
  IN  Pow[l] * High(l, v) + Low(l, IF x < 0 THEN -shifted ELSE shifted)

\* One Montgomery step after the combination has been shifted up by the bits a
\* word has more than a chunk.
Congruent(v, b) ==
  LET k == Size
      s == v * 2 ^ (W - ChunkBits)
      t == (s + Low(1, s * (CHOOSE u \in Digit : word_negmodinv(Low(1, b), u))) * b) \div B
  IN  IF t >= b THEN Low(k, t - b) ELSE Low(k, t)

Flipped(v, b, negative) == IF negative THEN Low(Size, b - v) ELSE v

-----------------------------------------------------------------------------
Init == query \in Questions /\ buf = Unset /\ answer = Unset

\* w stands for -1 and z for 0, so that x * w is -m and x * z is n.
BeginModinv ==
  /\ query.op = "modinv" /\ buf = Unset /\ query.k > 0
  /\ buf' = [t |-> 2 * W * query.k, m |-> query.x, n |-> query.y, w |-> query.y - 1, z |-> 0]
  /\ UNCHANGED <<query, answer>>

\* An even n is exchanged with m.
BeginCoprime ==
  /\ query.op = "coprime" /\ buf = Unset /\ Size > 0
  /\ buf' = [t |-> W * (query.m + query.n),
             m |-> IF query.y % 2 = 0 THEN query.y ELSE query.x,
             n |-> IF query.y % 2 = 0 THEN query.x ELSE query.y]
  /\ UNCHANGED <<query, answer>>

\* Only the l words that m * n < 2^t allows take part in the computations on m
\* and n; the congruences need all words.
OuterLoop ==
  /\ buf # Unset /\ buf.t > 0
  /\ LET l == Lesser(Size, (buf.t + W - 1) \div W)
         m == Low(l, buf.m)  n == Low(l, buf.n)
     IN  \E f \in {Matrix(m, n)} :
           LET dm == f.m_m * m - f.m_n * n
               dn == f.n_m * m - f.n_n * n
               next == [buf EXCEPT !.t = @ - ChunkBits, !.m = Shifted(@, dm, l),
                                   !.n = Shifted(@, dn, l)]
               w(b) == Flipped(Congruent(f.m_m * buf.w + f.m_n * buf.z, b), b, dm < 0)
               z(b) == Flipped(Congruent(f.n_m * buf.w + f.n_n * buf.z, b), b, dn >= 0)
           IN  buf' = IF query.op = "modinv"
                      THEN [next EXCEPT !.w = w(query.y), !.z = z(query.y)]
                      ELSE next
  /\ UNCHANGED <<query, answer>>

ReturnModinv ==
  /\ query.op = "modinv" /\ buf # Unset /\ buf.t <= 0 /\ answer = Unset
  /\ answer' = <<buf.z>>
  /\ UNCHANGED <<query, buf>>

\* Two even numbers have been through the loop for nothing.
ReturnCoprime ==
  /\ query.op = "coprime" /\ answer = Unset
  /\ \/ Size = 0 /\ answer' = <<0>>
     \/ /\ buf # Unset /\ buf.t <= 0
        /\ answer' = <<Bitval((query.x % 2 = 1 \/ query.y % 2 = 1) /\ buf.n = 1)>>
  /\ UNCHANGED <<query, buf>>

Next == BeginModinv \/ BeginCoprime \/ OuterLoop \/ ReturnModinv \/ ReturnCoprime

-----------------------------------------------------------------------------
\* In the loop m and n keep the divisor they have in common, n is odd, and m * n
\* is below 2^t: when t has run out m must be 0.  For the inverse, w and z stay
\* within the modulus and x * w = -m and x * z = n modulo y.
LoopRight ==
  LET odd == query.x % 2 = 1 \/ query.y % 2 = 1
  IN  /\ odd => /\ buf.n % 2 = 1
                /\ buf.m * buf.n < 2 ^ (IF buf.t < 0 THEN 0 ELSE buf.t)
                /\ Gcd[buf.m, buf.n] = Gcd[query.x, query.y]
      /\ query.op = "modinv" =>
           /\ buf.w <= query.y /\ buf.z <= query.y
           /\ (query.x * buf.w + buf.m) % query.y = 0
           /\ (query.x * buf.z - buf.n) % query.y = 0

\* The loop invariant holds whatever the proxies made of the comparisons, and
\* the functions keep their promises.
InversesRight ==
  /\ buf # Unset => LoopRight
  /\ answer # Unset =>
       IF query.op = "modinv"
       THEN Gcd[query.x, query.y] = 1 => bignum_modinv(query.x, query.y, answer[1])
       ELSE answer[1] = bignum_coprime(query.x, query.y)
=============================================================================

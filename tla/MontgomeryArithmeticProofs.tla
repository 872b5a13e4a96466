---------------------- MODULE MontgomeryArithmeticProofs ----------------------
(***************************************************************************)
(* Proofs about MontgomeryArithmetic, for every word of two bits or more,  *)
(* every length and odd modulus, all operands: what the passes of a loop   *)
(* keep (PassesKeepBelow), what a row of reduction does to the number it   *)
(* is taken from (OneRow) and hence several of them, what the words of a   *)
(* negated inverse leave (Leaves) and, for the constants, the bounds that  *)
(* each estimate, doubling and shift leaves (AmontifiedRight).  The facts  *)
(* about words and powers are those of MontgomeryProofs.                   *)
(***************************************************************************)
EXTENDS MontgomeryProofs, MontgomeryArithmetic

-----------------------------------------------------------------------------
(* Passes.                                                                  *)

\* What every pass keeps holds of the state after n passes.
LEMMA PassesKeepBelow ==
  ASSUME NEW S, NEW n \in Nat, NEW f, \A jj \in 0 .. (n - 1) : f[jj] \in [S -> S],
         NEW s \in S, NEW J, s \in J[0],
         \A jj \in 0 .. (n - 1) : \A y \in S : y \in J[jj] => f[jj][y] \in J[jj + 1]
  PROVE  Passes(n, f, s) \in S /\ Passes(n, f, s) \in J[n]
<1> DEFINE h0 == [jj \in Nat |-> IF jj < n THEN f[jj] ELSE [y \in S |-> y]]
           body(u) == [jj \in 0 .. n |-> IF jj = 0 THEN s ELSE f[jj - 1][u[jj - 1]]]
           t == CHOOSE u : u = body(u)
<1>1. h0 \in [Nat -> [S -> S]]
  <2>1. ASSUME NEW jj \in Nat PROVE h0[jj] \in [S -> S]
    <3>1. CASE jj < n
      <4>1. jj \in 0 .. (n - 1)
        BY <3>1
      <4>2. QED
        BY <3>1, <4>1
    <3>2. CASE ~(jj < n)
      BY <3>2
    <3>3. QED
      BY <3>1, <3>2
  <2>2. h0 = [jj \in Nat |-> h0[jj]]
    OBVIOUS
  <2> HIDE DEF h0
  <2>3. QED
    BY <2>1, <2>2
<1>2. \E g : Follows(g, s, h0, S)
  <2> HIDE DEF h0
  <2>1. QED
    BY <1>1, RecExistsIn
<1>3. PICK g : Follows(g, s, h0, S)
  BY <1>2
<1>4. g \in [Nat -> S] /\ g[0] = s /\ \A jj \in Nat : g[jj + 1] = h0[jj][g[jj]]
  <2> HIDE DEF h0
  <2>1. QED
    BY <1>3 DEF Follows
<1>5. ASSUME NEW jj \in 0 .. (n - 1) PROVE g[jj + 1] = f[jj][g[jj]]
  <2>1. jj \in Nat /\ jj < n
    OBVIOUS
  <2>2. h0[jj] = f[jj]
    BY <2>1
  <2> HIDE DEF h0
  <2>3. QED
    BY <1>4, <2>1, <2>2
<1> HIDE DEF h0
<1> DEFINE g0 == [jj \in 0 .. n |-> g[jj]]
<1>6. g0 = body(g0)
  <2>1. ASSUME NEW jj \in 0 .. n PROVE g0[jj] = body(g0)[jj]
    <3>1. CASE jj = 0
      BY <1>4, <3>1
    <3>2. CASE jj # 0
      <4>1. jj - 1 \in 0 .. (n - 1) /\ (jj - 1) + 1 = jj /\ jj - 1 \in 0 .. n
        BY <3>2
      <4>2. g[(jj - 1) + 1] = f[jj - 1][g[jj - 1]]
        BY <1>5, <4>1
      <4>3. QED
        BY <3>2, <4>1, <4>2
    <3>3. QED
      BY <3>1, <3>2
  <2>2. g0 = [jj \in 0 .. n |-> g0[jj]] /\ body(g0) = [jj \in 0 .. n |-> body(g0)[jj]]
    OBVIOUS
  <2> HIDE DEF body, g0
  <2>3. QED
    BY <2>1, <2>2
<1>7. t = body(t)
  <2> HIDE DEF body, g0
  <2>1. QED
    BY <1>6
<1>8. Passes(n, f, s) = t[n]
  BY DEF Passes
<1> HIDE DEF t, g0
<1>9. t[0] = s /\ \A jj \in 0 .. (n - 1) : t[jj + 1] = f[jj][t[jj]]
  <2>1. ASSUME NEW jj \in 0 .. (n - 1) PROVE t[jj + 1] = f[jj][t[jj]]
    <3>1. jj + 1 \in 0 .. n /\ jj + 1 # 0 /\ (jj + 1) - 1 = jj
      OBVIOUS
    <3>2. t[jj + 1] = f[(jj + 1) - 1][t[(jj + 1) - 1]]
      BY <1>7, <3>1
    <3>3. QED
      BY <3>1, <3>2
  <2>2. t[0] = s
    <3>1. 0 \in 0 .. n
      OBVIOUS
    <3>2. QED
      BY <1>7, <3>1
  <2>3. QED
    BY <2>1, <2>2
<1> HIDE DEF body
<1> DEFINE T == {jj \in Nat : jj <= n => t[jj] \in S /\ t[jj] \in J[jj]}
<1>10. 0 \in T
  BY <1>9
<1>11. ASSUME NEW jj \in T PROVE jj + 1 \in T
  <2>1. SUFFICES ASSUME jj + 1 <= n PROVE t[jj + 1] \in S /\ t[jj + 1] \in J[jj + 1]
    OBVIOUS
  <2>2. jj \in 0 .. (n - 1) /\ t[jj] \in S /\ t[jj] \in J[jj]
    BY <2>1
  <2>3. t[jj + 1] = f[jj][t[jj]] /\ f[jj] \in [S -> S]
    BY <1>9, <2>2
  <2>4. f[jj][t[jj]] \in S /\ f[jj][t[jj]] \in J[jj + 1]
    BY <2>2, <2>3
  <2>5. QED
    BY <2>3, <2>4
<1>12. T = Nat
  <2>1. T \in SUBSET Nat
    OBVIOUS
  <2> HIDE DEF T
  <2>2. QED
    BY <1>10, <1>11, <2>1, InductionOnNat
<1>13. QED
  BY <1>8, <1>12

\* The same where every pass is typed.
LEMMA PassesKeep ==
  ASSUME NEW S, NEW f \in [Nat -> [S -> S]], NEW s \in S, NEW n \in Nat, NEW J, s \in J[0],
         \A jj \in 0 .. (n - 1) : \A y \in S : y \in J[jj] => f[jj][y] \in J[jj + 1]
  PROVE  Passes(n, f, s) \in S /\ Passes(n, f, s) \in J[n]
<1>1. \A jj \in 0 .. (n - 1) : f[jj] \in [S -> S]
  OBVIOUS
<1>2. QED
  BY <1>1, PassesKeepBelow

\* The halves of a number at word k.
LEMMA LowHigh ==
  ASSUME NEW k \in Nat, NEW v \in Int
  PROVE  /\ Low(k, v) \in Int /\ 0 <= Low(k, v) /\ Low(k, v) < Pow[k] /\ High(k, v) \in Int
         /\ v = Low(k, v) + Pow[k] * High(k, v)
<1> DEFINE P == Pow[k]
<1>1. P \in Nat /\ P > 0
  BY PowPositive
<1> HIDE DEF P
<1>2. /\ v % P \in Int /\ 0 <= v % P /\ v % P < P /\ v \div P \in Int
      /\ v = P * (v \div P) + (v % P)
  BY <1>1, DivMod
<1>3. P * (v \div P) \in Int
  BY <1>1, <1>2
<1>4. v = (v % P) + P * (v \div P)
  BY <1>2, <1>3
<1>5. QED
  BY <1>2, <1>4 DEF Low, High, P

\* They are unique.
LEMMA LowHighAre ==
  ASSUME NEW k \in Nat, NEW r \in Int, 0 <= r, r < Pow[k], NEW q \in Int, NEW v, v = r + Pow[k] * q
  PROVE  Low(k, v) = r /\ High(k, v) = q
<1>1. Pow[k] \in Nat /\ Pow[k] > 0
  BY PowPositive
<1>2. r \in 0 .. (Pow[k] - 1) /\ v = Pow[k] * q + r
  BY <1>1
<1>3. QED
  BY <1>1, <1>2, DivUnique DEF Low, High

\* The part above word k of a number below q times its weight.
LEMMA HighBelow ==
  ASSUME NEW k \in Nat, NEW v \in Int, 0 <= v, NEW q \in Int, v < Pow[k] * q
  PROVE  High(k, v) \in Int /\ 0 <= High(k, v) /\ High(k, v) < q
<1> DEFINE u == High(k, v)
           l == Low(k, v)
           P == Pow[k]
<1>0. P \in Nat /\ P > 0
  BY PowPositive
<1>1. l \in Int /\ 0 <= l /\ l < P /\ u \in Int /\ v = l + P * u /\ P \in Nat /\ P > 0 /\ v < P * q
  BY <1>0, LowHigh
<1> HIDE DEF u, l, P
<1>2. u >= 0
  <2>1. SUFFICES ASSUME u <= 0 - 1 PROVE FALSE
    BY <1>1
  <2>2. P * u <= P * (0 - 1) /\ P * (0 - 1) = 0 - P /\ P * u \in Int
    BY <1>1, <2>1
  <2>3. QED
    BY <1>1, <2>2
<1>3. u < q
  <2>1. SUFFICES ASSUME u >= q PROVE FALSE
    BY <1>1
  <2>2. P * u >= P * q /\ P * u \in Int /\ P * q \in Int
    BY <1>1, <2>1
  <2>3. QED
    BY <1>1, <2>2
<1>4. QED
  BY <1>1, <1>2, <1>3 DEF u

\* Natural numbers have natural halves.
LEMMA NaturalHalves ==
  ASSUME NEW v \in Nat
  PROVE  /\ Lo(v) \in Nat /\ Lo(v) < B /\ Hi(v) \in Nat /\ v = Lo(v) + B * Hi(v)
         /\ \A k \in Nat : Low(k, v) \in Nat /\ High(k, v) \in Nat
<1>1. B \in Nat /\ B >= 2
  BY BaseAssumption
<1>2. Lo(v) \in Int /\ 0 <= Lo(v) /\ Lo(v) < B /\ Hi(v) \in Int /\ v = Lo(v) + B * Hi(v)
  BY WordHalves
<1>3. Hi(v) >= 0
  BY <1>1 DEF Hi
<1>4. ASSUME NEW k \in Nat PROVE Low(k, v) \in Nat /\ High(k, v) \in Nat
  <2> DEFINE P == Pow[k]
  <2>1. P \in Nat /\ P > 0
    BY PowPositive
  <2> HIDE DEF P
  <2>2. Low(k, v) \in Nat
    BY LowHigh
  <2>3. v \div P >= 0 /\ v \div P \in Int
    BY <2>1
  <2>4. High(k, v) \in Nat
    BY <2>3 DEF High, P
  <2>5. QED
    BY <2>2, <2>4
<1>5. QED
  BY <1>2, <1>3, <1>4

\* The negated inverse of the lowest word of an odd number exists.
LEMMA Inverse1Right ==
  ASSUME NEW n \in Nat, n % 2 = 1
  PROVE  Inverse1(n) \in Digit /\ \E g \in Int : Lo(n) * Inverse1(n) + 1 = B * g
<1>0. /\ B \in Nat /\ B >= 2 /\ W \in Nat /\ W >= 1 /\ B = TwoTo[W] /\ IsPow2(TwoTo)
      /\ \E r \in Int : B = 2 * r
  <2>1. B \in Nat /\ B >= 2 /\ W \in Nat /\ W >= 1 /\ B = TwoTo[W]
    BY BaseAssumption, WordBitsAssumption
  <2>2. IsPow2(TwoTo)
    BY TwoToFacts DEF IsPow2
  <2>3. W - 1 \in Nat /\ (W - 1) + 1 = W
    BY <2>1
  <2>4. TwoTo[(W - 1) + 1] = 2 * TwoTo[W - 1] /\ TwoTo[W - 1] \in Int
    BY <2>3, TwoToFacts
  <2>5. QED
    BY <2>1, <2>2, <2>3, <2>4
<1> DEFINE l == Lo(n)
<1>1. l \in Nat /\ l < B /\ n = l + B * Hi(n) /\ Hi(n) \in Nat
  BY NaturalHalves
<1>2. l % 2 = 1
  <2>1. PICK r \in Int : B = 2 * r
    BY <1>0
  <2> DEFINE hn == Hi(n)
             e == r * hn
  <2>2. hn \in Int /\ B * hn = 2 * e /\ e \in Int
    BY <1>1, <2>1
  <2> HIDE DEF hn, e, l
  <2>3. l = n + 2 * (0 - e)
    BY <1>1, <2>2 DEF hn
  <2>4. QED
    BY <1>1, <2>2, <2>3, ModShift
<1> HIDE DEF l
<1>3. \E u \in 0 .. (B - 1) : \E g \in Int : 1 + u * l = B * g
  <2>1. HasMultiplier(1, l, TwoTo[W])
    <3>1. 1 \in Int
      OBVIOUS
    <3>2. QED
      BY <1>0, <1>1, <1>2, <3>1, OddMultiplier
  <2>2. QED
    BY <1>0, <2>1 DEF HasMultiplier
<1>4. PICK u \in 0 .. (B - 1), g \in Int : 1 + u * l = B * g
  BY <1>3
<1>5. u \in Digit /\ word_negmodinv(l, u)
  <2>1. l * u + 1 = B * g + 0 /\ l * u + 1 \in Int
    BY <1>0, <1>1, <1>4
  <2>2. (B * g + 0) % B = 0
    <3>1. B \in Nat /\ B > 0 /\ 0 \in 0 .. (B - 1)
      BY <1>0
    <3>2. QED
      BY <1>4, <3>1, DivUnique
  <2>3. QED
    BY <1>4, <2>1, <2>2 DEF word_negmodinv, Digit
<1> DEFINE rw == Inverse1(n)
<1>6. rw \in Digit /\ word_negmodinv(l, rw)
  BY <1>5 DEF Inverse1, l
<1> HIDE DEF rw
<1>7. \E e \in Int : l * rw + 1 = B * e
  <2> DEFINE p == l * rw + 1
             e == p \div B
  <2>1. rw \in Nat /\ p \in Int /\ p % B = 0
    BY <1>0, <1>1, <1>6 DEF word_negmodinv, Digit
  <2> HIDE DEF p
  <2>2. p = B * e + (p % B) /\ e \in Int
    BY <1>0, <2>1, DivMod
  <2> HIDE DEF e
  <2>3. p = B * e
    <3>1. B * e \in Int
      BY <1>0, <2>2
    <3>2. QED
      BY <2>1, <2>2, <3>1
  <2>4. QED
    BY <2>2, <2>3 DEF p
<1>8. QED
  BY <1>6, <1>7 DEF rw, l

\* The multiple of the modulus that clears the lowest word.
Cleared(u, q, n) == \E g \in Int : u + q * n = B * g

\* The multiplier that the rows use.
LEMMA MultiplierClears ==
  ASSUME NEW n \in Nat, n % 2 = 1, NEW u \in Int
  PROVE  LET q == Lo(u * Inverse1(n))
         IN  q \in Int /\ 0 <= q /\ q < B /\ Cleared(u, q, n)
<1> DEFINE rw == Inverse1(n)
           p == u * rw
           q == Lo(p)
           l == Lo(n)
           hn == Hi(n)
<1>0. B \in Nat /\ B >= 2
  BY BaseAssumption
<1>1. rw \in Digit /\ \E g \in Int : l * rw + 1 = B * g
  BY Inverse1Right
<1>2. PICK g \in Int : l * rw + 1 = B * g
  BY <1>1
<1>3. rw \in Int /\ p \in Int /\ n = l + B * hn /\ l \in Int /\ hn \in Int
  <2>1. n = l + B * hn /\ l \in Int /\ hn \in Int
    BY NaturalHalves
  <2>2. rw \in Int
    BY <1>0, <1>1 DEF Digit
  <2> HIDE DEF rw, l, hn
  <2>3. QED
    BY <2>1, <2>2
<1> HIDE DEF rw, l, hn
<1>4. q \in Int /\ 0 <= q /\ q < B /\ Congruent(q, p, B)
  <2> HIDE DEF p
  <2>1. QED
    BY <1>3, WordHalves, LoCongruent
<1>5. PICK e \in Int : q = p + B * e
  BY <1>4 DEF Congruent
<1> HIDE DEF q
<1> DEFINE s == u * g + p * hn + e * n
<1>6. s \in Int
  BY <1>2, <1>3, <1>5
<1>7. u + q * n = B * s
  <2>1. q * n = p * n + (B * e) * n /\ (B * e) * n = B * (e * n)
    BY <1>0, <1>3, <1>5
  <2>2. p * n = p * l + B * (p * hn)
    <3>1. p * n = p * l + p * (B * hn)
      BY <1>0, <1>3
    <3>2. p * (B * hn) = B * (p * hn)
      BY <1>0, <1>3
    <3>3. QED
      BY <3>1, <3>2
  <2>3. u + p * l = B * (u * g)
    <3>1. p * l = u * (l * rw) /\ l * rw \in Int
      BY <1>3
    <3>2. u + u * (l * rw) = u * (l * rw + 1)
      BY <3>1
    <3>3. u * (B * g) = B * (u * g)
      BY <1>0, <1>2
    <3>4. QED
      BY <1>2, <3>1, <3>2, <3>3
  <2>4. B * s = B * (u * g) + B * (p * hn) + B * (e * n)
    BY <1>0, <1>2, <1>3, <1>5
  <2>5. p * l \in Int /\ B * (p * hn) \in Int /\ B * (e * n) \in Int /\ B * (u * g) \in Int
    BY <1>0, <1>2, <1>3, <1>5
  <2> HIDE DEF p, s
  <2>6. QED
    BY <2>1, <2>2, <2>3, <2>4, <2>5
<1> HIDE DEF s
<1>8. Cleared(u, q, n)
  BY <1>6, <1>7 DEF Cleared
<1>9. QED
  BY <1>4, <1>8 DEF q, p, rw

\* What is cleared is a whole number of words.
LEMMA ClearedIs ==
  ASSUME NEW n \in Int, NEW u \in Int, NEW q \in Int, Cleared(u, q, n)
  PROVE  (u + q * n) \div B \in Int /\ u + q * n = B * ((u + q * n) \div B)
<1>0. B \in Nat /\ B > 0
  BY BaseAssumption
<1>1. PICK g \in Int : u + q * n = B * g
  BY DEF Cleared
<1> DEFINE v == u + q * n
<1>2. v = B * g + 0 /\ 0 \in 0 .. (B - 1)
  BY <1>0, <1>1
<1> HIDE DEF v
<1>3. (B * g + 0) \div B = g
  BY <1>0, <1>2, DivUnique
<1>4. v \div B = g
  BY <1>2, <1>3
<1>5. QED
  BY <1>1, <1>4 DEF v

\* The words of a number from the lowest up.
LEMMA DigitInIs ==
  ASSUME NEW x \in Nat, NEW jj \in Nat
  PROVE  /\ DigitIn(x, jj) \in Nat /\ DigitIn(x, jj) < B
         /\ Low(jj + 1, x) = Low(jj, x) + Pow[jj] * DigitIn(x, jj)
<1> DEFINE P == Pow[jj]
           l == Low(jj, x)
           u == High(jj, x)
           dl == Lo(u)
           du == Hi(u)
<1>0. B \in Nat /\ B >= 2 /\ P \in Nat /\ P > 0 /\ Pow[jj + 1] = B * P /\ jj + 1 \in Nat
  BY BaseAssumption, PowFacts, PowPositive
<1>1. l \in Int /\ 0 <= l /\ l < P /\ u \in Nat /\ x = l + P * u
  BY LowHigh, NaturalHalves
<1>2. DigitIn(x, jj) = dl
  BY DEF DigitIn, High, Lo
<1>3. dl \in Nat /\ dl < B /\ du \in Nat /\ u = dl + B * du
  <2> HIDE DEF u
  <2>1. QED
    BY <1>1, NaturalHalves
<1> DEFINE r == l + P * dl
<1> HIDE DEF dl, du, u, l, P
<1>4. r \in Int /\ 0 <= r /\ r < B * P
  <2>1. P * dl <= P * (B - 1) /\ P * (B - 1) = B * P - P /\ P * dl \in Int /\ 0 <= P * dl
    BY <1>0, <1>3
  <2>2. B * P \in Int
    BY <1>0
  <2>3. QED
    BY <1>0, <1>1, <2>1, <2>2
<1>5. x = r + (B * P) * du
  <2>1. P * u = P * dl + (B * P) * du
    BY <1>0, <1>3
  <2>2. P * dl \in Int /\ (B * P) * du \in Int
    BY <1>0, <1>3
  <2>3. QED
    BY <1>1, <2>1, <2>2
<1> HIDE DEF r
<1>6. Low(jj + 1, x) = r
  <2>1. r < Pow[jj + 1] /\ x = r + Pow[jj + 1] * du /\ du \in Int
    BY <1>0, <1>3, <1>4, <1>5
  <2>2. QED
    BY <1>0, <1>4, <2>1, LowHighAre
<1>7. QED
  BY <1>2, <1>3, <1>6 DEF r, P, l

-----------------------------------------------------------------------------
(* Rows: the window and the carry words are one number. *)

\* The number that a window with its carry words holds.
Wide(k, s) == s.z + Pow[k] * (s.c0 + B * s.c1)

\* Its shape.
InWindow(k, s) == s \in Windows /\ s.z < Pow[k]

\* A row of multiplication loses nothing: two carry words are enough.
LEMMA MaddRowRight ==
  ASSUME NEW k \in Nat, NEW s, InWindow(k, s), NEW dw \in Nat, NEW y \in Nat
  PROVE  /\ InWindow(k, MaddRow(k, s, dw, y))
         /\ Wide(k, MaddRow(k, s, dw, y)) = s.z + Pow[k] * s.c0 + dw * y
<1> DEFINE P == Pow[k]
           v == s.z + dw * y
           t == High(k, v)
           l == Low(k, v)
           top == s.c0 + t
           e0 == Lo(top)
           e1 == Hi(top)
<1>0. B \in Nat /\ P \in Nat
  BY BaseAssumption, PowPositive
<1>1. s.z \in Nat /\ s.c0 \in Nat
  BY DEF InWindow, Windows
<1>2. v \in Nat
  BY <1>1
<1>3. l \in Nat /\ l < P /\ t \in Nat /\ v = l + P * t
  <2> HIDE DEF v
  <2>1. l \in Nat /\ t \in Nat
    BY <1>2, NaturalHalves
  <2>2. v \in Int
    BY <1>2
  <2>3. l < P /\ v = l + P * t
    BY <2>2, LowHigh
  <2>4. QED
    BY <2>1, <2>3
<1>4. top \in Nat
  BY <1>1, <1>3
<1>5. e0 \in Nat /\ e1 \in Nat /\ top = e0 + B * e1
  <2> HIDE DEF top
  <2>1. QED
    BY <1>4, NaturalHalves
<1>6. MaddRow(k, s, dw, y) = [z |-> l, c0 |-> e0, c1 |-> e1]
  BY DEF MaddRow
<1> HIDE DEF e0, e1, top, t, l, v, P
<1>7. InWindow(k, MaddRow(k, s, dw, y))
  BY <1>3, <1>5, <1>6 DEF InWindow, Windows, P
<1>8. l + P * (e0 + B * e1) = s.z + P * s.c0 + dw * y
  <2>1. e0 + B * e1 = s.c0 + t
    BY <1>5 DEF top
  <2>2. P * (s.c0 + t) = P * s.c0 + P * t /\ P * s.c0 \in Int /\ P * t \in Int
    BY <1>0, <1>1, <1>3
  <2>3. l + P * t = s.z + dw * y /\ dw * y \in Int
    BY <1>3 DEF v
  <2>4. P * (e0 + B * e1) = P * s.c0 + P * t
    BY <2>1, <2>2
  <2>5. l + P * (e0 + B * e1) = P * s.c0 + (l + P * t)
    BY <1>3, <2>2, <2>4
  <2>6. QED
    BY <1>1, <2>2, <2>3, <2>5
<1>9. QED
  BY <1>6, <1>7, <1>8 DEF Wide, P

\* What a row of reduction makes of a number: a word off the bottom, by a
\* multiple of the modulus.
OneRow(u, v, n) == \E q \in 0 .. (B - 1) : B * v = u + q * n

\* A row of reduction loses nothing of a number that its bound leaves one bit
\* above the window.
LEMMA MontRowRight ==
  ASSUME NEW k \in Nat, k > 0, NEW s, InWindow(k, s), NEW n \in Nat, n % 2 = 1, n < Pow[k],
         Wide(k, s) + (B - 1) * n < 2 * (B * Pow[k])
  PROVE  /\ InWindow(k, MontRow(k, s, n)) /\ MontRow(k, s, n).c0 \in {0, 1} /\ MontRow(k, s, n).c1 = 0
         /\ OneRow(Wide(k, s), Wide(k, MontRow(k, s, n)), n)
<1> DEFINE P == Pow[k - 1]
           q == Lo(s.z * Inverse1(n))
           p == s.z + q * n
           v == p \div B
           t == High(k - 1, v)
           l == Low(k - 1, v)
           top == t + s.c0
           e0 == Lo(top)
           e1 == Hi(top)
           r == l + P * e0
           o == s.c1 + e1
<1>0. /\ B \in Nat /\ B >= 2 /\ P \in Nat /\ P > 0 /\ Pow[k] = B * P /\ k - 1 \in Nat
  <2>1. k - 1 \in Nat /\ (k - 1) + 1 = k
    OBVIOUS
  <2>2. Pow[(k - 1) + 1] = B * Pow[k - 1]
    BY <2>1, PowFacts
  <2>3. Pow[k - 1] \in Nat /\ Pow[k - 1] >= 1
    BY <2>1, PowPositive
  <2>4. QED
    BY <2>1, <2>2, <2>3, BaseAssumption
<1>1. s.z \in Nat /\ s.c0 \in Nat /\ s.c1 \in Nat /\ s.z < B * P /\ n < B * P
  BY <1>0 DEF InWindow, Windows
<1>2. q \in Int /\ 0 <= q /\ q < B /\ v \in Int /\ p = B * v
  <2>1. s.z \in Int /\ n \in Int
    BY <1>1
  <2>2. q \in Int /\ 0 <= q /\ q < B /\ Cleared(s.z, q, n)
    BY <2>1, MultiplierClears
  <2> HIDE DEF q
  <2>3. QED
    BY <2>1, <2>2, ClearedIs
<1>3. MontRow(k, s, n) = [z |-> r, c0 |-> Lo(o), c1 |-> 0]
  BY DEF MontRow
<1> HIDE DEF P, q
<1>4. q * n \in Nat /\ p \in Int /\ 0 <= p
  BY <1>1, <1>2
<1>5. v \in Nat
  <2> HIDE DEF p, v
  <2>1. SUFFICES ASSUME v <= 0 - 1 PROVE FALSE
    BY <1>2
  <2>2. B * v <= B * (0 - 1) /\ B * (0 - 1) = 0 - B /\ B * v \in Int
    BY <1>0, <1>2, <2>1
  <2>3. QED
    BY <1>0, <1>2, <1>4, <2>2
<1>6. l \in Nat /\ l < P /\ t \in Nat /\ v = l + P * t
  <2> HIDE DEF v
  <2>1. l \in Nat /\ t \in Nat
    BY <1>0, <1>5, NaturalHalves
  <2>2. v \in Int
    BY <1>5
  <2>3. l < Pow[k - 1] /\ v = l + Pow[k - 1] * t
    BY <1>0, <2>2, LowHigh
  <2>4. QED
    BY <2>1, <2>3 DEF P
<1>7. top \in Nat
  BY <1>1, <1>6
<1>8. e0 \in Nat /\ e0 < B /\ e1 \in Nat /\ top = e0 + B * e1
  <2> HIDE DEF top
  <2>1. QED
    BY <1>7, NaturalHalves
<1>9. Wide(k, s) = s.z + (B * P) * (s.c0 + B * s.c1)
  BY <1>0 DEF Wide
<1>10. B * (r + (B * P) * o) = Wide(k, s) + q * n
  <2> HIDE DEF p, v, t, l, top, e0, e1
  <2>1. r + (B * P) * o = l + P * (e0 + B * e1) + (B * P) * s.c1
    BY <1>0, <1>1, <1>6, <1>8
  <2>2. l + P * (e0 + B * e1) = v + P * s.c0
    <3>1. e0 + B * e1 = t + s.c0
      BY <1>8 DEF top
    <3>2. P * (t + s.c0) = P * t + P * s.c0 /\ P * t \in Int /\ P * s.c0 \in Int
      BY <1>0, <1>1, <1>6
    <3>3. QED
      BY <1>6, <3>1, <3>2
  <2>3. B * (v + P * s.c0 + (B * P) * s.c1) = B * v + (B * P) * (s.c0 + B * s.c1)
    BY <1>0, <1>1, <1>5
  <2>4. B * v = s.z + q * n
    BY <1>2 DEF p
  <2>5. v + P * s.c0 \in Int /\ (B * P) * s.c1 \in Int /\ (B * P) * (s.c0 + B * s.c1) \in Int
    BY <1>0, <1>1, <1>5
  <2> HIDE DEF r, o
  <2>6. r + (B * P) * o = v + P * s.c0 + (B * P) * s.c1
    BY <2>1, <2>2
  <2>7. QED
    BY <1>1, <1>4, <1>9, <2>3, <2>4, <2>5, <2>6
<1>11. r \in Nat /\ r < B * P
  <2> HIDE DEF l, e0, v, t, top
  <2>1. P * e0 <= P * (B - 1) /\ P * (B - 1) = B * P - P /\ P * e0 \in Nat /\ B * P \in Int
    BY <1>0, <1>8
  <2>2. QED
    BY <1>0, <1>6, <2>1
<1>12. o \in Nat
  BY <1>1, <1>8
<1> HIDE DEF r, o
<1>13. o <= 1
  <2>1. SUFFICES ASSUME o >= 2 PROVE FALSE
    BY <1>12
  <2> DEFINE Q == B * P
  <2>2. Q \in Nat
    BY <1>0
  <2>3. q * n <= (B - 1) * n /\ (B - 1) * n \in Int
    BY <1>0, <1>1, <1>2
  <2>4. Wide(k, s) \in Int
    <3>1. s.c0 + B * s.c1 \in Int
      BY <1>0, <1>1
    <3> HIDE DEF Q
    <3>2. Q * (s.c0 + B * s.c1) \in Int
      BY <2>2, <3>1
    <3>3. QED
      BY <1>1, <1>9, <3>2 DEF Q
  <2>5. Wide(k, s) + q * n < 2 * (B * Q)
    <3>1. Wide(k, s) + (B - 1) * n < 2 * (B * Q)
      BY <1>0
    <3>2. B * Q \in Int
      BY <1>0, <2>2
    <3> HIDE DEF Q
    <3>3. QED
      BY <1>4, <2>3, <2>4, <3>1, <3>2
  <2> HIDE DEF Q
  <2>6. Q * o >= Q * 2 /\ Q * 2 = 2 * Q /\ Q * o \in Int
    BY <1>12, <2>1, <2>2
  <2>7. r + Q * o >= 2 * Q /\ r + Q * o \in Int
    BY <1>11, <2>2, <2>6
  <2>8. B * (r + Q * o) >= B * (2 * Q) /\ B * (2 * Q) = 2 * (B * Q)
    BY <1>0, <2>2, <2>7
  <2>9. B * (r + Q * o) = Wide(k, s) + q * n
    BY <1>10 DEF Q
  <2>10. B * (r + Q * o) \in Int /\ 2 * (B * Q) \in Int /\ Wide(k, s) + q * n \in Int
    BY <1>0, <1>4, <2>2, <2>4, <2>7
  <2>11. QED
    BY <2>5, <2>8, <2>9, <2>10
<1>14. Lo(o) = o
  <2>1. o \in Int /\ 0 <= o /\ o < B
    BY <1>0, <1>12, <1>13
  <2>2. QED
    BY <2>1, LoSmall
<1> DEFINE s1 == [z |-> r, c0 |-> o, c1 |-> 0]
<1>15. InWindow(k, s1) /\ s1.c0 \in {0, 1} /\ s1.c1 = 0
  BY <1>0, <1>11, <1>12, <1>13 DEF InWindow, Windows
<1>16. Wide(k, s1) = r + (B * P) * o
  <2>1. o + B * 0 = o
    BY <1>0, <1>12
  <2>2. QED
    BY <1>0, <2>1 DEF Wide
<1>17. OneRow(Wide(k, s), Wide(k, s1), n)
  <2>1. q \in 0 .. (B - 1)
    BY <1>0, <1>2
  <2>2. QED
    BY <1>10, <1>16, <2>1 DEF OneRow
<1>18. QED
  BY <1>3, <1>14, <1>15, <1>17

\* A row of reduction of any window is a window.
LEMMA MontRowType ==
  ASSUME NEW k \in Nat, k > 0, NEW s \in Windows, NEW n \in Nat, n % 2 = 1
  PROVE  MontRow(k, s, n) \in Windows /\ Low(k, s.z) \in Nat
<1> DEFINE P == Pow[k - 1]
           q == Lo(s.z * Inverse1(n))
           v == (s.z + q * n) \div B
           l == Low(k - 1, v)
           top == High(k - 1, v) + s.c0
           e0 == Lo(top)
           e1 == Hi(top)
           o == s.c1 + e1
<1>0. B \in Nat /\ B >= 2 /\ k - 1 \in Nat /\ P \in Nat
  <2>1. k - 1 \in Nat
    OBVIOUS
  <2>2. QED
    BY <2>1, BaseAssumption, PowPositive
<1>1. s.z \in Nat /\ s.c0 \in Nat /\ s.c1 \in Nat
  BY DEF Windows
<1>2. q \in Nat
  <2>1. s.z \in Int
    BY <1>1
  <2>2. QED
    BY <2>1, MultiplierClears
<1> HIDE DEF P, q
<1>3. v \in Nat
  <2> DEFINE u == s.z + q * n
  <2>1. u \in Nat
    BY <1>1, <1>2
  <2> HIDE DEF u
  <2>2. u \div B \in Nat
    BY <1>0, <2>1
  <2>3. QED
    BY <2>2 DEF u
<1> HIDE DEF v
<1>4. l \in Nat /\ top \in Nat
  <2>1. High(k - 1, v) \in Nat /\ l \in Nat
    BY <1>0, <1>3, NaturalHalves
  <2>2. QED
    BY <1>1, <2>1
<1> HIDE DEF l, top
<1>5. e0 \in Nat /\ e1 \in Nat
  BY <1>4, NaturalHalves
<1>6. o \in Nat
  BY <1>1, <1>5
<1> HIDE DEF e0, o
<1>7. Lo(o) \in Nat /\ l + P * e0 \in Nat
  <2>1. Lo(o) \in Nat
    BY <1>6, NaturalHalves
  <2>2. P * e0 \in Nat
    BY <1>0, <1>5
  <2>3. QED
    BY <1>4, <2>1, <2>2
<1>8. MontRow(k, s, n) = [z |-> l + P * e0, c0 |-> Lo(o), c1 |-> 0]
  BY DEF MontRow, l, P, e0, o, top, v, q
<1>9. QED
  BY <1>1, <1>7, <1>8, NaturalHalves DEF Windows

\* What jj rows of reduction make of a number u.
RowsOf(jj, v, u, n) == \E q \in 0 .. (Pow[jj] - 1) : Pow[jj] * v = u + q * n

\* One more, of a number to which g was added in between.
LEMMA OneMoreRow ==
  ASSUME NEW jj \in Nat, NEW v \in Int, NEW u \in Int, NEW n \in Int, NEW v1 \in Int, NEW g \in Int,
         RowsOf(jj, v, u, n), OneRow(v + g, v1, n)
  PROVE  RowsOf(jj + 1, v1, u + Pow[jj] * g, n)
<1> DEFINE P == Pow[jj]
<1>0. B \in Nat /\ P \in Nat /\ Pow[jj + 1] = B * P /\ P > 0
  BY BaseAssumption, PowFacts, PowPositive
<1>1. PICK q \in 0 .. (P - 1) : P * v = u + q * n
  BY DEF RowsOf
<1>2. PICK q1 \in 0 .. (B - 1) : B * v1 = v + g + q1 * n
  BY DEF OneRow
<1> HIDE DEF P
<1> DEFINE r == q + P * q1
<1>3. r \in 0 .. (B * P - 1)
  <2>1. P * q1 <= P * (B - 1) /\ P * (B - 1) = B * P - P /\ P * q1 \in Nat /\ B * P \in Nat
    BY <1>0, <1>2
  <2>2. QED
    BY <1>0, <1>1, <2>1
<1>4. (B * P) * v1 = u + P * g + r * n
  <2>1. (B * P) * v1 = P * (v + g + q1 * n)
    <3>1. (B * P) * v1 = P * (B * v1)
      BY <1>0
    <3>2. QED
      BY <1>2, <3>1
  <2>2. P * (v + g + q1 * n) = P * v + P * g + P * (q1 * n)
    BY <1>0, <1>2
  <2>3. r * n = q * n + P * (q1 * n)
    BY <1>0, <1>1, <1>2
  <2>4. q * n \in Int /\ P * (q1 * n) \in Int /\ P * g \in Int
    BY <1>0, <1>1, <1>2
  <2> HIDE DEF r
  <2>5. QED
    BY <1>1, <2>1, <2>2, <2>3, <2>4
<1> HIDE DEF r
<1>5. QED
  BY <1>0, <1>3, <1>4 DEF RowsOf, P

\* After jj rows of a multiplication.
AfterRows(jj, k, s, x, y, n) ==
  /\ InWindow(k, s) /\ s.c0 \in {0, 1} /\ s.c1 = 0
  /\ Wide(k, s) < y + n /\ RowsOf(jj, Wide(k, s), Low(jj, x) * y, n)

\* The words of a window make an integer.
LEMMA WideType ==
  ASSUME NEW k \in Nat, NEW s \in Windows
  PROVE  Wide(k, s) \in Nat
<1> DEFINE P == Pow[k]
<1>1. s.z \in Nat /\ s.c0 \in Nat /\ s.c1 \in Nat /\ B \in Nat /\ P \in Nat
  BY BaseAssumption, PowPositive DEF Windows
<1> HIDE DEF P
<1>2. B * s.c1 \in Nat
  BY <1>1
<1>3. s.c0 + B * s.c1 \in Nat
  BY <1>1, <1>2
<1>4. P * (s.c0 + B * s.c1) \in Nat
  BY <1>1, <1>3
<1>5. QED
  BY <1>1, <1>4 DEF Wide, P

\* The two rows of one digit.
LEMMA RowsKeep ==
  ASSUME NEW k \in Nat, k > 0, NEW x \in Nat, NEW y \in Nat, y < Pow[k],
         NEW n \in Nat, n % 2 = 1, n < Pow[k], NEW jj \in Nat, NEW s, AfterRows(jj, k, s, x, y, n)
  PROVE  AfterRows(jj + 1, k, MontRow(k, MaddRow(k, s, DigitIn(x, jj), y), n), x, y, n)
<1> DEFINE P == Pow[k]
           dw == DigitIn(x, jj)
           s1 == MaddRow(k, s, dw, y)
           s2 == MontRow(k, s1, n)
           v == Wide(k, s)
           v1 == Wide(k, s1)
           v2 == Wide(k, s2)
<1>0. B \in Nat /\ B >= 2 /\ P \in Nat /\ P > 0
  BY BaseAssumption, PowPositive
<1>1. /\ InWindow(k, s) /\ s.c0 \in {0, 1} /\ s.c1 = 0 /\ v < y + n /\ s \in Windows
      /\ RowsOf(jj, v, Low(jj, x) * y, n)
  BY DEF AfterRows, InWindow
<1>2. dw \in Nat /\ dw < B /\ Low(jj + 1, x) = Low(jj, x) + Pow[jj] * dw
  BY DigitInIs
<1> HIDE DEF dw
<1>3. InWindow(k, s1) /\ v1 = s.z + P * s.c0 + dw * y
  BY <1>1, <1>2, MaddRowRight
<1>4. v1 = v + dw * y /\ v \in Nat /\ v1 \in Nat /\ s1 \in Windows
  <2>1. s.c0 + B * s.c1 = s.c0
    BY <1>0, <1>1
  <2>2. v = s.z + P * s.c0
    BY <2>1 DEF Wide
  <2>3. s1 \in Windows
    BY <1>3 DEF InWindow
  <2>4. v \in Nat /\ v1 \in Nat
    BY <1>1, <2>3, WideType
  <2>5. QED
    BY <1>3, <2>2, <2>3, <2>4
<1> HIDE DEF s1, v, v1, P
<1>5. v1 + (B - 1) * n < 2 * (B * P)
  <2>1. dw * y <= (B - 1) * y /\ dw * y \in Int /\ (B - 1) * y \in Int
    BY <1>0, <1>2
  <2>2. y <= P - 1 /\ n <= P - 1
    BY <1>0 DEF P
  <2>3. v1 + (B - 1) * n < y + n + (B - 1) * y + (B - 1) * n
    <3>1. (B - 1) * n \in Int
      BY <1>0
    <3>2. QED
      BY <1>1, <1>4, <2>1, <3>1
  <2>4. y + n + (B - 1) * y + (B - 1) * n = B * (y + n)
    BY <1>0
  <2>5. B * (y + n) <= B * (2 * P) /\ B * (2 * P) = 2 * (B * P) /\ B * (y + n) \in Int
    BY <1>0, <2>2
  <2>6. (B - 1) * n \in Int /\ 2 * (B * P) \in Int
    BY <1>0
  <2>7. QED
    BY <1>4, <2>3, <2>4, <2>5, <2>6
<1>6. InWindow(k, s2) /\ s2.c0 \in {0, 1} /\ s2.c1 = 0 /\ OneRow(v1, v2, n)
  BY <1>3, <1>5, MontRowRight DEF v1, P
<1>7. v2 \in Nat
  BY <1>6, WideType DEF InWindow
<1> HIDE DEF s2, v2
<1>8. v2 < y + n
  <2>1. PICK q \in 0 .. (B - 1) : B * v2 = v1 + q * n
    BY <1>6 DEF OneRow
  <2>2. SUFFICES ASSUME v2 >= y + n PROVE FALSE
    BY <1>7
  <2>3. dw * y <= (B - 1) * y /\ dw * y \in Int /\ (B - 1) * y \in Int
    BY <1>0, <1>2
  <2>4. q * n <= (B - 1) * n /\ q * n \in Int /\ (B - 1) * n \in Int
    BY <1>0, <2>1
  <2>5. B * v2 < y + n + (B - 1) * y + (B - 1) * n
    BY <1>1, <1>4, <2>1, <2>3, <2>4
  <2>6. y + n + (B - 1) * y + (B - 1) * n = B * (y + n) /\ B * (y + n) \in Int
    BY <1>0
  <2>7. B * v2 >= B * (y + n) /\ B * v2 \in Int
    BY <1>0, <1>7, <2>2
  <2>8. QED
    BY <2>5, <2>6, <2>7
<1>9. RowsOf(jj + 1, v2, Low(jj + 1, x) * y, n)
  <2> DEFINE u == Low(jj, x) * y
             g == dw * y
             Q == Pow[jj]
             l == Low(jj, x)
  <2>1. l \in Int /\ Q \in Int
    <3>1. l \in Nat
      BY NaturalHalves
    <3>2. Q \in Nat
      BY PowPositive
    <3>3. QED
      BY <3>1, <3>2
  <2>2. u \in Int /\ g \in Int /\ v \in Int /\ v2 \in Int /\ n \in Int
    <3> HIDE DEF l
    <3>1. QED
      BY <1>2, <1>4, <1>7, <2>1 DEF l
  <2>3. RowsOf(jj, v, u, n) /\ OneRow(v + g, v2, n)
    BY <1>1, <1>4, <1>6
  <2>4. RowsOf(jj + 1, v2, u + Q * g, n)
    <3> HIDE DEF u, g
    <3>1. QED
      BY <2>2, <2>3, OneMoreRow
  <2>5. u + Q * g = Low(jj + 1, x) * y
    <3> HIDE DEF l, Q
    <3>1. (l + Q * dw) * y = l * y + Q * (dw * y)
      BY <1>2, <2>1
    <3>2. QED
      BY <1>2, <3>1 DEF l, Q
  <2>6. QED
    BY <2>4, <2>5
<1>10. QED
  BY <1>6, <1>8, <1>9 DEF AfterRows, s2, v2, s1, dw

\* What all rows of a multiplication leave.
AllRowsDone(s, k, x, y, n) ==
  /\ s.z \in Nat /\ s.z < Pow[k] /\ s.c0 \in {0, 1}
  /\ s.z + Pow[k] * s.c0 < y + n
  /\ RowsOf(k, s.z + Pow[k] * s.c0, x * y, n)

\* All rows of a multiplication: less than the sum of a factor and the modulus,
\* so that one word above the window is enough and holds a bit.
LEMMA AllRowsRight ==
  ASSUME NEW k \in Nat, k > 0, NEW x \in Nat, x < Pow[k], NEW y \in Nat, y < Pow[k],
         NEW n \in Nat, n % 2 = 1, n < Pow[k]
  PROVE  AllRowsDone(AllRows(k, x, y, n), k, x, y, n)
<1> DEFINE row(jj, s) == MontRow(k, MaddRow(k, s, DigitIn(x, jj), y), n)
           f == [jj \in Nat |-> [s \in Windows |-> row(jj, s)]]
           J == [jj \in Nat |-> {s \in Windows : AfterRows(jj, k, s, x, y, n)}]
           s0 == Bare(0)
           end == Passes(k, f, s0)
<1>0. B \in Nat /\ B >= 2 /\ Pow[0] = 1
  BY BaseAssumption, PowFacts
<1>1. AllRows(k, x, y, n) = end
  BY DEF AllRows
<1>2. ASSUME NEW jj \in Nat, NEW s \in Windows PROVE row(jj, s) \in Windows
  <2> DEFINE dw == DigitIn(x, jj)
             s1 == MaddRow(k, s, dw, y)
             v == s.z + dw * y
             top == s.c0 + High(k, v)
  <2>1. s.z \in Nat /\ s.c0 \in Nat /\ dw \in Nat
    BY DigitInIs DEF Windows
  <2> HIDE DEF dw
  <2>2. v \in Nat
    BY <2>1
  <2> HIDE DEF v
  <2>3. Low(k, v) \in Nat /\ High(k, v) \in Nat
    BY <2>2, NaturalHalves
  <2>4. top \in Nat
    BY <2>1, <2>3
  <2> HIDE DEF top
  <2>5. Lo(top) \in Nat /\ Hi(top) \in Nat
    BY <2>4, NaturalHalves
  <2>6. s1 \in Windows
    BY <2>3, <2>5 DEF MaddRow, Windows, top, v
  <2> HIDE DEF s1
  <2>7. MontRow(k, s1, n) \in Windows
    BY <2>6, MontRowType
  <2>8. QED
    BY <2>7 DEF s1, dw
<1>3. f \in [Nat -> [Windows -> Windows]]
  <2> HIDE DEF row
  <2>1. QED
    BY <1>2
<1>4. s0 \in Windows /\ s0 \in J[0]
  <2>1. s0 \in Windows /\ s0.z = 0 /\ s0.c0 = 0 /\ s0.c1 = 0
    BY DEF Bare, Windows
  <2> DEFINE P == Pow[k]
  <2>2. P \in Nat /\ P > 0
    BY PowPositive
  <2> HIDE DEF s0, P
  <2>3. Wide(k, s0) = 0
    <3>1. 0 + B * 0 = 0
      BY <1>0
    <3>2. 0 + P * 0 = 0
      BY <2>2
    <3>3. Wide(k, s0) = 0 + P * (0 + B * 0)
      BY <2>1 DEF Wide, P
    <3>4. QED
      BY <3>1, <3>2, <3>3
  <2>4. Low(0, x) = 0
    <3>1. 0 \in Nat /\ x = 0 + Pow[0] * x /\ 0 < Pow[0]
      BY <1>0
    <3>2. QED
      BY <3>1, LowHighAre
  <2>5. RowsOf(0, 0, 0 * y, n)
    <3>1. Pow[0] * 0 = 0 * y + 0 * n /\ 0 \in 0 .. (Pow[0] - 1)
      BY <1>0
    <3>2. QED
      BY <3>1 DEF RowsOf
  <2>6. n > 0
    <3>1. 0 % 2 = 0
      OBVIOUS
    <3>2. QED
      BY <3>1
  <2>7. 0 < y + n
    BY <2>6
  <2>8. InWindow(k, s0)
    BY <2>1, <2>2 DEF InWindow, P
  <2>9. AfterRows(0, k, s0, x, y, n)
    BY <2>1, <2>3, <2>4, <2>5, <2>7, <2>8 DEF AfterRows
  <2>10. QED
    BY <2>1, <2>9
<1>5. \A jj \in 0 .. (k - 1) : \A s \in Windows : s \in J[jj] => f[jj][s] \in J[jj + 1]
  <2> SUFFICES ASSUME NEW jj \in 0 .. (k - 1), NEW s \in Windows, s \in J[jj] PROVE f[jj][s] \in J[jj + 1]
    OBVIOUS
  <2>1. jj \in Nat /\ jj + 1 \in Nat /\ AfterRows(jj, k, s, x, y, n)
    OBVIOUS
  <2>2. AfterRows(jj + 1, k, row(jj, s), x, y, n)
    BY <2>1, RowsKeep
  <2>3. row(jj, s) \in Windows
    BY <1>2, <2>1
  <2> HIDE DEF row
  <2>4. f[jj][s] = row(jj, s)
    BY <2>1
  <2>5. QED
    BY <2>1, <2>2, <2>3, <2>4
<1>6. end \in Windows /\ end \in J[k]
  <2> HIDE DEF f, J, s0
  <2>1. QED
    BY <1>3, <1>4, <1>5, PassesKeep
<1>7. AfterRows(k, k, end, x, y, n)
  <2> HIDE DEF end
  <2>1. QED
    BY <1>6
<1> HIDE DEF end
<1> DEFINE v == Wide(k, end)
<1>8. end.z \in Nat /\ end.z < Pow[k] /\ end.c0 \in {0, 1} /\ end.c1 = 0
      /\ v < y + n /\ RowsOf(k, v, Low(k, x) * y, n)
  BY <1>7 DEF AfterRows, InWindow, Windows
<1>9. v = end.z + Pow[k] * end.c0
  <2>1. end.c0 + B * end.c1 = end.c0
    BY <1>0, <1>8
  <2>2. QED
    BY <2>1 DEF Wide
<1>10. Low(k, x) = x
  <2>1. x = x + Pow[k] * 0 /\ x \in Int /\ 0 <= x
    <3>1. Pow[k] \in Nat
      BY PowPositive
    <3>2. QED
      BY <3>1
  <2>2. 0 \in Int
    OBVIOUS
  <2>3. QED
    BY <2>1, <2>2, LowHighAre
<1> HIDE DEF v
<1>11. RowsOf(k, v, x * y, n)
  BY <1>8, <1>10
<1>12. QED
  BY <1>1, <1>8, <1>9, <1>11 DEF AllRowsDone

-----------------------------------------------------------------------------
(* The subtraction at the end. *)

\* A number of k words is its own lower part.
LEMMA LowSmall ==
  ASSUME NEW k \in Nat, NEW v \in Int, 0 <= v, v < Pow[k]
  PROVE  Low(k, v) = v /\ High(k, v) = 0
<1>1. Pow[k] \in Nat
  BY PowPositive
<1>2. v = v + Pow[k] * 0 /\ 0 \in Int
  BY <1>1
<1>3. QED
  BY <1>2, LowHighAre

\* An odd modulus is positive.
LEMMA OddPositive ==
  ASSUME NEW n \in Nat, n % 2 = 1
  PROVE  n > 0
<1>1. 0 % 2 = 0
  OBVIOUS
<1>2. QED
  BY <1>1

\* A multiple of the modulus more or less does not change a residue.
LEMMA SameClass ==
  ASSUME NEW n \in Nat, n > 0, NEW p \in Int, NEW v \in Int, NEW r \in Int, NEW x \in Int,
         NEW q \in Int, NEW e \in Int, p * v = x + q * n, r = v - e * n
  PROVE  (r * p - x) % n = 0
<1>1. r * p = p * v - (e * p) * n
  OBVIOUS
<1>2. p * v \in Int /\ (e * p) * n \in Int /\ q * n \in Int /\ q - e * p \in Int
  OBVIOUS
<1>3. r * p - x = n * (q - e * p) + 0
  <2>1. n * (q - e * p) = q * n - (e * p) * n
    OBVIOUS
  <2>2. QED
    BY <1>1, <1>2, <2>1
<1>4. 0 \in 0 .. (n - 1)
  OBVIOUS
<1> DEFINE g == q - e * p
<1>5. g \in Int /\ r * p - x = n * g + 0
  BY <1>2, <1>3
<1> HIDE DEF g
<1>6. (n * g + 0) % n = 0
  BY <1>4, <1>5, DivUnique
<1>7. QED
  BY <1>5, <1>6

\* v, less the modulus once or not.
LessOnce(r, v, n) == r = v \/ r = v - n

\* The masked subtraction of an almost reduced result.
LEMMA MaskedRight ==
  ASSUME NEW k \in Nat, NEW n \in Nat, n < Pow[k], NEW s, s.z \in Nat, s.z < Pow[k],
         s.c0 \in {0, 1}, s.z + Pow[k] * s.c0 < Pow[k] + n
  PROVE  LET r == Low(k, s.z - Masked(s.c0, n))
         IN  r \in Nat /\ r < Pow[k] /\ LessOnce(r, s.z + Pow[k] * s.c0, n)
<1> DEFINE P == Pow[k]
<1>1. P \in Nat /\ P > 0
  BY PowPositive
<1>2. CASE s.c0 = 0
  <2>1. Masked(s.c0, n) = 0
    BY <1>2 DEF Masked
  <2>2. Low(k, s.z - 0) = s.z /\ s.z - 0 = s.z
    <3>1. s.z - 0 = s.z
      OBVIOUS
    <3>2. QED
      BY <3>1, LowSmall
  <2>3. s.z + Pow[k] * s.c0 = s.z
    BY <1>1, <1>2
  <2>4. QED
    BY <2>1, <2>2, <2>3 DEF LessOnce
<1>3. CASE s.c0 = 1
  <2> DEFINE r == s.z - n + P
             v == s.z - n
  <2>1. Masked(s.c0, n) = n
    BY <1>3 DEF Masked
  <2>2. s.z + Pow[k] * s.c0 = s.z + P
    BY <1>1, <1>3
  <2>3. r \in Int /\ 0 <= r /\ r < Pow[k] /\ v = r + Pow[k] * (0 - 1)
    BY <1>1, <2>2
  <2>4. r = s.z + P - n
    BY <1>1
  <2> HIDE DEF r, v
  <2>5. Low(k, v) = r
    BY <2>3, LowHighAre
  <2>6. r \in Nat /\ r < Pow[k]
    BY <2>3
  <2>7. LessOnce(r, s.z + Pow[k] * s.c0, n)
    <3> DEFINE V == s.z + Pow[k] * s.c0
    <3>1. V = s.z + P
      BY <2>2
    <3> HIDE DEF V
    <3>2. r = V - n
      BY <1>1, <2>4, <3>1
    <3>3. QED
      BY <3>2 DEF LessOnce, V
  <2>8. Low(k, s.z - Masked(s.c0, n)) = r
    BY <2>1, <2>5 DEF v
  <2>9. QED
    BY <2>6, <2>7, <2>8
<1>4. QED
  BY <1>2, <1>3

\* The subtraction of a fully reduced result.
LEMMA ReducedRight ==
  ASSUME NEW k \in Nat, NEW n \in Nat, n < Pow[k], NEW s, s.z \in Nat, s.z < Pow[k],
         s.c0 \in {0, 1}, s.z + Pow[k] * s.c0 < 2 * n
  PROVE  LET r == Reduced(k, s, n)
         IN  r \in Nat /\ r < n /\ LessOnce(r, s.z + Pow[k] * s.c0, n)
<1> DEFINE P == Pow[k]
<1>1. P \in Nat /\ P > 0
  BY PowPositive
<1>2. CASE s.c0 = 0 /\ s.z < n
  <2>1. Reduced(k, s, n) = s.z
    BY <1>2 DEF Reduced, Bitval
  <2>2. s.z + Pow[k] * s.c0 = s.z
    BY <1>1, <1>2
  <2>3. QED
    BY <1>2, <2>1, <2>2 DEF LessOnce
<1>3. CASE s.c0 = 0 /\ ~(s.z < n)
  <2>1. Reduced(k, s, n) = Low(k, s.z - n)
    BY <1>3 DEF Reduced, Bitval
  <2>2. s.z + Pow[k] * s.c0 = s.z
    BY <1>1, <1>3
  <2>3. s.z - n \in Int /\ 0 <= s.z - n /\ s.z - n < Pow[k] /\ s.z - n < n
    BY <1>1, <1>3, <2>2
  <2>4. Low(k, s.z - n) = s.z - n
    BY <2>3, LowSmall
  <2>5. QED
    BY <2>1, <2>2, <2>3, <2>4 DEF LessOnce
<1>4. CASE s.c0 = 1
  <2> DEFINE r == s.z - n + P
             v == s.z - n
  <2>1. Reduced(k, s, n) = Low(k, v)
    BY <1>4 DEF Reduced, Bitval
  <2>2. s.z + Pow[k] * s.c0 = s.z + P
    BY <1>1, <1>4
  <2>3. r \in Int /\ 0 <= r /\ r < Pow[k] /\ r < n /\ v = r + Pow[k] * (0 - 1)
    BY <1>1, <2>2
  <2>4. r = s.z + P - n
    BY <1>1
  <2> HIDE DEF r, v
  <2>5. Low(k, v) = r
    BY <2>3, LowHighAre
  <2>6. r \in Nat /\ r < n
    BY <2>3
  <2>7. LessOnce(r, s.z + Pow[k] * s.c0, n)
    <3> DEFINE V == s.z + Pow[k] * s.c0
    <3>1. V = s.z + P
      BY <2>2
    <3> HIDE DEF V
    <3>2. r = V - n
      BY <1>1, <2>4, <3>1
    <3>3. QED
      BY <3>2 DEF LessOnce, V
  <2>8. Reduced(k, s, n) = r
    BY <2>1, <2>5
  <2>9. QED
    BY <2>6, <2>7, <2>8
<1>5. QED
  BY <1>2, <1>3, <1>4

\* A result less by the modulus once or not has the same residue.
LEMMA LessOnceRight ==
  ASSUME NEW n \in Nat, n > 0, NEW k \in Nat, NEW v \in Int, NEW r \in Int, NEW x \in Int,
         RowsOf(k, v, x, n), LessOnce(r, v, n)
  PROVE  (r * Pow[k] - x) % n = 0
<1> DEFINE p == Pow[k]
<1>3. p \in Int
  BY PowPositive
<1>4. PICK q \in 0 .. (p - 1) : p * v = x + q * n
  BY DEF RowsOf
<1> HIDE DEF p
<1>1. \E e \in Int : r = v - e * n
  <2>1. CASE r = v
    <3>1. r = v - 0 * n
      BY <2>1
    <3>2. QED
      BY <3>1
  <2>2. CASE r = v - n
    <3>1. r = v - 1 * n
      BY <2>2
    <3>2. QED
      BY <3>1
  <2>3. QED
    BY <2>1, <2>2 DEF LessOnce
<1>2. PICK e \in Int : r = v - e * n
  BY <1>1
<1>5. QED
  <2>1. q \in Int
    BY <1>3, <1>4
  <2>2. (r * p - x) % n = 0
    BY <1>2, <1>3, <1>4, <2>1, SameClass
  <2>3. QED
    BY <2>2 DEF p

\* Multiplication to an almost reduced result.
LEMMA AmontmulRight ==
  ASSUME NEW k \in Nat, k > 0, NEW x \in Nat, x < Pow[k], NEW y \in Nat, y < Pow[k],
         NEW n \in Nat, n % 2 = 1, n < Pow[k]
  PROVE  bignum_amontmul(k, x, y, n, amontmul(k, x, y, n))
<1> DEFINE s == AllRows(k, x, y, n)
           P == Pow[k]
           v == s.z + P * s.c0
           r == Low(k, s.z - Masked(s.c0, n))
<1>0. P \in Nat /\ n > 0
  BY PowPositive, OddPositive
<1>1. /\ s.z \in Nat /\ s.z < P /\ s.c0 \in {0, 1} /\ v < y + n
      /\ RowsOf(k, v, x * y, n)
  <2>1. AllRowsDone(s, k, x, y, n)
    BY AllRowsRight
  <2>2. QED
    BY <2>1 DEF AllRowsDone
<1>2. amontmul(k, x, y, n) = r
  BY DEF amontmul
<1> HIDE DEF s
<1>3. v \in Int /\ v < P + n
  BY <1>0, <1>1
<1>4. r \in Nat /\ r < P /\ LessOnce(r, v, n)
  BY <1>1, <1>3, MaskedRight
<1> HIDE DEF v, r
<1>6. (r * P - x * y) % n = 0
  <2> DEFINE X == x * y
  <2>1. X \in Int /\ RowsOf(k, v, X, n)
    BY <1>1
  <2> HIDE DEF X
  <2>2. (r * Pow[k] - X) % n = 0
    BY <1>0, <1>3, <1>4, <2>1, LessOnceRight
  <2>3. QED
    BY <2>2 DEF X
<1>7. QED
  BY <1>2, <1>4, <1>6 DEF bignum_amontmul

\* Multiplication to a fully reduced result.
LEMMA MontmulRight ==
  ASSUME NEW k \in Nat, k > 0, NEW x \in Nat, x < Pow[k], NEW y \in Nat, y < Pow[k],
         NEW n \in Nat, n % 2 = 1, n < Pow[k], x * y <= Pow[k] * n
  PROVE  bignum_montmul(k, x, y, n, montmul(k, x, y, n))
<1> DEFINE s == AllRows(k, x, y, n)
           P == Pow[k]
           v == s.z + P * s.c0
           r == Reduced(k, s, n)
<1>0. P \in Nat /\ n > 0
  BY PowPositive, OddPositive
<1>1. /\ s.z \in Nat /\ s.z < P /\ s.c0 \in {0, 1}
      /\ RowsOf(k, v, x * y, n)
  <2>1. AllRowsDone(s, k, x, y, n)
    BY AllRowsRight
  <2>2. QED
    BY <2>1 DEF AllRowsDone
<1>2. montmul(k, x, y, n) = r
  BY DEF montmul
<1> HIDE DEF s
<1>3. v \in Int
  BY <1>0, <1>1
<1>5. PICK q \in 0 .. (P - 1) : P * v = x * y + q * n
  BY <1>1 DEF RowsOf
<1>6. v < 2 * n
  <2> DEFINE X == x * y
  <2>1. X \in Int /\ X <= P * n /\ P * v = X + q * n /\ q * n \in Int /\ P * n \in Int
    BY <1>0, <1>5
  <2> HIDE DEF X, v, P
  <2>2. SUFFICES ASSUME v >= 2 * n PROVE FALSE
    BY <1>3
  <2>3. P * v >= P * (2 * n) /\ P * (2 * n) = 2 * (P * n) /\ P * v \in Int
    BY <1>0, <1>3, <2>2
  <2>4. q * n <= (P - 1) * n /\ (P - 1) * n = P * n - n
    BY <1>0, <1>5
  <2>5. QED
    BY <1>0, <2>1, <2>3, <2>4
<1>4. r \in Nat /\ r < n /\ LessOnce(r, v, n)
  BY <1>1, <1>6, ReducedRight
<1> HIDE DEF v, r
<1>7. (r * P - x * y) % n = 0
  <2> DEFINE X == x * y
  <2>1. X \in Int /\ RowsOf(k, v, X, n)
    BY <1>1
  <2> HIDE DEF X
  <2>2. (r * Pow[k] - X) % n = 0
    BY <1>0, <1>3, <1>4, <2>1, LessOnceRight
  <2>3. QED
    BY <2>2 DEF X
<1>8. QED
  BY <1>2, <1>4, <1>7 DEF bignum_montmul

\* A row of reduction in place: nothing carries out.
LEMMA InPlaceRow ==
  ASSUME NEW k \in Nat, k > 0, NEW v \in Nat, v < Pow[k], NEW n \in Nat, n % 2 = 1, n < Pow[k]
  PROVE  /\ MontRow(k, Bare(v), n).z \in Nat /\ MontRow(k, Bare(v), n).z < Pow[k]
         /\ OneRow(v, MontRow(k, Bare(v), n).z, n)
<1> DEFINE P == Pow[k]
           s0 == Bare(v)
           s1 == MontRow(k, s0, n)
           o == Wide(k, s1)
<1>0. B \in Nat /\ B >= 2 /\ P \in Nat /\ P > 0
  BY BaseAssumption, PowPositive
<1>1. s0.z = v /\ s0.c0 = 0 /\ s0.c1 = 0 /\ s0 \in Windows
  BY DEF Bare, Windows
<1> HIDE DEF s0
<1>2. InWindow(k, s0) /\ Wide(k, s0) = v
  <2>1. 0 + B * 0 = 0
    BY <1>0
  <2>2. v + P * 0 = v
    BY <1>0
  <2>3. Wide(k, s0) = v + P * (0 + B * 0)
    BY <1>1 DEF Wide
  <2>4. InWindow(k, s0)
    BY <1>1 DEF InWindow
  <2>5. QED
    BY <2>1, <2>2, <2>3, <2>4
<1> HIDE DEF P
<1>3. v + (B - 1) * n <= B * P - B
  <2>1. v <= P - 1 /\ n <= P - 1
    BY <1>0 DEF P
  <2>2. (B - 1) * n <= (B - 1) * (P - 1) /\ (B - 1) * (P - 1) = B * P - B - P + 1
    BY <1>0, <2>1
  <2>3. (B - 1) * n \in Int /\ B * P \in Int
    BY <1>0
  <2>4. QED
    BY <1>0, <2>1, <2>2, <2>3
<1>4. Wide(k, s0) + (B - 1) * n < 2 * (B * Pow[k])
  <2>1. B * P \in Int /\ B * P >= 0 /\ (B - 1) * n \in Int
    BY <1>0
  <2>2. v + (B - 1) * n < 2 * (B * P)
    BY <1>0, <1>3, <2>1
  <2>3. QED
    BY <1>2, <2>2 DEF P
<1>5. InWindow(k, s1) /\ s1.c0 \in {0, 1} /\ s1.c1 = 0 /\ OneRow(Wide(k, s0), o, n)
  BY <1>2, <1>4, MontRowRight
<1> HIDE DEF s1
<1>6. o \in Nat /\ o = s1.z + P * s1.c0 /\ s1.z \in Nat /\ s1.z < P
  <2>1. s1.c0 + B * s1.c1 = s1.c0
    BY <1>0, <1>5
  <2>2. o = s1.z + P * s1.c0
    BY <2>1 DEF Wide, P
  <2>3. s1.z \in Nat /\ s1.z < P
    BY <1>5 DEF InWindow, Windows, P
  <2>4. o \in Nat
    BY <1>0, <1>5, <2>2, <2>3
  <2>5. QED
    BY <2>2, <2>3, <2>4
<1> HIDE DEF o
<1>7. PICK q \in 0 .. (B - 1) : B * o = v + q * n
  BY <1>2, <1>5 DEF OneRow
<1>8. o < P
  <2>1. q * n <= (B - 1) * n /\ q * n \in Int /\ (B - 1) * n \in Int
    BY <1>0, <1>7
  <2>2. B * o <= B * P - B /\ B * P \in Int
    BY <1>0, <1>3, <1>7, <2>1
  <2>3. SUFFICES ASSUME o >= P PROVE FALSE
    BY <1>0, <1>6
  <2>4. B * o >= B * P /\ B * o \in Int
    BY <1>0, <1>6, <2>3
  <2>5. QED
    BY <1>0, <2>2, <2>4
<1>9. s1.c0 = 0
  <2>1. CASE s1.c0 = 1
    <3>1. P * s1.c0 = P
      BY <1>0, <2>1
    <3>2. QED
      BY <1>0, <1>6, <1>8, <3>1
  <2>2. QED
    BY <1>5, <2>1
<1>10. o = s1.z
  <2>1. P * s1.c0 = 0
    BY <1>0, <1>9
  <2>2. QED
    BY <1>6, <2>1
<1>11. QED
  BY <1>2, <1>5, <1>6, <1>10 DEF s0, s1, P

\* Reduction in place of a number of k words.
LEMMA DemontRight ==
  ASSUME NEW k \in Nat, k > 0, NEW x \in Nat, x < Pow[k], NEW n \in Nat, n % 2 = 1, n < Pow[k]
  PROVE  demont(k, x, n) \in Nat /\ bignum_demont(k, x, n, demont(k, x, n))
<1> DEFINE P == Pow[k]
           f == [jj \in Nat |-> [v \in Nat |-> MontRow(k, Bare(v), n).z]]
           J == [jj \in Nat |-> {v \in Nat : v < P /\ RowsOf(jj, v, x, n)}]
           end == Passes(k, f, x)
<1>0. P \in Nat /\ P > 0 /\ n > 0 /\ Pow[0] = 1
  BY PowFacts, PowPositive, OddPositive
<1>1. f \in [Nat -> [Nat -> Nat]]
  <2>1. ASSUME NEW v \in Nat PROVE MontRow(k, Bare(v), n).z \in Nat
    <3>1. Bare(v) \in Windows
      BY DEF Bare, Windows
    <3>2. MontRow(k, Bare(v), n) \in Windows
      BY <3>1, MontRowType
    <3>3. QED
      BY <3>2 DEF Windows
  <2>2. QED
    BY <2>1
<1>2. x \in J[0]
  <2>1. Pow[0] * x = x + 0 * n /\ 0 \in 0 .. (Pow[0] - 1)
    BY <1>0
  <2>2. RowsOf(0, x, x, n)
    BY <2>1 DEF RowsOf
  <2>3. QED
    BY <2>2
<1>3. \A jj \in 0 .. (k - 1) : \A v \in Nat : v \in J[jj] => f[jj][v] \in J[jj + 1]
  <2> SUFFICES ASSUME NEW jj \in 0 .. (k - 1), NEW v \in Nat, v \in J[jj] PROVE f[jj][v] \in J[jj + 1]
    OBVIOUS
  <2>1. jj \in Nat /\ jj + 1 \in Nat /\ v < P /\ RowsOf(jj, v, x, n)
    OBVIOUS
  <2> DEFINE v1 == MontRow(k, Bare(v), n).z
  <2>2. v1 \in Nat /\ v1 < P /\ OneRow(v, v1, n)
    BY <2>1, InPlaceRow
  <2>3. f[jj][v] = v1
    BY <2>1
  <2> HIDE DEF v1, f
  <2>4. RowsOf(jj + 1, v1, x, n)
    <3>1. v + 0 = v /\ v \in Int /\ x \in Int /\ n \in Int /\ v1 \in Int /\ 0 \in Int
      BY <2>2
    <3>2. OneRow(v + 0, v1, n)
      BY <2>2, <3>1
    <3>3. RowsOf(jj + 1, v1, x + Pow[jj] * 0, n)
      BY <2>1, <3>1, <3>2, OneMoreRow
    <3>4. Pow[jj] \in Nat
      BY <2>1, PowPositive
    <3>5. x + Pow[jj] * 0 = x
      BY <3>4
    <3>6. QED
      BY <3>3, <3>5
  <2>5. QED
    BY <2>1, <2>2, <2>3, <2>4
<1>4. end \in Nat /\ end \in J[k]
  <2> HIDE DEF f, J
  <2>1. QED
    BY <1>1, <1>2, <1>3, PassesKeep
<1>5. end < P /\ RowsOf(k, end, x, n)
  <2> HIDE DEF end
  <2>1. QED
    BY <1>4
<1> DEFINE r == IF end >= n THEN Low(k, end - n) ELSE end
<1>6. demont(k, x, n) = r
  BY DEF demont
<1> HIDE DEF end
<1>7. end <= n
  <2>1. PICK q \in 0 .. (P - 1) : P * end = x + q * n
    BY <1>5 DEF RowsOf
  <2> HIDE DEF P
  <2>2. SUFFICES ASSUME end >= n + 1 PROVE FALSE
    BY <1>4
  <2>3. P * end >= P * (n + 1) /\ P * (n + 1) = P * n + P /\ P * end \in Int /\ P * n \in Int
    BY <1>0, <1>4, <2>2
  <2>4. q * n <= (P - 1) * n /\ (P - 1) * n = P * n - n /\ q * n \in Int
    BY <1>0, <2>1
  <2>5. x < P
    BY DEF P
  <2>6. QED
    BY <1>0, <2>1, <2>3, <2>4, <2>5
<1>8. r \in Nat /\ r < n /\ LessOnce(r, end, n)
  <2>1. CASE end = n
    <3>1. end - n = 0
      BY <1>4, <2>1
    <3>2. Low(k, 0) = 0
      BY <1>0, LowSmall
    <3>3. r = end - n /\ r = 0
      BY <1>4, <2>1, <3>1, <3>2
    <3>4. QED
      BY <1>0, <3>3 DEF LessOnce
  <2>2. CASE end < n
    BY <1>4, <2>2 DEF LessOnce
  <2>3. QED
    BY <1>4, <1>7, <2>1, <2>2
<1> HIDE DEF r
<1>9. (r * Pow[k] - x) % n = 0
  <2>1. end \in Int /\ r \in Int /\ x \in Int
    BY <1>4, <1>8
  <2>2. QED
    BY <1>0, <1>5, <1>8, <2>1, LessOnceRight
<1>10. QED
  BY <1>6, <1>8, <1>9 DEF bignum_demont
-----------------------------------------------------------------------------
(* The reduction that keeps its multipliers. *)

\* The states of the rows of bignum_emontredc.
EmontStates == [q : Nat, z : Nat, c : Nat]

\* A row of it keeps its states.
LEMMA EmontType ==
  ASSUME NEW k \in Nat, k > 0, NEW s \in EmontStates, NEW x \in Nat, NEW jj \in Nat,
         NEW n \in Nat, n % 2 = 1
  PROVE  EmontRow(k, s, x, jj, n, Inverse1(n)) \in EmontStates
<1> DEFINE P == Pow[k - 1]
           dw == Lo(s.z * Inverse1(n))
           v == s.z + dw * n
           l == Low(k, v)
           t == High(k, v) + s.c
           u == Lo(t) + DigitIn(x, k + jj)
<1>0. B \in Nat /\ B > 0 /\ k - 1 \in Nat /\ P \in Nat /\ Pow[jj] \in Nat
  <2>1. k - 1 \in Nat
    OBVIOUS
  <2>2. QED
    BY <2>1, BaseAssumption, PowPositive
<1>1. s.q \in Nat /\ s.z \in Nat /\ s.c \in Nat
  BY DEF EmontStates
<1>2. dw \in Nat
  <2>1. s.z \in Int
    BY <1>1
  <2>2. QED
    BY <2>1, MultiplierClears
<1> HIDE DEF dw
<1>3. v \in Nat
  BY <1>1, <1>2
<1> HIDE DEF v
<1>4. l \in Nat /\ t \in Nat
  <2>1. High(k, v) \in Nat /\ l \in Nat
    BY <1>3, NaturalHalves
  <2>2. QED
    BY <1>1, <2>1
<1> HIDE DEF l, t
<1>5. Lo(t) \in Nat /\ Hi(t) \in Nat
  BY <1>4, NaturalHalves
<1>6. DigitIn(x, k + jj) \in Nat
  <2>1. k + jj \in Nat
    OBVIOUS
  <2>2. QED
    BY <2>1, DigitInIs
<1>7. u \in Nat
  BY <1>5, <1>6
<1> HIDE DEF u
<1>8. Lo(u) \in Nat /\ Hi(u) \in Nat
  BY <1>7, NaturalHalves
<1>9. l \div B \in Nat /\ P * Lo(u) \in Nat /\ dw * Pow[jj] \in Nat
  <2>1. l \div B \in Nat
    BY <1>0, <1>4
  <2>2. P * Lo(u) \in Nat
    BY <1>0, <1>8
  <2>3. dw * Pow[jj] \in Nat
    BY <1>0, <1>2
  <2>4. QED
    BY <2>1, <2>2, <2>3
<1>10. EmontRow(k, s, x, jj, n, Inverse1(n))
         = [q |-> s.q + dw * Pow[jj], c |-> Hi(t) + Hi(u), z |-> l \div B + P * Lo(u)]
  BY DEF EmontRow, l, P, t, u, v, dw
<1> DEFINE qq == s.q + dw * Pow[jj]
           cc == Hi(t) + Hi(u)
           zz == l \div B + P * Lo(u)
<1>11. qq \in Nat /\ cc \in Nat /\ zz \in Nat
  <2>1. qq \in Nat
    BY <1>1, <1>9
  <2>2. cc \in Nat
    BY <1>5, <1>8
  <2>3. zz \in Nat
    BY <1>9
  <2>4. QED
    BY <2>1, <2>2, <2>3
<1> HIDE DEF qq, cc, zz
<1>12. EmontRow(k, s, x, jj, n, Inverse1(n)) = [q |-> qq, c |-> cc, z |-> zz]
  BY <1>10 DEF qq, cc, zz
<1>13. QED
  BY <1>11, <1>12 DEF EmontStates

\* What a row makes of the multipliers, the window and the carry, for a window
\* of weight p, a multiplier of weight r and a next word e.
EmontStepped(s, s1, p, r, e, n) ==
  \E dw \in Nat :
    /\ s1.q = s.q + dw * r /\ s1.z < p
    /\ B * (s1.z + p * s1.c) = (s.z + p * s.c) + dw * n + p * e

\* A row of it: a word off the bottom, and the next word of the number on top.
LEMMA EmontRowRight ==
  ASSUME NEW k \in Nat, k > 0, NEW s \in EmontStates, s.z < Pow[k], NEW x \in Nat, NEW jj \in Nat,
         NEW n \in Nat, n % 2 = 1
  PROVE  EmontStepped(s, EmontRow(k, s, x, jj, n, Inverse1(n)), Pow[k], Pow[jj], DigitIn(x, k + jj), n)
<1> DEFINE P == Pow[k - 1]
           dw == Lo(s.z * Inverse1(n))
           v == s.z + dw * n
           hh == High(k, v)
           l == Low(k, v)
           t == hh + s.c
           e == DigitIn(x, k + jj)
           u == Lo(t) + e
           t0 == Lo(t)
           t1 == Hi(t)
           u0 == Lo(u)
           u1 == Hi(u)
           r == l \div B
           g == v \div B
<1>0. B \in Nat /\ B >= 2 /\ k - 1 \in Nat /\ P \in Nat /\ P > 0 /\ Pow[k] = B * P
  <2>1. k - 1 \in Nat /\ (k - 1) + 1 = k
    OBVIOUS
  <2>2. Pow[(k - 1) + 1] = B * Pow[k - 1]
    BY <2>1, PowFacts
  <2>3. Pow[k - 1] \in Nat /\ Pow[k - 1] >= 1
    BY <2>1, PowPositive
  <2>4. QED
    BY <2>1, <2>2, <2>3, BaseAssumption
<1>1. s.q \in Nat /\ s.z \in Nat /\ s.c \in Nat
  BY DEF EmontStates
<1>2. dw \in Nat /\ Cleared(s.z, dw, n)
  <2>1. s.z \in Int
    BY <1>1
  <2>2. QED
    BY <2>1, MultiplierClears
<1> HIDE DEF dw
<1>3. v \in Nat /\ g \in Int /\ v = B * g
  <2>1. s.z \in Int /\ n \in Int /\ dw \in Int
    BY <1>1, <1>2
  <2>2. g \in Int /\ v = B * g
    BY <1>2, <2>1, ClearedIs
  <2>3. v \in Nat
    BY <1>1, <1>2
  <2>4. QED
    BY <2>2, <2>3
<1> HIDE DEF g
<1>4. l \in Nat /\ l < B * P /\ hh \in Nat /\ v = l + (B * P) * hh
  <2> HIDE DEF v
  <2>1. l \in Nat /\ hh \in Nat
    BY <1>3, NaturalHalves
  <2>2. v \in Int
    BY <1>3
  <2>3. l < Pow[k] /\ v = l + Pow[k] * hh
    BY <2>2, LowHigh
  <2>4. QED
    BY <1>0, <2>1, <2>3
<1> HIDE DEF l, hh
<1>5. t \in Nat
  BY <1>1, <1>4
<1>6. t0 \in Nat /\ t1 \in Nat /\ t = t0 + B * t1
  <2> HIDE DEF t
  <2>1. QED
    BY <1>5, NaturalHalves
<1>7. e \in Nat
  <2>1. k + jj \in Nat
    OBVIOUS
  <2>2. QED
    BY <2>1, DigitInIs
<1>8. u \in Nat /\ u = t0 + e
  BY <1>6, <1>7
<1>9. u0 \in Nat /\ u0 < B /\ u1 \in Nat /\ u = u0 + B * u1
  <2> HIDE DEF u
  <2>1. QED
    BY <1>8, NaturalHalves
<1>10. r = g - P * hh /\ r \in Int
  <2> DEFINE a == g - P * hh
  <2>1. a \in Int
    BY <1>0, <1>3, <1>4
  <2>2. l = B * a + 0
    <3>1. B * a = B * g - (B * P) * hh
      BY <1>0, <1>3, <1>4
    <3>2. B * g \in Int /\ (B * P) * hh \in Int
      BY <1>0, <1>3, <1>4
    <3> HIDE DEF a, v
    <3>3. l = B * g - (B * P) * hh
      BY <1>3, <1>4, <3>2
    <3>4. QED
      BY <1>0, <1>4, <2>1, <3>1, <3>3
  <2> HIDE DEF a
  <2>3. (B * a + 0) \div B = a
    <3>1. 0 \in 0 .. (B - 1) /\ B > 0
      BY <1>0
    <3>2. QED
      BY <1>0, <2>1, <3>1, DivUnique
  <2>4. r = a
    BY <2>2, <2>3
  <2>5. QED
    BY <2>1, <2>4 DEF a
<1>11. 0 <= r /\ r < P /\ B * r = l
  <2> HIDE DEF r, v
  <2>1. B * r = B * g - (B * P) * hh /\ B * g \in Int /\ (B * P) * hh \in Int
    BY <1>0, <1>3, <1>4, <1>10
  <2>2. B * r = l /\ B * r \in Int
    BY <1>3, <1>4, <2>1
  <2>3. r >= 0
    <3>1. SUFFICES ASSUME r <= 0 - 1 PROVE FALSE
      BY <1>10
    <3>2. B * r <= B * (0 - 1) /\ B * (0 - 1) = 0 - B
      BY <1>0, <1>10, <3>1
    <3>3. QED
      BY <1>0, <1>4, <2>2, <3>2
  <2>4. r < P
    <3>1. SUFFICES ASSUME r >= P PROVE FALSE
      BY <1>0, <1>10
    <3>2. B * r >= B * P /\ B * P \in Int
      BY <1>0, <1>10, <3>1
    <3>3. QED
      BY <1>4, <2>2, <3>2
  <2>5. QED
    BY <2>2, <2>3, <2>4
<1> DEFINE s1 == EmontRow(k, s, x, jj, n, Inverse1(n))
           zz == r + P * u0
           cc == t1 + u1
<1>12. s1 = [q |-> s.q + dw * Pow[jj], c |-> cc, z |-> zz]
  BY DEF EmontRow, l, dw, hh
<1> HIDE DEF s1, r, u0, u1, t0, t1, e, u, t
<1>13. zz \in Int /\ zz < B * P
  <2>1. P * u0 <= P * (B - 1) /\ P * (B - 1) = B * P - P /\ P * u0 \in Int /\ B * P \in Int
    BY <1>0, <1>9
  <2>2. QED
    BY <1>0, <1>10, <1>11, <2>1
<1>14. B * (zz + (B * P) * cc) = (s.z + (B * P) * s.c) + dw * n + (B * P) * e
  <2>1. zz + (B * P) * cc = r + P * (u0 + B * u1) + P * (B * t1)
    BY <1>0, <1>6, <1>9, <1>10
  <2>2. (u0 + B * u1) + B * t1 = hh + s.c + e
    <3>1. B * t1 \in Int /\ B * u1 \in Int
      BY <1>0, <1>6, <1>9
    <3>2. u0 + B * u1 = t0 + e /\ t0 + B * t1 = hh + s.c
      BY <1>6, <1>8, <1>9 DEF t
    <3>3. QED
      BY <1>1, <1>4, <1>6, <1>7, <1>9, <3>1, <3>2
  <2> DEFINE a == u0 + B * u1
             b == B * t1
  <2>3. a \in Int /\ b \in Int
    BY <1>0, <1>6, <1>9
  <2>4. a + b = hh + s.c + e
    BY <2>2
  <2>5. zz + (B * P) * cc = r + P * a + P * b
    BY <2>1
  <2> HIDE DEF a, b, zz, cc
  <2>6. P * a + P * b = P * (a + b)
    BY <1>0, <2>3
  <2>7. P * (hh + s.c + e) = P * hh + P * s.c + P * e
    BY <1>0, <1>1, <1>4, <1>7
  <2>8. P * a \in Int /\ P * b \in Int /\ P * hh \in Int /\ P * s.c \in Int /\ P * e \in Int
    BY <1>0, <1>1, <1>4, <1>7, <2>3
  <2>9. zz + (B * P) * cc = g + P * s.c + P * e
    BY <1>3, <1>10, <2>4, <2>5, <2>6, <2>7, <2>8
  <2>10. B * (g + P * s.c + P * e) = B * g + (B * P) * s.c + (B * P) * e
    BY <1>0, <1>1, <1>3, <1>7
  <2>11. (B * P) * s.c \in Int /\ (B * P) * e \in Int /\ dw * n \in Int /\ B * g \in Int
    BY <1>0, <1>1, <1>2, <1>3, <1>7
  <2>12. B * g = s.z + dw * n
    BY <1>3
  <2>13. QED
    BY <1>1, <2>9, <2>10, <2>11, <2>12
<1>15. QED
  <2>1. s1.q = s.q + dw * Pow[jj] /\ s1.z = zz /\ s1.c = cc
    BY <1>12
  <2> HIDE DEF zz, cc
  <2>2. s1.z < Pow[k]
    BY <1>0, <1>13, <2>1
  <2>3. B * (s1.z + Pow[k] * s1.c) = (s.z + Pow[k] * s.c) + dw * n + Pow[k] * e
    BY <1>0, <1>14, <2>1
  <2>4. EmontStepped(s, s1, Pow[k], Pow[jj], e, n)
    BY <1>2, <2>1, <2>2, <2>3 DEF EmontStepped
  <2>5. QED
    BY <2>4 DEF s1, e

\* After jj rows.
EmontDone(jj, k, s, x, n) ==
  s.z < Pow[k] /\ Pow[jj] * (s.z + Pow[k] * s.c) = Low(k + jj, x) + s.q * n

\* One more.
LEMMA EmontKeeps ==
  ASSUME NEW k \in Nat, k > 0, NEW s \in EmontStates, NEW x \in Nat, NEW jj \in Nat,
         NEW n \in Nat, n % 2 = 1, EmontDone(jj, k, s, x, n)
  PROVE  EmontDone(jj + 1, k, EmontRow(k, s, x, jj, n, Inverse1(n)), x, n)
<1> DEFINE P == Pow[k]
           Q == Pow[jj]
           s1 == EmontRow(k, s, x, jj, n, Inverse1(n))
           e == DigitIn(x, k + jj)
           v == s.z + P * s.c
           v1 == s1.z + P * s1.c
           l == Low(k + jj, x)
           l1 == Low(k + (jj + 1), x)
<1>0. B \in Nat /\ P \in Nat /\ Q \in Nat /\ Pow[jj + 1] = B * Q /\ k + jj \in Nat
      /\ Pow[k + jj] = P * Q /\ (k + jj) + 1 = k + (jj + 1)
  <2>1. k + jj \in Nat /\ (k + jj) + 1 = k + (jj + 1)
    OBVIOUS
  <2>2. Pow[jj + 1] = B * Pow[jj]
    BY PowFacts
  <2>3. P \in Nat /\ Q \in Nat
    BY PowPositive
  <2>4. Pow[k + jj] = P * Q
    BY PowAdd
  <2>5. QED
    BY <2>1, <2>2, <2>3, <2>4, BaseAssumption
<1>1. s.z < P /\ Q * v = l + s.q * n /\ s.z \in Nat /\ s.c \in Nat /\ s.q \in Nat
  BY DEF EmontDone, EmontStates
<1>2. s1 \in EmontStates
  BY EmontType
<1>3. s1.z \in Nat /\ s1.c \in Nat /\ s1.q \in Nat
  <2> HIDE DEF s1
  <2>1. QED
    BY <1>2 DEF EmontStates
<1>4. PICK dw \in Nat : s1.q = s.q + dw * Q /\ s1.z < P /\ B * v1 = v + dw * n + P * e
  <2>1. s.z < Pow[k]
    BY <1>1
  <2>2. EmontStepped(s, s1, P, Q, e, n)
    BY <2>1, EmontRowRight
  <2>3. QED
    BY <2>2 DEF EmontStepped
<1>5. e \in Nat /\ l \in Nat /\ l1 = l + (P * Q) * e
  <2>1. e \in Nat /\ Low((k + jj) + 1, x) = l + Pow[k + jj] * e
    BY <1>0, DigitInIs
  <2>2. l \in Nat
    BY <1>0, NaturalHalves
  <2>3. QED
    BY <1>0, <2>1, <2>2
<1> HIDE DEF s1, e, l, l1
<1>6. v \in Int /\ v1 \in Int
  BY <1>0, <1>1, <1>3
<1>7. (B * Q) * v1 = l1 + s1.q * n
  <2> HIDE DEF v, v1, P, Q
  <2>1. (B * Q) * v1 = Q * (B * v1)
    BY <1>0, <1>6
  <2>2. Q * (v + dw * n + P * e) = Q * v + Q * (dw * n) + (P * Q) * e
    BY <1>0, <1>5, <1>6
  <2>3. s1.q * n = s.q * n + Q * (dw * n)
    <3>1. (s.q + dw * Q) * n = s.q * n + Q * (dw * n)
      BY <1>0, <1>1
    <3>2. QED
      BY <1>4, <3>1
  <2>4. s.q * n \in Int /\ Q * (dw * n) \in Int /\ (P * Q) * e \in Int
    BY <1>0, <1>1, <1>5
  <2>5. (B * Q) * v1 = Q * v + Q * (dw * n) + (P * Q) * e
    BY <1>4, <2>1, <2>2
  <2>6. QED
    BY <1>1, <1>5, <2>3, <2>4, <2>5
<1>8. QED
  BY <1>0, <1>4, <1>7 DEF EmontDone, v1, s1, l1, P

\* The multipliers and the result account for the whole number.
LEMMA EmontredcRight ==
  ASSUME NEW k \in Nat, k > 0, NEW x \in Nat, x < Pow[2 * k], NEW n \in Nat, n % 2 = 1
  PROVE  LET t == emontredc(k, x, n, Inverse1(n))
         IN  bignum_emontredc(k, x, n, t[1], t[2], t[3])
<1> DEFINE rw == Inverse1(n)
           row(jj, s) == EmontRow(k, s, x, jj, n, rw)
           f == [jj \in Nat |-> [s \in [q : Nat, z : Nat, c : Nat] |-> EmontRow(k, s, x, jj, n, rw)]]
           J == [jj \in Nat |-> {s \in EmontStates : EmontDone(jj, k, s, x, n)}]
           s0 == [q |-> 0, z |-> Low(k, x), c |-> 0]
           end == Passes(k, f, s0)
           P == Pow[k]
<1>0. P \in Nat /\ Pow[0] = 1 /\ 2 * k \in Nat /\ k + 0 = k /\ k + k = 2 * k
  BY PowFacts, PowPositive
<1>1. emontredc(k, x, n, rw) = <<end.q, end.z, end.c>>
  BY DEF emontredc
<1>2. f \in [Nat -> [EmontStates -> EmontStates]]
  <2>1. ASSUME NEW jj \in Nat, NEW s \in EmontStates PROVE EmontRow(k, s, x, jj, n, rw) \in EmontStates
    BY EmontType
  <2>2. QED
    BY <2>1 DEF EmontStates
<1>3. s0 \in EmontStates /\ s0 \in J[0]
  <2> DEFINE l == Low(k, x)
  <2>1. l \in Nat /\ l < P
    <3>1. l \in Nat
      BY NaturalHalves
    <3>2. l < P
      <4>1. x \in Int
        OBVIOUS
      <4>2. QED
        BY <4>1, LowHigh
    <3>3. QED
      BY <3>1, <3>2
  <2>2. s0.q = 0 /\ s0.z = l /\ s0.c = 0 /\ s0 \in EmontStates
    BY <2>1 DEF EmontStates
  <2> HIDE DEF s0, l
  <2>3. Pow[0] * (l + P * 0) = l + 0 * n
    BY <1>0, <2>1
  <2>4. EmontDone(0, k, s0, x, n)
    BY <1>0, <2>1, <2>2, <2>3 DEF EmontDone, l
  <2>5. QED
    BY <2>2, <2>4
<1>4. \A jj \in 0 .. (k - 1) : \A s \in EmontStates : s \in J[jj] => f[jj][s] \in J[jj + 1]
  <2> SUFFICES ASSUME NEW jj \in 0 .. (k - 1), NEW s \in EmontStates, s \in J[jj] PROVE f[jj][s] \in J[jj + 1]
    OBVIOUS
  <2>1. jj \in Nat /\ jj + 1 \in Nat /\ EmontDone(jj, k, s, x, n)
    OBVIOUS
  <2> DEFINE s1 == EmontRow(k, s, x, jj, n, rw)
  <2>2. s1 \in EmontStates
    BY <2>1, EmontType
  <2>3. EmontDone(jj + 1, k, s1, x, n)
    BY <2>1, EmontKeeps
  <2>4. f[jj][s] = s1
    BY <2>1 DEF EmontStates
  <2> HIDE DEF s1, f
  <2>5. QED
    BY <2>1, <2>2, <2>3, <2>4
<1>5. end \in EmontStates /\ end \in J[k]
  <2> HIDE DEF f, J, s0
  <2>1. QED
    BY <1>2, <1>3, <1>4, PassesKeep
<1>6. EmontDone(k, k, end, x, n)
  <2> HIDE DEF end
  <2>1. QED
    BY <1>5
<1> HIDE DEF end, f, s0, J, rw
<1>7. end.q \in Nat /\ end.z \in Nat /\ end.c \in Nat
  BY <1>5 DEF EmontStates
<1>8. Low(2 * k, x) = x
  BY <1>0, LowSmall
<1>9. P * (end.z + P * end.c) = x + end.q * n
  <2>1. Pow[k] * (end.z + Pow[k] * end.c) = Low(k + k, x) + end.q * n
    BY <1>6 DEF EmontDone
  <2>2. QED
    BY <1>0, <1>8, <2>1
<1>10. end.z + P * end.c = P * end.c + end.z
  BY <1>0, <1>7
<1>11. bignum_emontredc(k, x, n, end.q, end.z, end.c)
  BY <1>9, <1>10 DEF bignum_emontredc
<1>12. QED
  BY <1>1, <1>11 DEF rw
-----------------------------------------------------------------------------
(* The negated inverse. *)

\* A number less its lowest word is a whole number of words.
LEMMA LessLowest ==
  ASSUME NEW v \in Int
  PROVE  (v - Lo(v)) \div B = Hi(v)
<1>1. B \in Nat /\ B > 0 /\ 0 \in 0 .. (B - 1)
  BY BaseAssumption
<1> DEFINE g == Hi(v)
           l == Lo(v)
<1>2. l \in Int /\ g \in Int /\ v = l + B * g
  BY WordHalves
<1> HIDE DEF g, l
<1>3. B * g \in Int
  BY <1>1, <1>2
<1>4. v - l = B * g + 0
  BY <1>2, <1>3
<1>5. (B * g + 0) \div B = g
  BY <1>1, <1>2, DivUnique
<1>6. QED
  BY <1>4, <1>5 DEF g, l

\* The lower words of a number in its class.
LEMMA LowCongruent ==
  ASSUME NEW k \in Nat, NEW v \in Int
  PROVE  Low(k, v) \in Nat /\ Low(k, v) < Pow[k] /\ Congruent(Low(k, v), v, Pow[k])
<1> DEFINE l == Low(k, v)
           u == High(k, v)
           P == Pow[k]
<1>0. P \in Nat
  BY PowPositive
<1>1. l \in Int /\ 0 <= l /\ l < P /\ u \in Int /\ v = l + P * u
  BY LowHigh
<1> HIDE DEF l, u, P
<1>2. l = v + P * (0 - u)
  <2>1. P * (0 - u) = 0 - P * u /\ P * u \in Int
    BY <1>0, <1>1
  <2>2. QED
    BY <1>1, <2>1
<1>3. Congruent(l, v, P)
  <2>1. 0 - u \in Int
    BY <1>1
  <2>2. QED
    BY <1>0, <1>1, <1>2, <2>1, ApartBy
<1>4. QED
  BY <1>1, <1>3 DEF l, P

\* Two digits whose sum is a whole number of words: none, or one.
LEMMA SumCarries ==
  ASSUME NEW e \in Nat, e < B, NEW l \in Nat, l < B, NEW g \in Int, e + l = B * g, e = 0 => l = 0
  PROVE  g = Bitval(e # 0)
<1>1. B \in Nat /\ B >= 2
  BY BaseAssumption
<1>2. CASE e = 0
  <2>1. B * g = 0
    BY <1>2
  <2>2. g = 0
    BY <1>1, <2>1
  <2>3. QED
    BY <1>2, <2>2 DEF Bitval
<1>3. CASE e # 0
  <2>1. B * (g - 1) = B * g - B /\ B * g \in Int
    BY <1>1
  <2>2. 0 - B < B * (g - 1) /\ B * (g - 1) < B
    BY <1>1, <1>3, <2>1
  <2>3. g - 1 = 0
    <3>1. g - 1 \in Int /\ B > 0
      BY <1>1
    <3>2. QED
      BY <1>1, <2>2, <3>1, NoMultipleBetween
  <2>4. QED
    BY <1>3, <2>3 DEF Bitval
<1>4. QED
  BY <1>2, <1>3

\* What zq leaves of x zq + 1 above the words that cancel.
Leaves(x, zq, p, u) == x * zq + 1 = p * u

\* What a digit dw leaves above its word, of which t is known in n + 1 words.
WordFound(n, p, x, zq, t, dw) ==
  /\ dw \in Nat /\ dw < B
  /\ \E u1 \in Int : /\ Leaves(x, zq + dw * p, B * p, u1)
                     /\ Congruent(Above(n + 1, x, dw) + t \div B + Bitval(Lo(t) # 0), u1, Pow[n])

\* One word more of the negated inverse.
LEMMA NegmodinvStep ==
  ASSUME NEW n \in Nat, NEW p \in Nat, NEW x \in Nat, x % 2 = 1, NEW zq \in Nat, NEW u \in Int,
         Leaves(x, zq, p, u), NEW t \in Nat, Congruent(t, u, Pow[n + 1])
  PROVE  WordFound(n, p, x, zq, t, Lo(Lo(t) * Inverse1(x)))
<1> DEFINE P == Pow[n]
           e == Lo(t)
           dw == Lo(e * Inverse1(x))
           v == dw * x
           l == Lo(v)
           g == Hi(v)
           t1 == Hi(t)
<1>0. B \in Nat /\ B >= 2 /\ P \in Nat /\ P > 0 /\ Pow[n + 1] = B * P /\ n + 1 \in Nat
  BY BaseAssumption, PowPositive, PowFacts
<1>1. e \in Nat /\ e < B /\ t1 \in Nat /\ t = e + B * t1
  BY NaturalHalves
<1> HIDE DEF e, t1
<1>2. dw \in Nat /\ dw < B /\ Cleared(e, dw, x)
  <2>1. e \in Int
    BY <1>1
  <2>2. dw \in Int /\ 0 <= dw /\ dw < B /\ Cleared(e, dw, x)
    BY <2>1, MultiplierClears
  <2>3. QED
    BY <2>2
<1>3. e = 0 => dw = 0
  <2>1. SUFFICES ASSUME e = 0 PROVE dw = 0
    OBVIOUS
  <2>2. Inverse1(x) \in Int
    <3>1. Inverse1(x) \in Digit
      BY Inverse1Right
    <3>2. QED
      BY <1>0, <3>1 DEF Digit
  <2>3. e * Inverse1(x) = 0
    BY <2>1, <2>2
  <2>4. Lo(0) = 0
    BY <1>0, LoSmall
  <2>5. QED
    BY <2>3, <2>4
<1> HIDE DEF dw
<1>4. v \in Nat
  BY <1>2
<1>5. l \in Nat /\ l < B /\ g \in Nat /\ v = l + B * g
  <2> HIDE DEF v
  <2>1. QED
    BY <1>4, NaturalHalves
<1>6. e = 0 => l = 0
  <2>1. SUFFICES ASSUME e = 0 PROVE l = 0
    OBVIOUS
  <2>2. v = 0
    BY <1>3, <2>1
  <2>3. Lo(0) = 0
    BY <1>0, LoSmall
  <2>4. QED
    BY <2>2, <2>3
<1>7. Above(n + 1, x, dw) = Low(n + 1, g)
  <2>1. (v - Lo(v)) \div B = Hi(v)
    <3> HIDE DEF v
    <3>1. v \in Int
      BY <1>4
    <3>2. QED
      BY <3>1, LessLowest
  <2>2. QED
    BY <2>1 DEF Above
<1> HIDE DEF l, g
<1>8. PICK s \in Int : e + dw * x = B * s
  BY <1>2 DEF Cleared
<1> DEFINE b == Bitval(e # 0)
<1>9. s - g = b /\ s = g + b
  <2> HIDE DEF v
  <2>1. e + v = B * s
    BY <1>8 DEF v
  <2>2. B * (s - g) = B * s - B * g /\ B * s \in Int /\ B * g \in Int /\ s - g \in Int
    BY <1>0, <1>5
  <2>3. e + l = B * (s - g)
    BY <1>1, <1>5, <2>1, <2>2
  <2> DEFINE r == s - g
  <2>4. r \in Int /\ e + l = B * r
    BY <2>2, <2>3
  <2>5. s = g + r
    BY <1>5
  <2> HIDE DEF r
  <2>6. r = b
    BY <1>1, <1>5, <1>6, <2>4, SumCarries
  <2>7. QED
    BY <2>5, <2>6 DEF r
<1>10. PICK q \in Int : t = u + Pow[n + 1] * q
  BY DEF Congruent
<1> DEFINE u1 == t1 - P * q + s
<1>11. u1 \in Int
  BY <1>0, <1>1
<1>12. u + dw * x = B * u1
  <2>1. B * (t1 - P * q + s) = B * t1 - (B * P) * q + B * s
    BY <1>0, <1>1
  <2>2. B * t1 \in Int /\ (B * P) * q \in Int /\ B * s \in Int /\ dw * x \in Int
    BY <1>0, <1>1, <1>2
  <2>3. t = u + (B * P) * q
    BY <1>0, <1>10
  <2>4. QED
    BY <1>1, <1>8, <2>1, <2>2, <2>3
<1> HIDE DEF u1
<1>13. Leaves(x, zq + dw * p, B * p, u1)
  <2>1. x * (zq + dw * p) + 1 = (x * zq + 1) + p * (dw * x)
    BY <1>2
  <2>2. x * zq + 1 = p * u
    BY DEF Leaves
  <2>3. p * u + p * (dw * x) = p * (u + dw * x)
    BY <1>2
  <2>4. p * (B * u1) = (B * p) * u1
    BY <1>0, <1>11
  <2>5. QED
    BY <1>12, <2>1, <2>2, <2>3, <2>4 DEF Leaves
<1>14. Congruent(Above(n + 1, x, dw) + t \div B + b, u1, P)
  <2> DEFINE a == Low(n + 1, g)
  <2>1. a \in Nat /\ Congruent(a, g, B * P)
    <3>1. g \in Int
      BY <1>5
    <3>2. QED
      BY <1>0, <3>1, LowCongruent
  <2>2. PICK y \in Int : a = g + (B * P) * y
    BY <2>1 DEF Congruent
  <2>3. t \div B = t1
    BY DEF t1, Hi
  <2> HIDE DEF a
  <2>4. b \in Int
    BY DEF Bitval
  <2> HIDE DEF b
  <2> DEFINE o == q + B * y
  <2>5. o \in Int
    BY <1>0
  <2>6. a + t1 + b = u1 + P * o
    <3>1. P * o = P * q + (B * P) * y
      BY <1>0
    <3>2. P * q \in Int /\ (B * P) * y \in Int
      BY <1>0
    <3>3. u1 = t1 - P * q + s
      BY DEF u1
    <3> HIDE DEF o
    <3>4. QED
      BY <1>1, <1>5, <1>9, <2>2, <2>4, <3>1, <3>2, <3>3
  <2> HIDE DEF o
  <2>7. a + t1 + b \in Int
    BY <1>1, <2>1, <2>4
  <2>8. Congruent(a + t1 + b, u1, P)
    BY <1>0, <1>11, <2>5, <2>6, <2>7, ApartBy
  <2>9. QED
    BY <1>7, <2>3, <2>8 DEF a
<1>15. WordFound(n, p, x, zq, t, dw)
  BY <1>2, <1>11, <1>13, <1>14 DEF WordFound, e, P
<1>16. QED
  BY <1>15 DEF dw, e

\* The states of the passes of bignum_negmodinv.
NegmodinvStates == [z : Nat, t : Nat]

\* When jj words of the inverse of a number of k words are found.
NegmodinvDone(jj, k, s, x) ==
  s.z < Pow[jj] /\ \E u \in Int : Leaves(x, s.z, Pow[jj], u) /\ Congruent(s.t, u, Pow[k - jj])

\* One more, from any state where it holds.
LEMMA NegmodinvKeeps ==
  ASSUME NEW k \in Nat, NEW jj \in Nat, jj < k, NEW x \in Nat, x % 2 = 1,
         NEW s \in NegmodinvStates, NegmodinvDone(jj, k, s, x),
         NEW s1, s1 = NegmodinvWord(k, s, x, jj, Inverse1(x))
  PROVE  s1 \in NegmodinvStates /\ NegmodinvDone(jj + 1, k, s1, x)
<1> DEFINE n == k - jj - 1
           P == Pow[jj]
           dw == Lo(Lo(s.t) * Inverse1(x))
           a == Above(n + 1, x, dw) + s.t \div B + Bitval(Lo(s.t) # 0)
           zz == s.z + dw * P
           tt == Low(n, a)
<1>0. B \in Nat /\ B >= 2 /\ P \in Nat /\ P > 0 /\ Pow[jj + 1] = B * P /\ n \in Nat
      /\ n + 1 = k - jj /\ k - (jj + 1) = n /\ n + 1 \in Nat
  <2>1. n \in Nat /\ n + 1 = k - jj /\ k - (jj + 1) = n /\ n + 1 \in Nat
    OBVIOUS
  <2>2. Pow[jj + 1] = B * Pow[jj]
    BY PowFacts
  <2>3. Pow[jj] \in Nat /\ Pow[jj] >= 1
    BY PowPositive
  <2>4. QED
    BY <2>1, <2>2, <2>3, BaseAssumption
<1>1. s.z \in Nat /\ s.t \in Nat /\ s.z < P
  BY DEF NegmodinvStates, NegmodinvDone
<1>2. PICK u \in Int : Leaves(x, s.z, P, u) /\ Congruent(s.t, u, Pow[n + 1])
  BY <1>0 DEF NegmodinvDone
<1>3. NegmodinvWord(k, s, x, jj, Inverse1(x)) = [z |-> zz, t |-> tt]
  BY <1>0 DEF NegmodinvWord
<1> HIDE DEF P, n
<1>4. /\ dw \in Nat /\ dw < B
      /\ \E u1 \in Int : Leaves(x, zz, B * P, u1) /\ Congruent(a, u1, Pow[n])
  <2>1. WordFound(n, P, x, s.z, s.t, dw)
    BY <1>0, <1>1, <1>2, NegmodinvStep
  <2>2. QED
    BY <2>1 DEF WordFound
<1>5. PICK u1 \in Int : Leaves(x, zz, B * P, u1) /\ Congruent(a, u1, Pow[n])
  BY <1>4
<1>6. zz \in Nat /\ zz < B * P
  <2> HIDE DEF dw
  <2>1. dw * P <= (B - 1) * P /\ (B - 1) * P = B * P - P /\ dw * P \in Nat /\ B * P \in Int
    BY <1>0, <1>4
  <2>2. QED
    BY <1>0, <1>1, <2>1
<1>7. a \in Int
  <2> DEFINE v == dw * x
             o == n + 1
             v1 == (v - Lo(v)) \div B
  <2>1. v \in Nat
    BY <1>4
  <2> HIDE DEF v
  <2>2. v1 \in Int
    <3>1. Lo(v) \in Nat
      BY <2>1, NaturalHalves
    <3>2. (v - Lo(v)) \in Int
      BY <2>1, <3>1
    <3> DEFINE y == v - Lo(v)
    <3>3. y \in Int
      BY <3>2
    <3> HIDE DEF y
    <3>4. y \div B \in Int
      BY <1>0, <3>3
    <3>5. QED
      BY <3>4 DEF y
  <2> HIDE DEF v1
  <2>3. Low(o, v1) \in Int
    <3>1. o \in Nat
      BY <1>0
    <3> HIDE DEF o
    <3>2. QED
      BY <2>2, <3>1, LowHigh
  <2>4. Above(n + 1, x, dw) \in Int
    BY <2>3 DEF Above, v1, v, o
  <2>5. s.t \div B \in Int /\ Bitval(Lo(s.t) # 0) \in Int
    BY <1>0, <1>1 DEF Bitval
  <2>6. QED
    BY <2>4, <2>5
<1> HIDE DEF a
<1>8. tt \in Nat /\ Congruent(tt, a, Pow[n])
  BY <1>0, <1>7, LowCongruent
<1>9. Congruent(tt, u1, Pow[n])
  <2>1. Pow[n] \in Nat /\ tt \in Int
    BY <1>0, <1>8, PowPositive
  <2> HIDE DEF tt
  <2>2. QED
    BY <1>5, <1>7, <1>8, <2>1, CongruentTransitive
<1> HIDE DEF zz, tt
<1>10. s1 = [z |-> zz, t |-> tt]
  BY <1>3
<1>11. s1 \in NegmodinvStates /\ s1.z = zz /\ s1.t = tt
  BY <1>6, <1>8, <1>10 DEF NegmodinvStates
<1>12. NegmodinvDone(jj + 1, k, s1, x)
  BY <1>0, <1>5, <1>6, <1>9, <1>11 DEF NegmodinvDone
<1>13. QED
  BY <1>11, <1>12

\* The negated inverse of an odd number.
LEMMA NegmodinvIs ==
  ASSUME NEW k \in Nat, k > 0, NEW x \in Nat, x % 2 = 1
  PROVE  bignum_negmodinv(k, x, negmodinv(k, x))
<1> DEFINE rw == Inverse1(x)
           f == [jj \in Nat |-> [s \in [z : Nat, t : Nat] |-> NegmodinvWord(k, s, x, jj + 1, rw)]]
           s0 == [z |-> rw, t |-> Low(k - 1, Above(k, x, rw) + 1)]
           J == [jj \in Nat |-> {s \in NegmodinvStates : NegmodinvDone(jj + 1, k, s, x)}]
           n == k - 1
           end == Passes(n, f, s0)
<1>0. n \in Nat /\ n + 1 = k /\ B \in Nat /\ B >= 2 /\ Pow[0] = 1 /\ 0 \in Nat /\ 0 + 1 = 1 /\ k - 0 = k
  BY BaseAssumption, PowFacts
<1>1. negmodinv(k, x) = end.z
  BY DEF negmodinv
<1>2. rw \in Nat /\ rw < B
  <2>1. rw \in Digit
    BY Inverse1Right
  <2> HIDE DEF rw
  <2>2. QED
    BY <1>0, <2>1 DEF Digit
<1>3. s0 \in NegmodinvStates /\ NegmodinvDone(1, k, s0, x)
  <2> DEFINE sb == [z |-> 0, t |-> 1]
  <2>1. sb \in NegmodinvStates /\ sb.z = 0 /\ sb.t = 1
    BY DEF NegmodinvStates
  <2>2. NegmodinvDone(0, k, sb, x)
    <3>1. Leaves(x, 0, Pow[0], 1)
      <4>1. x * 0 + 1 = Pow[0] * 1
        BY <1>0
      <4>2. QED
        BY <4>1 DEF Leaves
    <3>2. Congruent(1, 1, Pow[k - 0])
      <4>1. Pow[k] \in Nat
        BY PowPositive
      <4>2. 1 = 1 + Pow[k] * 0
        BY <4>1
      <4>3. Congruent(1, 1, Pow[k])
        BY <4>2 DEF Congruent
      <4>4. QED
        BY <1>0, <4>3
    <3> HIDE DEF sb
    <3>3. QED
      BY <1>0, <2>1, <3>1, <3>2 DEF NegmodinvDone
  <2>3. NegmodinvWord(k, sb, x, 0, rw) = s0
    <3> DEFINE dw == Lo(1 * rw)
    <3>1. Lo(1) = 1 /\ Hi(1) = 0
      BY <1>0, LoSmall
    <3>2. 1 * rw = rw
      BY <1>2
    <3>3. Lo(1 * rw) = rw
      <4> HIDE DEF rw
      <4>1. Lo(rw) = rw
        BY <1>2, LoSmall
      <4>2. QED
        BY <3>2, <4>1
    <3>4. 1 \div B = 0
      BY <3>1 DEF Hi
    <3>5. 0 + rw * Pow[0] = rw
      BY <1>0, <1>2
    <3> HIDE DEF rw, dw
    <3> DEFINE a == Above(k, x, rw)
    <3>6. a \in Int
      <4> DEFINE v == rw * x
                 v1 == (v - Lo(v)) \div B
      <4>1. v \in Nat
        BY <1>2
      <4> HIDE DEF v
      <4>2. v1 = Hi(v)
        BY <4>1, LessLowest
      <4>3. Hi(v) \in Nat
        BY <4>1, NaturalHalves
      <4>4. Low(k, v1) \in Nat
        <5>1. v1 \in Nat
          BY <4>2, <4>3
        <5> HIDE DEF v1
        <5>2. QED
          BY <5>1, NaturalHalves
      <4>5. QED
        BY <4>4 DEF Above, v1, v
    <3> HIDE DEF a
    <3>7. a + 0 + 1 = a + 1
      BY <3>6
    <3>8. Bitval(Lo(1) # 0) = 1
      BY <3>1 DEF Bitval
    <3>9. NegmodinvWord(k, sb, x, 0, rw)
            = [z |-> 0 + rw * Pow[0], t |-> Low(k - 0 - 1, Above(k - 0, x, rw) + 1 \div B + Bitval(Lo(1) # 0))]
      BY <3>1, <3>3 DEF NegmodinvWord
    <3>10. k - 0 - 1 = k - 1
      OBVIOUS
    <3>11. Above(k - 0, x, rw) + 1 \div B + Bitval(Lo(1) # 0) = a + 1
      <4>1. Above(k - 0, x, rw) = a
        BY <1>0 DEF a
      <4>2. QED
        BY <3>4, <3>7, <3>8, <4>1
    <3>12. QED
      BY <3>5, <3>9, <3>10, <3>11 DEF a
  <2> HIDE DEF sb, s0
  <2>4. s0 \in NegmodinvStates /\ NegmodinvDone(0 + 1, k, s0, x)
    <3>1. s0 = NegmodinvWord(k, sb, x, 0, Inverse1(x)) /\ 0 < k
      BY <2>3
    <3> HIDE DEF rw
    <3>2. QED
      BY <1>0, <2>1, <2>2, <3>1, NegmodinvKeeps
  <2>5. QED
    BY <1>0, <2>4
<1>4. \A jj \in 0 .. (n - 1) : f[jj] \in [NegmodinvStates -> NegmodinvStates]
  <2> SUFFICES ASSUME NEW jj \in 0 .. (n - 1) PROVE f[jj] \in [NegmodinvStates -> NegmodinvStates]
    OBVIOUS
  <2>1. ASSUME NEW s \in NegmodinvStates PROVE NegmodinvWord(k, s, x, jj + 1, rw) \in NegmodinvStates
    <3> DEFINE m0n == k - (jj + 1) - 1
               dw == Lo(Lo(s.t) * rw)
               v == dw * x
    <3>1. m0n \in Nat /\ jj + 1 \in Nat /\ k - (jj + 1) \in Nat /\ s.z \in Nat /\ s.t \in Nat
      BY DEF NegmodinvStates
    <3>2. dw \in Nat
      <4>1. Lo(s.t) \in Nat
        BY <3>1, NaturalHalves
      <4> DEFINE y == Lo(s.t) * rw
      <4>2. y \in Nat
        BY <1>2, <4>1
      <4> HIDE DEF y
      <4>3. Lo(y) \in Nat
        BY <4>2, NaturalHalves
      <4>4. QED
        BY <4>3 DEF y
    <3> HIDE DEF dw
    <3>3. v \in Nat
      BY <3>2
    <3> HIDE DEF v
    <3> DEFINE v1 == (v - Lo(v)) \div B
               a == Low(k - (jj + 1), v1)
               b == Bitval(Lo(s.t) # 0)
               l == a + s.t \div B + b
               pp == Pow[jj + 1]
    <3>4. v1 = Hi(v)
      BY <3>3, LessLowest
    <3>5. v1 \in Nat
      BY <3>3, <3>4, NaturalHalves
    <3> HIDE DEF v1
    <3>6. a \in Nat
      BY <3>1, <3>5, NaturalHalves
    <3>7. l \in Nat
      <4>1. s.t \div B \in Nat /\ b \in Nat
        BY <1>0, <3>1 DEF Bitval
      <4> HIDE DEF a, b
      <4>2. QED
        BY <3>6, <4>1
    <3> HIDE DEF l
    <3>8. Low(m0n, l) \in Nat
      BY <3>1, <3>7, NaturalHalves
    <3>9. s.z + dw * pp \in Nat
      <4>1. pp \in Nat
        BY <3>1, PowPositive
      <4> HIDE DEF pp
      <4>2. QED
        BY <3>1, <3>2, <4>1
    <3>10. NegmodinvWord(k, s, x, jj + 1, rw) = [z |-> s.z + dw * pp, t |-> Low(m0n, l)]
      BY DEF NegmodinvWord, Above, l, v1, v, dw
    <3> HIDE DEF pp, m0n
    <3>11. QED
      BY <3>8, <3>9, <3>10 DEF NegmodinvStates
  <2>2. jj \in Nat
    OBVIOUS
  <2>3. f[jj] = [s \in NegmodinvStates |-> NegmodinvWord(k, s, x, jj + 1, rw)]
    BY <2>2 DEF NegmodinvStates
  <2> HIDE DEF f
  <2>4. QED
    BY <2>1, <2>3
<1>5. \A jj \in 0 .. (n - 1) : \A s \in NegmodinvStates : s \in J[jj] => f[jj][s] \in J[jj + 1]
  <2> SUFFICES ASSUME NEW jj \in 0 .. (n - 1), NEW s \in NegmodinvStates, s \in J[jj]
               PROVE  f[jj][s] \in J[jj + 1]
    OBVIOUS
  <2>1. jj \in Nat /\ jj + 1 \in Nat /\ jj + 1 < k /\ NegmodinvDone(jj + 1, k, s, x)
    BY <1>0
  <2> DEFINE s1 == NegmodinvWord(k, s, x, jj + 1, rw)
  <2>2. f[jj][s] = s1
    BY <2>1 DEF NegmodinvStates
  <2>3. s1 \in NegmodinvStates /\ NegmodinvDone((jj + 1) + 1, k, s1, x)
    BY <2>1, NegmodinvKeeps
  <2> HIDE DEF s1, f
  <2>4. QED
    BY <2>1, <2>2, <2>3
<1>6. end \in NegmodinvStates /\ end \in J[n]
  <2>1. s0 \in NegmodinvStates /\ s0 \in J[0]
    BY <1>0, <1>3
  <2> HIDE DEF f, J, s0, n
  <2>2. QED
    BY <1>0, <1>4, <1>5, <2>1, PassesKeepBelow
<1> HIDE DEF end, f, s0
<1>7. NegmodinvDone(k, k, end, x)
  BY <1>0, <1>6
<1>8. end.z \in Nat /\ end.z < Pow[k] /\ \E u \in Int : x * end.z + 1 = Pow[k] * u
  BY <1>6, <1>7 DEF NegmodinvStates, NegmodinvDone, Leaves
<1>9. PICK u \in Int : x * end.z + 1 = Pow[k] * u
  BY <1>8
<1>10. (x * end.z + 1) % Pow[k] = 0
  <2> DEFINE P == Pow[k]
  <2>1. P \in Nat /\ P > 0
    BY PowPositive
  <2> HIDE DEF P
  <2>2. x * end.z + 1 = P * u + 0 /\ 0 \in 0 .. (P - 1)
    BY <1>9, <2>1 DEF P
  <2>3. (P * u + 0) % P = 0
    BY <2>1, <2>2, DivUnique
  <2>4. QED
    BY <2>2, <2>3 DEF P
<1>11. QED
  BY <1>1, <1>8, <1>10 DEF bignum_negmodinv
-----------------------------------------------------------------------------
(* The constants. *)

\* The modulus after some shifts by words: when its top word is still zero,
\* every pass so far has shifted it.
Climbed(jj, k, t, n) ==
  /\ t \in Nat /\ t >= 1 /\ t < Pow[k] /\ \E a \in Nat : t = n * a
  /\ t < Pow[k - 1] => t = n * Pow[jj]

\* The words of the weight at the top.
LEMMA TopWord ==
  ASSUME NEW k \in Nat, k > 0
  PROVE  k - 1 \in Nat /\ Pow[k - 1] \in Nat /\ Pow[k - 1] > 0 /\ Pow[k] = B * Pow[k - 1]
<1>1. k - 1 \in Nat /\ (k - 1) + 1 = k
  OBVIOUS
<1>2. Pow[(k - 1) + 1] = B * Pow[k - 1]
  BY <1>1, PowFacts
<1>3. Pow[k - 1] \in Nat /\ Pow[k - 1] >= 1
  BY <1>1, PowPositive
<1>4. QED
  BY <1>1, <1>2, <1>3

\* The normalized modulus has its top bit set, and is a multiple of the modulus.
LEMMA NormalizedRight ==
  ASSUME NEW k \in Nat, k > 0, NEW n \in Nat, n > 0, n < Pow[k]
  PROVE  /\ Normalized(k, n) \in Nat /\ Normalized(k, n) < Pow[k] /\ Pow[k] <= 2 * Normalized(k, n)
         /\ \E s \in Nat : Normalized(k, n) = n * s
<1> DEFINE P == Pow[k - 1]
           f == [jj \in Nat |-> [v \in Nat |-> IF High(k - 1, v) = 0 THEN v * B ELSE v]]
           J == [jj \in Nat |-> {t \in Nat : Climbed(jj, k, t, n)}]
           t == Passes(k - 1, f, n)
           hh == High(k - 1, t)
           e == Clz(hh)
           r == TwoTo[e]
<1>0. /\ B \in Nat /\ B >= 2 /\ k - 1 \in Nat /\ P \in Nat /\ P > 0 /\ Pow[k] = B * P /\ Pow[0] = 1
      /\ W \in Nat /\ B = TwoTo[W]
  BY BaseAssumption, PowFacts, TopWord, WordBitsAssumption
<1>1. f \in [Nat -> [Nat -> Nat]]
  BY <1>0
<1>2. n \in J[0]
  <2>1. n = n * 1
    OBVIOUS
  <2>2. n >= 1
    OBVIOUS
  <2>3. Climbed(0, k, n, n)
    BY <1>0, <2>1, <2>2 DEF Climbed
  <2>4. QED
    BY <2>3
<1>3. \A jj \in 0 .. ((k - 1) - 1) : \A v \in Nat : v \in J[jj] => f[jj][v] \in J[jj + 1]
  <2> SUFFICES ASSUME NEW jj \in 0 .. ((k - 1) - 1), NEW v \in Nat, v \in J[jj] PROVE f[jj][v] \in J[jj + 1]
    OBVIOUS
  <2>1. jj \in Nat /\ jj + 1 \in Nat /\ Climbed(jj, k, v, n)
    BY <1>0
  <2>2. v < Pow[k] /\ v >= 1 /\ (v < P => v = n * Pow[jj]) /\ \E a \in Nat : v = n * a
    BY <2>1 DEF Climbed
  <2>3. Pow[jj + 1] = B * Pow[jj] /\ Pow[jj] \in Nat
    BY <2>1, PowFacts
  <2>4. v = Low(k - 1, v) + P * High(k - 1, v) /\ Low(k - 1, v) \in Nat /\ Low(k - 1, v) < P /\ High(k - 1, v) \in Nat
    <3>1. v \in Int
      OBVIOUS
    <3>2. v = Low(k - 1, v) + P * High(k - 1, v) /\ Low(k - 1, v) < P
      BY <1>0, <3>1, LowHigh
    <3>3. Low(k - 1, v) \in Nat /\ High(k - 1, v) \in Nat
      BY <1>0, NaturalHalves
    <3>4. QED
      BY <3>2, <3>3
  <2>5. CASE High(k - 1, v) = 0
    <3>1. v < P /\ f[jj][v] = v * B
      <4>1. P * High(k - 1, v) = 0
        BY <1>0, <2>5
      <4>2. f[jj][v] = v * B
        BY <2>1, <2>5
      <4>3. QED
        BY <2>4, <4>1, <4>2
    <3> HIDE DEF f, P
    <3>2. v * B < B * P /\ v * B >= 1 /\ v * B \in Nat
      <4>1. v <= P - 1
        BY <1>0, <3>1
      <4>2. v * B <= (P - 1) * B /\ (P - 1) * B = B * P - B /\ B * P \in Int
        BY <1>0, <4>1
      <4>3. v * B >= 1 * B
        BY <1>0, <2>2
      <4>4. QED
        BY <1>0, <4>2, <4>3
    <3>3. v = n * Pow[jj]
      BY <2>2, <3>1 DEF P
    <3>4. v * B = n * Pow[jj + 1]
      <4> DEFINE Q == Pow[jj]
      <4>1. Q \in Nat /\ v = n * Q
        BY <2>3, <3>3
      <4> HIDE DEF Q
      <4>2. (n * Q) * B = n * (B * Q)
        BY <1>0, <4>1
      <4>3. QED
        BY <2>3, <4>1, <4>2 DEF Q
    <3>5. Pow[jj + 1] \in Nat
      BY <2>1, PowPositive
    <3>6. Climbed(jj + 1, k, v * B, n)
      BY <1>0, <3>2, <3>4, <3>5 DEF Climbed
    <3>7. QED
      BY <2>1, <3>1, <3>2, <3>6
  <2>6. CASE High(k - 1, v) # 0
    <3>1. f[jj][v] = v
      BY <2>1, <2>6
    <3>2. ~(v < P)
      <4> DEFINE u == High(k - 1, v)
      <4>1. u \in Nat /\ u >= 1 /\ v >= P * u
        BY <1>0, <2>4, <2>6
      <4> HIDE DEF u, P
      <4>2. P * u >= P * 1 /\ P * u \in Int
        BY <1>0, <4>1
      <4>3. QED
        BY <1>0, <4>1, <4>2
    <3>3. Climbed(jj + 1, k, v, n)
      BY <2>1, <2>2, <3>2 DEF Climbed
    <3> HIDE DEF f
    <3>4. QED
      BY <2>1, <3>1, <3>3
  <2>7. QED
    BY <2>5, <2>6
<1>4. t \in Nat /\ t \in J[k - 1]
  <2> HIDE DEF f, J
  <2>1. QED
    BY <1>0, <1>1, <1>2, <1>3, PassesKeep
<1>5. Climbed(k - 1, k, t, n)
  <2> HIDE DEF t
  <2>1. QED
    BY <1>0, <1>4
<1>6. Normalized(k, n) = t * r
  BY DEF Normalized
<1> HIDE DEF t, f, J
<1>7. t \in Nat /\ t >= P /\ t < B * P /\ \E a \in Nat : t = n * a
  <2>1. t \in Nat /\ t < B * P /\ (\E a \in Nat : t = n * a) /\ (t < P => t = n * P)
    BY <1>0, <1>5 DEF Climbed
  <2>2. n * P >= 1 * P /\ n * P \in Nat
    BY <1>0
  <2>3. t >= P
    BY <1>0, <2>1, <2>2
  <2>4. QED
    BY <2>1, <2>3
<1> DEFINE l == Low(k - 1, t)
<1>8. l \in Int /\ 0 <= l /\ l < P /\ hh \in Int /\ t = l + P * hh /\ 0 <= hh /\ hh < B
  <2>1. t \in Int /\ 0 <= t
    BY <1>7
  <2>2. l \in Int /\ 0 <= l /\ l < P /\ hh \in Int /\ t = l + P * hh
    BY <1>0, <2>1, LowHigh
  <2>3. t < P * B
    BY <1>0, <1>7
  <2>4. 0 <= hh /\ hh < B
    BY <1>0, <2>1, <2>3, HighBelow
  <2>5. QED
    BY <2>2, <2>4
<1> HIDE DEF l, hh, P
<1>9. hh > 0
  <2>1. CASE hh = 0
    <3>1. P * hh = 0
      BY <1>0, <2>1
    <3>2. QED
      BY <1>0, <1>7, <1>8, <3>1
  <2>2. QED
    BY <1>8, <2>1
<1>10. e \in 0 .. (W - 1) /\ hh * r < B /\ B <= 2 * (hh * r)
  BY <1>8, <1>9, ClzRight
<1> HIDE DEF e
<1>11. r \in Nat /\ r >= 1 /\ \E y \in Nat : B = r * y
  <2>1. e \in Nat /\ W - e \in Nat /\ e + (W - e) = W
    BY <1>0, <1>10
  <2>2. TwoTo[e + (W - e)] = r * TwoTo[W - e]
    BY <2>1, TwoToAdds
  <2>3. r \in Nat /\ r >= 1 /\ TwoTo[W - e] \in Nat
    BY <2>1, TwoToFacts
  <2>4. QED
    BY <1>0, <2>1, <2>2, <2>3
<1>12. PICK y \in Nat : B = r * y
  BY <1>11
<1> HIDE DEF r
<1>13. (hh + 1) * r <= B
  <2>1. hh < y
    <3>1. SUFFICES ASSUME hh >= y PROVE FALSE
      BY <1>8
    <3>2. r * hh >= r * y /\ r * hh \in Int /\ hh * r = r * hh
      BY <1>8, <1>11, <3>1
    <3>3. QED
      BY <1>0, <1>10, <1>12, <3>2
  <2>2. r * (hh + 1) <= r * y /\ r * (hh + 1) = (hh + 1) * r
    BY <1>8, <1>11, <2>1
  <2>3. QED
    BY <1>12, <2>2
<1> DEFINE v == t * r
<1>14. v \in Nat
  BY <1>7, <1>11
<1>15. v < B * P
  <2>1. t < P * (hh + 1)
    <3>1. P * (hh + 1) = P * hh + P /\ P * hh \in Int
      BY <1>0, <1>8
    <3>2. QED
      BY <1>0, <1>8, <3>1
  <2> DEFINE u == P * (hh + 1)
  <2>2. u \in Int /\ t < u
    BY <1>0, <1>8, <2>1
  <2>3. u * r = P * ((hh + 1) * r)
    BY <1>0, <1>8, <1>11
  <2> HIDE DEF u
  <2>4. t * r < u * r
    <3>1. (u - t) * r >= 1 * r /\ (u - t) * r = u * r - t * r
      BY <1>7, <1>11, <2>2
    <3>2. u * r \in Int /\ t * r \in Int
      BY <1>7, <1>11, <2>2
    <3>3. QED
      BY <1>11, <3>1, <3>2
  <2>5. P * ((hh + 1) * r) <= P * B /\ P * B = B * P /\ u * r \in Int /\ P * B \in Int
    <3> DEFINE o == (hh + 1) * r
    <3>1. o \in Int /\ o <= B
      BY <1>8, <1>11, <1>13
    <3> HIDE DEF o
    <3>2. P * o <= P * B
      BY <1>0, <3>1
    <3>3. u * r \in Int /\ P * B = B * P /\ P * B \in Int
      BY <1>0, <1>11, <2>2
    <3>4. QED
      BY <3>2, <3>3 DEF o
  <2>6. QED
    BY <1>14, <2>3, <2>4, <2>5
<1>16. B * P <= 2 * v
  <2>1. P * hh <= t /\ P * hh \in Int
    BY <1>0, <1>8
  <2> DEFINE u == P * hh
             g == hh * r
  <2>2. u \in Int /\ u <= t /\ u * r = P * g /\ g \in Int /\ B <= 2 * g
    BY <1>0, <1>8, <1>10, <1>11, <2>1
  <2> HIDE DEF u, g
  <2>3. u * r <= t * r /\ u * r \in Int
    BY <1>7, <1>11, <2>2
  <2>4. P * B <= P * (2 * g) /\ P * (2 * g) = 2 * (P * g) /\ P * B = B * P /\ B * P \in Int /\ P * g \in Int
    BY <1>0, <2>2
  <2>5. QED
    BY <1>14, <2>2, <2>3, <2>4
<1>17. \E s \in Nat : v = n * s
  <2>1. PICK a \in Nat : t = n * a
    BY <1>7
  <2>2. t * r = n * (a * r) /\ a * r \in Nat
    BY <1>11, <2>1
  <2>3. QED
    BY <2>2
<1> HIDE DEF v
<1>18. Normalized(k, n) = v
  BY <1>6 DEF v
<1>19. QED
  BY <1>0, <1>14, <1>15, <1>16, <1>17, <1>18
\* The quotient and the remainder after jj bits of the estimate.
EstimateDone(jj, s, h0) ==
  s.q \in Nat /\ s.r \in Nat /\ s.r <= h0 /\ TwoTo[W + jj] = s.q * h0 + s.r

\* One more bit.
LEMMA EstimateBitRight ==
  ASSUME NEW h0 \in Nat, h0 < B, NEW jj \in Nat, NEW s, EstimateDone(jj, s, h0)
  PROVE  EstimateDone(jj + 1, EstimateBit(s, h0), h0)
<1> DEFINE more == s.r >= Lo(h0 - s.r)
           q1 == 2 * s.q + Bitval(more)
           v == 2 * s.r - (IF more THEN h0 ELSE 0)
           r1 == Lo(v)
<1>0. B \in Nat /\ s.q \in Nat /\ s.r \in Nat /\ s.r <= h0 /\ TwoTo[W + jj] = s.q * h0 + s.r
  BY BaseAssumption DEF EstimateDone
<1>1. Lo(h0 - s.r) = h0 - s.r
  <2> DEFINE y == h0 - s.r
  <2>1. y \in Int /\ 0 <= y /\ y < B
    BY <1>0
  <2> HIDE DEF y
  <2>2. Lo(y) = y
    BY <2>1, LoSmall
  <2>3. QED
    BY <2>2 DEF y
<1>2. EstimateBit(s, h0) = [q |-> q1, r |-> r1]
  BY DEF EstimateBit
<1>3. TwoTo[W + (jj + 1)] = 2 * (s.q * h0 + s.r)
  <2>1. W + jj \in Nat /\ (W + jj) + 1 = W + (jj + 1)
    BY WordBitsAssumption
  <2>2. TwoTo[(W + jj) + 1] = 2 * TwoTo[W + jj]
    BY <2>1, TwoToFacts
  <2>3. QED
    BY <1>0, <2>1, <2>2
<1>4. CASE more
  <2>1. q1 = 2 * s.q + 1 /\ v = 2 * s.r - h0 /\ 2 * s.r >= h0
    BY <1>0, <1>1, <1>4 DEF Bitval
  <2>2. v \in Int /\ 0 <= v /\ v < B /\ v <= h0
    BY <1>0, <2>1
  <2> HIDE DEF v, more
  <2>3. r1 = v
    BY <2>2, LoSmall
  <2> HIDE DEF q1, r1
  <2>4. 2 * (s.q * h0 + s.r) = q1 * h0 + v
    <3>1. (2 * s.q + 1) * h0 = 2 * (s.q * h0) + h0 /\ s.q * h0 \in Int
      BY <1>0
    <3>2. QED
      BY <1>0, <2>1, <3>1
  <2>5. q1 \in Nat /\ r1 \in Nat /\ r1 <= h0
    BY <1>0, <2>1, <2>2, <2>3
  <2>6. QED
    BY <1>2, <1>3, <2>3, <2>4, <2>5 DEF EstimateDone
<1>5. CASE ~more
  <2>1. q1 = 2 * s.q /\ v = 2 * s.r /\ 2 * s.r < h0
    BY <1>0, <1>1, <1>5 DEF Bitval
  <2>2. v \in Int /\ 0 <= v /\ v < B /\ v <= h0
    BY <1>0, <2>1
  <2> HIDE DEF v, more
  <2>3. r1 = v
    BY <2>2, LoSmall
  <2> HIDE DEF q1, r1
  <2>4. 2 * (s.q * h0 + s.r) = q1 * h0 + v
    <3>1. (2 * s.q) * h0 = 2 * (s.q * h0) /\ s.q * h0 \in Int
      BY <1>0
    <3>2. QED
      BY <1>0, <2>1, <3>1
  <2>5. q1 \in Nat /\ r1 \in Nat /\ r1 <= h0
    BY <1>0, <2>1, <2>2, <2>3
  <2>6. QED
    BY <1>2, <1>3, <2>3, <2>4, <2>5 DEF EstimateDone
<1>6. QED
  BY <1>4, <1>5

\* The estimate is the quotient of 2^(2 W - 2) by a normalized word.
LEMMA EstimateIs ==
  ASSUME NEW h0 \in Nat, h0 < B, B <= 2 * h0
  PROVE  /\ Estimate(h0) \in Nat /\ Estimate(h0) <= h0
         /\ \E r \in Nat : r < h0 /\ TwoTo[W + (W - 2)] = Estimate(h0) * h0 + r
<1> DEFINE S == [q : Nat, r : Nat]
           f == [jj \in Nat |-> [s \in S |-> EstimateBit(s, h0)]]
           J == [jj \in Nat |-> {s \in S : EstimateDone(jj, s, h0)}]
           s0 == [q |-> 1, r |-> Lo(-h0)]
           end == Passes(W - 2, f, s0)
           o == end.q + Bitval(end.r = h0)
<1>0. B \in Nat /\ B >= 2 /\ W \in Nat /\ W >= 2 /\ W - 2 \in Nat /\ B = TwoTo[W]
  BY BaseAssumption, WordBitsAssumption, EstimateAssumption
<1>1. Estimate(h0) = o
  BY DEF Estimate
<1>2. s0.q = 1 /\ s0.r = B - h0 /\ s0 \in S
  <2>1. -h0 \in Int /\ B * (0 - 1) = 0 - B /\ 0 - B <= -h0 /\ -h0 < (0 - B) + B
    BY <1>0
  <2>2. Lo(-h0) = -h0 - B * (0 - 1)
    <3>1. 0 - 1 \in Int /\ B * (0 - 1) <= -h0 /\ -h0 < B * (0 - 1) + B
      BY <1>0, <2>1
    <3>2. QED
      BY <2>1, <3>1, HiBound
  <2>3. Lo(-h0) = B - h0
    BY <1>0, <2>1, <2>2
  <2>4. QED
    BY <1>0, <2>3
<1> HIDE DEF s0
<1>3. s0 \in J[0]
  <2>1. W + 0 = W /\ TwoTo[W] = 1 * h0 + (B - h0) /\ B - h0 \in Nat /\ B - h0 <= h0
    BY <1>0
  <2>2. EstimateDone(0, s0, h0)
    BY <1>2, <2>1 DEF EstimateDone
  <2>3. QED
    BY <1>2, <2>2
<1>4. f \in [Nat -> [S -> S]]
  <2>1. ASSUME NEW s \in S PROVE EstimateBit(s, h0) \in S
    <3> DEFINE more == s.r >= Lo(h0 - s.r)
               v == 2 * s.r - (IF more THEN h0 ELSE 0)
    <3>1. v \in Int /\ s.q \in Nat
      OBVIOUS
    <3>2. Lo(v) \in Nat
      <4> HIDE DEF v
      <4>1. QED
        BY <3>1, WordHalves
    <3>3. 2 * s.q + Bitval(more) \in Nat
      BY <3>1 DEF Bitval
    <3>4. QED
      BY <3>2, <3>3 DEF EstimateBit
  <2>2. QED
    BY <2>1
<1>5. \A jj \in 0 .. ((W - 2) - 1) : \A s \in S : s \in J[jj] => f[jj][s] \in J[jj + 1]
  <2> SUFFICES ASSUME NEW jj \in 0 .. ((W - 2) - 1), NEW s \in S, s \in J[jj] PROVE f[jj][s] \in J[jj + 1]
    OBVIOUS
  <2>1. jj \in Nat /\ jj + 1 \in Nat /\ EstimateDone(jj, s, h0)
    BY <1>0
  <2> DEFINE s1 == EstimateBit(s, h0)
  <2>2. EstimateDone(jj + 1, s1, h0)
    BY <2>1, EstimateBitRight
  <2>3. f[jj][s] = s1 /\ f[jj] \in [S -> S]
    BY <1>4, <2>1
  <2>4. s1 \in S
    BY <2>3
  <2> HIDE DEF s1, f, S
  <2>5. QED
    BY <2>1, <2>2, <2>3, <2>4
<1>6. end \in S /\ end \in J[W - 2]
  <2> HIDE DEF f, J, S
  <2>1. QED
    BY <1>0, <1>2, <1>3, <1>4, <1>5, PassesKeep
<1>7. EstimateDone(W - 2, end, h0)
  <2> HIDE DEF end
  <2>1. QED
    BY <1>0, <1>6
<1> HIDE DEF end, f, J, S
<1>8. end.q \in Nat /\ end.r \in Nat /\ end.r <= h0 /\ TwoTo[W + (W - 2)] = end.q * h0 + end.r
  BY <1>7 DEF EstimateDone
<1>9. o \in Nat /\ \E r \in Nat : r < h0 /\ TwoTo[W + (W - 2)] = o * h0 + r
  <2>1. CASE end.r = h0
    <3>1. o = end.q + 1
      BY <2>1 DEF Bitval
    <3>2. (end.q + 1) * h0 + 0 = end.q * h0 + h0
      BY <1>8
    <3>3. 0 < h0
      BY <1>0
    <3> HIDE DEF o
    <3>4. TwoTo[W + (W - 2)] = o * h0 + 0
      BY <1>8, <2>1, <3>1, <3>2
    <3>5. QED
      BY <1>8, <3>1, <3>3, <3>4
  <2>2. CASE end.r # h0
    <3>1. o = end.q
      BY <1>8, <2>2 DEF Bitval
    <3> HIDE DEF o
    <3>2. QED
      BY <1>8, <2>2, <3>1
  <2>3. QED
    BY <2>1, <2>2
<1> HIDE DEF o
<1>10. o <= h0
  <2>1. PICK r \in Nat : r < h0 /\ TwoTo[W + (W - 2)] = o * h0 + r
    BY <1>9
  <2> DEFINE e == TwoTo[W - 2]
  <2>2. TwoTo[W + (W - 2)] = B * e /\ B = 4 * e /\ e \in Nat
    <3>1. TwoTo[W + (W - 2)] = TwoTo[W] * e
      BY <1>0, TwoToAdds
    <3>2. (W - 2) + 1 \in Nat /\ ((W - 2) + 1) + 1 = W
      BY <1>0
    <3>3. e \in Nat /\ TwoTo[(W - 2) + 1] = 2 * e
      BY <1>0, TwoToFacts
    <3>4. TwoTo[((W - 2) + 1) + 1] = 2 * TwoTo[(W - 2) + 1]
      BY <3>2, TwoToFacts
    <3>5. TwoTo[W] = 4 * e
      BY <3>2, <3>3, <3>4
    <3>6. QED
      BY <1>0, <3>1, <3>3, <3>5
  <2> HIDE DEF e
  <2>3. o * h0 <= B * e /\ o * h0 \in Int /\ B * e \in Int
    BY <1>0, <1>9, <2>1, <2>2
  <2>4. SUFFICES ASSUME o >= h0 + 1 PROVE FALSE
    BY <1>9
  <2>5. o * h0 >= (h0 + 1) * h0
    BY <1>9, <2>4
  <2>6. (h0 + 1) * h0 >= (h0 + 1) * (2 * e) /\ h0 >= 2 * e
    BY <1>0, <2>2
  <2>7. (h0 + 1) * (2 * e) >= (2 * e + 1) * (2 * e)
    BY <2>2, <2>6
  <2>8. (2 * e + 1) * (2 * e) = B * e + 2 * e
    BY <2>2
  <2>9. (h0 + 1) * h0 \in Int /\ (h0 + 1) * (2 * e) \in Int /\ (2 * e + 1) * (2 * e) \in Int
    BY <2>2
  <2>10. e > 0
    BY <1>0, <2>2
  <2>11. QED
    BY <2>2, <2>3, <2>5, <2>6, <2>7, <2>8, <2>9, <2>10
<1>11. QED
  BY <1>1, <1>9, <1>10
\* A number with its top bit set.
TopBitSet(k, n) == n \in Nat /\ n < Pow[k] /\ Pow[k] <= 2 * n

\* The top word of a number with its top bit set has its top bit set.
LEMMA TopWordNormal ==
  ASSUME NEW k \in Nat, k > 0, NEW n, TopBitSet(k, n)
  PROVE  High(k - 1, n) \in Nat /\ High(k - 1, n) < B /\ B <= 2 * High(k - 1, n)
<1> DEFINE P == Pow[k - 1]
           hh == High(k - 1, n)
           l == Low(k - 1, n)
<1>0. /\ B \in Nat /\ B >= 2 /\ k - 1 \in Nat /\ P \in Nat /\ P > 0 /\ Pow[k] = B * P
      /\ n \in Nat /\ n < B * P /\ B * P <= 2 * n
  BY BaseAssumption, TopWord DEF TopBitSet
<1>1. l \in Int /\ 0 <= l /\ l < P /\ n = l + P * hh
  <2>1. n \in Int
    BY <1>0
  <2>2. QED
    BY <1>0, <2>1, LowHigh
<1>2. hh \in Int /\ 0 <= hh /\ hh < B
  <2>1. n \in Int /\ 0 <= n /\ n < P * B
    BY <1>0
  <2>2. QED
    BY <1>0, <2>1, HighBelow
<1>3. \E g \in Int : B = 2 * g
  <2>1. W \in Nat /\ W >= 1 /\ B = TwoTo[W] /\ W - 1 \in Nat /\ (W - 1) + 1 = W
    BY WordBitsAssumption
  <2>2. TwoTo[(W - 1) + 1] = 2 * TwoTo[W - 1] /\ TwoTo[W - 1] \in Int
    BY <2>1, TwoToFacts
  <2>3. QED
    BY <2>1, <2>2
<1>4. PICK g \in Int : B = 2 * g
  BY <1>3
<1> HIDE DEF P, hh, l
<1>5. hh >= g
  <2>1. SUFFICES ASSUME hh <= g - 1 PROVE FALSE
    BY <1>2
  <2>2. P * hh <= P * (g - 1) /\ P * (g - 1) = P * g - P /\ P * g \in Int /\ P * hh \in Int
    BY <1>0, <1>2, <2>1
  <2>3. n < P * g
    BY <1>0, <1>1, <2>2
  <2>4. B * P = 2 * (P * g)
    BY <1>0, <1>4
  <2>5. QED
    BY <1>0, <2>2, <2>3, <2>4
<1>6. QED
  BY <1>2, <1>4, <1>5 DEF hh

\* The first remainder, within the modulus.
LEMMA Remainder62Right ==
  ASSUME NEW k \in Nat, k > 0, NEW n, TopBitSet(k, n)
  PROVE  /\ Remainder62(k, n) \in Nat /\ Remainder62(k, n) <= n
         /\ Congruent(Remainder62(k, n), TwoTo[W - 2] * Pow[k], n)
<1> DEFINE P == Pow[k]
           R == Pow[k - 1]
           hh == High(k - 1, n)
           l == Low(k - 1, n)
           q == Estimate(hh)
           v == q * n
           e == TwoTo[W - 2]
           E == e * P
           u == High(k, v)
           y == Low(k, v)
           s == (IF u >= e THEN n ELSE 0) - y
<1>0. /\ B \in Nat /\ B >= 2 /\ k - 1 \in Nat /\ R \in Nat /\ R > 0 /\ P = B * R
      /\ n \in Nat /\ n < P /\ P <= 2 * n /\ W \in Nat /\ W - 2 \in Nat /\ B = TwoTo[W]
      /\ e \in Nat /\ P \in Nat
  <2>1. W \in Nat /\ W - 2 \in Nat /\ B = TwoTo[W]
    BY WordBitsAssumption, EstimateAssumption
  <2>2. e \in Nat
    BY <2>1, TwoToFacts
  <2>3. P \in Nat
    BY PowPositive
  <2>4. QED
    BY <2>1, <2>2, <2>3, BaseAssumption, TopWord DEF TopBitSet
<1>1. l \in Int /\ 0 <= l /\ l < R /\ n = l + R * hh
  <2>1. n \in Int
    BY <1>0
  <2>2. QED
    BY <1>0, <2>1, LowHigh
<1>2. hh \in Nat /\ hh < B /\ B <= 2 * hh
  BY TopWordNormal
<1> HIDE DEF hh
<1>3. q \in Nat /\ q <= hh /\ \E r \in Nat : r < hh /\ TwoTo[W + (W - 2)] = q * hh + r
  BY <1>2, EstimateIs
<1>4. PICK r \in Nat : r < hh /\ TwoTo[W + (W - 2)] = q * hh + r
  BY <1>3
<1> HIDE DEF q, l, R
<1>5. B * e = q * hh + r
  <2>1. TwoTo[W + (W - 2)] = TwoTo[W] * e
    BY <1>0, TwoToAdds
  <2>2. QED
    BY <1>0, <1>4, <2>1
<1> DEFINE dd == q * l - r * R
<1>6. v = E + dd /\ dd \in Int /\ 0 - n < dd /\ dd < n /\ E \in Nat /\ v \in Nat
  <2> HIDE DEF P, e
  <2>1. E = R * (B * e)
    BY <1>0
  <2>2. R * (q * hh + r) = q * (R * hh) + r * R
    BY <1>0, <1>2, <1>3
  <2>3. v = q * l + q * (R * hh)
    <3>1. q * (l + R * hh) = q * l + q * (R * hh)
      BY <1>0, <1>1, <1>2, <1>3
    <3>2. QED
      BY <1>1, <3>1
  <2>4. q * l \in Int /\ r * R \in Int /\ q * (R * hh) \in Int /\ E \in Nat
    BY <1>0, <1>1, <1>2, <1>3
  <2>5. v = E + dd
    <3> HIDE DEF v, E
    <3>1. E = q * (R * hh) + r * R
      BY <1>5, <2>1, <2>2
    <3>2. QED
      BY <2>3, <2>4, <3>1
  <2>6. 0 <= q * l /\ q * l < n
    <3>1. 0 <= q * l
      BY <1>1, <1>3
    <3>2. q * l <= hh * l
      BY <1>1, <1>2, <1>3
    <3>3. hh * l <= hh * (R - 1) /\ hh * (R - 1) = R * hh - hh
      BY <1>0, <1>1, <1>2
    <3>4. hh > 0 /\ R * hh \in Int /\ hh * l \in Int
      BY <1>0, <1>1, <1>2
    <3>5. QED
      BY <1>0, <1>1, <1>2, <2>4, <3>1, <3>2, <3>3, <3>4
  <2>7. 0 <= r * R /\ r * R < n
    <3>1. 0 <= r * R
      BY <1>0
    <3>2. r * R <= (hh - 1) * R /\ (hh - 1) * R = R * hh - R /\ R * hh \in Int
      BY <1>0, <1>2, <1>4
    <3>3. QED
      BY <1>0, <1>1, <2>4, <3>1, <3>2
  <2>8. v \in Nat
    BY <1>0, <1>3
  <2>9. QED
    BY <1>0, <2>4, <2>5, <2>6, <2>7, <2>8
<1>7. Remainder62(k, n) = Low(k, s)
  BY DEF Remainder62, q, hh
<1> HIDE DEF dd
<1>8. CASE dd >= 0
  <2> HIDE DEF v
  <2>1. v = dd + Pow[k] * e /\ dd < Pow[k]
    <3>1. P * e = e * P
      BY <1>0
    <3>2. v = dd + P * e /\ dd < P
      BY <1>0, <1>6, <3>1
    <3>3. QED
      BY <3>2
  <2>2. y = dd /\ u = e
    <3>1. e \in Int /\ dd \in Int
      BY <1>0, <1>6
    <3> HIDE DEF e
    <3>2. QED
      BY <1>8, <2>1, <3>1, LowHighAre
  <2> HIDE DEF y, u
  <2>3. s = n - dd
    BY <1>0, <2>2
  <2>4. n - dd \in Int /\ 0 <= n - dd /\ n - dd < Pow[k] /\ n - dd <= n
    BY <1>0, <1>6, <1>8
  <2>5. Low(k, s) = n - dd
    BY <2>3, <2>4, LowSmall
  <2>6. Congruent(n - dd, E, n)
    <3>1. n - dd = E + n * (1 - q)
      <4>1. n * (1 - q) = n - v
        <5>1. n * (1 - q) = n - q * n
          BY <1>0, <1>3
        <5>2. QED
          BY <5>1 DEF v
      <4> HIDE DEF E
      <4>2. QED
        BY <1>0, <1>6, <4>1
    <3> DEFINE a == n - dd
               b == 1 - q
    <3>2. a \in Int /\ b \in Int /\ a = E + n * b /\ E \in Int
      BY <1>3, <1>6, <2>4, <3>1
    <3> HIDE DEF E, a, b
    <3>3. Congruent(a, E, n)
      BY <1>0, <3>2, ApartBy
    <3>4. QED
      BY <3>3 DEF a
  <2>7. QED
    BY <1>7, <2>4, <2>5, <2>6
<1>9. CASE dd < 0
  <2> HIDE DEF v
  <2>1. v = (P + dd) + Pow[k] * (e - 1) /\ P + dd < Pow[k] /\ 0 <= P + dd /\ P + dd \in Int
    <3>1. P * (e - 1) = e * P - P
      BY <1>0
    <3> HIDE DEF P
    <3>2. v = (P + dd) + P * (e - 1) /\ P + dd < P /\ 0 <= P + dd /\ P + dd \in Int
      BY <1>0, <1>6, <1>9, <3>1
    <3>3. QED
      BY <3>2 DEF P
  <2>2. y = P + dd /\ u = e - 1
    <3> DEFINE a == P + dd
    <3>1. e - 1 \in Int /\ a \in Int /\ 0 <= a /\ a < Pow[k] /\ v = a + Pow[k] * (e - 1)
      BY <1>0, <2>1
    <3> HIDE DEF e, a
    <3>2. y = a /\ u = e - 1
      BY <3>1, LowHighAre
    <3>3. QED
      BY <3>2 DEF a
  <2> HIDE DEF y, u
  <2>3. s = (0 - dd) + Pow[k] * (0 - 1)
    <3>1. P * (0 - 1) = 0 - P
      BY <1>0
    <3> HIDE DEF P
    <3>2. s = 0 - (P + dd)
      BY <1>0, <2>2
    <3>3. s = (0 - dd) + P * (0 - 1)
      BY <1>0, <1>6, <3>1, <3>2
    <3>4. QED
      BY <3>3 DEF P
  <2>4. 0 - dd \in Int /\ 0 <= 0 - dd /\ 0 - dd < Pow[k] /\ 0 - dd <= n
    BY <1>0, <1>6, <1>9
  <2>5. Low(k, s) = 0 - dd
    <3> HIDE DEF s
    <3> DEFINE a == 0 - dd
    <3>1. a \in Int /\ 0 <= a /\ a < Pow[k] /\ s = a + Pow[k] * (0 - 1) /\ 0 - 1 \in Int
      BY <2>3, <2>4
    <3> HIDE DEF a
    <3>2. Low(k, s) = a
      BY <3>1, LowHighAre
    <3>3. QED
      BY <3>2 DEF a
  <2>6. Congruent(0 - dd, E, n)
    <3>1. 0 - dd = E + n * (0 - q)
      <4>1. n * (0 - q) = 0 - v
        <5>1. n * (0 - q) = 0 - q * n
          BY <1>0, <1>3
        <5>2. QED
          BY <5>1 DEF v
      <4> HIDE DEF E
      <4>2. QED
        BY <1>0, <1>6, <4>1
    <3> DEFINE a == 0 - dd
               b == 0 - q
    <3>2. a \in Int /\ b \in Int /\ a = E + n * b /\ E \in Int
      BY <1>3, <1>6, <2>4, <3>1
    <3> HIDE DEF E, a, b
    <3>3. Congruent(a, E, n)
      BY <1>0, <3>2, ApartBy
    <3>4. QED
      BY <3>3 DEF a
  <2>7. QED
    BY <1>7, <2>4, <2>5, <2>6
<1>10. QED
  BY <1>6, <1>8, <1>9

\* Doubling keeps a number within the modulus.
LEMMA DoubledRight ==
  ASSUME NEW k \in Nat, NEW n, TopBitSet(k, n), NEW v \in Nat, v <= n
  PROVE  /\ Doubled(k, v, n) \in Nat /\ Doubled(k, v, n) <= n
         /\ Congruent(Doubled(k, v, n), 2 * v, n)
<1> DEFINE P == Pow[k]
           u == 2 * v
           l == Low(k, u)
           t == High(k, u)
           e == t - Bitval(l < n)
           s == u - n + (CASE e = 0 -> 0 [] e = -1 -> n)
<1>0. P \in Nat /\ P > 0 /\ n \in Nat /\ n < P /\ P <= 2 * n /\ u \in Nat
  BY PowPositive DEF TopBitSet
<1>1. Doubled(k, v, n) = Low(k, s)
  BY DEF Doubled
<1>2. CASE u < n
  <2>1. l = u /\ t = 0
    <3>1. u \in Int /\ 0 <= u /\ u < Pow[k]
      BY <1>0, <1>2
    <3> HIDE DEF u
    <3>2. QED
      BY <3>1, LowSmall
  <2> HIDE DEF l, t, P
  <2>2. e = -1
    BY <1>2, <2>1 DEF Bitval
  <2> HIDE DEF e
  <2>3. s = u
    BY <1>0, <2>2
  <2>4. Low(k, u) = u
    BY <2>1 DEF l
  <2>5. u = 2 * v + n * 0 /\ 0 \in Int
    BY <1>0
  <2>6. Congruent(u, 2 * v, n)
    <3> HIDE DEF u
    <3>1. u = u + n * 0 /\ u \in Int
      BY <1>0
    <3>2. Congruent(u, u, n)
      BY <1>0, <2>5, <3>1, ApartBy
    <3>3. QED
      BY <3>2 DEF u
  <2> HIDE DEF s, u
  <2>7. QED
    BY <1>0, <1>1, <1>2, <2>3, <2>4, <2>6
<1>3. CASE u >= n
  <2>1. e = 0
    <3>1. CASE u < P
      <4>1. l = u /\ t = 0
        <5>1. u \in Int /\ 0 <= u /\ u < Pow[k]
          BY <1>0, <3>1
        <5> HIDE DEF u
        <5>2. QED
          BY <5>1, LowSmall
      <4>2. ~(l < n)
        BY <1>0, <1>3, <4>1
      <4>3. Bitval(l < n) = 0
        BY <4>2 DEF Bitval
      <4> HIDE DEF l, t
      <4>4. QED
        BY <4>1, <4>3
    <3>2. CASE u >= P
      <4> DEFINE a == u - P
      <4>1. a \in Int /\ 0 <= a /\ a < P /\ u = a + P * 1 /\ a < n
        BY <1>0, <3>2
      <4>2. l = a /\ t = 1
        <5> HIDE DEF a, u
        <5>1. a < Pow[k] /\ u = a + Pow[k] * 1 /\ 1 \in Int
          BY <4>1
        <5>2. QED
          BY <4>1, <5>1, LowHighAre
      <4> HIDE DEF l, t, a
      <4>3. QED
        BY <4>1, <4>2 DEF Bitval
    <3>3. QED
      BY <1>0, <3>1, <3>2
  <2> HIDE DEF e
  <2>2. s = u - n
    BY <1>0, <2>1
  <2>3. u - n \in Int /\ 0 <= u - n /\ u - n < Pow[k] /\ u - n <= n
    BY <1>0, <1>3
  <2>4. Low(k, s) = u - n
    BY <2>2, <2>3, LowSmall
  <2>5. u - n = 2 * v + n * (0 - 1) /\ 0 - 1 \in Int
    BY <1>0
  <2>6. Congruent(u - n, 2 * v, n)
    <3> DEFINE a == u - n
               b == 0 - 1
    <3>1. a \in Int /\ b \in Int /\ a = u + n * b /\ u \in Int
      BY <1>0, <2>3, <2>5
    <3> HIDE DEF u, a, b
    <3>2. Congruent(a, u, n)
      BY <1>0, <3>1, ApartBy
    <3>3. QED
      BY <3>2 DEF a, u
  <2> HIDE DEF s
  <2>7. QED
    BY <1>1, <2>3, <2>4, <2>6
<1>4. QED
  BY <1>0, <1>2, <1>3

\* A shift by a word in k + 1 words.
LEMMA ShiftedRight ==
  ASSUME NEW k \in Nat, NEW n, TopBitSet(k, n), NEW r \in Nat, r <= n, Congruent(r, B * Pow[k], n),
         NEW v \in Nat, v < Pow[k + 1]
  PROVE  /\ Shifted(k, v, r) \in Nat /\ Shifted(k, v, r) < Pow[k + 1]
         /\ Congruent(Shifted(k, v, r), B * v, n)
<1> DEFINE P == Pow[k]
           l == Low(k, v)
           t == High(k, v)
           u == B * l + t * r
           s == u + (IF u >= Pow[k + 1] THEN r ELSE 0)
<1>0. P \in Nat /\ P > 0 /\ n \in Nat /\ n < P /\ B \in Nat /\ B >= 2 /\ Pow[k + 1] = B * P /\ k + 1 \in Nat
  BY BaseAssumption, PowFacts, PowPositive DEF TopBitSet
<1>1. l \in Int /\ 0 <= l /\ l < P /\ v = l + P * t
  <2>1. v \in Int
    OBVIOUS
  <2>2. QED
    BY <2>1, LowHigh
<1>2. t \in Int /\ 0 <= t /\ t < B
  <2>1. v \in Int /\ 0 <= v /\ v < Pow[k] * B
    BY <1>0
  <2>2. QED
    BY <1>0, <2>1, HighBelow
<1>3. Shifted(k, v, r) = Low(k + 1, s)
  BY DEF Shifted
<1> HIDE DEF l, t, P
<1>4. u \in Int /\ 0 <= u /\ u < B * P + (B - 1) * n
  <2>1. B * l <= B * (P - 1) /\ B * (P - 1) = B * P - B /\ B * l \in Int /\ 0 <= B * l /\ B * P \in Int
    BY <1>0, <1>1
  <2>2. t * r <= (B - 1) * r /\ t * r \in Int /\ 0 <= t * r
    BY <1>0, <1>2
  <2>3. (B - 1) * r <= (B - 1) * n /\ (B - 1) * r \in Int /\ (B - 1) * n \in Int
    BY <1>0
  <2>4. QED
    BY <1>0, <2>1, <2>2, <2>3
<1>5. PICK g \in Int : r = B * P + n * g
  BY <1>0 DEF Congruent, P
<1>6. u = B * v + n * (t * g)
  <2>1. B * v = B * l + t * (B * P)
    BY <1>0, <1>1, <1>2
  <2>2. t * (B * P + n * g) = t * (B * P) + n * (t * g)
    BY <1>0, <1>2
  <2>3. B * l \in Int /\ t * (B * P) \in Int /\ n * (t * g) \in Int
    BY <1>0, <1>1, <1>2
  <2>4. QED
    BY <1>5, <2>1, <2>2, <2>3
<1> DEFINE a == t * g
<1>7. a \in Int /\ u = B * v + n * a /\ B * v \in Int
  BY <1>0, <1>2, <1>6
<1> HIDE DEF u, a
<1>8. CASE u < B * P
  <2>1. s = u
    BY <1>0, <1>4, <1>8
  <2>2. Low(k + 1, u) = u
    BY <1>0, <1>4, <1>8, LowSmall
  <2>3. Congruent(u, B * v, n)
    <3> DEFINE b == B * v
    <3>1. b \in Int /\ u = b + n * a
      BY <1>7
    <3> HIDE DEF b
    <3>2. Congruent(u, b, n)
      BY <1>0, <1>4, <1>7, <3>1, ApartBy
    <3>3. QED
      BY <3>2 DEF b
  <2>4. QED
    BY <1>0, <1>3, <1>4, <1>8, <2>1, <2>2, <2>3
<1>9. CASE u >= B * P
  <2> DEFINE o == u - B * P + r
             b == B * v
             c0 == a + g
  <2>1. o \in Int /\ 0 <= o /\ o < B * P
    <3>1. (B - 1) * n + n = B * n /\ B * n <= B * (P - 1) /\ B * (P - 1) = B * P - B
      BY <1>0
    <3>2. B * P \in Int /\ (B - 1) * n \in Int /\ B * n \in Int
      BY <1>0
    <3>3. QED
      BY <1>0, <1>4, <1>9, <3>1, <3>2
  <2>2. s = o + Pow[k + 1] * 1
    <3>1. s = u + r
      BY <1>0, <1>4, <1>9
    <3>2. B * P \in Int
      BY <1>0
    <3>3. QED
      BY <1>0, <1>4, <3>1, <3>2
  <2> HIDE DEF s
  <2>3. Low(k + 1, s) = o
    <3>1. o < Pow[k + 1] /\ 1 \in Int
      BY <1>0, <2>1
    <3> HIDE DEF o
    <3>2. QED
      BY <1>0, <2>1, <2>2, <3>1, LowHighAre
  <2>4. o = b + n * c0 /\ b \in Int /\ c0 \in Int
    <3>1. n * c0 = n * a + n * g /\ n * a \in Int /\ n * g \in Int /\ B * P \in Int
      BY <1>0, <1>7
    <3>2. QED
      BY <1>0, <1>4, <1>5, <1>7, <3>1
  <2> HIDE DEF o, b, c0
  <2>5. Congruent(o, b, n)
    BY <1>0, <2>1, <2>4, ApartBy
  <2>6. QED
    BY <1>0, <1>3, <2>1, <2>3, <2>5 DEF b
<1>10. QED
  BY <1>0, <1>4, <1>8, <1>9
\* The first power of the base above the modulus.
LEMMA FirstPower ==
  ASSUME NEW k \in Nat, k > 0, NEW n, TopBitSet(k, n)
  PROVE  LET r == Doubled(k, Doubled(k, Remainder62(k, n), n), n)
         IN  r \in Nat /\ r <= n /\ Congruent(r, B * Pow[k], n)
<1> DEFINE P == Pow[k]
           e == TwoTo[W - 2]
           r0 == Remainder62(k, n)
           r1 == Doubled(k, r0, n)
           r2 == Doubled(k, r1, n)
<1>0. n \in Nat /\ P \in Nat
  BY PowPositive DEF TopBitSet
<1>1. e \in Nat /\ B = 4 * e
  <2>1. W \in Nat /\ B = TwoTo[W] /\ W - 2 \in Nat /\ (W - 2) + 1 \in Nat /\ ((W - 2) + 1) + 1 = W
    BY WordBitsAssumption, EstimateAssumption
  <2>2. e \in Nat /\ TwoTo[(W - 2) + 1] = 2 * e
    BY <2>1, TwoToFacts
  <2>3. TwoTo[((W - 2) + 1) + 1] = 2 * TwoTo[(W - 2) + 1]
    BY <2>1, TwoToFacts
  <2>4. QED
    BY <2>1, <2>2, <2>3
<1>2. r0 \in Nat /\ r0 <= n /\ Congruent(r0, e * P, n)
  BY Remainder62Right
<1> HIDE DEF r0
<1>3. r1 \in Nat /\ r1 <= n /\ Congruent(r1, 2 * r0, n)
  BY <1>2, DoubledRight
<1> HIDE DEF r1
<1>4. r2 \in Nat /\ r2 <= n /\ Congruent(r2, 2 * r1, n)
  BY <1>3, DoubledRight
<1> HIDE DEF r2, P, e
<1>5. PICK q0 \in Int : r0 = e * P + n * q0
  BY <1>2 DEF Congruent
<1>6. PICK q1 \in Int : r1 = 2 * r0 + n * q1
  BY <1>3 DEF Congruent
<1>7. PICK q2 \in Int : r2 = 2 * r1 + n * q2
  BY <1>4 DEF Congruent
<1> DEFINE q == 4 * q0 + 2 * q1 + q2
           E == B * P
<1>8. q \in Int /\ E \in Int /\ r2 = E + n * q
  <2>1. n * q = 4 * (n * q0) + 2 * (n * q1) + n * q2
    BY <1>0
  <2>2. n * q0 \in Int /\ n * q1 \in Int /\ n * q2 \in Int /\ e * P \in Int
    BY <1>0, <1>1
  <2>3. E = 4 * (e * P)
    BY <1>0, <1>1
  <2> HIDE DEF E
  <2>4. r2 = E + n * q
    BY <1>2, <1>3, <1>4, <1>5, <1>6, <1>7, <2>1, <2>2, <2>3
  <2>5. QED
    BY <2>2, <2>3, <2>4
<1> HIDE DEF q, E
<1>9. Congruent(r2, E, n)
  <2>1. n \in Nat /\ r2 \in Int /\ E \in Int /\ q \in Int /\ r2 = E + n * q
    BY <1>0, <1>4, <1>8
  <2>2. QED
    BY ONLY <2>1, ApartBy
<1>10. QED
  BY <1>4, <1>9 DEF r2, r1, r0, E, P

\* Every shift is one power more.
LEMMA ManyShifts ==
  ASSUME NEW k \in Nat, NEW n, TopBitSet(k, n), NEW r \in Nat, r <= n, Congruent(r, B * Pow[k], n),
         NEW jn \in Nat
  PROVE  LET v == Passes(jn, [jj \in Nat |-> [u \in Nat |-> Shifted(k, u, r)]], r)
         IN  v \in Nat /\ v < Pow[k + 1] /\ Congruent(v, Pow[jn] * Pow[k + 1], n)
<1> DEFINE P == Pow[k]
           Q == Pow[k + 1]
           f == [jj \in Nat |-> [u \in Nat |-> Shifted(k, u, r)]]
           J == [jj \in Nat |-> {u \in Nat : u < Q /\ Congruent(u, Pow[jj] * Q, n)}]
           v == Passes(jn, f, r)
<1>0. /\ P \in Nat /\ P > 0 /\ n \in Nat /\ n < P /\ B \in Nat /\ B >= 2 /\ Q = B * P /\ k + 1 \in Nat
      /\ Pow[0] = 1 /\ Q \in Nat
  <2>1. P \in Nat /\ P > 0 /\ n \in Nat /\ n < P /\ B \in Nat /\ B >= 2 /\ Q = B * P /\ k + 1 \in Nat
        /\ Pow[0] = 1
    BY BaseAssumption, PowFacts, PowPositive DEF TopBitSet
  <2>2. Q \in Nat
    BY <2>1, PowPositive
  <2>3. QED
    BY <2>1, <2>2
<1>1. f \in [Nat -> [Nat -> Nat]]
  <2>1. ASSUME NEW u \in Nat PROVE Shifted(k, u, r) \in Nat
    <3> DEFINE l == Low(k, u)
               t == High(k, u)
               a == B * l + t * r
               s == a + (IF a >= Q THEN r ELSE 0)
    <3>1. l \in Nat /\ t \in Nat
      BY NaturalHalves
    <3> HIDE DEF l, t
    <3>2. B * l \in Nat /\ t * r \in Nat
      BY <1>0, <3>1
    <3>3. a \in Nat
      BY <3>2
    <3> HIDE DEF a
    <3>4. s \in Nat
      BY <3>3
    <3> HIDE DEF s
    <3>5. Low(k + 1, s) \in Nat
      BY <1>0, <3>4, NaturalHalves
    <3>6. QED
      BY <3>5 DEF Shifted, s, a, l, t
  <2>2. QED
    BY <2>1
<1>2. r \in J[0]
  <2>1. r < Q
    <3>1. B * P >= 2 * P /\ B * P \in Int
      BY <1>0
    <3>2. QED
      BY <1>0, <3>1
  <2>2. Pow[0] * Q = B * Pow[k]
    BY <1>0
  <2> HIDE DEF Q
  <2>3. QED
    BY <2>1, <2>2
<1>3. \A jj \in 0 .. (jn - 1) : \A u \in Nat : u \in J[jj] => f[jj][u] \in J[jj + 1]
  <2> SUFFICES ASSUME NEW jj \in 0 .. (jn - 1), NEW u \in Nat, u \in J[jj] PROVE f[jj][u] \in J[jj + 1]
    OBVIOUS
  <2>1. jj \in Nat /\ jj + 1 \in Nat /\ u < Q /\ Congruent(u, Pow[jj] * Q, n)
    OBVIOUS
  <2> DEFINE u1 == Shifted(k, u, r)
  <2>2. u1 \in Nat /\ u1 < Q /\ Congruent(u1, B * u, n)
    BY <2>1, ShiftedRight
  <2>3. f[jj][u] = u1
    BY <2>1
  <2> HIDE DEF u1, f, Q
  <2> DEFINE R == Pow[jj]
             R1 == Pow[jj + 1]
             E == R1 * Q
  <2>4. R \in Nat /\ R1 = B * R
    BY <2>1, PowFacts
  <2> HIDE DEF R, R1
  <2>5. PICK y \in Int : u = R * Q + n * y
    BY <2>1 DEF Congruent, R
  <2>6. PICK g \in Int : u1 = B * u + n * g
    BY <2>2 DEF Congruent
  <2> DEFINE o == B * y + g
  <2>7. o \in Int /\ E \in Int /\ u1 = E + n * o
    <3>1. B * u = (B * R) * Q + n * (B * y)
      <4>1. B * (R * Q + n * y) = (B * R) * Q + n * (B * y)
        BY <1>0, <2>4
      <4>2. QED
        BY <2>5, <4>1
    <3>2. n * (B * y) + n * g = n * o /\ n * (B * y) \in Int /\ n * g \in Int /\ (B * R) * Q \in Int
      BY <1>0, <2>4
    <3>3. E = (B * R) * Q
      BY <2>4
    <3>4. o \in Int
      BY <1>0
    <3> HIDE DEF E, o
    <3>5. QED
      BY <2>6, <3>1, <3>2, <3>3, <3>4
  <2> HIDE DEF E, o
  <2>8. Congruent(u1, E, n)
    <3>1. n \in Nat /\ u1 \in Int /\ E \in Int /\ o \in Int /\ u1 = E + n * o
      BY <1>0, <2>2, <2>7
    <3>2. QED
      BY ONLY <3>1, ApartBy
  <2>9. Congruent(u1, Pow[jj + 1] * Q, n)
    BY <2>8 DEF E, R1
  <2>10. QED
    BY <2>1, <2>2, <2>3, <2>9
<1>4. v \in Nat /\ v \in J[jn]
  <2> HIDE DEF f, J
  <2>1. QED
    BY <1>1, <1>2, <1>3, PassesKeep
<1>5. v < Q /\ Congruent(v, Pow[jn] * Q, n)
  <2> HIDE DEF v
  <2>1. QED
    BY <1>4
<1>6. QED
  BY <1>4, <1>5

\* A class modulo a multiple is a class.
LEMMA CongruentFactor ==
  ASSUME NEW n \in Nat, NEW s \in Nat, NEW u, u = n * s, NEW x \in Int, NEW y \in Int, Congruent(x, y, u)
  PROVE  Congruent(x, y, n)
<1>1. PICK q \in Int : x = y + (n * s) * q
  BY DEF Congruent
<1> DEFINE g == s * q
<1>2. g \in Int /\ (n * s) * q = n * g
  OBVIOUS
<1> HIDE DEF g
<1>3. x = y + n * g
  BY <1>1, <1>2
<1>4. QED
  BY <1>2, <1>3, ApartBy

\* Powers of the base cancel modulo an odd number.
LEMMA PowCancels ==
  ASSUME NEW n \in Nat, n % 2 = 1, NEW k \in Nat, NEW x \in Int, NEW y \in Int,
         Congruent(Pow[k] * x, Pow[k] * y, n)
  PROVE  Congruent(x, y, n)
<1>1. W * k \in Nat /\ TwoTo[W * k] = Pow[k]
  BY PowIsTwoTo
<1>2. IsPow2(TwoTo)
  BY TwoToFacts DEF IsPow2
<1> DEFINE e == W * k
<1>3. e \in Nat /\ Congruent(TwoTo[e] * x, TwoTo[e] * y, n)
  BY <1>1
<1> HIDE DEF e
<1>4. QED
  BY <1>2, <1>3, CongruentCancel

\* A power of the base modulo m, in k words.
LEMMA AmontifiedRight ==
  ASSUME NEW k \in Nat, k > 0, NEW n \in Nat, n % 2 = 1, n < Pow[k], NEW jn \in Nat
  PROVE  /\ Amontified(k, n, jn) \in Nat /\ Amontified(k, n, jn) < Pow[k]
         /\ Congruent(Amontified(k, n, jn), Pow[k + jn], n)
<1> DEFINE P == Pow[k]
           nn == Normalized(k, n)
           r == Doubled(k, Doubled(k, Remainder62(k, nn), nn), nn)
           v == Passes(jn, [jj \in Nat |-> [u \in Nat |-> Shifted(k, u, r)]], r)
           l == Low(k, v)
           t == High(k, v)
           s0 == [z |-> l, c0 |-> t, c1 |-> 0]
           s == MontRow(k, s0, n)
           o == Low(k, s.z - Masked(s.c0, n))
           V == Wide(k, s)
<1>0. /\ B \in Nat /\ B >= 2 /\ P \in Nat /\ P > 0 /\ Pow[k + 1] = B * P /\ n > 0 /\ k + 1 \in Nat
  BY BaseAssumption, PowFacts, PowPositive, OddPositive
<1>1. TopBitSet(k, nn) /\ \E e \in Nat : nn = n * e
  BY <1>0, NormalizedRight DEF TopBitSet
<1>2. Amontified(k, n, jn) = o
  BY DEF Amontified
<1> HIDE DEF nn
<1>3. r \in Nat /\ r <= nn /\ Congruent(r, B * Pow[k], nn)
  BY <1>1, FirstPower
<1> HIDE DEF r
<1>4. v \in Nat /\ v < B * P /\ Congruent(v, Pow[jn] * (B * P), nn)
  BY <1>0, <1>1, <1>3, ManyShifts
<1> HIDE DEF v
<1>5. Congruent(v, Pow[jn] * (B * P), n)
  <2>1. PICK e \in Nat : nn = n * e
    BY <1>1
  <2> DEFINE E == Pow[jn] * (B * P)
  <2>2. Pow[jn] \in Nat
    BY PowPositive
  <2>3. E \in Int
    <3> DEFINE a == Pow[jn]
               b == B * P
    <3>1. a \in Int /\ b \in Int
      BY <1>0, <2>2
    <3> HIDE DEF a, b
    <3>2. a * b \in Int
      BY <3>1
    <3>3. QED
      BY <3>2 DEF a, b
  <2>4. Congruent(v, E, nn)
    BY <1>4
  <2> HIDE DEF E
  <2>5. Congruent(v, E, n)
    BY <1>4, <2>1, <2>3, <2>4, CongruentFactor
  <2>6. QED
    BY <2>5 DEF E
<1>6. l \in Nat /\ l < P /\ t \in Nat /\ v = l + P * t
  <2>1. l \in Nat /\ t \in Nat
    BY <1>4, NaturalHalves
  <2>2. v \in Int
    BY <1>4
  <2>3. l < P /\ v = l + P * t
    BY <2>2, LowHigh
  <2>4. QED
    BY <2>1, <2>3
<1> HIDE DEF l, t
<1>7. s0.z = l /\ s0.c0 = t /\ s0.c1 = 0 /\ InWindow(k, s0)
  BY <1>6 DEF InWindow, Windows
<1> HIDE DEF s0
<1>8. Wide(k, s0) = v
  <2>1. t + B * 0 = t
    BY <1>0, <1>6
  <2>2. QED
    BY <1>6, <1>7, <2>1 DEF Wide
<1>9. Wide(k, s0) + (B - 1) * n < 2 * (B * Pow[k])
  <2>1. (B - 1) * n <= (B - 1) * P /\ (B - 1) * P = B * P - P /\ B * P \in Int /\ (B - 1) * n \in Int
    BY <1>0
  <2>2. v + (B - 1) * n < 2 * (B * P)
    BY <1>0, <1>4, <2>1
  <2>3. QED
    BY <1>8, <2>2
<1>10. InWindow(k, s) /\ s.c0 \in {0, 1} /\ s.c1 = 0 /\ OneRow(v, V, n)
  BY <1>7, <1>8, <1>9, MontRowRight
<1> HIDE DEF s
<1>11. s.z \in Nat /\ s.z < P /\ V = s.z + P * s.c0 /\ V \in Int
  <2>1. s.c0 + B * s.c1 = s.c0
    BY <1>0, <1>10
  <2>2. V = s.z + P * s.c0
    BY <2>1 DEF Wide
  <2>3. s.z \in Nat /\ s.z < P
    BY <1>10 DEF InWindow, Windows
  <2>4. s.z + P * s.c0 \in Int
    BY <1>0, <1>10, <2>3
  <2>5. QED
    BY <2>2, <2>3, <2>4
<1> HIDE DEF V
<1>12. PICK q \in 0 .. (B - 1) : B * V = v + q * n
  BY <1>10 DEF OneRow
<1>13. V < P + n
  <2>1. q * n <= (B - 1) * n /\ (B - 1) * n = B * n - n /\ q * n \in Int /\ B * n \in Int
    BY <1>0, <1>12
  <2>2. B * V < B * P + B * n /\ B * P \in Int
    BY <1>0, <1>4, <1>12, <2>1
  <2>3. SUFFICES ASSUME V >= P + n PROVE FALSE
    BY <1>0, <1>11
  <2>4. B * V >= B * (P + n) /\ B * (P + n) = B * P + B * n /\ B * V \in Int
    BY <1>0, <1>11, <2>3
  <2>5. QED
    BY <2>1, <2>2, <2>4
<1>14. o \in Nat /\ o < P /\ LessOnce(o, V, n)
  <2>1. s.z + Pow[k] * s.c0 = V /\ s.z + Pow[k] * s.c0 < Pow[k] + n
    BY <1>11, <1>13
  <2>2. QED
    BY <1>10, <1>11, <2>1, MaskedRight
<1> HIDE DEF o
<1>15. \E e \in Int : o = V + n * e
  <2>1. CASE o = V
    <3>1. n * 0 = 0
      OBVIOUS
    <3>2. o = V + n * 0 /\ 0 \in Int
      BY <1>11, <2>1, <3>1
    <3>3. QED
      BY <3>2
  <2>2. CASE o = V - n
    <3>1. n * (0 - 1) = 0 - n /\ 0 - 1 \in Int
      OBVIOUS
    <3> DEFINE e == 0 - 1
    <3>2. e \in Int /\ n * e = 0 - n
      BY <3>1
    <3> HIDE DEF e
    <3>3. o = V + n * e
      BY <1>11, <2>2, <3>2
    <3>4. QED
      BY <3>2, <3>3
  <2>3. QED
    BY <1>14, <2>1, <2>2 DEF LessOnce
<1>16. PICK e \in Int : o = V + n * e
  BY <1>15
<1>17. Congruent(B * o, Pow[jn] * (B * P), n)
  <2> DEFINE E == Pow[jn] * (B * P)
  <2>1. PICK g \in Int : v = E + n * g
    BY <1>5 DEF Congruent
  <2> DEFINE a == g + q + B * e
             b == B * o
  <2>2. Pow[jn] \in Nat
    BY PowPositive
  <2>3. E \in Int
    <3> DEFINE a0n == Pow[jn]
               b0n == B * P
    <3>1. a0n \in Int /\ b0n \in Int
      BY <1>0, <2>2
    <3> HIDE DEF a0n, b0n
    <3>2. a0n * b0n \in Int
      BY <3>1
    <3>3. QED
      BY <3>2 DEF a0n, b0n
  <2> HIDE DEF E
  <2>4. a \in Int /\ b \in Int
    BY <1>0, <1>12, <1>14
  <2>5. b = E + n * a
    <3>1. B * (V + n * e) = B * V + n * (B * e)
      BY <1>0, <1>11
    <3>2. n * a = n * g + q * n + n * (B * e)
      BY <1>0, <1>12
    <3>3. n * g \in Int /\ q * n \in Int /\ n * (B * e) \in Int /\ B * V \in Int
      BY <1>0, <1>11, <1>12
    <3> HIDE DEF a
    <3>4. QED
      BY <1>4, <1>12, <1>16, <2>1, <2>3, <3>1, <3>2, <3>3
  <2> HIDE DEF a, b
  <2>6. Congruent(b, E, n)
    BY <2>3, <2>4, <2>5, ApartBy
  <2>7. QED
    BY <2>6 DEF b, E
<1>18. Congruent(o, Pow[k + jn], n)
  <2> DEFINE E == Pow[k + jn]
             R == Pow[jn]
  <2>1. E = P * R /\ R \in Nat /\ E \in Nat
    <3>1. E = P * R
      BY PowAdd
    <3>2. R \in Nat
      BY PowPositive
    <3>3. P * R \in Nat
      <4> HIDE DEF P, R
      <4>1. QED
        BY <1>0, <3>2
    <3>4. QED
      BY <3>1, <3>2, <3>3
  <2>2. Pow[1] = B
    <3>1. Pow[0 + 1] = B * Pow[0] /\ Pow[0] = 1
      BY PowFacts
    <3>2. QED
      BY <1>0, <3>1
  <2> HIDE DEF E, R, P
  <2>3. R * (B * P) = Pow[1] * E
    <3>1. R * (B * P) = B * (P * R)
      BY <1>0, <2>1
    <3>2. QED
      BY <2>1, <2>2, <3>1
  <2>4. Congruent(Pow[1] * o, Pow[1] * E, n)
    BY <1>17, <2>2, <2>3 DEF R
  <2>5. 1 \in Nat /\ o \in Int /\ E \in Int
    BY <1>14, <2>1
  <2>6. Congruent(o, E, n)
    BY <2>4, <2>5, PowCancels
  <2>7. QED
    BY <2>6 DEF E
<1>19. QED
  BY <1>2, <1>14, <1>18
\* Numbers of one class differ by a multiple of the modulus.
LEMMA CongruentZero ==
  ASSUME NEW n \in Nat, n > 0, NEW x \in Int, NEW y \in Int, Congruent(x, y, n)
  PROVE  (x - y) % n = 0
<1>1. PICK q \in Int : x = y + n * q
  BY DEF Congruent
<1>2. x - y = n * q + 0 /\ 0 \in 0 .. (n - 1)
  <2>1. n * q \in Int
    OBVIOUS
  <2>2. QED
    BY <1>1, <2>1
<1>3. (n * q + 0) % n = 0
  BY <1>2, DivUnique
<1>4. QED
  BY <1>2, <1>3

\* Reduction in place takes k words off a power of the base.
LEMMA DemontedPower ==
  ASSUME NEW k \in Nat, k > 0, NEW n \in Nat, n % 2 = 1, n < Pow[k], NEW a \in Nat, a < Pow[k],
         NEW jn \in Nat, Congruent(a, Pow[k + jn], n)
  PROVE  demont(k, a, n) = Pow[jn] % n
<1> DEFINE r == demont(k, a, n)
           P == Pow[k]
           R == Pow[jn]
           E == Pow[k + jn]
<1>0. n > 0 /\ P \in Nat /\ R \in Nat
  BY OddPositive, PowPositive
<1>1. E = P * R /\ E \in Int
  <2>1. E = P * R
    BY PowAdd
  <2> HIDE DEF P, R, E
  <2>2. QED
    BY <1>0, <2>1
<1>2. r \in Nat /\ r < n /\ (r * P - a) % n = 0
  BY DemontRight DEF bignum_demont
<1> HIDE DEF r, P, R, E
<1> DEFINE x == P * r
           y == P * R
<1>3. x \in Int /\ y \in Int /\ r * P = x
  BY <1>0, <1>2
<1>4. Congruent(x, a, n)
  <2> HIDE DEF x
  <2>1. (x - a) % n = 0
    BY <1>2, <1>3
  <2>2. n \in Nat /\ n > 0 /\ x \in Int /\ a \in Int
    BY <1>0, <1>3
  <2>3. QED
    BY ONLY <2>1, <2>2, CongruentMod
<1>5. Congruent(a, y, n)
  BY <1>1 DEF E
<1>6. Congruent(x, y, n)
  <2> HIDE DEF x, y
  <2>1. QED
    BY <1>3, <1>4, <1>5, CongruentTransitive
<1>7. Congruent(r, R, n)
  <2>1. Congruent(Pow[k] * r, Pow[k] * R, n)
    BY <1>6 DEF P
  <2>2. r \in Int /\ R \in Int
    BY <1>0, <1>2
  <2>3. QED
    BY <2>1, <2>2, PowCancels
<1>8. r % n = R % n
  <2>1. r \in Int /\ R \in Int
    BY <1>0, <1>2
  <2>2. QED
    BY <1>0, <1>7, <2>1, CongruentMod
<1>9. r % n = r
  <2>1. r = n * 0 + r /\ r \in 0 .. (n - 1)
    BY <1>0, <1>2
  <2>2. (n * 0 + r) % n = r
    BY <1>0, <2>1, DivUnique
  <2>3. QED
    BY <2>1, <2>2
<1>10. QED
  BY <1>8, <1>9 DEF r, R

\* What every question has.
LEMMA QuestionFacts ==
  ASSUME NEW q, GoodQuestion(q)
  PROVE  /\ q.k \in Nat /\ q.k > 0 /\ q.m \in Nat /\ q.m % 2 = 1 /\ q.m < Pow[q.k]
         /\ q.op \in {"montmul", "amontmul", "montsqr", "amontsqr", "demont"} =>
              q.x \in Nat /\ q.x < Pow[q.k]
         /\ q.op \in {"montmul", "amontmul"} => q.y \in Nat /\ q.y < Pow[q.k]
         /\ q.op = "montmul" => q.x * q.y <= Pow[q.k] * q.m
         /\ q.op = "montsqr" => q.x * q.x <= Pow[q.k] * q.m
         /\ q.op = "emontredc" => q.x \in Nat /\ q.x < Pow[2 * q.k]
<1>1. q.k \in Nat /\ q.k > 0 /\ q.m \in 1 .. (Pow[q.k] - 1) /\ q.m % 2 = 1
  BY DEF GoodQuestion
<1>2. Pow[q.k] \in Nat /\ Pow[2 * q.k] \in Nat
  <2>1. 2 * q.k \in Nat
    BY <1>1
  <2>2. QED
    BY <1>1, <2>1, PowPositive
<1>3. q.m \in Nat /\ q.m < Pow[q.k]
  BY <1>1, <1>2
<1>4. ASSUME NEW v \in 0 .. (Pow[q.k] - 1) PROVE v \in Nat /\ v < Pow[q.k]
  BY <1>2
<1>5. ASSUME NEW v \in 0 .. (Pow[2 * q.k] - 1) PROVE v \in Nat /\ v < Pow[2 * q.k]
  BY <1>2
<1>6. QED
  BY <1>1, <1>3, <1>4, <1>5 DEF GoodQuestion

\* A product is right.
LEMMA ProductsKeep ==
  ASSUME GoodQuestion(asked), asked' = asked, MontgomeryProducts
  PROVE  MontgomeryRight'
<1>1. CASE asked.op = "montmul" /\ replied' = <<montmul(asked.k, asked.x, asked.y, asked.m)>>
  <2>1. bignum_montmul(asked.k, asked.x, asked.y, asked.m, montmul(asked.k, asked.x, asked.y, asked.m))
    BY <1>1, QuestionFacts, MontmulRight
  <2>2. QED
    BY <1>1, <2>1 DEF MontgomeryRight
<1>2. CASE asked.op = "amontmul" /\ replied' = <<amontmul(asked.k, asked.x, asked.y, asked.m)>>
  <2>1. bignum_amontmul(asked.k, asked.x, asked.y, asked.m, amontmul(asked.k, asked.x, asked.y, asked.m))
    BY <1>2, QuestionFacts, AmontmulRight
  <2>2. QED
    BY <1>2, <2>1 DEF MontgomeryRight
<1>3. CASE asked.op = "montsqr" /\ replied' = <<montsqr(asked.k, asked.x, asked.m)>>
  <2>1. bignum_montmul(asked.k, asked.x, asked.x, asked.m, montmul(asked.k, asked.x, asked.x, asked.m))
    BY <1>3, QuestionFacts, MontmulRight
  <2>2. QED
    BY <1>3, <2>1 DEF MontgomeryRight, montsqr
<1>4. CASE asked.op = "amontsqr" /\ replied' = <<amontsqr(asked.k, asked.x, asked.m)>>
  <2>1. bignum_amontmul(asked.k, asked.x, asked.x, asked.m, amontmul(asked.k, asked.x, asked.x, asked.m))
    BY <1>4, QuestionFacts, AmontmulRight
  <2>2. QED
    BY <1>4, <2>1 DEF MontgomeryRight, amontsqr
<1>5. QED
  BY <1>1, <1>2, <1>3, <1>4 DEF MontgomeryProducts

\* A reduction is right.
LEMMA ReductionsKeep ==
  ASSUME GoodQuestion(asked), asked' = asked, MontgomeryReductions
  PROVE  MontgomeryRight'
<1>1. CASE asked.op = "demont" /\ replied' = <<demont(asked.k, asked.x, asked.m)>>
  <2>1. bignum_demont(asked.k, asked.x, asked.m, demont(asked.k, asked.x, asked.m))
    BY <1>1, QuestionFacts, DemontRight
  <2>2. QED
    BY <1>1, <2>1 DEF MontgomeryRight
<1>2. CASE asked.op = "emontredc"
           /\ replied' = emontredc(asked.k, asked.x, asked.m, Inverse1(asked.m))
  <2> DEFINE t == emontredc(asked.k, asked.x, asked.m, Inverse1(asked.m))
  <2>1. bignum_emontredc(asked.k, asked.x, asked.m, t[1], t[2], t[3])
    BY <1>2, QuestionFacts, EmontredcRight
  <2>2. replied' = t
    BY <1>2
  <2> HIDE DEF t
  <2>3. QED
    BY <1>2, <2>1, <2>2 DEF MontgomeryRight
<1>3. QED
  BY <1>1, <1>2 DEF MontgomeryReductions

\* A constant is right.
LEMMA ConstantsKeep ==
  ASSUME GoodQuestion(asked), asked' = asked, MontgomeryConstants
  PROVE  MontgomeryRight'
<1> DEFINE k == asked.k
           n == asked.m
<1>0. k \in Nat /\ k > 0 /\ n \in Nat /\ n % 2 = 1 /\ n < Pow[k] /\ n > 0 /\ k + k = 2 * k /\ 2 * k \in Nat
  BY QuestionFacts, OddPositive
<1>1. CASE asked.op = "negmodinv" /\ replied' = <<negmodinv(k, n)>>
  <2>1. bignum_negmodinv(k, n, negmodinv(k, n))
    <3> HIDE DEF k, n
    <3>1. QED
      BY <1>0, NegmodinvIs
  <2>2. QED
    BY <1>1, <2>1 DEF MontgomeryRight
<1>2. CASE asked.op = "amontifier" /\ replied' = <<amontifier(k, n)>>
  <2>1. bignum_amontifier(k, n, amontifier(k, n))
    <3> HIDE DEF k, n
    <3> DEFINE r == Amontified(k, n, k)
               E == Pow[2 * k]
    <3>1. r \in Nat /\ r < Pow[k] /\ Congruent(r, Pow[k + k], n)
      BY <1>0, AmontifiedRight
    <3>2. E \in Nat
      BY <1>0, PowPositive
    <3> HIDE DEF r
    <3>3. Congruent(r, E, n)
      BY <1>0, <3>1
    <3> HIDE DEF E
    <3>4. n \in Nat /\ n > 0 /\ r \in Int /\ E \in Int /\ Congruent(r, E, n)
      BY <1>0, <3>1, <3>2, <3>3
    <3>5. (r - E) % n = 0
      BY ONLY <3>4, CongruentZero
    <3>6. QED
      BY <3>1, <3>5 DEF bignum_amontifier, amontifier, r, E
  <2>2. QED
    BY <1>2, <2>1 DEF MontgomeryRight
<1>3. CASE asked.op = "montifier" /\ replied' = <<montifier(k, n)>>
  <2>1. montifier(k, n) = bignum_montifier(k, n)
    <3> HIDE DEF k, n
    <3> DEFINE r == Amontified(k, n, 2 * k)
    <3>1. r \in Nat /\ r < Pow[k] /\ Congruent(r, Pow[k + 2 * k], n)
      BY <1>0, AmontifiedRight
    <3> HIDE DEF r
    <3>2. demont(k, r, n) = Pow[2 * k] % n
      BY <1>0, <3>1, DemontedPower
    <3>3. QED
      BY <3>2 DEF montifier, bignum_montifier, r
  <2>2. QED
    BY <1>3, <2>1 DEF MontgomeryRight
<1>4. CASE asked.op = "modifier" /\ replied' = <<modifier(k, n)>>
  <2>1. modifier(k, n) = bignum_modifier(k, n)
    <3> HIDE DEF k, n
    <3> DEFINE r == Amontified(k, n, k)
    <3>1. r \in Nat /\ r < Pow[k] /\ Congruent(r, Pow[k + k], n)
      BY <1>0, AmontifiedRight
    <3> HIDE DEF r
    <3>2. demont(k, r, n) = Pow[k] % n
      BY <1>0, <3>1, DemontedPower
    <3>3. QED
      BY <3>2 DEF modifier, bignum_modifier, r
  <2>2. QED
    BY <1>4, <2>1 DEF MontgomeryRight
<1>5. QED
  BY <1>1, <1>2, <1>3, <1>4 DEF MontgomeryConstants

\* A question from the set of questions, with a right reply once there is one.
ArithInv == asked \in Questions /\ MontgomeryRight

\* Every reply of the functions is the one their contracts give, for every word
\* size of two bits or more, every odd modulus and all operands of k words.
THEOREM MontgomeryExact == ArithSpec => []MontgomeryRight
<1>1. ArithInit => ArithInv
  BY DEF ArithInit, ArithInv, MontgomeryRight
<1>2. ArithInv /\ [ArithNext \/ Replied]_arithVars => ArithInv'
  <2> SUFFICES ASSUME ArithInv, [ArithNext \/ Replied]_arithVars PROVE ArithInv'
    OBVIOUS
  <2>1. CASE ArithNext
    <3>1. asked' = asked /\ asked \in Questions
      BY <2>1 DEF ArithNext, ArithInv
    <3>2. GoodQuestion(asked)
      BY <3>1, QuestionsAssumption
    <3>3. MontgomeryRight'
      BY <2>1, <3>1, <3>2, ProductsKeep, ReductionsKeep, ConstantsKeep DEF ArithNext
    <3>4. QED
      BY <3>1, <3>3 DEF ArithInv
  <2>2. CASE UNCHANGED arithVars
    BY <2>2 DEF ArithInv, MontgomeryRight, arithVars
  <2>3. QED
    BY <2>1, <2>2 DEF Replied
<1>3. ArithInv => MontgomeryRight
  BY DEF ArithInv
<1>4. QED
  BY <1>1, <1>2, <1>3, PTL DEF ArithSpec
=============================================================================

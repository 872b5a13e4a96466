------------------------------ MODULE ScalarMul ------------------------------
(***************************************************************************)
(* Scalar multiplication by signed fixed windows, the algorithm shared by  *)
(* p256_scalarmul, p256_montjscalarmul, sm2_montjscalarmul,                *)
(* p384_montjscalarmul and p521_jscalarmul: reduce the scalar, possibly    *)
(* replace it and the point by their negations, tabulate 1*P .. H*P, add a *)
(* recoding constant that makes every window a digit in -H .. H-1, and     *)
(* process the windows from the top, R-fold doubling and one addition for  *)
(* each.                                                                   *)
(*                                                                         *)
(* The point argument P has prime order N or is infinity itself (unit =    *)
(* 0); the points are those of PointGroup.                                 *)
(***************************************************************************)
EXTENDS PointGroup

CONSTANTS R, H,       \* the radix (2^4 or 2^5) and the number of table entries
          Windows,    \* the number of windows below the top bitfield
          MaxScalar,  \* the largest scalar the input buffer can hold
          Threshold,  \* scalars from here on are negated (none if >= N)
          FullReduce, \* p521: reduce by bignum_mod_n521_9, not one subtraction
          SingleTop   \* p521: the top bitfield is tested for nonzero only

ASSUME RadixAssumption == H \in Nat /\ H >= 2 /\ R = 2 * H
ASSUME OrderAssumption == N \in Nat /\ N > R /\ N % 2 = 1
ASSUME WindowsAssumption == Windows \in Nat /\ Windows >= 1
ASSUME ScalarAssumption == MaxScalar \in Nat /\ (FullReduce \/ MaxScalar < 2 * N)
ASSUME ThresholdAssumption == Threshold \in Nat /\ Threshold >= 1
ASSUME FlagsAssumption == FullReduce \in BOOLEAN /\ SingleTop \in BOOLEAN

\* R ^ i, the weight of window i
Weight[i \in Nat] == IF i = 0 THEN 1 ELSE R * Weight[i - 1]

\* The sum of H * R ^ e over e < i: the recoding constant is Offset[Windows].
Offset[i \in Nat] == IF i = 0 THEN 0 ELSE R * Offset[i - 1] + H

\* The largest scalar left after the reduction and the negation.
Largest == IF Threshold >= N THEN N - 1
           ELSE IF N - Threshold > Threshold - 1 THEN N - Threshold
                                                 ELSE Threshold - 1

\* What the parameters of every curve satisfy: the top bitfield of the recoded
\* scalar is a table index, and the last addition cannot be a doubling.
ASSUME TopAssumption ==
  Largest + Offset[Windows] < (IF SingleTop THEN 2 ELSE H + 1) * Weight[Windows]
ASSUME NonDegenerateAssumption == Largest + R < N \/ N % R > H

VARIABLES scalar,  \* the scalar argument
          unit,    \* the point argument: 1, or 0 when it is infinity
          k,       \* scalarb
          sgn,     \* whether scalar and point were negated
          tab,     \* the table; tab[i] is the code's tab[i-1]
          built,   \* the number of table entries written
          acc, ent,  \* the accumulator and the selected table entry
          j,       \* the windows still to process
          pc

vars == <<scalar, unit, k, sgn, tab, built, acc, ent, j, pc>>

Labels == {"reduce", "negate", "table", "recode", "top", "double", "select",
           "add", "done"}

-----------------------------------------------------------------------------
(* The table and the recoded scalar.                                        *)

\* Mutant: the scan of the table stops one entry short.
SelectShort(i) == IF i \in 1 .. (H - 1) THEN tab[i] ELSE 0

\* The constant-time selection: infinity unless some entry matches.
Select(i) == IF i \in 1 .. H THEN tab[i] ELSE 0

Magnitude(d) == IF d < 0 THEN -d ELSE d

\* The recoded scalar's top bitfield, and the bitfield of window i below it.
TopField == k \div Weight[Windows]
Bitfield(i) == (k \div Weight[i]) % R
SignedDigit(i) == Bitfield(i) - H

-----------------------------------------------------------------------------
Init == /\ scalar \in 0 .. MaxScalar
        /\ unit \in {0, 1}
        /\ k = scalar /\ sgn = FALSE
        /\ tab = [i \in 1 .. H |-> 0] /\ built = 0
        /\ acc = 0 /\ ent = 0 /\ j = Windows
        /\ pc = "reduce"

Reduce == /\ pc = "reduce"
          /\ k' = IF FullReduce THEN k % N
                  ELSE IF k >= N THEN k - N ELSE k
          /\ pc' = "negate"
          /\ UNCHANGED <<scalar, unit, sgn, tab, built, acc, ent, j>>

\* Mutant: the scalar is negated and the point is not.
NegateScalarOnly == /\ pc = "negate"
                    /\ sgn' = (k >= Threshold)
                    /\ k' = IF sgn' THEN N - k ELSE k
                    /\ tab' = [tab EXCEPT ![1] = unit]
                    /\ built' = 1
                    /\ pc' = "table"
                    /\ UNCHANGED <<scalar, unit, acc, ent, j>>

\* Mutant: large scalars are not negated.
NegateNever == /\ pc = "negate"
               /\ tab' = [tab EXCEPT ![1] = unit]
               /\ built' = 1
               /\ pc' = "table"
               /\ UNCHANGED <<scalar, unit, k, sgn, acc, ent, j>>

\* The input point is the first table entry, negated if the scalar is.
Negate == /\ pc = "negate"
          /\ sgn' = (k >= Threshold)
          /\ k' = IF sgn' THEN N - k ELSE k
          /\ tab' = [tab EXCEPT ![1] = IF sgn' THEN Negation(unit) ELSE unit]
          /\ built' = 1
          /\ pc' = "table"
          /\ UNCHANGED <<scalar, unit, acc, ent, j>>

\* Even multiples by doubling, odd ones by adding P to the previous entry.
Tabulate == /\ pc = "table"
            /\ LET e == built + 1
               IN  tab' = [tab EXCEPT ![e] = IF e % 2 = 0
                                             THEN Jdouble(tab[e \div 2])
                                             ELSE Jadd(tab[e - 1], tab[1])]
            /\ built' = built + 1
            /\ pc' = IF built + 1 = H THEN "recode" ELSE "table"
            /\ UNCHANGED <<scalar, unit, k, sgn, acc, ent, j>>

Recode == /\ pc = "recode"
          /\ k' = k + Offset[Windows]
          /\ pc' = "top"
          /\ UNCHANGED <<scalar, unit, sgn, tab, built, acc, ent, j>>

\* The top bitfield is not recoded.
TopWindow == /\ pc = "top"
             /\ acc' = IF SingleTop THEN IF TopField # 0 THEN tab[1] ELSE 0
                       ELSE Select(TopField)
             /\ pc' = "double"
             /\ UNCHANGED <<scalar, unit, k, sgn, tab, built, ent, j>>

\* Mutant: one doubling too many.
DoublingsExtra == /\ pc = "double"
                  /\ j' = j - 1
                  /\ acc' = (2 * R * acc) % N
                  /\ pc' = "select"
                  /\ UNCHANGED <<scalar, unit, k, sgn, tab, built, ent>>

\* The four or five calls of the doubling at the head of the main loop.
Doublings == /\ pc = "double"
             /\ j' = j - 1
             /\ acc' = (R * acc) % N
             /\ pc' = "select"
             /\ UNCHANGED <<scalar, unit, k, sgn, tab, built, ent>>

\* Mutant: the entry of a negative digit is not negated.
SelectEntryUnsigned == /\ pc = "select"
                       /\ ent' = Select(Magnitude(SignedDigit(j)))
                       /\ pc' = "add"
                       /\ UNCHANGED <<scalar, unit, k, sgn, tab, built, acc, j>>

SelectEntry == /\ pc = "select"
               /\ LET d == SignedDigit(j)
                      e == Select(Magnitude(d))
                  IN  ent' = IF d < 0 THEN Negation(e) ELSE e
               /\ pc' = "add"
               /\ UNCHANGED <<scalar, unit, k, sgn, tab, built, acc, j>>

AddEntry == /\ pc = "add"
            /\ acc' = Jadd(acc, ent)
            /\ pc' = IF j # 0 THEN "double" ELSE "done"
            /\ UNCHANGED <<scalar, unit, k, sgn, tab, built, ent, j>>

Returned == pc = "done" /\ UNCHANGED vars

Next == \/ Reduce \/ Negate \/ Tabulate \/ Recode \/ TopWindow
        \/ Doublings \/ SelectEntry \/ AddEntry \/ Returned

Spec == Init /\ [][Next]_vars

-----------------------------------------------------------------------------
TypeOK == /\ scalar \in 0 .. MaxScalar /\ unit \in {0, 1}
          /\ k \in Nat /\ sgn \in BOOLEAN
          /\ tab \in [1 .. H -> Point] /\ built \in 0 .. H
          /\ acc \in Point /\ ent \in Point
          /\ j \in 0 .. Windows
          /\ pc \in Labels

\* The point the table is built on, P or -P.
Base == IF sgn THEN Negation(unit) ELSE unit

\* The number the windows from i on stand for, recoding undone.
Prefix(i) == (k \div Weight[i]) - Offset[Windows - i]

\* tab[i] is i times the (possibly negated) point.
TableOK == \A i \in 1 .. built : tab[i] = (i * Base) % N

\* The top bitfield never exceeds what its selection can represent.
TopFieldOK == pc = "top" => TopField <= (IF SingleTop THEN 1 ELSE H)

\* The comment in p521_jscalarmul that the negation "is not needed by the
\* indexing scheme": without it, too, the top bitfield of the reduced scalar
\* would not exceed what its selection can represent.
NegationNotNeeded ==
  pc = "negate" => (k + Offset[Windows]) \div Weight[Windows]
                     <= (IF SingleTop THEN 1 ELSE H)

\* The scalar in scalarb, without the recoding constant.
Reduced == k - (IF pc \in {"reduce", "negate", "table", "recode"} THEN 0
                ELSE Offset[Windows])

\* Reducing and negating the scalar does not change what is computed, and the
\* scalar stays as small as the parameters assume.
ScalarOK ==
  /\ pc = "negate" => k = scalar % N
  /\ pc \notin {"reduce", "negate"} => /\ Reduced \in 0 .. Largest
                                       /\ (Reduced * Base) % N = (scalar * unit) % N

\* The accumulator is the prefix of the scalar processed so far, times the
\* point: no doubling or addition has gone wrong on the way.
PrefixOK ==
  /\ pc \in {"double", "done"} => acc = (Prefix(j) * Base) % N
  /\ pc \in {"select", "add"} => acc = (R * Prefix(j + 1) * Base) % N
  /\ pc = "add" => ent = (SignedDigit(j) * Base) % N

\* The addition formulas are never used on equal points, their only failure.
NoDegenerateAdd == /\ pc = "add" => acc # ent \/ acc = 0
                   /\ pc = "table" /\ built % 2 = 0 => tab[built] # tab[1] \/ unit = 0

\* How far the table and the loop have got at each label.
Progress ==
  /\ pc = "reduce" => k = scalar
  /\ pc \in {"reduce", "negate"} => sgn = FALSE /\ built = 0
  /\ pc = "table" => built \in 1 .. (H - 1)
  /\ pc \notin {"reduce", "negate", "table"} => built = H
  /\ pc \in {"reduce", "negate", "table", "recode", "top"} => j = Windows
  /\ pc = "double" => j >= 1
  /\ pc \in {"select", "add"} => j < Windows
  /\ pc = "done" => j = 0

\* The result is scalar * P.
Result == pc = "done" => acc = (scalar * unit) % N
=============================================================================

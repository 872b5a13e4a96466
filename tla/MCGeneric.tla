----------------------------- MODULE MCGeneric -----------------------------
(***************************************************************************)
(* One call of a generic function, on words of four bits: a behaviour is   *)
(* that of one of the modules below, and the variables of the others rest. *)
(***************************************************************************)
EXTENDS MCDigitLoops, Division, MontgomeryArithmetic

VARIABLES part,            \* the module called
          query, answer,
          buf              \* the buffers of ModularInverse

\* Numbers of up to three words.
Scans == INSTANCE DigitScans
  WITH Numbers <- BoundedSeq({0, 1, 2, 6, 8, 15}, 3), Rows <- {0, 1, 3}, Widths <- {1, 2}

\* Every dividend of up to two words of four bits, and with three words those
\* of the digits 0, 1, 7, 8, 14 and 15; two words of 12 bits for divmod10.
Dividends == BoundedSeq(Digit, 2) \cup SeqOf({0, 1, 7, 8, 14, 15}, 3)
Numeral(x) == FoldRight(LAMBDA w, v : w + B * v, x, 0)
DecDigits == {0, 1, 9, 10, 255, 256, 257, 2047, 2048, 4095} \cup 4080..4090

MCDivisions ==
  [op : {"cmod"}, x : Dividends, m : 1..(B - 1)]
  \cup [op : {"cdiv"}, x : Dividends, m : 1..(B - 1), k : 0..3, inplace : BOOLEAN]
  \cup { c \in [op : {"cdiv_exact"}, x : Dividends, m : 1..(B - 1), k : 0..3, inplace : BOOLEAN] :
            Numeral(c.x) % c.m = 0 }
  \cup [op : {"divmod10"}, x : BoundedSeq(DecDigits, 2)]
  \cup [op : {"words"}, m : 1..(B - 1)]

\* One word: all operands.  Two words: every modulus with operands of a few
\* digits.  Three words: every modulus for the functions of it alone.
Odd(k) == { 2 * v + 1 : v \in 0..(Pow[k] \div 2 - 1) }
Few(n) == { Numeral(x) : x \in SeqOf({0, 1, 8, 15}, n) }
Multiplicands(k) == IF k = 1 THEN Digit ELSE Few(k)
Factors(k) ==
  { q \in [op : {"montmul", "amontmul"}, k : {k}, x : Multiplicands(k), y : Multiplicands(k), m : Odd(k)] :
       q.op = "montmul" => q.x * q.y <= Pow[k] * q.m }
Squares(k) ==
  { q \in [op : {"montsqr", "amontsqr"}, k : {k}, x : Multiplicands(k), m : Odd(k)] :
       q.op = "montsqr" => q.x * q.x <= Pow[k] * q.m }

MCQuestions ==
  Factors(1) \cup Factors(2) \cup Squares(1) \cup Squares(2)
  \cup UNION { [op : {"demont"}, k : {k}, x : 0..(Pow[k] - 1), m : Odd(k)] : k \in {1, 2} }
  \cup UNION { [op : {"emontredc"}, k : {k}, x : Few(2 * k), m : Odd(k)] : k \in {1, 2} }
  \cup UNION { [op : {"negmodinv", "amontifier", "montifier", "modifier"}, k : {k}, m : Odd(k)] :
                 k \in 1..3 }

\* Columns of operands of up to three words.  Rows and Karatsuba's products on
\* small words: all operands of four words of 4 values, 16 and 32 words as 4 and
\* 8 of 3 values, and for sums of several words 4 of 8 values.
Numerals(b, D, n) == { FoldRight(LAMBDA w, v : w + b * v, x, 0) : x \in SeqOf(D, n) }
Ends(n) == { Numeral(x) : x \in SeqOf(IF n = 3 THEN {0, 15} ELSE {0, 1, 8, 15}, n) }

Products == INSTANCE Products
  WITH Questions <-
         UNION { [op : {"mul"}, p : 0..5, x : Ends(m), m : {m}, y : Ends(n), n : {n}] : m, n \in 0..3 }
         \cup UNION { [op : {"madd"}, p : {p}, z : {0, Pow[p] \div 3, Pow[p] - 1}, x : Ends(m), m : {m},
                       y : Ends(n), n : {n}] : p \in 0..5, m, n \in 0..3 }
         \cup UNION { [op : {"sqr"}, p : 0..5, x : Few(m), m : {m}] : m \in 0..3 }
         \cup UNION { [op : {"mul_alt"}, b : {3}, n : {n}, x : Numerals(3, {0, 2}, n),
                       y : Numerals(3, {0, 2}, n)] : n \in {6, 8} }
         \cup [op : {"mul_alt"}, b : {4}, n : {4}, x : 0..255, y : 0..255]
         \cup [op : {"mul_4_8"}, b : {4}, x : 0..255, y : 0..255]
         \cup [op : {"kmul_16_32"}, b : {3}, n : {2}, x : 0..80, y : 0..80]
         \cup [op : {"kmul_16_32"}, b : {8}, n : {2}, x : Numerals(8, {0, 1, 7}, 4), y : Numerals(8, {0, 1, 7}, 4)]
         \cup [op : {"kmul_32_64"}, b : {3}, n : {4}, x : Numerals(3, {0, 2}, 8), y : Numerals(3, {0, 2}, 8)]
         \cup [op : {"sqr_4_8"}, b : {4}, x : 0..255]
         \cup [op : {"ksqr_16_32"}, b : {8}, n : {2}, x : 0..4095]
         \cup [op : {"ksqr_32_64"}, b : {3}, n : {4}, x : 0..6560]

\* Words of three bytes; every byte of a memory differs from its neighbours.
Contents == { [a \in 0..58 |-> (f * a + 11) % 256] : f \in {1, 37, 101} }
Codecs == INSTANCE ByteCodecs
  WITH ByteBase <- 256, Size <- 3,
       Questions <-
         { q \in [op : {"bigendian", "littleendian"}, mem : Contents, z : {0, 1, 30}, x : {0, 1, 30}, n : {4, 6}]
                 \cup [op : {"fromlebytes_p521", "tolebytes_p521"}, mem : Contents, z : {0, 1, 30},
                       x : {0, 1, 30}, n : {9}] :
             q.x = q.z \/ q.x = 30 \/ q.z = 30 }

\* Chunks of 3 of the 4 bits.  One word: everything.  Two words: a few digits,
\* and for the inverse every odd number.  Three words: the ends of the range.
Inverses == INSTANCE ModularInverse
  WITH ChunkBits <- 3,
       Questions <-
         UNION { [op : {"modinv"}, k : {k}, x : Multiplicands(k), y : Odd(k) \ {1}] : k \in {1, 2} }
         \cup [op : {"modinv"}, k : {3}, x : Few(3), y : { v \in Few(3) : v % 2 = 1 /\ v # 1 }]
         \cup UNION { [op : {"coprime"}, m : {m}, n : {n}, x : Few(m), y : Few(n)] : m, n \in 0..3 }
         \cup [op : {"coprime"}, m : {2}, n : {1}, x : 0..255, y : Digit]

-----------------------------------------------------------------------------
NoLoop == /\ call = [op |-> "none"] /\ phase = "idle"
          /\ memory = <<>> /\ memory0 = <<>> /\ pos = 0 /\ h = 0 /\ flag = 0 /\ result = NoWord
NoDivision == dividing = [op |-> "none"] /\ divided = Undivided
NoQuestion == asked = [op |-> "none"] /\ replied = Unanswered
NoQuery == query = [op |-> "none"] /\ answer = <<>> /\ buf = <<>>

MCInit ==
  \/ part = "loops" /\ LoopInit /\ NoDivision /\ NoQuestion /\ NoQuery
  \/ part = "division" /\ DivInit /\ NoLoop /\ NoQuestion /\ NoQuery
  \/ part = "montgomery" /\ ArithInit /\ NoLoop /\ NoDivision /\ NoQuery
  \/ /\ NoLoop /\ NoDivision /\ NoQuestion
     /\ \/ /\ buf = <<>>
           /\ \/ part = "scans" /\ Scans!Init
              \/ part = "products" /\ Products!Init
              \/ part = "codecs" /\ Codecs!Init
        \/ part = "inverses" /\ Inverses!Init

Answered == answer # <<>> /\ UNCHANGED <<query, answer, buf>>

MCNext ==
  /\ part' = part
  /\ \/ part = "loops" /\ (LoopNext \/ LoopReturned) /\ UNCHANGED <<divVars, arithVars, query, answer, buf>>
     \/ part = "division" /\ (DivNext \/ Divided) /\ UNCHANGED <<loopVars, arithVars, query, answer, buf>>
     \/ part = "montgomery" /\ (ArithNext \/ Replied) /\ UNCHANGED <<loopVars, divVars, query, answer, buf>>
     \/ /\ \/ /\ UNCHANGED buf
              /\ \/ part = "scans" /\ Scans!Next
                 \/ part = "products" /\ Products!Next
                 \/ part = "codecs" /\ Codecs!Next
           \/ part = "inverses" /\ Inverses!Next
           \/ Answered
        /\ UNCHANGED <<loopVars, divVars, arithVars>>

MCSpec == MCInit /\ [][MCNext]_<<part, loopVars, divVars, arithVars, query, answer, buf>>

\* The properties of the modules.
AnswersRight == part = "scans" => Scans!AnswersRight
ProductsRight == part = "products" => Products!ProductsRight
BytesRight == part = "codecs" => Codecs!BytesRight
InversesRight == part = "inverses" => Inverses!InversesRight
=============================================================================

# Formal models of s2n-bignum

This directory is a TLA+ development kept beside s2n-bignum, a library of
constant-time big-integer and elliptic-curve routines written in assembly for
ARM and x86. It models the library's algorithms at the level of its loops,
registers, carries and buffers, model-checks them with TLC on small words and
small fields, and proves the main results with TLAPS for every word size,
buffer length, group order and window size.

The repository already proves, in HOL Light, that the object code of each
routine satisfies an input/output specification for the one word size and the
one curve it was written for. The models here answer a different question: why
the *algorithm* is right, which facts about the parameters it depends on, and
what would go wrong in the steps between entry and return. Every definition is
translated from the assembly (the ARM version, unless said otherwise) or from
the header that states the interface; the HOL theorem of the same name gives
the precondition.

## 1. Inventory of the system

All code is sequential. A routine owns its output buffer, its stack frame and
its registers; it shares with its caller the memory its pointers refer to, and
nothing is kept between calls. Consequently there are no interleavings, crashes,
messages or timeouts: the hard behaviours are carries that cross a loop
boundary, do-while loops entered with a zero count, inputs that alias the
output, values that are almost or not at all reduced, quotient and reciprocal
estimates that must be off by no more than the correction that follows, digits
that are negative after recoding, degenerate cases of addition formulas, stack
slots shared by temporaries, and unwind tables that follow the text of a
function and not its execution.

| Component (source) | State | Operations | What makes it correct |
|---|---|---|---|
| Linear generic bignums (`arm/generic`: add, sub, optadd, optsub, optsubadd, optneg, cmadd, cmnegadd, cmul, copy, mux, shl_small, shr_small, normalize, modadd, modsub, ...) | index and count registers, the carry flag, a high word, the output buffer | passes over up to three buffers of independent lengths | carry chain equals the integer operation; clamping; words read before they are overwritten when input = output; every counter reaches zero |
| Scans (bitfield, bitsize, digitsize, clz, ctz, eq, ge, ..., copy_row_from_table) | what a few registers keep of the words seen | one pass over all words | the answer does not depend on where a loop stops |
| Products (mul, sqr, madd, `fastmul/`: fixed sizes, Karatsuba) | three-word column accumulator, rows, signed middle product | columns, rows, assembly of three products | no carry lost; result exact |
| Division (cdiv, cdiv_exact, cmod, divmod10) | reciprocal, remainder, quotient | digit estimate and correction | estimate off by at most what is corrected |
| Montgomery arithmetic (amontmul, amontredc, montmul, montredc, demont, emontredc, montifier, amontifier, modifier, negmodinv) | window of the input, carry words, masks | one row per word, a conditional subtraction | exact divisibility; the top carry is 0 or 1; "almost" reduced results are enough |
| Modular exponentiation, inverse, coprimality (modexp, modinv, coprime) | several temporaries | composition; a gcd in chunks on leading and lowest bits | ranges between the calls; enough iterations whatever the chunks decide wrongly |
| Bytes (bigendian, littleendian, frombytes, tobytes) | registers of one word | conversion word by word, in place | mirror-image words read before either is stored |
| Field arithmetic (p25519, p256, p384, p521, p256k1, sm2, n256, ...) | fixed registers | add, sub, neg, double, half, mul, tomont, demont, mod | results fully reduced; masks and estimates from a few words |
| Point operations (montjadd, montjmixadd, montjdouble, jadd, ..., epadd, pepadd, ladderstep) | stack temporaries with shared slots | projective formulas | infinity recognised; the one degenerate case (P + P) is not; overlap of result and arguments |
| Scalar multiplication (p256/p384/p521/sm2 `*scalarmul*`, `p256_scalarmulbase`, curve25519, edwards25519) | scalar, sign, table, accumulator, loop counter | recode, tabulate, loop of doublings and additions; Montgomery ladder | result = scalar * P for every scalar and point; no degenerate addition; table index in range |
| ML-KEM rejection sampling | frame, running pointer, count | whole-vector stores | stores inside the frame; nothing lost, nothing left over |
| Stack frames (`include/_internal_s2n_bignum*.h`, every function) | stack, saved registers, unwind table | the CFI macros | callee-saved registers restored; the caller can be found at every instruction |
| ML-KEM and ML-DSA transforms, SHA-3, AES-XTS | vectors | butterflies, permutations, tweaks | coefficient bounds; block order |
| HOL Light proofs, tests, benchmarks, tools, CI; `x86_att` (generated from `x86` by `sed`) | | | not program logic of the library |

## 2. Modules and how they correspond to the code

A module stands for one function or one family of functions with the same
algorithm. Word size, lengths, group order, window size and table size are
CONSTANTS with named ASSUMEs. Where the order of loads and stores matters, one
action is one pass of a loop body or one straight-line stretch between two
labels, and `pc` (in `RejUniform`, `label`) names it. Where it does not, because the operands are
apart from the result, a step is a longer stretch and the passes over a number
are arithmetic on its value; carries, masks and estimates are still formed from
the words the code forms them from. Definitions marked "Mutant:" are
deliberately wrong variants of the definition that follows them; no
specification uses them.

### Interfaces and generic functions

- `Words`: memory as a function from word addresses to digits in base `B`
  (2^64 in the code), `Value` of a little-endian number, regions, and the two
  aliasing relations of the HOL preconditions.
- `AddSubInterface`, `AddSubContract`, `BignumAddSub`: bignum_add and bignum_sub,
  their legal calls, the caller's view as one atomic step, and both functions
  with their four chain loops and two kinds of tails. The refinement mapping
  shows the caller the old memory until `pc = "done"`.
- `BignumInterface`: the contracts of the other generic functions as
  `include/s2n-bignum.h` states them, on numbers. The seven modules below are
  the implementations; each has one property, that a call ends with what the
  interface says.
- `DigitLoops`: nineteen functions that store a result word by word; one step per
  iteration, in memory, with every overlap of output and operands the
  interface allows.
- `DigitScans`: functions that read whole numbers and return one word, or copy
  the row of a table: folds over the words with what the registers keep.
- `Division`: cmod, cdiv, cdiv_exact, divmod10. Remainders by multiplication with
  a reciprocal and a fixed number of corrections, quotients by a Montgomery
  reduction whose multipliers are the quotient. A number is the sequence of its
  words; a call is one step, and its loops are recursive functions of the pass,
  `QuotientStep` one pass of the loop that stores the quotient, in place or not.
  `WordNegmodinv` is the negated inverse by the code's four Newton steps; the
  reciprocal is taken by its result. `DecBits` and `DecSplit` are the 64 and 28
  of divmod10.
- `MontgomeryArithmetic`: products, squares, demont, emontredc, negmodinv and the
  constants that are found without division. A number is its value; a call
  (`asked`) is one step that sets `replied`, and a loop is `Passes`, a recursive
  function of the pass over what the code keeps between two passes: `MaddRow`
  and `MontRow` a pass of the products with their two carry words, `EmontRow` one
  of emontredc, `NegmodinvWord` one of negmodinv, `EstimateBit` one bit of the
  reciprocal, `Doubled` and `Shifted` the steps that follow it.
- `Products`: the columns of mul, sqr and madd; the rows of the fixed-size
  products; Karatsuba's assembly with its signed middle product.
- `ByteCodecs`: conversions to and from bytes, in a memory of bytes, in place
  and apart.
- `ModularInverse`: modinv and coprime. One step is one iteration of the outer
  loop: a chunk of gcd steps on two words per number, its matrix applied to the
  numbers, signs mended.
- `BignumMontRedc`: montredc and amontredc, one action per loop pass, the window
  in memory possibly the input itself.
- `ModPower`, `BignumModexp`: modexp with its scratch buffers, and the abstract
  square-and-multiply it implements. The local subroutines are atomic and return
  what their code stores, almost reduced where the code leaves it so.

### Fields

- `FieldInterface`: the header's contracts of the field functions, one per
  family of functions, for a curve given as a record.
- `FieldArithmetic`: the field functions of the six fields and two orders as
  functions on numbers: integer arithmetic cut off where the registers end, with
  every correction decided by the carry, mask or conjunction of words the code
  uses.
- `FieldOps`: calls of these functions, checked against the interface. What the
  code of each family relies on in its modulus is `CurveAssumption`.
- `ModReduce`: the eight reductions of k-word numbers modulo a curve constant,
  a word at a time with an estimated quotient. `Remainder` relates what the
  code keeps to the number read so far.

### Points and scalars

- `PointGroup`: the multiples of a point of prime order `N` as residues. `Jadd`
  is what the code's addition does, not the group law: the sum of a finite point
  with itself is infinity.
- `JacobianPoints`: montjadd, montjmixadd and montjdouble of P-256, SM2 and
  P-384, and jadd, jmixadd, jdouble of P-521 and secp256k1, as programs of field
  operations over a memory that holds the arguments, the result and the stack
  frame with its shared slots. `ResultOK` says that they compute `Jadd` and
  `Jdouble`, which the next two modules take for granted.
- `ScalarMul`: p256_montjscalarmul, p256_scalarmul, sm2_montjscalarmul,
  p384_montjscalarmul and p521_jscalarmul, whose differences are parameters:
  `R`, `H` and `Windows`, whether large scalars are negated (`Threshold`), how
  the scalar is reduced (`FullReduce`) and how the top digit selects
  (`SingleTop`). Two things are arranged differently in the sources and come to
  the same state: the P-256 and SM2 code recodes before it fills the table (the
  two touch disjoint state), and the P-384 and P-521 code shifts the scalar left
  at every window where the model, as the P-256 code, indexes it.
- `ScalarMulBase`: p256_scalarmulbase, whose block size is an argument. `Block`
  is the digit with the deferred carry, `SelectEntry` the scan of the table and
  the negation, `AddEntry` the mixed addition, which is called even when there
  is nothing to add, `Commit` the multiplexing, the counters and the
  deliberately non-strict loop bound.
- `Field25519`: operations modulo 2^255 - 19 on cells of four words, most of
  which leave a result that is not reduced; programs on named stack places.
- `Ladder25519`: ladderstep, pxscalarmul and x25519 with the lazy swap.
- `EdwardsPoints`, `Edwards25519`: point operations on edwards25519 in three
  representations, encoding and decoding with the collected error flag, and
  scalarmulbase, x25519base and scalarmuldouble with their signed digits.

### Rejection sampling and frames

- `RejUniform`: mlkem_rej_uniform_VARIABLE_TIME: the zeroing, the 48-byte blocks,
  the last 24-byte block, the clamp and the copy. Which lanes are acceptable is
  chosen as each vector is stored; an entry is its position in the buffer, so the
  result can be checked for order and completeness.
- `CallFrames`: the CFI macros of the internal headers. Instructions take effect
  in the order of execution, directives in the order of the text; the model runs
  a function beside the unwind table its directives make. `MCCallFrames` holds
  the frames of eight functions, three for Arm and five for x86, of which four
  also, and one only, with what `WINDOWS_ABI` adds. Every instruction that
  concerns the stack or the flow of control is there, in the order of the source.

### Model-checking and proof modules

`MCBignumAddSub`, `MCMontgomery`, `MCDigitLoops`, `MCGeneric`, `MCFields`,
`MCJacobianPoints` and `MCCallFrames` only fix buffers, curves and inputs.
`MCGeneric`, `MCFields`, `MCMontgomery`, `MCJacobianPoints` and `MCFrames` put several
modules into one run: a behaviour is a call of one of them while the variables of the others
rest, and a property of the run is that of a module when its part is called.
Proofs: `ArithmeticFacts`, `LoopProofs`, `MontgomeryProofs`,
`MontgomeryArithmeticProofs`, `ScalarMulProofs`, `ScalarMulBaseProofs`,
`FieldProofs`, `FrameProofs`.

## 3. Runs

| Run | Instance | Distinct states | What it shows |
|---|---|---|---|
| addsub | base 3, output up to 5 words, inputs up to 3 | 300,876 | every call, all aliasings: counters, unread input words, carry chain, refinement of `AddSubContract`, and that every call returns |
| generic | words of 4 bits, numbers up to three words | 1,748,051 | the generic functions meet their interface, one property per module: `MeetsContract` (DigitLoops), `AnswersRight`, `QuotientsRight`, `MontgomeryRight`, `ProductsRight`, `BytesRight`, `InversesRight` |
| montgomery | base 4, k to 2, n to 4, p to 3; exponentiation with one and two 2-bit words | 854,300 | every content of every reduction: carry, rows, result, untouched memory; every power refines `ModPower` |
| fields | reductions: two words of base 16, inputs up to four words; fields of 3 to 6 words | 1,623,570 | every input of the reductions; the field functions on all or on boundary operands |
| jacobian | curves of order 17, 23, 19; 2^11 - 19 for 2^255 - 19 | 322,244 | pairs of points in several coordinates and placements; ladder for every scalar and several x; Edwards operations, every encoding, scalar multiplications |
| p256 | N = 509, 9-bit buffer, R = 8, H = 4, two windows, negation from 256 | 14,336 | every scalar, P finite or infinite: table, prefix, top digit, no degenerate addition, result |
| scalarmulbase | N = 499, 9 bits, block sizes 2 to 7 | 46,080 | every scalar: prefix, table bounds, no degenerate addition, result |
| frames | eight functions, twelve texts, those of the findings included; sampling: 2 lanes, 8 entries wanted, up to 5 blocks of 4 | 1,898,338 | every return gives everything back; the eight texts that keep the discipline of the macros can be unwound at every instruction, and the four of the findings do not keep it; sampling under every acceptance pattern: frame bounds, frame contents, result |
| p521_comment | N = 127, R = 8, full reduction, one-bit top digit | violation | first finding |
| call_frames_shortinput | x86 bignum_mod_p256 | violation | second finding |
| call_frames_windows | x86 bignum_add with `WINDOWS_ABI` | violation | third finding |
| digit_loops_optneg | the calls of bignum_optneg | violation | fourth finding |

Why the bounds are enough.

- `addsub`: the output can be longer than both inputs by two words, so the tails
  run their first, middle and last pass; every order of p, m and n occurs, zero
  included, which fixes every branch. In base 3 a digit sum without a carry, with
  one, and with one that only the carry in causes all occur. Words outside
  the inputs hold `B - 1`, so that a stale one is seen.
- `generic`: four bits leave room for a high word, a carry and a middle value;
  two words have a first and a last pass and three a middle one. One-word
  operands are complete; longer ones take the digits 0, 1, the middle and the
  end of the range, which is where carries start and stop. Products by rows and
  by Karatsuba's method take bases 3, 4 and 8, since what they depend on is the
  carry between halves (of 2 or 4 words) and not the size of a word; with base 4 and
  four words every pair of operands is tried. Bytes differ from their neighbours,
  in words of three of them. The modular inverse does chunks of 3 of 4 bits, as
  the code does 58 of 64: comparisons of leading bits do go wrong, in both
  numbers.
- `montgomery`: k = 2 separates the first digit (whose store is dropped) and the
  top one; n goes from nothing to past k + p, so the input is exhausted before,
  during and after the rows; p = 0 occurs. In the exponentiation the result lies
  apart from and on each input.
- `fields`: the reductions run on two-word moduli that lie in their range as the
  real ones do (`ShapeAssumption` is what the estimates need), with every input
  of up to four words. The field functions run on moduli built from the same powers as
  the real ones, with h for 2^32; half-words have one or two bits, since TLC's
  integers have 32 bits. Three-word operands of functions of one argument are complete.
- `jacobian`: the fields have values that are almost but not fully reduced (11 ..
  15 of 16), the points include infinity in several coordinates, P + P and P - P,
  and the result is placed apart, on top of each argument and across them.
  For the 25519 functions all encodings, the points of order 1, 2, 4
  and 8, points of the twist and unreduced coordinates occur; base point
  scalars are a seventh of all.
- `p256`: odd and even table entries, a first and a last window and every
  bitfield occur; the instance keeps the inequalities that matter of the real
  order. The parameters of P-384, P-521 and SM2 are covered by the theorems.
- `scalarmulbase`: 9 is divided by 3 and by none of 2, 4, 5, 6, 7, so both cases
  of the loop bound occur, with one to four full blocks.
- `frames`, sampling: two lanes give the four possible compactions; the 8 entries
  wanted are a multiple of a block of loop48 (as 256 is of 32) that rejections
  spread over several blocks, and five half-blocks reach the end of the buffer
  before, at and after enough entries, with and without the last half-block.
- `frames`, saves and restores: nothing is cut in the texts but the size of
  the local areas and the code between the instructions of the frame, of which
  either everything or nothing is written (registers do not influence each
  other), so that each value an unwinder could miss is missing on some path.

Deadlock is checked everywhere but in `frames` and the two violation runs of `MCCallFrames`,
where the function returns and there is no step after it; elsewhere an explicit stutter follows the return.

Fairness is used in `addsub` only, for `Termination`: weak fairness of `Next`. The
processor executes the next instruction and nothing can block one, so a step
that stays enabled is taken. No claim rests on the order in which anything is
scheduled: the code is sequential.

### Findings

None of the four affects a result; each is a comment or a promise the code does
not keep.

1. `src/arm/p521/p521_jscalarmul.S:129-131` says that the negation of large
   scalars "is not needed by the indexing scheme" and serves only to exclude one
   scalar. The code that selects the top entry (lines 335-340) tests the top
   bitfield for nonzero only. A reduced scalar just below n_521 plus the recoding
   constant is about 2.5 * 2^520, so its top bitfield would be 2 without the
   negation and would be taken for 1 (`p521_comment`). With the negation, which the
   code performs, the top bitfield is 0 or 1 (`TopFieldOK`, proved); the comment
   would mislead whoever removes the step.
2. `src/x86/p256/bignum_mod_p256.S:180`: the path for inputs below four words
   stands after `CFI_RET`, hence after `.cfi_endproc`, and is reached with two
   registers pushed. No unwind row covers it (`call_frames_shortinput`), although
   `doc/s2n_bignum_pr_checklist.md:65` asks for directives so that debuggers and
   profilers work. The other x86 `bignum_mod_*` functions have the same shape.
3. `src/x86/generic/bignum_add.S:106`: with `WINDOWS_ABI` rdi and rsi are pushed at
   the entry and popped, with their directives, before the first return (lines
   98-99). The code behind that return runs with both still pushed. The
   `.cfi_def_cfa rsp, 24` of line 106 puts the CFA back for `Lbignum_add_ylonger`,
   but not the places of the two registers, so that an unwinder there takes them
   from registers that have been overwritten (`call_frames_windows`).
   `Lbignum_add_tails`, behind the second return, has no directive at all, and
   there the CFA is wrong too. The Windows form of bignum_sub (behind line 107),
   and by their text those of the comparisons ge, gt, le and lt, lack the
   directive altogether. The promise is that of the second finding. With the
   standard ABI nothing is pushed and these functions can be unwound, and with
   both ABIs they give everything back (`frames`).
4. `src/arm/generic/bignum_optneg.S:12` and `src/include/s2n-bignum.h:750` say that
   bignum_optneg returns whether the input is nonzero. It returns that only if a
   negation is asked for, and 0 otherwise (`digit_loops_optneg`); the HOL theorem
   says what the code does.

### What the models show about the parameters

- The addition does not recognise a doubling, so that it never meets one is a
  fact about numbers. With negation of large scalars the scalar stays below
  N - R; without it (P-384) it holds because N modulo R exceeds H: n_384 is 19
  modulo 32. `NonDegenerateAssumption` is this disjunction; the orders of P-256,
  SM2, P-384 and P-521 with their windows satisfy it and `TopAssumption`.
- For p256_scalarmulbase the reason is different. `OrderAssumption` asks that
  twice the gap between the order and the power of two above it stay below the
  place of the last block that has bits of the scalar. For n_256 the gap is below
  2^224, and for every block size in 2..31 that block starts at bit 232 or above.
  A weaker bound on the gap is not enough: with N = 257, 9 bits
  and blocks of 3 the function would meet a doubling.
- The reductions need little of their moduli: see `ShapeAssumption` in
  `ModReduce`. For p256 and n256 that is a distance from 2^256 - 2^224 + 2^192 of
  less than one part in 2^64 of a top word; the real ones have a wide margin.
- bignum_montredc with p = 0 must still run its correction: the precondition
  lets the input be the modulus.
- The spare part of the frame in RejUniform is needed but for one cell: with 255
  entries before a block of which all are taken, stores end at the 287th of 288.

## 4. Proofs

TLAPS proves the following for every value of the constants that meets the
named assumptions, in particular for 2^64 as the digit base and for the real
group orders and sizes.

**bignum_add and bignum_sub** (`LoopProofs`; from `BaseAssumption`,
`MemSizeAssumption`, `MaxLenAssumption`). The inductive invariant is

    IInv == TypeOK /\ Registers /\ WrittenSoFar /\ ChainInv

None of the parts is inductive alone. `ChainInv`, the balance of what was
written, what was read and the pending carry, needs to know that the word the
next pass reads is still the caller's. That follows from `WrittenSoFar` (only the
first i output words have changed) and the aliasing precondition, which give
`UnreadIntact` as a lemma (`UnreadWords`): word j of an input that is the output
has index at least i. Which operands still have words follows from `Registers`. One
step of the chain is `BalanceStep`, arithmetic on the recursion of `Value`.
Proved: `TypeCorrectness`, `CountersCorrect`, `AliasingSafe`, `ChainCorrect`, and
`ImplementsContract`: every step before the return is a stutter of the contract,
and the returning one is its `Return`, because at the return ChainInv balances
all p words.

**The functions that store a result word by word** (`LoopProofs`; from
`BaseAssumption`, `WordBitsAssumption`, `LoopCallsAssumption`,
`LoopWordsAssumption`). `LoopsMeetContract` is `MeetsContract` for all nineteen
functions of `DigitLoops`: any word size, any lengths, every overlap the
preconditions of the HOL theorems allow. The inductive invariant is

    LoopInv == LoopTypes /\ MeetsContract /\ (phase # "done" => FunctionInv)

where `FunctionInv` is one formula per function, in terms of the operands as
they were at the call (`Was`). They have few shapes:

- `Passing(q, carry)`, for a loop from the lowest word up: nothing from word pos on has
  changed, and the words stored plus the carry, at the weight of word pos, are the
  linear combination `q` of the operands below pos. A complement is the coefficient
  of B^pos - 1. One lemma, `PassStep`, makes the step for every function from one
  equation between digits; what differs is how the carry is kept: a flag, a
  borrow, the high word of a product and a flag together (`h + flag`), the previous
  word whose top bit is still to come (moddouble). That `h + flag` stays below B,
  so that the code may add the two without a carry out, is part of the invariant.
- `Correcting(sign, T, R)`, for the second pass of the modular functions: the first
  left T, with a carry or borrow the code has turned into the mask h, and T with
  the modulus added or subtracted under the mask is the residue R. The last carry of that pass is
  dropped; `R` between 0 and the modulus makes this right. In modadd a comparison without
  a store lies between the two.
- `Shifting(r)` and the invariant of mux, for loops from the top down: the words from pos on are
  stored, the words of an input below pos must not be. A word is read at
  pos and the one above it at pos + 1, which may be the output already: its bits are in h.
- `Raised` and `Raising`, for normalize: h words have been shifted out, all of
  them zero; while h is behind pos the top word is not zero, which is why the word loop
  ends with a nonzero top word or a zero number, and `LeadingZeros` of it finishes the shift.

What remains at the return is to pass from the balance to the interface's
div and mod (`ResultIs`), and for the modular functions from the range of R to
the residue. The assumptions on calls are the preconditions of the HOL
theorems; `W >= 3` is for muladd10 only, which multiplies by ten in a word.

**Montgomery reduction** (`MontgomeryProofs`; from `BaseAssumption`,
`MemSizeAssumption`, `MaxLenAssumption`). The inductive invariant is

    IInv == /\ Types /\ Counters /\ Loading /\ InverseOK /\ Rows
            /\ Comparing /\ Correcting /\ OnlyOutput /\ Result

`RowsDone(call, memory, v, t)` says that v is what t whole rows of reduction leave of
the digits taken from the input: v * B^t is those digits plus a multiple of
the modulus below B^t of them. `Rows` says that the window has this form
at every label, once what the code holds elsewhere is counted: the digit a row drops,
the pending word and the flag inside a row (`Pended`), the carry above the
window (`Windowed`). The steps are lemmas on numbers: `RowBegins`
(the multiplier from `InverseOK` makes the lowest digit vanish), `RowContinues` (one column,
with the two carries of a multiply-add), `RowEnds` (the digit taken next, and the sum of
three carries). That this sum is a bit, and not 2, is not local to
the step: `RowsBound` bounds the window by its form, whence `CarryFits`. The
input may be the window itself, so `Loading` and `TakenFacts` say which
digits are still to be read and that they lie where nothing was written.
`Comparing` is the borrow of the comparison so far; `CorrectionBegins`,
`CorrectionContinues` and `CorrectionEnds` show that the masked subtraction, which drops its
last borrow, leaves k digits exactly when it is done for the right reason, for
montredc also for the residue (`RightResidue`, from the bound on the input that
its precondition states). Proved: `Invariance`, and from it `CarryBitHolds`,
`RowsOKHolds`, `ResultHolds`, `OnlyOutputHolds`.

**Division by a word and by ten** (`MontgomeryProofs`; from `BaseAssumption`,
`WordBitsAssumption`, `DivisionsAssumption`, `DecAssumption`, `NewtonAssumption`).
`QuotientsExact` is `QuotientsRight` for all calls of `Division`: any word size up to
the 80 bits the Newton steps reach, any dividend, any nonzero divisor, a quotient of
more or fewer words than the dividend, apart from it or in its place. The
conditions on calls are those of the HOL theorems.

- The remainder. `ModloopRight` is an induction from the top word: two words
  congruent to what was read so far, where a carry out of them is made good by adding
  2^128 modulo the divisor once more, which cannot carry again. `CmodRight` then shows that the estimate by
  the reciprocal is at most two short, also when it passes a word, so that the two
  masked corrections are enough, and that after the last one a single one is.
- The inverse. `NegmodinvStart` checks the five bits of (m - 4m) xor 2, `NewtonStep`
  that x (1 + e) squares the error; e, e^2, e^4 and e^8 are those of the starting
  value, kept modulo a word only (`LoSquare`).
- The quotient (`QuotientLoopRight`). Inductive is a balance of weights
  (`Weighed`, `QuotientWeight`): the words still to be read, with the carry and the part of a
  word that registers hold, less the divisor times the words of the quotient still to
  be stored, come to the same number at every pass when taken at the weight of word i. The step
  is that of a Montgomery row with one digit (`LoopStepRight`); that the sum of three
  high parts is below B, so that the code's carry is exact, is `CarryRight`. A word of
  the shifted dividend joins two words read (`ShiftedWord`); in place, the loop holds
  the upper one in a register before the lower one is overwritten, and nothing above
  the store has changed (`LoopStatesRight`). At the end the carry's weight is
  B^k, and the complemented multipliers are the quotient modulo that
  (`LastWeight`), because the loop starts with the divisor less the
  remainder, both shifted.
- The tenth. `TenthRight`: with the split after 28 bits the multiplications by (2^28 - 1) / 5 and
  (2^64 + 4) / 5 give the exact fifth (`FifthByProduct`, `SplitFifth`); `Divmod10Right` is the
  induction from the top, in which every word is replaced by its quotient digit.

**Montgomery arithmetic** (`MontgomeryArithmeticProofs`; from `BaseAssumption`,
`WordBitsAssumption`, `QuestionsAssumption`, `EstimateAssumption`). `MontgomeryExact` is
`MontgomeryRight` for all calls of `MontgomeryArithmetic`: any word of two or more bits
(the reciprocal is started two bits below a word's top), any number of words,
any odd modulus, 1 and those with leading zero words included, any operands within the
preconditions of the HOL theorems. `PassesKeep` turns a loop into an induction: an
invariant of the pass number that a pass preserves holds after all of them.

- The products. `MontRowRight`: a row of reduction divides the window, carry words
  included (`Wide`), plus a multiple of the modulus below B times it, exactly by B
  (`OneRow`). `AfterRows` is inductive: B^j times the window is the product with the
  digits taken so far plus a multiple below B^j, and the window is below y + m.
  Hence one carry word is zero and the other a bit after each pass, and zero or one
  subtraction is left at the end: `MaskedRight` for the almost reduced result,
  `ReducedRight` for the reduced one, where the bound on x y decides.
- In place. `DemontRight`: rows of a window of k words never carry (`InPlaceRow`)
  and end at most at m; `EmontredcRight`: the multipliers stored below, the window and the
  carry bit above balance the input at every row (`EmontDone`).
- The negated inverse. `Leaves` is inductive: x times the words found, plus 1, is a multiple of
  B^j whose upper part the code holds modulo the words still to come; the carry it does not
  compute is 1 unless the word to clear is zero (`SumCarries`).
- The constants. `NormalizedRight`: after the shifts the top bit is set and m
  divides the number. `EstimateIs`: the bits found are 2^(2W-2) div h, for h = 2^(W-1) too.
  `Remainder62Right`: the product with n misses 2^(64k+62) by at most n, on the
  side that the top word tells. `DoubledRight` and `ShiftedRight` keep the residue
  and the size; `AmontifiedRight` and `DemontedPower` put the powers together.

**bignum_modexp** (`MontgomeryProofs`; from `SizeAssumption`). `ModexpImplements`
is the refinement of `ModPower` under the mapping `Contract`: the abstract power is
what the accumulator represents, taken out of Montgomery form, and between the
multiplication and the mux it depends on the bit which of two buffers that is.
The invariant is `PowerInv == PowerTypes /\ BitsLeft /\ Represented`;
`Represented` gives the congruences of the scratch buffers and not their values, for
numbers in almost-Montgomery form are not unique. The abstract specification,
however, speaks of residues: a result of demont lies below the modulus
(`DemontFacts`), a congruence modulo an odd number can be divided by the radix
(`RadixCancels`), and so `NextPower` turns the congruences into equations. The
multiplication is the step the abstract specification sees; all others but the
return stutter. The subroutines are taken as the model has them, by what they
store, with the multiplier of the reduction shown to exist (`ReductionFacts`).

**Windowed scalar multiplication** (`ScalarMulProofs`; from the assumptions of
`ScalarMul` on radix, order, number of windows, scalar width, threshold and the
two on the parameters of a curve). The inductive invariant is

    IInv == TypeOK /\ Progress /\ TableOK /\ ScalarOK /\ PrefixOK

`Progress` ties labels to counters, so that the table is complete when it is
read. `PrefixStep` is the recoding: prefix(j) = R * prefix(j+1) + digit(j) with
the digit in -H .. H-1. `PrefixBounds` keeps every prefix in 0 .. Largest, which
`NoCollision` needs: if the accumulator R*u and the digit d were the same
multiple of P, then N divides R*u - d, which lies within -H .. Largest + R; so it
is zero, and then u and d are, the harmless sum of two infinities, or it is N,
which the parameters exclude. Modulo N, `BaseCancels` removes the
(possibly negated) point. Hence additions are never degenerate, `Jadd` is the
group addition, and the prefix invariant steps. Proved: `TypeCorrectness`,
`TableCorrect`, `PrefixCorrect`, `TopFieldCorrect`, `NoDegenerateAddition` and
`ResultCorrect`.

**p256_scalarmulbase** (`ScalarMulBaseProofs`; from `BitsAssumption`,
`BlocksizesAssumption`, `OrderAssumption`). Inductive is

    IInv == Types /\ Counters /\ BetweenBlocks /\ WithinBlock /\ Selected /\ Result

`BetweenBlocks` says that the accumulator is what the processed bits are worth,
less the carry owed at the next weight, and, the strengthening that matters,
that a carry is owed only if those bits are worth more than half of that weight.
`EntryApart` then shows that the entry of a block is neither the accumulator nor
infinity, in three cases: blocks below the last one stay below the order
(`ApartBelow`); in the last block with bits of the scalar the difference may
exceed the order, but not hit it (`ApartLast`, which uses the gap); and the block of the
carry alone, when the block size divides the width, meets a difference strictly
between N and 2N (`ApartCarry`). An entry is never infinity because the order is
odd (`OddDivisor`). Proved: `BasePrefixCorrect`, `BaseTableBounds`,
`BaseNoDegenerateAddition`, `BaseResultCorrect`.

**Reductions modulo curve constants** (`FieldProofs`; from
`WordsAssumption`, `RecordAssumption`, `ShapeAssumption`, which the eight real
moduli meet with 64-bit words). `Reduction`: whatever was read so far, the code keeps
its remainder. Each family has a lemma that its quotient estimate, formed from a
few words and saturated or shifted as the code does, is the true quotient or one
more, so that the one masked addition is enough.

**Field functions** (`FieldProofs`; from `CurveAssumption`, which states for each
family how far its modulus lies from a power of the base; the real curves with 64-bit
words meet it, and TLC evaluates it on the small ones). `FieldFunctions`: every call returns
what the header promises, for every word base and number of words. The
operands, too, are any numbers the interface admits.

- `MaskedCorrection`: when the estimated quotient is the true one or one
  more (`Close`), the masked addition mends the difference, although it is
  formed in n + 1 words. The estimates of p256, sm2 and p384 are those of the
  reductions (`CurveEstimates`); triples and products by a word follow.
- `TimesRadixIs`: the n multiplications by a word base that define `TimesRadix` are
  one by `Size`. So n modsteps are `bignum_tomont` (`ModstepsIs`), and
  whatever satisfies Size * y = x + q * p with q in n words (`Reduces`) is
  the way back: `MontredsReduces` for rows with a multiplier per word
  (p256, sm2, p384), `RowsAre` and `Demont256k1` for secp256k1, where only the multipliers
  and one borrow per row are computed. `ReducesFacts` gives the ranges that decide
  whether no correction or one is needed.
- `CarryIs`: the carry that the code takes from word 0 through the conjunction of the
  others is the carry of the whole addition; secp256k1 and P-521 decide by it.
- 2^255 - 19: `Fold25519Residue` for the fold of the bits above 255, and `HalvesSum`
  for the product, whose high halves are added only after the quotient has been
  estimated. 2^521 - 1: the Montgomery functions are rotations (`RotatedIs`).

**Rejection sampling** (`FrameProofs`; from `SizesAssumption`). Inductive is

    IInv == Types /\ Zeroing /\ Pointer /\ Buffer /\ FrameOK /\ Copying

`Pointer` bounds the pointer by the count at the start of the block, which was
below Out, and a vector for each store since; that keeps stores in the frame
(`StoresStayInFrame`), which in turn `FrameOK` needs: entries beyond the frame
would be lost (`FrameCorrect`). `Buffer` counts the input in half-blocks, so that
it is given up only when nothing is left (`ResultCorrect`).

**Stack frames** (`FrameProofs`; from `FrameAssumption`). For every set of
functions, a function whose text and table keep the discipline of the macros
(`Disciplined`, a condition on each instruction and its row alone), whatever its
branches: `Unwinding`, the caller's frame and registers can be recovered at every
instruction, and `Restoring`, every return has given them back.
`FollowsDiscipline` in the run `frames` evaluates the hypothesis: it holds of
eight of the twelve texts, and not of the four of the second and third
findings.

`ArithmeticFacts` proves what these need and the prover does not know: that a
function defined by recursion on the naturals exists and satisfies its equation
(the library's theorems for this take an operator as parameter, so the facts are
proved anew for functions), that div and mod behave under sums, shifts and
multiples, and the rules of congruences, cancellation of powers of two modulo
an odd number among them (`CongruentCancel`). Quotients are handled through uniqueness of division (`DivUnique`).

Only model-checked: `Termination` (liveness under fairness is out of the
prover's reach); `FollowsDiscipline`, which evaluates the tables of particular functions;
the runs `generic` (but for `MeetsContract`, `QuotientsRight` and
`MontgomeryRight`) and `jacobian`. The other modules of `generic` compute with folds or
RECURSIVE operators over the words of a number, some with exclusive-or or conjunction of whole
words (`Bitwise` is RECURSIVE); what these return for every input needs
induction over an operator, which the installed provers cannot instantiate. That the Jacobian programs compute `Jadd` and `Jdouble` is a
matter of polynomial identities over a field of any characteristic; it is checked on
small curves, and is an assumption of the scalar multiplication theorems.

## 5. Not modelled

- Word functions: single expressions over 64-bit words without control. Where a
  modelled function uses one (word_negmodinv, word_recip) it is taken by its
  result.
- Constant time. The models say nothing of which addresses and branches depend
  on data; that is a property of pairs of runs.
- The inverses and square roots modulo the primes of the curves, by division
  steps or addition chains, `word_divstep59`, and with them the conversion to
  affine coordinates in p256_scalarmul and p256_scalarmulbase (the action `Affine`
  of `ScalarMulBase` is what it promises, the same point, and not its products);
  inversions inside other functions are taken by their result, and tables of multiples of a base point by their contents.
- The second form of bignum_montmul_p256k1, the one without `_alt`, whose last
  correction takes a value below 3 * p by a quotient.
- The vectorised products (mul_6_12, mul_8_16 and their squares), squares by rows
  and the versions of emontredc for blocks of 8 words: the same sums in an order
  of instructions that the models do not see.
- The byte forms of x25519, which gather bytes before the code that is modelled.
- The NTT butterflies, Keccak and AES rounds: straight-line vector code. The
  block loop of AES-XTS with ciphertext stealing has control and is left for
  later.
- x86 and x86_att, except for stack frames: the same algorithms for another
  instruction set.
- The HOL Light development, tests, benchmarks and tools.

A shift by 64 or more in p256_scalarmulbase (blocksize outside 2..31) is outside
the precondition of the HOL theorem and not modelled.

## 6. Plan

Order: what callers rely on most first; each module is to be checked, then
proved about.

1. Done: all modules of section 2 with their runs, and the theorems of section 4.
2. Next modules: the block loop and stealing of AES-XTS; the divstep inverses with
   their bound on the number of steps; the growth of NTT coefficients; a
   self-composition of the loop models for constant time.
3. Next theorems: `ProductsRight`, `AnswersRight` and `BytesRight`, once the folds of those
   modules are functions as those of `Division` and `MontgomeryArithmetic` are.

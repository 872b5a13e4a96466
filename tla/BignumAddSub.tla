---------------------------- MODULE BignumAddSub ----------------------------
(***************************************************************************)
(* bignum_add and bignum_sub (arm/generic): multi-word addition and        *)
(* subtraction with a carry chain, with operands of three independent      *)
(* lengths.  The two functions have the same control flow; they differ in  *)
(* the chain instruction (adcs or sbcs), the initial carry and the tail.   *)
(* One action is one pass of a loop body.                                  *)
(***************************************************************************)
EXTENDS AddSubInterface

VARIABLES args,   \* the arguments of the call, which the code overwrites
          mem0,   \* the memory at the call, kept to state the properties
          mem,    \* the memory
          pc,     \* the label control is at
          p, m, n, i, a,  \* registers x0, x2, x4, x6 and x7
          cf,     \* the carry flag; for sbcs it is the negated borrow
          ret     \* the value returned

vars == <<args, mem0, mem, pc, p, m, n, i, a, cf, ret>>

Labels == {"entry", "xmain", "xtop", "ymain", "ytop", "tails", "tailloop",
           "return", "done"}

Init == /\ args \in Calls
        /\ mem0 \in [Addr -> Digit]
        /\ mem = mem0
        /\ pc = "entry"
        /\ p = args.p /\ m = args.m /\ n = args.n
        /\ i = 0 /\ a = 0 /\ cf = 0 /\ ret = 0

-----------------------------------------------------------------------------
(* The chain instructions.  sbcs adds the complement of its operand.        *)

Adcs(u, v, c) == u + v + c
Sbcs(u, v, c) == u + (B - 1 - v) + c

ChainSum(u, v) == IF args.op = "add" THEN Adcs(u, v, cf) ELSE Sbcs(u, v, cf)

\* Mutant: the carry of a sum of exactly B is lost.
CarryOutStrict(s) == IF s > B THEN 1 ELSE 0

CarryOut(s) == IF s >= B THEN 1 ELSE 0
SumDigit(s) == IF s >= B THEN s - B ELSE s

\* Mutant: the index is advanced before the store instead of after it.
ChainLateStore(u, v) == /\ mem' = Store(mem, args.z + i + 1, SumDigit(ChainSum(u, v)))
                        /\ cf' = CarryOut(ChainSum(u, v))
                        /\ i' = i + 1

\* z[i] := u + v + CF (or u - v - NOT CF); i := i + 1.
Chain(u, v) == /\ mem' = Store(mem, args.z + i, SumDigit(ChainSum(u, v)))
               /\ cf' = CarryOut(ChainSum(u, v))
               /\ i' = i + 1

\* "ands i, xzr, xzr" clears the carry flag, "subs i, xzr, xzr" sets it.
ClearChain == /\ i' = 0
              /\ cf' = IF args.op = "add" THEN 0 ELSE 1

-----------------------------------------------------------------------------
(* Where control goes when a loop has run out.                              *)

AfterTop(tail) == IF tail # 0 THEN "tails" ELSE "return"
\* Mutant: the do-while loop on the longer operand is entered with a zero count.
AfterXMainUnchecked(top, tail) == "xtop"

AfterXMain(top, tail) == IF top # 0 THEN "xtop" ELSE AfterTop(tail)

\* The two input lengths are clamped to the output length; x is the longer.
XLonger ==
  LET mm == Lesser(p, m)
      nn == Lesser(p, n)
  IN  /\ pc = "entry"
      /\ mm >= nn
      /\ p' = p - mm /\ m' = mm - nn /\ n' = nn
      /\ ClearChain
      /\ pc' = IF nn # 0 THEN "xmain" ELSE AfterXMain(mm - nn, p - mm)
      /\ UNCHANGED <<args, mem0, mem, a, ret>>

\* y is the longer, so at least one of its words has no partner in x.
YLonger ==
  LET mm == Lesser(p, m)
      nn == Lesser(p, n)
  IN  /\ pc = "entry"
      /\ mm < nn
      /\ p' = p - nn /\ n' = nn - mm /\ m' = mm
      /\ ClearChain
      /\ pc' = IF mm # 0 THEN "ymain" ELSE "ytop"
      /\ UNCHANGED <<args, mem0, mem, a, ret>>

XMain == /\ pc = "xmain"
         /\ Chain(mem[args.x + i], mem[args.y + i])
         /\ n' = n - 1
         /\ pc' = IF n - 1 # 0 THEN "xmain" ELSE AfterXMain(m, p)
         /\ UNCHANGED <<args, mem0, p, m, a, ret>>

XTop == /\ pc = "xtop"
        /\ Chain(mem[args.x + i], 0)
        /\ m' = m - 1
        /\ pc' = IF m - 1 # 0 THEN "xtop" ELSE AfterTop(p)
        /\ UNCHANGED <<args, mem0, p, n, a, ret>>

YMain == /\ pc = "ymain"
         /\ Chain(mem[args.x + i], mem[args.y + i])
         /\ m' = m - 1
         /\ pc' = IF m - 1 # 0 THEN "ymain" ELSE "ytop"
         /\ UNCHANGED <<args, mem0, p, n, a, ret>>

YTop == /\ pc = "ytop"
        /\ Chain(0, mem[args.y + i])
        /\ n' = n - 1
        /\ pc' = IF n - 1 # 0 THEN "ytop" ELSE AfterTop(p)
        /\ UNCHANGED <<args, mem0, p, m, a, ret>>

\* No tail: the carry (borrow) of the last chain instruction is returned.
Return == /\ pc = "return"
          /\ ret' = IF args.op = "add" THEN cf ELSE 1 - cf
          /\ pc' = "done"
          /\ UNCHANGED <<args, mem0, mem, p, m, n, i, a, cf>>

-----------------------------------------------------------------------------
(* The tail, for an output longer than both inputs.                         *)

\* One store of the tail loops and the countdown that closes their bodies;
\* the value returned is set when the countdown reaches zero.
TailStore(word, value) ==
  /\ mem' = Store(mem, args.z + i, word)
  /\ i' = i + 1
  /\ p' = p - 1
  /\ pc' = IF p - 1 # 0 THEN "tailloop" ELSE "done"
  /\ ret' = IF p - 1 # 0 THEN ret ELSE value
  /\ UNCHANGED <<args, mem0, m, n>>

\* The carry becomes the first word of the tail...
AddTails == /\ pc = "tails" /\ args.op = "add"
            /\ a' = cf
            /\ TailStore(cf, 0)
            /\ UNCHANGED cf

\* Mutant: every word of the tail is the carry.
AddTailLoopCarry == /\ pc = "tailloop" /\ args.op = "add"
                    /\ TailStore(a, 0)
                    /\ UNCHANGED <<a, cf>>

\* ...and the rest of it is zero.
AddTailLoop == /\ pc = "tailloop" /\ args.op = "add"
               /\ TailStore(0, 0)
               /\ UNCHANGED <<a, cf>>

\* Mutant: the loop branches back to the label before the mask is made.
SubTailsLabel == /\ pc = "tails" /\ args.op = "sub"
                 /\ a' = IF cf = 0 THEN B - 1 ELSE 0
                 /\ pc' = "tails"
                 /\ UNCHANGED <<args, mem0, mem, p, m, n, i, cf, ret>>

\* The borrow becomes a mask...
SubTails == /\ pc = "tails" /\ args.op = "sub"
            /\ a' = IF cf = 0 THEN B - 1 ELSE 0
            /\ pc' = "tailloop"
            /\ UNCHANGED <<args, mem0, mem, p, m, n, i, cf, ret>>

\* ...that fills every word of the tail; "subs p, p, #1" sets the flags and
\* "neg x0, a" turns the mask back into a borrow.
SubTailLoop == /\ pc = "tailloop" /\ args.op = "sub"
               /\ TailStore(a, IF a = 0 THEN 0 ELSE B - a)
               /\ cf' = 1
               /\ UNCHANGED a

Returned == pc = "done" /\ UNCHANGED vars

Next == \/ XLonger \/ YLonger \/ XMain \/ XTop \/ YMain \/ YTop \/ Return
        \/ AddTails \/ AddTailLoop \/ SubTails \/ SubTailLoop
        \/ Returned

Spec == Init /\ [][Next]_vars

\* The processor executes the next instruction; nothing can block it.
FairSpec == Spec /\ WF_vars(Next)

-----------------------------------------------------------------------------
TypeOK == /\ args \in Calls
          /\ mem0 \in [Addr -> Digit] /\ mem \in [Addr -> Digit]
          /\ pc \in Labels
          /\ p \in Nat /\ m \in Nat /\ n \in Nat /\ i \in Nat
          /\ a \in Digit /\ cf \in {0, 1} /\ ret \in {0, 1}

\* The loop counters account for exactly the words still to be written, and
\* each loop is entered only while its own counter is positive: the
\* do-while loops of the code never run on a zero count, which would wrap.
\* The word that fills the tail of a difference is all zeros or all ones.
Registers ==
  LET P == args.p
      X == XLen(args)
      Y == YLen(args)
  IN  /\ pc = "entry" => p = P /\ m = args.m /\ n = args.n /\ i = 0
      /\ pc # "entry" => i + m + n + p = P
      /\ pc = "xmain" => n > 0 /\ i + n = Y /\ i + n + m = X
      /\ pc = "xtop"  => m > 0 /\ n = 0 /\ i + m = X /\ Y <= i
      /\ pc = "ymain" => m > 0 /\ n > 0 /\ i + m = X /\ i + m + n = Y
      /\ pc = "ytop"  => n > 0 /\ m = 0 /\ i + n = Y /\ X <= i
      /\ pc \in {"tails", "tailloop"} => p > 0
      /\ pc \in {"return", "done"} => p = 0
      /\ pc \in {"tails", "tailloop", "return", "done"} =>
           m = 0 /\ n = 0 /\ X <= i /\ Y <= i
      /\ pc = "tailloop" /\ args.op = "sub" => a \in {0, B - 1}

\* The carry (borrow) that the words below the i'th leave pending.
Pending == CASE pc = "done" -> ret
             [] pc = "tailloop" -> IF a = 0 \/ args.op = "add" THEN 0 ELSE 1
             [] OTHER -> IF args.op = "add" THEN cf ELSE 1 - cf

\* Words are consumed before they are overwritten, also when an input is the
\* output buffer: only the first i words of z have changed.
WrittenSoFar == OnlyOutput(args, mem0, mem, i)

\* The loop invariant: the words written so far and the pending carry are the
\* sum (difference) of the words read so far.
ChainInv == pc # "entry" => Balance(args, mem0, mem, i, Pending)

\* The inputs' words that are still to be read hold their original values.
UnreadIntact ==
  /\ \A j \in i .. (XLen(args) - 1) : mem[args.x + j] = mem0[args.x + j]
  /\ \A j \in i .. (YLen(args) - 1) : mem[args.y + j] = mem0[args.y + j]

\* Every call returns.
Termination == <>(pc = "done")

\* The refinement: to the caller nothing happens before the call returns.
Contract == INSTANCE AddSubContract
              WITH call <- args,
                   memory <- IF pc = "done" THEN mem ELSE mem0,
                   result <- IF pc = "done" THEN ret ELSE 0,
                   returned <- pc = "done"

\* The routine implements its contract: one atomic step that changes the output
\* buffer only and balances the inputs (the postcondition of the HOL theorems).
Implements == Contract!Spec
=============================================================================

------------------------------ MODULE RejUniform ------------------------------
(***************************************************************************)
(* mlkem_rej_uniform_VARIABLE_TIME (arm/mlkem): the entries of a packed    *)
(* buffer that are below 3329, in order, at most 256 of them.  Vectors of  *)
(* the buffer are compacted and stored WHOLE at a running pointer into a   *)
(* frame on the stack, so each store overwrites cells past the entries it  *)
(* contributes; the first Out cells of the frame are the result.           *)
(*                                                                         *)
(* Lanes stands for the 8 lanes of a vector and Out for the 256 entries.   *)
(* A block of loop48 is 4 vectors, the last one of 24 bytes is 2.  Which   *)
(* lanes hold an acceptable entry is chosen as a vector is stored (nothing *)
(* reads them between the load and the store); an entry is represented by  *)
(* its position in the buffer, counted from 1, and a rejected lane by the  *)
(* 0 that the 0xff entries of the shuffle table produce.                   *)
(***************************************************************************)
EXTENDS Integers, Sequences, FiniteSetsExt

CONSTANTS
    Lanes,      \* 16-bit lanes of a vector register
    Out,        \* entries asked for: 256 in the code
    MaxBlocks   \* bound: the buffer holds at most this many 24-byte blocks

ASSUME SizesAssumption ==
    /\ Lanes \in Nat \ {0}
    /\ Out \in Nat \ {0} /\ Out % (4 * Lanes) = 0
    /\ MaxBlocks \in Nat

VARIABLES
    label,      \* the label to execute next
    remaining,  \* x2: entries of the buffer not yet loaded
    left,       \* vectors of the current block still to be stored
    wp,         \* x7: the cell of the frame the next store starts at
    found,      \* x12..x15: entries accepted in the current block
    count,      \* x9
    i,          \* x11: counter of the two copying loops
    frame,      \* the 576 bytes at sp, as cells of 16 bits
    r,          \* the output array
    read,       \* history: entries loaded so far
    accepted    \* history: the acceptable ones, in order

rejVars == <<label, remaining, left, wp, found, count, i, frame, r, read, accepted>>

Unwritten == -1             \* what memory holds before it is written
Frame == Out + 4 * Lanes    \* 288 cells
Chunk == 4 * Lanes          \* four q registers: what the copying loops move

(***************************************************************************)
(* What the four str/stur at x7 leave in memory m, and the whole-register  *)
(* store of one compacted vector whose accepted entries are es.            *)
(***************************************************************************)
StoreChunk(m, at, new) == [k \in DOMAIN m |-> IF k \in at..(at + Chunk - 1)
                                                THEN new[k] ELSE m[k]]

\* Mutant: the table's unused shuffle indices keep the lanes they had.
StoreVectorRaw(m, at, es) ==
    [k \in DOMAIN m |->
        CASE k \in at..(at + Len(es) - 1) -> es[k - at + 1]
          [] k \in (at + Len(es))..(at + Lanes - 1) -> read + 1
          [] OTHER -> m[k]]

StoreVector(m, at, es) ==
    [k \in DOMAIN m |->
        CASE k \in at..(at + Len(es) - 1) -> es[k - at + 1]
          [] k \in (at + Len(es))..(at + Lanes - 1) -> 0
          [] OTHER -> m[k]]

RejInit ==
    /\ label = "initial_zero"
    /\ remaining \in {2 * Lanes * b : b \in 0..MaxBlocks}
    /\ left = 0 /\ wp = 0 /\ found = 0 /\ count = 0 /\ i = 0
    /\ frame = [k \in 0..(Frame - 1) |-> Unwritten]
    /\ r = [k \in 0..(Out - 1) |-> Unwritten]
    /\ read = 0
    /\ accepted = << >>

InitialZero ==
    /\ label = "initial_zero"
    /\ frame' = StoreChunk(frame, wp, [k \in DOMAIN frame |-> 0])
    /\ i' = i + Chunk
    /\ IF i' < Out
         THEN wp' = wp + Chunk /\ label' = label
         ELSE wp' = 0 /\ label' = (IF remaining < 4 * Lanes THEN "loop48_end" ELSE "loop48")
    /\ UNCHANGED <<remaining, left, found, count, r, read, accepted>>

\* Mutant: the count is tested only once the buffer is used up.
LoadBlockUnchecked(l, store, n, enough) ==
    /\ label = l
    /\ IF ~enough
         THEN label' = "memory_copy" /\ UNCHANGED <<remaining, left, found>>
         ELSE /\ remaining' = remaining - n * Lanes
              /\ left' = n
              /\ found' = 0
              /\ label' = store
    /\ UNCHANGED <<wp, count, i, frame, r, read, accepted>>

(***************************************************************************)
(* Loading a block of n vectors at label l, to go on with its stores, or   *)
(* leaving when there are enough entries or not enough left to load        *)
(* (loop48 is entered only with a whole block left; the test is at its     *)
(* end).                                                                   *)
(***************************************************************************)
LoadBlock(l, store, n, enough) ==
    /\ label = l
    /\ IF count >= Out \/ ~enough
         THEN label' = "memory_copy" /\ UNCHANGED <<remaining, left, found>>
         ELSE /\ remaining' = remaining - n * Lanes
              /\ left' = n
              /\ found' = 0
              /\ label' = store
    /\ UNCHANGED <<wp, count, i, frame, r, read, accepted>>

Loop48 == LoadBlock("loop48", "loop48_store", 4, TRUE)
Loop48End == LoadBlock("loop48_end", "loop48_end_store", 2, remaining >= 2 * Lanes)

(***************************************************************************)
(* str qN, [x7] ; add x7, x7, x1N: x7 advances by what was accepted only.  *)
(***************************************************************************)
Advance(es) == wp + Len(es)

\* What the compaction of a vector can be: some of its entries, in order.
Compacted ==
    { es \in UNION { [1..n -> (read + 1)..(read + Lanes)] : n \in 0..Lanes } :
        \A k \in 2..Len(es) : es[k - 1] < es[k] }

Store(l, next) ==
    /\ label = l
    /\ left > 0
    /\ \E es \in Compacted :
           /\ frame' = StoreVector(frame, wp, es)
           /\ wp' = Advance(es)
           /\ found' = found + Len(es)
           /\ accepted' = accepted \o es
    /\ read' = read + Lanes
    /\ left' = left - 1
    /\ IF left' = 0
         THEN count' = count + found' /\ label' = next
         ELSE UNCHANGED <<count, label>>
    /\ UNCHANGED <<remaining, i, r>>

AfterLoop48 == IF remaining >= 4 * Lanes THEN "loop48" ELSE "loop48_end"
AfterLast == "memory_copy"

StoreOfLoop48 == Store("loop48_store", AfterLoop48)
StoreOfLast == Store("loop48_end_store", AfterLast)

\* Mutant: the csel on the count is left out.
ClampNot(n) == n

Clamp(n) == IF n < Out THEN n ELSE Out

MemoryCopy ==
    /\ label = "memory_copy"
    /\ count' = Clamp(count)
    /\ i' = 0 /\ wp' = 0
    /\ label' = "final_copy"
    /\ UNCHANGED <<remaining, left, found, frame, r, read, accepted>>

FinalCopy ==
    /\ label = "final_copy"
    /\ r' = StoreChunk(r, wp, frame)
    /\ wp' = wp + Chunk
    /\ i' = i + Chunk
    /\ label' = IF i' < Out THEN label ELSE "return"
    /\ UNCHANGED <<remaining, left, found, count, frame, read, accepted>>

RejNext == InitialZero \/ Loop48 \/ StoreOfLoop48 \/ Loop48End \/ StoreOfLast
           \/ MemoryCopy \/ FinalCopy

RejSpec == RejInit /\ [][RejNext]_rejVars

-----------------------------------------------------------------------------

\* Every whole-vector store lies within the frame, although the pointer moves
\* by data-dependent amounts and only the block is tested against 256.
StoreInFrame ==
    label \in {"loop48_store", "loop48_end_store"} => wp + Lanes <= Frame

\* Between stores the frame holds exactly the accepted entries, and after them
\* zeros to the end of the output: what a store clobbers is never an entry.
FrameOK ==
    label \notin {"initial_zero", "final_copy", "return"} =>
        /\ wp = Len(accepted)
        /\ \A k \in 0..(wp - 1) : frame[k] = accepted[k + 1]
        /\ \A k \in wp..(Out - 1) : frame[k] = 0

\* On return: the count is the number of acceptable entries clipped at Out,
\* those are the first entries of r, the rest of r is zero, and the code only
\* stops short of the end of the buffer when it has all it can return.
Result ==
    label = "return" =>
        /\ count = Min({Len(accepted), Out})
        /\ \A k \in 0..(Out - 1) :
               r[k] = (IF k < Len(accepted) THEN accepted[k + 1] ELSE 0)
        /\ Len(accepted) >= Out \/ remaining = 0
=============================================================================

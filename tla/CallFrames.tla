----------------------------- MODULE CallFrames -----------------------------
(***************************************************************************)
(* Stack frames and call frame information.  Every function of the library *)
(* saves registers with the CFI_ macros of the internal headers, which     *)
(* pair each stack instruction with the directives that tell an unwinder   *)
(* how to undo it.  The instructions take effect in the order of EXECUTION *)
(* and the directives in the order of the TEXT: the assembler turns them   *)
(* into a table with one row per instruction.  This module runs the        *)
(* instructions beside that table.                                         *)
(*                                                                         *)
(* The stack is counted in 8-byte words from the canonical frame address   *)
(* (CFA) downwards: slot s is the word at CFA - 8s, and depth is the       *)
(* number of words between the CFA and the stack pointer.  A register's    *)
(* value at entry is represented by the register's own name.               *)
(***************************************************************************)
EXTENDS Integers, Sequences, TLC

CONSTANTS
  Fn,      \* the functions
  Text,    \* Text[f]: the instructions of f in the order of the source
  Table,   \* Table[f]: the unwind rows the assembler makes of f's directives
  Kept,    \* Kept[f]: what f must give back to its caller
  Start,   \* Start[f]: depth at entry (x86: 1, the return address; Arm: 0)
  Limit,   \* bound on the words of stack a function uses
  Junk     \* any other value

VARIABLES fn, pc, depth, mem, regs

vars == <<fn, pc, depth, mem, regs>>

Slots == 1..Limit

-----------------------------------------------------------------------------
(***************************************************************************)
(* The macros.  at maps the registers an instruction stores or loads to    *)
(* their word offset from the stack pointer, size is what it moves the     *)
(* stack pointer by.                                                       *)
(***************************************************************************)
None == [r \in {} |-> 0]
Ins(op, at, size) ==
  [op |-> op, at |-> at, size |-> size, to |-> 0, writes |-> {}, locals |-> {}]

CFI_PUSH2(lo, hi) == Ins("push", lo :> 0 @@ hi :> 1, 2)
CFI_PUSH1Z(reg) == Ins("push", reg :> 0, 2)
CFI_POP2(lo, hi) == Ins("pop", lo :> 0 @@ hi :> 1, 2)
CFI_POP1Z(reg) == Ins("pop", reg :> 0, 2)
CFI_STACKSAVE2(lo, hi, offset) == Ins("save", lo :> offset @@ hi :> offset + 1, 0)
CFI_STACKSAVE1Z(reg, offset) == Ins("save", reg :> offset, 0)
\* Mutant: the pair is loaded the wrong way round.
CFI_STACKLOAD2Swapped(lo, hi, offset) == Ins("load", hi :> offset @@ lo :> offset + 1, 0)
CFI_STACKLOAD2(lo, hi, offset) == Ins("load", lo :> offset @@ hi :> offset + 1, 0)
CFI_STACKLOAD1Z(reg, offset) == Ins("load", reg :> offset, 0)
CFI_INC_SP(offset) == Ins("pop", None, offset)
CFI_DEC_SP(offset) == Ins("push", None, offset)
CFI_BL == Ins("bl", None, 0)

CFI_CALL == Ins("call", None, 0)
CFI_PUSH(reg) == Ins("push", reg :> 0, 1)
CFI_POP(reg) == Ins("pop", reg :> 0, 1)
CFI_INC_RSP(offset) == Ins("pop", None, offset)
CFI_DEC_RSP(offset) == Ins("push", None, offset)
CFI_STACKSAVE(reg, offset) == Ins("save", reg :> offset, 0)
CFI_STACKLOAD(reg, offset) == Ins("load", reg :> offset, 0)

CFI_RET == Ins("ret", None, 0)       \* ret and .cfi_endproc
Ret == Ins("bareret", None, 0)       \* ret without a directive
DefCfa(n) == Ins("cfa", None, n)     \* .cfi_def_cfa sp, n: a directive alone
Jump(to) == [Ins("jmp", None, 0) EXCEPT !.to = to]
Branch(to) == [Ins("jcc", None, 0) EXCEPT !.to = to]
\* Straight-line code that writes some of the registers and of the words
\* of its frame, given by their offsets from the stack pointer.
Body(writes, locals) ==
  [Ins("body", None, 0) EXCEPT !.writes = writes, !.locals = locals]

-----------------------------------------------------------------------------
(***************************************************************************)
(* The unwind table.  A row says whether the address is inside the         *)
(* procedure, how far the CFA is from the stack pointer, and for each kept *)
(* register the slot it was saved in, 0 standing for "still in the         *)
(* register".                                                              *)
(***************************************************************************)
\* The rule in force after .cfi_startproc: on x86 the call has pushed the
\* return address, on Arm it is in x30.
InitialRule(f, r) == IF r = "ra" THEN 1 ELSE 0
CFI_START(f) ==
  [covered |-> TRUE, cfa |-> Start[f], saved |-> [r \in Kept[f] |-> InitialRule(f, r)]]

\* What the directives of one macro do to the row.
Adjust(i, cfa) == CASE i.op = "push" -> cfa + i.size
                    [] i.op = "pop" -> cfa - i.size
                    [] i.op = "cfa" -> i.size
                    [] OTHER -> cfa
Rules(f, i, row) ==
  [r \in Kept[f] |->
     CASE i.op \in {"push", "save"} /\ r \in DOMAIN i.at ->
            Adjust(i, row.cfa) - i.at[r]                        \* .cfi_rel_offset
       [] i.op \in {"pop", "load"} /\ r \in DOMAIN i.at ->
            InitialRule(f, r)                                   \* .cfi_restore
       [] OTHER -> row.saved[r]]
Open(i, row) == row.covered /\ i.op # "ret"                     \* .cfi_endproc
Directives(f, i, row) ==
  [covered |-> Open(i, row), cfa |-> Adjust(i, row.cfa), saved |-> Rules(f, i, row)]

\* The assembler's table: each row is the one above it changed by the
\* directives of the instruction between them.
IsTable(f) ==
  /\ Len(Table[f]) = Len(Text[f]) + 1
  /\ Table[f][1] = CFI_START(f)
  /\ \A i \in 1..Len(Text[f]) : Table[f][i + 1] = Directives(f, Text[f][i], Table[f][i])

\* The constants describe functions: instructions with their tables.
IsInstruction(f, i) ==
  /\ DOMAIN i.at \subseteq Kept[f] \ {"ra"} /\ \A r \in DOMAIN i.at : i.at[r] \in Nat
  /\ i.size \in Nat /\ i.writes \subseteq Kept[f] \ {"ra"} /\ i.locals \subseteq Nat
Row(f) == [covered : BOOLEAN, cfa : Int, saved : [Kept[f] -> 0..Limit]]

ASSUME FrameAssumption ==
  /\ Limit \in Nat \ {0}
  /\ Start \in [Fn -> {0, 1}]
  /\ \A f \in Fn : /\ Len(Text[f]) \in Nat \ {0}
                   /\ \A n \in 1..Len(Text[f]) : IsInstruction(f, Text[f][n])
                   /\ \A n \in 1..Len(Table[f]) : Table[f][n] \in Row(f)
                   /\ IsTable(f)
                   /\ "ra" \in Kept[f] => Start[f] = 1
                   /\ Junk \notin Kept[f]

-----------------------------------------------------------------------------
Init ==
  /\ fn \in Fn
  /\ pc = 1
  /\ depth = Start[fn]
  /\ mem = [s \in Slots |-> IF s = 1 /\ "ra" \in Kept[fn] THEN "ra" ELSE Junk]
  /\ regs = [r \in Kept[fn] |-> IF r = "ra" THEN Junk ELSE r]

Now(op) == pc \in 1..Len(Text[fn]) /\ Text[fn][pc].op = op
I == Text[fn][pc]

\* stp / push / mov to the stack: top is the depth of the stack pointer.
Stored(top) ==
  [s \in Slots |-> IF \E r \in DOMAIN I.at : top - I.at[r] = s
                   THEN regs[CHOOSE r \in DOMAIN I.at : top - I.at[r] = s]
                   ELSE mem[s]]
\* ldp / pop / mov from the stack.
Loaded == [r \in Kept[fn] |-> IF r \in DOMAIN I.at THEN mem[depth - I.at[r]] ELSE regs[r]]

\* Mutant: the macro stores before it moves the stack pointer, where its
\* .cfi_rel_offset is said of the word after.
PushPostIndexed == /\ Now("push")
                   /\ depth' = depth + I.size
                   /\ mem' = Stored(depth)
                   /\ pc' = pc + 1
                   /\ UNCHANGED <<fn, regs>>

Push == /\ Now("push")
        /\ depth' = depth + I.size
        /\ mem' = Stored(depth')
        /\ pc' = pc + 1
        /\ UNCHANGED <<fn, regs>>

\* A word given back is lost: a signal handler may run below the pointer.
Pop == /\ Now("pop")
       /\ regs' = Loaded
       /\ depth' = depth - I.size
       /\ mem' = [s \in Slots |-> IF s <= depth' THEN mem[s] ELSE Junk]
       /\ pc' = pc + 1
       /\ UNCHANGED fn

Save == /\ Now("save")
        /\ mem' = Stored(depth)
        /\ pc' = pc + 1
        /\ UNCHANGED <<fn, depth, regs>>

Load == /\ Now("load")
        /\ regs' = Loaded
        /\ pc' = pc + 1
        /\ UNCHANGED <<fn, depth, mem>>

\* A call returns with the stack pointer and the kept registers as they
\* were, except that on Arm bl itself overwrites the link register.
Call == /\ Now("bl") \/ Now("call")
        /\ regs' = [r \in Kept[fn] |-> IF I.op = "bl" /\ r = "x30" THEN Junk ELSE regs[r]]
        /\ pc' = pc + 1
        /\ UNCHANGED <<fn, depth, mem>>

\* A loop inside may make no pass.  What becomes of a register does not
\* depend on another, so that all or none of them show what any subset would.
Compute == /\ Now("body")
           /\ \E R \in {{}, I.writes}, L \in {{}, I.locals} :
                /\ regs' = [r \in Kept[fn] |-> IF r \in R THEN Junk ELSE regs[r]]
                /\ mem' = [s \in Slots |-> IF \E o \in L : depth - o = s THEN Junk ELSE mem[s]]
           /\ pc' = pc + 1
           /\ UNCHANGED <<fn, depth>>

Fall == Now("cfa") \/ Now("jcc")
Take == Now("jmp") \/ Now("jcc")
Control == /\ \/ Fall /\ pc' = pc + 1
              \/ Take /\ pc' = I.to
           /\ UNCHANGED <<fn, depth, mem, regs>>

\* The return leaves the function: pc 0.
Return == /\ Now("ret") \/ Now("bareret")
          /\ pc' = 0
          /\ UNCHANGED <<fn, depth, mem, regs>>

Next == Push \/ Pop \/ Save \/ Load \/ Call \/ Compute \/ Control \/ Return

Spec == Init /\ [][Next]_vars

-----------------------------------------------------------------------------
\* What the unwinder finds for register r with a given row.
Recovered(row, r) == IF row.saved[r] = 0 THEN regs[r] ELSE mem[row.saved[r]]

\* SAFETY, for which doc/s2n_bignum_pr_checklist.md wants the macros.  At every
\* instruction an unwinder (debugger, profiler) finds the caller: the address is inside a
\* procedure, the CFA it computes is the caller's, and each register the
\* function must preserve, the return address included, is recovered.
UnwindOK ==
  pc # 0 => LET row == Table[fn][pc]
            IN /\ row.covered
               /\ row.cfa = depth
               /\ \A r \in Kept[fn] : Recovered(row, r) = r

\* SAFETY.  When a function returns, the stack pointer is where it was at
\* entry, every preserved register has its value of entry, and the return
\* address it uses (the word on the stack, or x30) is the caller's.
ReturnOK ==
  pc # 0 /\ I.op \in {"ret", "bareret"} =>
    /\ depth = Start[fn]
    /\ \A r \in Kept[fn] : (IF r = "ra" THEN mem[1] ELSE regs[r]) = r

-----------------------------------------------------------------------------
(***************************************************************************)
(* The discipline the macros are meant for, a condition on the text and    *)
(* its table alone, instruction by instruction: a register is saved before *)
(* it is written and once, in a word nothing else uses; it is restored     *)
(* from that word; a jump goes where the table's row is the row of the     *)
(* place it comes from; a return stands where the row is the initial one.  *)
(* FrameProofs shows that it makes UnwindOK and ReturnOK hold.             *)
(***************************************************************************)
InUse(f, row) == {row.saved[r] : r \in Kept[f]}

StoresSafely(f, i, row) ==
  LET top == Adjust(i, row.cfa)
  IN  /\ top \in 0..Limit
      /\ \A r \in DOMAIN i.at : /\ i.at[r] < top
                               /\ row.saved[r] = 0
                               /\ top - i.at[r] \notin InUse(f, row)
                               /\ \A q \in DOMAIN i.at : i.at[q] = i.at[r] => q = r

LoadsSafely(f, i, row) ==
  /\ i.size <= row.cfa
  /\ \A r \in DOMAIN i.at : /\ i.at[r] < row.cfa /\ row.cfa <= Limit
                           /\ row.saved[r] = row.cfa - i.at[r]
  /\ \A r \in Kept[f] \ DOMAIN i.at : row.saved[r] <= row.cfa - i.size

WritesSafely(f, i, row) ==
  /\ \A r \in i.writes : row.saved[r] # 0
  /\ \A o \in i.locals : o < row.cfa /\ row.cfa - o \notin InUse(f, row)

Disciplined(f) ==
  \A n \in 1..Len(Text[f]) :
    LET i == Text[f][n]
        row == Table[f][n]
        after == Table[f][n + 1]
    IN  /\ row.covered /\ row.cfa \in 0..Limit
        /\ i.op \in {"push", "save"} => StoresSafely(f, i, row)
        /\ i.op \in {"pop", "load"} => LoadsSafely(f, i, row)
        /\ i.op = "bl" /\ "x30" \in Kept[f] => row.saved["x30"] # 0
        /\ i.op = "body" => WritesSafely(f, i, row)
        /\ i.op = "cfa" => i.size = row.cfa
        /\ i.op \in {"ret", "bareret"} =>
             row.cfa = Start[f] /\ \A r \in Kept[f] : row.saved[r] = InitialRule(f, r)
        /\ i.op \in {"jmp", "jcc"} => i.to \in 1..Len(Text[f]) /\ Table[f][i.to] = after
        /\ i.op \notin {"jmp", "ret", "bareret"} => n < Len(Text[f])

\* SAFETY.  A function that keeps the discipline can be unwound at every one of
\* its instructions, on whatever path it gets there, until it has returned.
Unwound == pc # 0 /\ Disciplined(fn) => UnwindOK

=============================================================================

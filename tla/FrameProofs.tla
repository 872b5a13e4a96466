----------------------------- MODULE FrameProofs -----------------------------
(***************************************************************************)
(* Proofs about what functions do with their stack frames.                 *)
(*                                                                         *)
(* CallFrames: functions written in the discipline of the CFI_ macros can  *)
(* be unwound at every instruction and give back what they must, for any   *)
(* number of functions, any length, any frame and any jumps.               *)
(*                                                                         *)
(* RejUniform is correct for every width of a vector, every number of      *)
(* entries wanted and every length of the buffer: its whole-vector stores  *)
(* stay inside the frame, what they clobber is never an entry, and the     *)
(* result is complete.                                                     *)
(***************************************************************************)
EXTENDS CallFrames, RejUniform, TLAPS

-----------------------------------------------------------------------------
(* The discipline of call frames.                                           *)

\* The invariant: control is inside the text (or has returned), and the
\* table's row describes the machine.
Inv == fn \in Fn /\ pc \in 0..Len(Text[fn]) /\ UnwindOK

\* What the assumption and the discipline say of the instruction about to
\* run, of its row and of the next one.
LEMMA AtInstruction ==
  ASSUME Disciplined(fn), fn \in Fn, pc \in 1..Len(Text[fn])
  PROVE  /\ IsInstruction(fn, I)
         /\ Table[fn][pc] \in Row(fn) /\ Table[fn][pc + 1] \in Row(fn)
         /\ Table[fn][pc + 1] = Directives(fn, I, Table[fn][pc])
         /\ Table[fn][pc].covered /\ Table[fn][pc].cfa \in 0..Limit
<1>1. Len(Text[fn]) \in Nat /\ Len(Table[fn]) = Len(Text[fn]) + 1
  BY FrameAssumption DEF IsTable
<1>2. pc \in 1..Len(Table[fn]) /\ pc + 1 \in 1..Len(Table[fn])
  BY <1>1
<1>3. IsInstruction(fn, I)
  BY FrameAssumption DEF I
<1>4. Table[fn][pc] \in Row(fn) /\ Table[fn][pc + 1] \in Row(fn)
  BY <1>2, FrameAssumption
<1>5. Table[fn][pc + 1] = Directives(fn, I, Table[fn][pc])
  BY FrameAssumption DEF IsTable, I
<1>6. Table[fn][pc].covered /\ Table[fn][pc].cfa \in 0..Limit
  BY DEF Disciplined
<1> QED
  BY <1>3, <1>4, <1>5, <1>6

\* The invariant holds after a step that moves control to an instruction
\* with the next row, the stack pointer to where that row says, and keeps
\* every register recoverable by it.
LEMMA NextRow ==
  ASSUME Disciplined(fn), Inv, pc \in 1..Len(Text[fn]), I.op # "ret",
         fn' = fn, pc' \in 1..Len(Text[fn]),
         Table[fn][pc'] = Table[fn][pc + 1],
         depth' = Adjust(I, depth),
         \A rg \in Kept[fn] :
           (IF Table[fn][pc + 1].saved[rg] = 0
            THEN regs'[rg] ELSE mem'[Table[fn][pc + 1].saved[rg]]) = rg
  PROVE  Inv'
<1> DEFINE row == Table[fn][pc]
           nxt == Table[fn][pc + 1]
<1>1. nxt = Directives(fn, I, row) /\ row.covered /\ row.cfa = depth
  BY AtInstruction DEF Inv, UnwindOK
<1>2. nxt.covered
  <2>1. nxt.covered <=> Open(I, row)
    BY <1>1 DEF Directives
  <2> QED
    BY <2>1, <1>1 DEF Open
<1>3. nxt.cfa = Adjust(I, row.cfa)
  BY <1>1 DEF Directives
<1>4. nxt.cfa = depth'
  BY <1>1, <1>3
<1>5. UnwindOK'
  BY <1>2, <1>4 DEF UnwindOK, Recovered
<1>6. pc' \in 0..Len(Text[fn]) /\ fn' \in Fn
  BY FrameAssumption DEF Inv
<1> QED
  BY <1>5, <1>6 DEF Inv

\* A slot just written holds the register stored in it; others are as before.
LEMMA StoredValue ==
  ASSUME NEW top \in Nat,
         \A rg \in DOMAIN I.at : I.at[rg] \in Nat /\ I.at[rg] < top,
         \A rg, q \in DOMAIN I.at : I.at[q] = I.at[rg] => q = rg
  PROVE  /\ \A rg \in DOMAIN I.at :
              top - I.at[rg] \in Slots => Stored(top)[top - I.at[rg]] = regs[rg]
         /\ \A s \in Slots :
              (\A rg \in DOMAIN I.at : top - I.at[rg] # s) => Stored(top)[s] = mem[s]
<1>1. ASSUME NEW rg \in DOMAIN I.at, top - I.at[rg] \in Slots
      PROVE  Stored(top)[top - I.at[rg]] = regs[rg]
  <2> DEFINE q == CHOOSE q \in DOMAIN I.at : top - I.at[q] = top - I.at[rg]
  <2>1. q \in DOMAIN I.at /\ top - I.at[q] = top - I.at[rg]
    OBVIOUS
  <2>2. I.at[q] = I.at[rg]
    <3>1. I.at[q] \in Nat /\ I.at[rg] \in Nat
      BY <2>1
    <3> HIDE DEF q
    <3> QED
      BY <2>1, <3>1
  <2>3. q = rg
    BY <2>1, <2>2
  <2>4. Stored(top)[top - I.at[rg]] = regs[q]
    BY <1>1 DEF Stored
  <2> QED
    BY <2>3, <2>4
<1>2. ASSUME NEW s \in Slots, \A rg \in DOMAIN I.at : top - I.at[rg] # s
      PROVE  Stored(top)[s] = mem[s]
  BY <1>2 DEF Stored
<1> QED
  BY <1>1, <1>2

\* A store leaves the row right: what was saved stays where it was and what
\* is stored now was still in its register.
LEMMA StoreStep ==
  ASSUME Disciplined(fn), Inv, pc \in 1..Len(Text[fn]), I.op \in {"push", "save"},
         depth' = Adjust(I, depth), mem' = Stored(depth'), regs' = regs,
         fn' = fn, pc' = pc + 1
  PROVE  Inv'
<1> DEFINE row == Table[fn][pc]
           nxt == Table[fn][pc + 1]
<1>1. /\ IsInstruction(fn, I) /\ row \in Row(fn) /\ nxt \in Row(fn)
      /\ nxt = Directives(fn, I, row) /\ row.covered
  BY AtInstruction DEF Inv
<1>2. row.cfa = depth /\ \A rg \in Kept[fn] : Recovered(row, rg) = rg
  BY DEF Inv, UnwindOK
<1>3. StoresSafely(fn, I, row) /\ pc < Len(Text[fn])
  BY DEF Disciplined, Inv, I
<1>4. pc' \in 1..Len(Text[fn]) /\ fn' \in Fn
  BY <1>3, FrameAssumption DEF Inv
<1>6. depth' \in Nat /\ depth' \in 0..Limit
  BY <1>2, <1>3 DEF StoresSafely
<1>7. \A rg \in DOMAIN I.at : I.at[rg] \in Nat /\ I.at[rg] < depth' /\ rg \in Kept[fn] \ {"ra"}
  BY <1>1, <1>2, <1>3 DEF IsInstruction, StoresSafely
<1>8. \A rg, q \in DOMAIN I.at : I.at[q] = I.at[rg] => q = rg
  BY <1>3 DEF StoresSafely
<1>9. ASSUME NEW rg \in Kept[fn], rg \in DOMAIN I.at
      PROVE  (IF nxt.saved[rg] = 0 THEN regs'[rg] ELSE mem'[nxt.saved[rg]]) = rg
  <2>1. nxt.saved[rg] = depth' - I.at[rg]
    BY <1>1, <1>2, <1>9 DEF Directives, Rules
  <2>2. depth' - I.at[rg] \in Slots
    BY <1>6, <1>7, <1>9, FrameAssumption DEF Slots
  <2>3. mem'[depth' - I.at[rg]] = regs[rg]
    BY StoredValue, <1>6, <1>7, <1>8, <1>9, <2>2
  <2>4. regs[rg] = rg
    BY <1>2, <1>3, <1>9 DEF StoresSafely, Recovered
  <2>5. nxt.saved[rg] # 0
    BY <2>1, <2>2 DEF Slots
  <2> QED
    BY <2>1, <2>3, <2>4, <2>5
<1>10. ASSUME NEW rg \in Kept[fn], rg \notin DOMAIN I.at
       PROVE  (IF nxt.saved[rg] = 0 THEN regs'[rg] ELSE mem'[nxt.saved[rg]]) = rg
  <2>1. nxt.saved[rg] = row.saved[rg]
    BY <1>1, <1>10 DEF Directives, Rules
  <2>2. CASE row.saved[rg] = 0
    BY <2>1, <2>2, <1>2 DEF Recovered
  <2>3. CASE row.saved[rg] # 0
    <3>1. row.saved[rg] \in Slots
      BY <1>1, <2>3, FrameAssumption DEF Row, Slots
    <3>2. \A q \in DOMAIN I.at : depth' - I.at[q] # row.saved[rg]
      BY <1>2, <1>3 DEF StoresSafely, InUse
    <3>3. mem'[row.saved[rg]] = mem[row.saved[rg]]
      BY StoredValue, <1>6, <1>7, <1>8, <3>1, <3>2
    <3> QED
      BY <2>1, <2>3, <3>3, <1>2 DEF Recovered
  <2> QED
    BY <2>2, <2>3
<1> QED
  BY NextRow, <1>4, <1>9, <1>10

\* A load gives a register back its value of entry, from the word the row
\* names, and leaves the words of the others in the frame.
LEMMA LoadStep ==
  ASSUME Disciplined(fn), Inv, pc \in 1..Len(Text[fn]), Pop \/ Load
  PROVE  Inv'
<1> DEFINE row == Table[fn][pc]
           nxt == Table[fn][pc + 1]
<1>1. /\ IsInstruction(fn, I) /\ row \in Row(fn) /\ nxt = Directives(fn, I, row)
      /\ row.cfa \in 0..Limit
  BY AtInstruction DEF Inv
<1>2. row.cfa = depth /\ \A rg \in Kept[fn] : Recovered(row, rg) = rg
  BY DEF Inv, UnwindOK
<1>3. I.op \in {"pop", "load"} /\ fn' = fn /\ pc' = pc + 1 /\ regs' = Loaded
  BY DEF Pop, Load, Now, I
<1>4. LoadsSafely(fn, I, row) /\ pc < Len(Text[fn])
  BY <1>3 DEF Disciplined, Inv, I
<1>5. pc' \in 1..Len(Text[fn])
  BY <1>3, <1>4, FrameAssumption DEF Inv
<1>6. depth \in 0..Limit /\ I.size \in Nat /\ Limit \in Nat
  BY <1>1, <1>2, FrameAssumption DEF IsInstruction
<1>7. depth' = Adjust(I, depth)
  BY <1>3, <1>6 DEF Pop, Load, Now, I, Adjust
<1>8. \A s \in Slots : s <= depth' \/ mem' = mem => mem'[s] = mem[s]
  BY <1>3 DEF Pop, Load
<1>9. ASSUME NEW rg \in Kept[fn], rg \in DOMAIN I.at
      PROVE  (IF nxt.saved[rg] = 0 THEN regs'[rg] ELSE mem'[nxt.saved[rg]]) = rg
  <2>1. rg # "ra" /\ I.at[rg] \in Nat
    BY <1>1, <1>9 DEF IsInstruction
  <2>2. nxt.saved[rg] = 0
    BY <1>1, <1>3, <1>9, <2>1 DEF Directives, Rules, InitialRule
  <2>3. row.saved[rg] = depth - I.at[rg] /\ I.at[rg] < depth
    BY <1>2, <1>4, <1>9 DEF LoadsSafely
  <2>4. mem[depth - I.at[rg]] = rg
    BY <1>2, <1>6, <1>9, <2>1, <2>3 DEF Recovered
  <2>5. regs'[rg] = mem[depth - I.at[rg]]
    BY <1>3, <1>9 DEF Loaded
  <2> QED
    BY <2>2, <2>4, <2>5
<1>10. ASSUME NEW rg \in Kept[fn], rg \notin DOMAIN I.at
       PROVE  (IF nxt.saved[rg] = 0 THEN regs'[rg] ELSE mem'[nxt.saved[rg]]) = rg
  <2>1. nxt.saved[rg] = row.saved[rg]
    BY <1>1, <1>3, <1>10 DEF Directives, Rules
  <2>2. regs'[rg] = regs[rg]
    BY <1>3, <1>10 DEF Loaded
  <2>3. row.saved[rg] # 0 => mem'[row.saved[rg]] = mem[row.saved[rg]]
    <3>1. row.saved[rg] <= depth - I.size /\ row.saved[rg] \in 0..Limit
      BY <1>1, <1>2, <1>4, <1>10 DEF LoadsSafely, Row
    <3>2. row.saved[rg] # 0 => row.saved[rg] \in Slots
      BY <3>1, <1>6 DEF Slots
    <3>3. CASE Pop
      BY <3>1, <3>2, <3>3, <1>8 DEF Pop
    <3>4. CASE Load
      BY <3>2, <3>4, <1>8 DEF Load
    <3> QED
      BY <3>3, <3>4
  <2> QED
    BY <1>2, <2>1, <2>2, <2>3 DEF Recovered
<1> QED
  BY NextRow, <1>3, <1>5, <1>7, <1>9, <1>10

\* A call and straight-line code write only what the row says is saved.
LEMMA CallStep ==
  ASSUME Disciplined(fn), Inv, pc \in 1..Len(Text[fn]), Call
  PROVE  Inv'
<1> DEFINE row == Table[fn][pc]
           nxt == Table[fn][pc + 1]
<1>1. row \in Row(fn) /\ nxt = Directives(fn, I, row)
  BY AtInstruction DEF Inv
<1>2. row.cfa = depth /\ \A rg \in Kept[fn] : Recovered(row, rg) = rg
  BY DEF Inv, UnwindOK
<1>3. I.op \in {"bl", "call"} /\ fn' = fn /\ pc' = pc + 1 /\ depth' = depth /\ mem' = mem
  BY DEF Call, Now, I
<1>4. pc < Len(Text[fn]) /\ (I.op = "bl" /\ "x30" \in Kept[fn] => row.saved["x30"] # 0)
  BY <1>3 DEF Disciplined, Inv, I
<1>5. pc' \in 1..Len(Text[fn]) /\ depth' = Adjust(I, depth)
  BY <1>3, <1>4, FrameAssumption DEF Inv, Adjust
<1>6. ASSUME NEW rg \in Kept[fn]
      PROVE  (IF nxt.saved[rg] = 0 THEN regs'[rg] ELSE mem'[nxt.saved[rg]]) = rg
  <2>1. nxt.saved[rg] = row.saved[rg]
    BY <1>1, <1>3 DEF Directives, Rules
  <2>2. row.saved[rg] = 0 => regs'[rg] = regs[rg]
    BY <1>4 DEF Call
  <2> QED
    BY <1>2, <1>3, <2>1, <2>2 DEF Recovered
<1> QED
  BY NextRow, <1>3, <1>5, <1>6

\* The body, which leaves junk in what it may write, keeps the invariant.
LEMMA ComputeStep ==
  ASSUME Disciplined(fn), Inv, pc \in 1..Len(Text[fn]), Compute
  PROVE  Inv'
<1> DEFINE row == Table[fn][pc]
           nxt == Table[fn][pc + 1]
<1>1. row \in Row(fn) /\ nxt = Directives(fn, I, row)
  BY AtInstruction DEF Inv
<1>2. row.cfa = depth /\ \A rg \in Kept[fn] : Recovered(row, rg) = rg
  BY DEF Inv, UnwindOK
<1>3. I.op = "body" /\ fn' = fn /\ pc' = pc + 1 /\ depth' = depth
  BY DEF Compute, Now, I
<1>4. PICK R \in {{}, I.writes}, L \in {{}, I.locals} :
        /\ regs' = [rg \in Kept[fn] |-> IF rg \in R THEN Junk ELSE regs[rg]]
        /\ mem' = [s \in Slots |-> IF \E o \in L : depth - o = s THEN Junk ELSE mem[s]]
  BY DEF Compute
<1>5. WritesSafely(fn, I, row) /\ pc < Len(Text[fn])
  BY <1>3 DEF Disciplined, Inv, I
<1>6. pc' \in 1..Len(Text[fn]) /\ depth' = Adjust(I, depth)
  BY <1>3, <1>5, FrameAssumption DEF Inv, Adjust
<1>7. ASSUME NEW rg \in Kept[fn]
      PROVE  (IF nxt.saved[rg] = 0 THEN regs'[rg] ELSE mem'[nxt.saved[rg]]) = rg
  <2>1. nxt.saved[rg] = row.saved[rg]
    BY <1>1, <1>3 DEF Directives, Rules
  <2>2. CASE row.saved[rg] = 0
    <3>1. rg \notin R
      BY <1>4, <1>5, <2>2 DEF WritesSafely
    <3> QED
      BY <1>2, <1>4, <2>1, <2>2, <3>1 DEF Recovered
  <2>3. CASE row.saved[rg] # 0
    <3>1. row.saved[rg] \in Slots
      BY <1>1, <2>3, FrameAssumption DEF Row, Slots
    <3>2. ASSUME NEW o \in L PROVE depth - o # row.saved[rg]
      BY <1>2, <1>4, <1>5 DEF WritesSafely, InUse
    <3>3. mem'[row.saved[rg]] = mem[row.saved[rg]]
      BY <1>4, <3>1, <3>2
    <3> QED
      BY <1>2, <2>1, <2>3, <3>3 DEF Recovered
  <2> QED
    BY <2>2, <2>3
<1> QED
  BY NextRow, <1>3, <1>6, <1>7

\* A jump goes where the row is the same; a directive states what is true.
LEMMA ControlStep ==
  ASSUME Disciplined(fn), Inv, pc \in 1..Len(Text[fn]), Control
  PROVE  Inv'
<1> DEFINE row == Table[fn][pc]
           nxt == Table[fn][pc + 1]
<1>1. row \in Row(fn) /\ nxt = Directives(fn, I, row)
  BY AtInstruction DEF Inv
<1>2. row.cfa = depth /\ \A rg \in Kept[fn] : Recovered(row, rg) = rg
  BY DEF Inv, UnwindOK
<1>3. /\ I.op \in {"cfa", "jmp", "jcc"} /\ fn' = fn /\ depth' = depth
      /\ mem' = mem /\ regs' = regs
  BY DEF Control, Fall, Take, Now, I
<1>4. /\ I.op = "cfa" => I.size = row.cfa
      /\ I.op \in {"jmp", "jcc"} => I.to \in 1..Len(Text[fn]) /\ Table[fn][I.to] = nxt
      /\ I.op # "jmp" => pc < Len(Text[fn])
  BY <1>3 DEF Disciplined, Inv, I
<1>5. pc' \in 1..Len(Text[fn]) /\ Table[fn][pc'] = nxt
  <2>1. CASE Fall /\ pc' = pc + 1
    BY <2>1, <1>4, FrameAssumption DEF Fall, Now, I, Inv
  <2>2. CASE Take /\ pc' = I.to
    BY <2>2, <1>4 DEF Take, Now, I
  <2> QED
    BY <2>1, <2>2 DEF Control
<1>6. depth' = Adjust(I, depth)
  BY <1>2, <1>3, <1>4 DEF Adjust
<1>7. ASSUME NEW rg \in Kept[fn]
      PROVE  (IF nxt.saved[rg] = 0 THEN regs'[rg] ELSE mem'[nxt.saved[rg]]) = rg
  <2>1. nxt.saved[rg] = row.saved[rg]
    BY <1>1, <1>3 DEF Directives, Rules
  <2> QED
    BY <1>2, <1>3, <2>1 DEF Recovered
<1> QED
  BY NextRow, <1>3, <1>5, <1>6, <1>7

\* At entry the row that CFI_START makes describes the frame.
LEMMA InitInv ==
  ASSUME Init
  PROVE  Inv
<1>1. fn \in Fn /\ pc = 1 /\ Table[fn][1] = CFI_START(fn) /\ Len(Text[fn]) \in Nat \ {0}
  BY FrameAssumption DEF Init, IsTable
<1>2. Limit \in Nat \ {0} /\ depth = Start[fn]
  BY FrameAssumption DEF Init
<1>3. CFI_START(fn).covered /\ CFI_START(fn).cfa = depth
  BY <1>2 DEF CFI_START
<1>4. ASSUME NEW rg \in Kept[fn] PROVE Recovered(CFI_START(fn), rg) = rg
  BY <1>2 DEF Init, CFI_START, InitialRule, Recovered, Slots
<1> QED
  BY <1>1, <1>3, <1>4 DEF Inv, UnwindOK

\* Every step of a disciplined function keeps the invariant.
LEMMA NextInv ==
  ASSUME Disciplined(fn), Inv, [Next]_vars
  PROVE  Inv'
<1>1. CASE UNCHANGED vars
  BY <1>1 DEF vars, Inv, UnwindOK, Recovered
<1>2. CASE Return
  BY <1>2, FrameAssumption DEF Return, Inv, UnwindOK
<1>3. ASSUME pc \in 1..Len(Text[fn]), Push \/ Save
      PROVE  Inv'
  <2>1. depth \in Nat
    BY <1>3, AtInstruction, FrameAssumption DEF Inv, UnwindOK, Row
  <2>2. I.op \in {"push", "save"} /\ depth' = Adjust(I, depth) /\ mem' = Stored(depth')
        /\ regs' = regs /\ fn' = fn /\ pc' = pc + 1
    BY <1>3 DEF Push, Save, Now, I, Adjust
  <2> QED
    BY <1>3, <2>2, StoreStep
<1> QED
  BY <1>1, <1>2, <1>3, LoadStep, CallStep, ComputeStep, ControlStep
     DEF Next, Push, Pop, Save, Load, Call, Compute, Control, Fall, Take, Now

\* The inductive invariant: what a function does that is not written in the
\* discipline is left open.
DisciplinedInv == Disciplined(fn) => Inv

LEMMA DisciplinedStep == DisciplinedInv /\ [Next]_vars => DisciplinedInv'
<1> SUFFICES ASSUME DisciplinedInv, [Next]_vars, Disciplined(fn)' PROVE Inv'
  BY DEF DisciplinedInv
<1>1. fn' = fn
  BY DEF vars, Next, Push, Pop, Save, Load, Call, Compute, Control, Return
<1>2. Disciplined(fn)
  BY <1>1
<1> QED
  BY <1>2, NextInv DEF DisciplinedInv

\* Every function written in the discipline can be unwound at every one of
\* its instructions, whatever the other functions are like: the CFI_ macros
\* and the assembler's table agree with the machine whatever the number and
\* order of its frame's instructions.
THEOREM Unwinding == Spec => []Unwound
<1>1. Init => DisciplinedInv
  BY InitInv DEF DisciplinedInv
<1>2. DisciplinedInv => Unwound
  BY DEF DisciplinedInv, Inv, Unwound
<1> QED
  BY <1>1, <1>2, DisciplinedStep, PTL DEF Spec

\* Every function written in the discipline returns with the stack pointer
\* and the preserved registers of its entry, to its caller's address.
THEOREM Restoring == Spec => [](Disciplined(fn) => ReturnOK)
<1>1. Init => DisciplinedInv
  BY InitInv DEF DisciplinedInv
<1>2. DisciplinedInv => (Disciplined(fn) => ReturnOK)
  <2> SUFFICES ASSUME Disciplined(fn), Inv, pc # 0, I.op \in {"ret", "bareret"} PROVE
        /\ depth = Start[fn]
        /\ \A rg \in Kept[fn] : (IF rg = "ra" THEN mem[1] ELSE regs[rg]) = rg
    BY DEF DisciplinedInv, ReturnOK
  <2>1. pc \in 1..Len(Text[fn])
    BY FrameAssumption DEF Inv
  <2>2. /\ Table[fn][pc].cfa = Start[fn]
        /\ \A rg \in Kept[fn] : Table[fn][pc].saved[rg] = InitialRule(fn, rg)
    BY <2>1 DEF Disciplined, Inv, I
  <2> QED
    BY <2>2 DEF Inv, UnwindOK, Recovered, InitialRule
<1> QED
  BY <1>1, <1>2, DisciplinedStep, PTL DEF Spec

-----------------------------------------------------------------------------
(* RejUniform: the inductive invariant.                                     *)

Stores == {"loop48_store", "loop48_end_store"}
Labels == {"initial_zero", "loop48", "loop48_end", "memory_copy", "final_copy", "return"} \cup Stores

Types ==
  /\ label \in Labels
  /\ remaining \in Nat /\ left \in Nat /\ wp \in Nat /\ found \in Nat /\ count \in Nat
  /\ i \in Nat /\ read \in Nat
  /\ frame \in [0..(Frame - 1) -> Int] /\ r \in [0..(Out - 1) -> Int]
  /\ accepted \in Seq(Int)

\* The zeroing covers the frame below i, from the state at the entry on.
Zeroing ==
  label = "initial_zero" =>
    /\ wp = i /\ i < Out /\ count = 0 /\ accepted = <<>>
    /\ \A k \in 0..(Out - 1) : k < i => frame[k] = 0

\* The pointer is ahead of the count by what the block has given so far, at
\* most a vector for each one stored, and the block began below Out.
Pointer ==
  /\ label \in {"loop48", "loop48_end", "memory_copy"} => wp = count
  /\ label \in Stores =>
       wp = count + found /\ count < Out /\ left \in 1..4 /\ found <= (4 - left) * Lanes

\* The buffer is read half a block at a time, and given up only when it is
\* empty or there is enough.
Buffer ==
  /\ \E b \in Nat : remaining = b * (2 * Lanes)
  /\ label = "loop48" => remaining >= 4 * Lanes
  /\ label = "loop48_end" => remaining < 4 * Lanes
  /\ label = "loop48_end_store" => remaining = 0
  /\ label \in {"memory_copy", "final_copy", "return"} => Len(accepted) >= Out \/ remaining = 0

\* The frame's first cells are the entries and zeros, and r has those below i.
Copying ==
  label \in {"final_copy", "return"} =>
    /\ count = Clamp(Len(accepted))
    /\ wp = i /\ (label = "return" => i >= Out)
    /\ \A k \in 0..(Out - 1) :
         /\ frame[k] = (IF k < Len(accepted) THEN accepted[k + 1] ELSE 0)
         /\ k < i => r[k] = frame[k]

IInv == Types /\ Zeroing /\ Pointer /\ Buffer /\ FrameOK /\ Copying

-----------------------------------------------------------------------------
(* Facts about the operators.                                               *)

\* The sizes are positive numbers.
LEMMA Sizes ==
  /\ Lanes \in Nat /\ Lanes > 0 /\ Out \in Nat /\ Out > 0 /\ MaxBlocks \in Nat
  /\ Chunk = 4 * Lanes /\ Frame = Out + 4 * Lanes /\ Chunk \in Nat /\ Frame \in Nat
BY SizesAssumption DEF Chunk, Frame

\* What is left of a buffer is a number of half-blocks.
LEMMA HalfBlocks ==
  ASSUME NEW b \in Nat
  PROVE  /\ b * (2 * Lanes) < 4 * Lanes => b <= 1
         /\ b * (2 * Lanes) < 2 * Lanes => b = 0
         /\ b * (2 * Lanes) >= 2 * Lanes =>
              b - 1 \in Nat /\ b * (2 * Lanes) - 2 * Lanes = (b - 1) * (2 * Lanes)
         /\ b * (2 * Lanes) >= 4 * Lanes =>
              b - 2 \in Nat /\ b * (2 * Lanes) - 4 * Lanes = (b - 2) * (2 * Lanes)
<1>1. Lanes \in Nat /\ Lanes > 0
  BY Sizes
<1>2. CASE b = 0
  BY <1>1, <1>2
<1>3. CASE b = 1
  BY <1>1, <1>3
<1>4. CASE b >= 2
  <2>1. PICK c \in Nat : b = c + 2
    <3>1. b - 2 \in Nat /\ b = (b - 2) + 2
      BY <1>4
    <3>2. QED
      BY <3>1
  <2>2. b * (2 * Lanes) = c * (2 * Lanes) + 4 * Lanes /\ c * (2 * Lanes) \in Nat
    BY <1>1, <2>1
  <2>3. (b - 1) * (2 * Lanes) = c * (2 * Lanes) + 2 * Lanes /\ (b - 2) * (2 * Lanes) = c * (2 * Lanes)
    BY <1>1, <2>1
  <2>4. QED
    BY <1>1, <2>1, <2>2, <2>3
<1>5. QED
  BY <1>2, <1>3, <1>4

\* A compacted vector.
LEMMA CompactedFacts ==
  ASSUME Types, NEW es \in Compacted
  PROVE  es \in Seq(Int) /\ Len(es) \in Nat /\ Len(es) <= Lanes
         /\ \A k \in 1..Len(es) : es[k] \in Int
<1>1. Lanes \in Nat /\ read \in Nat
  BY Sizes DEF Types
<1>2. PICK n \in 0..Lanes : es \in [1..n -> (read + 1)..(read + Lanes)]
  BY DEF Compacted
<1>3. (read + 1)..(read + Lanes) \subseteq Int /\ n \in Nat
  BY <1>1
<1>4. es \in Seq(Int) /\ Len(es) = n
  BY <1>2, <1>3
<1>5. QED
  BY <1>1, <1>2, <1>4

\* What a whole-vector store leaves.
LEMMA StoreVectorFacts ==
  ASSUME NEW m \in [0..(Frame - 1) -> Int], NEW at \in Nat, NEW es \in Seq(Int),
         Len(es) <= Lanes
  PROVE  /\ StoreVector(m, at, es) \in [0..(Frame - 1) -> Int]
         /\ \A k \in 0..(Frame - 1) :
              /\ k < at => StoreVector(m, at, es)[k] = m[k]
              /\ at <= k /\ k < at + Len(es) => StoreVector(m, at, es)[k] = es[k - at + 1]
              /\ at + Len(es) <= k => StoreVector(m, at, es)[k] \in {0, m[k]}
<1> DEFINE new == StoreVector(m, at, es)
<1>1. DOMAIN m = 0..(Frame - 1) /\ Len(es) \in Nat /\ Lanes \in Nat
  BY Sizes
<1>2. new = [k \in 0..(Frame - 1) |->
               CASE k \in at..(at + Len(es) - 1) -> es[k - at + 1]
                 [] k \in (at + Len(es))..(at + Lanes - 1) -> 0
                 [] OTHER -> m[k]]
  BY <1>1 DEF StoreVector
<1>3. ASSUME NEW k \in 0..(Frame - 1)
      PROVE  /\ new[k] \in Int
             /\ k < at => new[k] = m[k]
             /\ at <= k /\ k < at + Len(es) => new[k] = es[k - at + 1]
             /\ at + Len(es) <= k => new[k] \in {0, m[k]}
  <2>1. k \in Int /\ m[k] \in Int
    BY Sizes
  <2>2. CASE k \in at..(at + Len(es) - 1)
    <3>1. new[k] = es[k - at + 1]
      BY <1>2, <2>2
    <3>2. k - at + 1 \in 1..Len(es)
      BY <1>1, <2>1, <2>2
    <3>3. es[k - at + 1] \in Int
      BY <3>2
    <3>4. QED
      BY <1>1, <2>1, <2>2, <3>1, <3>3
  <2>3. CASE k \notin at..(at + Len(es) - 1) /\ k \in (at + Len(es))..(at + Lanes - 1)
    <3>1. new[k] = 0
      BY <1>2, <2>3
    <3>2. QED
      BY <1>1, <2>1, <2>3, <3>1
  <2>4. CASE k \notin at..(at + Len(es) - 1) /\ k \notin (at + Len(es))..(at + Lanes - 1)
    <3>1. new[k] = m[k]
      BY <1>2, <2>4
    <3>2. QED
      BY <1>1, <2>1, <2>4, <3>1
  <2>5. QED
    BY <2>2, <2>3, <2>4
<1>4. new \in [0..(Frame - 1) -> Int]
  BY <1>2, <1>3
<1>5. QED
  BY <1>3, <1>4

\* What the four stores of a copying loop leave.
LEMMA StoreChunkFacts ==
  ASSUME NEW n \in Nat, NEW m \in [0..(n - 1) -> Int], NEW at \in Nat, NEW new,
         \A k \in 0..(n - 1) : new[k] \in Int
  PROVE  /\ StoreChunk(m, at, new) \in [0..(n - 1) -> Int]
         /\ \A k \in 0..(n - 1) : StoreChunk(m, at, new)[k] =
                                   (IF at <= k /\ k < at + Chunk THEN new[k] ELSE m[k])
<1>1. StoreChunk(m, at, new) =
        [k \in 0..(n - 1) |-> IF k \in at..(at + Chunk - 1) THEN new[k] ELSE m[k]]
  BY DEF StoreChunk
<1>2. ASSUME NEW k \in 0..(n - 1)
      PROVE  (k \in at..(at + Chunk - 1)) <=> (at <= k /\ k < at + Chunk)
  BY Sizes
<1>3. QED
  BY <1>1, <1>2

-----------------------------------------------------------------------------
(* The actions.                                                             *)

\* The invariant holds at entry.
LEMMA Initially == RejInit => IInv
<1> SUFFICES ASSUME RejInit PROVE IInv
  OBVIOUS
<1>1. Types
  BY Sizes DEF RejInit, Types, Labels, Unwritten
<1>2. \E b \in Nat : remaining = b * (2 * Lanes)
  <2>1. PICK b \in 0..MaxBlocks : remaining = 2 * Lanes * b
    BY DEF RejInit
  <2>2. b \in Nat /\ 2 * Lanes * b = b * (2 * Lanes)
    BY Sizes
  <2>3. QED
    BY <2>1, <2>2
<1>3. QED
  BY <1>1, <1>2, Sizes DEF RejInit, IInv, Zeroing, Pointer, Buffer, FrameOK, Copying, Stores

\* Zeros up to the end of the output before the first block.
LEMMA InitialZeroStep == IInv /\ InitialZero => IInv'
<1> SUFFICES ASSUME IInv, InitialZero PROVE IInv'
  OBVIOUS
<1> DEFINE zeros == [k \in DOMAIN frame |-> 0]
<1>1. /\ label = "initial_zero" /\ frame' = StoreChunk(frame, wp, zeros) /\ i' = i + Chunk
      /\ IF i' < Out
           THEN wp' = wp + Chunk /\ label' = label
           ELSE wp' = 0 /\ label' = (IF remaining < 4 * Lanes THEN "loop48_end" ELSE "loop48")
      /\ UNCHANGED <<remaining, left, found, count, r, read, accepted>>
  BY DEF InitialZero
<1>2. /\ Types /\ wp = i /\ i < Out /\ count = 0 /\ accepted = <<>>
      /\ \A k \in 0..(Out - 1) : k < i => frame[k] = 0
  BY <1>1 DEF IInv, Zeroing
<1>3. /\ frame \in [0..(Frame - 1) -> Int] /\ i \in Nat /\ wp \in Nat /\ remaining \in Nat
  BY <1>2 DEF Types
<1>4. /\ frame' \in [0..(Frame - 1) -> Int]
      /\ \A k \in 0..(Frame - 1) :
           frame'[k] = (IF wp <= k /\ k < wp + Chunk THEN zeros[k] ELSE frame[k])
  <2>1. \A k \in 0..(Frame - 1) : zeros[k] \in Int
    BY <1>3
  <2>2. Frame \in Nat
    BY Sizes
  <2> HIDE DEF zeros
  <2>3. /\ StoreChunk(frame, wp, zeros) \in [0..(Frame - 1) -> Int]
        /\ \A k \in 0..(Frame - 1) :
             StoreChunk(frame, wp, zeros)[k] = (IF wp <= k /\ k < wp + Chunk THEN zeros[k] ELSE frame[k])
    BY <1>3, <2>1, <2>2, StoreChunkFacts
  <2>4. QED
    BY <1>1, <2>3
<1>5. \A k \in 0..(Out - 1) : k < i + Chunk => frame'[k] = 0
  <2> SUFFICES ASSUME NEW k \in 0..(Out - 1), k < i + Chunk PROVE frame'[k] = 0
    OBVIOUS
  <2>1. k \in 0..(Frame - 1) /\ zeros[k] = 0
    BY <1>3, Sizes
  <2>2. QED
    BY <1>2, <1>3, <1>4, <2>1, Sizes
<1>6. i' \in Nat /\ i + Chunk \in Nat
  BY <1>1, <1>3, Sizes
<1>7. \E b \in Nat : remaining' = b * (2 * Lanes)
  BY <1>1 DEF IInv, Buffer
<1>8. CASE i' < Out
  <2>1. wp' = wp + Chunk /\ label' = "initial_zero"
    BY <1>1, <1>8
  <2>2. Types'
    BY <1>1, <1>2, <1>4, <1>6, <2>1 DEF Types
  <2>3. Zeroing'
    BY <1>1, <1>2, <1>5, <1>8, <2>1 DEF Zeroing
  <2>4. QED
    BY <1>7, <2>1, <2>2, <2>3 DEF IInv, Pointer, Buffer, FrameOK, Copying, Stores
<1>9. CASE ~ (i' < Out)
  <2>1. wp' = 0 /\ label' = (IF remaining < 4 * Lanes THEN "loop48_end" ELSE "loop48")
    BY <1>1, <1>9
  <2>2. Types'
    BY <1>1, <1>2, <1>4, <1>6, <2>1 DEF Types, Labels
  <2>3. FrameOK'
    <3>1. Len(accepted') = 0 /\ wp' = 0
      BY <1>1, <1>2, <2>1
    <3>2. \A k \in 0..(Out - 1) : frame'[k] = 0
      BY <1>1, <1>5, <1>6, <1>9, Sizes
    <3>3. 0..(wp' - 1) = {}
      BY <3>1
    <3>4. QED
      BY <3>1, <3>2, <3>3 DEF FrameOK
  <2>4. Buffer'
    BY <1>1, <1>3, <1>7, <2>1, Sizes DEF Buffer
  <2>5. QED
    BY <1>1, <1>2, <2>1, <2>2, <2>3, <2>4 DEF IInv, Zeroing, Pointer, Copying, Stores
<1>10. QED
  BY <1>8, <1>9

\* A block is loaded only below Out, and the loop is left only with enough
\* entries or without input.
LEMMA BlockStep ==
  ASSUME IInv, NEW l \in {"loop48", "loop48_end"}, NEW store, NEW n \in {2, 4}, NEW enough,
         l = "loop48" => n = 4 /\ enough /\ store = "loop48_store",
         l = "loop48_end" => n = 2 /\ (enough <=> remaining >= 2 * Lanes) /\ store = "loop48_end_store",
         LoadBlock(l, store, n, enough)
  PROVE  IInv'
<1>1. /\ label = l /\ UNCHANGED <<wp, count, i, frame, r, read, accepted>>
      /\ IF count >= Out \/ ~enough
           THEN label' = "memory_copy" /\ UNCHANGED <<remaining, left, found>>
           ELSE remaining' = remaining - n * Lanes /\ left' = n /\ found' = 0 /\ label' = store
  BY DEF LoadBlock
<1>2. /\ Types /\ wp = count /\ FrameOK /\ Buffer /\ wp = Len(accepted)
      /\ count \in Nat /\ remaining \in Nat
  BY <1>1 DEF IInv, Pointer, FrameOK, Types
<1>3. /\ \A k \in 0..(wp - 1) : frame[k] = accepted[k + 1]
      /\ \A k \in wp..(Out - 1) : frame[k] = 0
  BY <1>1, <1>2 DEF FrameOK
<1>4. PICK b \in Nat : remaining = b * (2 * Lanes)
  BY <1>2 DEF Buffer
<1>5. FrameOK'
  BY <1>1, <1>2, <1>3 DEF FrameOK
<1>6. CASE count >= Out \/ ~enough
  <2>1. label' = "memory_copy" /\ UNCHANGED <<remaining, left, found>>
    BY <1>1, <1>6
  <2>2. Types'
    BY <1>1, <1>2, <2>1 DEF Types, Labels
  <2>3. count >= Out \/ remaining = 0
    <3>1. CASE count >= Out
      BY <3>1
    <3>2. CASE ~ (count >= Out)
      <4>1. l = "loop48_end" /\ ~ (remaining >= 2 * Lanes)
        BY <1>6, <3>2
      <4>2. b = 0
        BY <1>2, <1>4, <4>1, HalfBlocks, Sizes
      <4>3. QED
        BY <1>4, <4>2, Sizes
    <3>3. QED
      BY <3>1, <3>2
  <2>4. Buffer'
    BY <1>1, <1>2, <1>4, <2>1, <2>3 DEF Buffer
  <2>5. QED
    BY <1>1, <1>2, <1>5, <2>1, <2>2, <2>4 DEF IInv, Zeroing, Pointer, Copying, Stores
<1>7. CASE ~ (count >= Out \/ ~enough)
  <2>1. remaining' = remaining - n * Lanes /\ left' = n /\ found' = 0 /\ label' = store
    BY <1>1, <1>7
  <2>2. /\ l = "loop48" => label' = "loop48_store"
        /\ l = "loop48_end" => label' = "loop48_end_store"
    BY <2>1
  <2>3. label' \in Stores
    BY <2>2 DEF Stores
  <2>4. /\ remaining' \in Nat /\ \E a \in Nat : remaining' = a * (2 * Lanes)
        /\ l = "loop48_end" => remaining' = 0
    <3>1. CASE l = "loop48"
      <4>1. remaining >= 4 * Lanes /\ n = 4
        BY <1>1, <1>2, <3>1 DEF Buffer
      <4>2. b - 2 \in Nat /\ remaining' = (b - 2) * (2 * Lanes)
        BY <1>4, <2>1, <4>1, HalfBlocks
      <4>3. remaining' \in Nat
        BY <1>2, <2>1, <4>1, Sizes
      <4>4. QED
        BY <3>1, <4>2, <4>3
    <3>2. CASE l = "loop48_end"
      <4>1. remaining < 4 * Lanes /\ remaining >= 2 * Lanes /\ n = 2
        BY <1>1, <1>2, <1>7, <3>2 DEF Buffer
      <4>2. b <= 1 /\ b - 1 \in Nat /\ remaining' = (b - 1) * (2 * Lanes)
        BY <1>4, <2>1, <4>1, HalfBlocks
      <4>3. b = 1
        BY <4>2
      <4>4. remaining' = 0
        BY <4>2, <4>3, Sizes
      <4>5. QED
        BY <4>2, <4>4
    <3>3. QED
      BY <3>1, <3>2
  <2>5. Types'
    BY <1>1, <1>2, <2>1, <2>3, <2>4 DEF Types, Labels
  <2>6. Buffer'
    BY <1>1, <2>2, <2>4 DEF Buffer
  <2>7. Pointer'
    <3>1. found' <= (4 - left') * Lanes /\ left' \in 1..4
      BY <2>1, Sizes
    <3>2. count' < Out /\ wp' = count' + found'
      BY <1>1, <1>2, <1>7, <2>1, Sizes
    <3>3. QED
      BY <2>3, <3>1, <3>2 DEF Pointer, Stores
  <2>8. QED
    BY <1>5, <2>3, <2>5, <2>6, <2>7 DEF IInv, Zeroing, Copying, Stores
<1>8. QED
  BY <1>6, <1>7

\* A whole-vector store puts the entries behind those before, and what it
\* clobbers after them was zero or is not output.
LEMMA VectorStep ==
  ASSUME IInv, NEW l \in Stores, NEW next,
         l = "loop48_store" => next = AfterLoop48,
         l = "loop48_end_store" => next = "memory_copy",
         Store(l, next)
  PROVE  IInv'
<1>1. /\ label = l /\ left > 0 /\ read' = read + Lanes /\ left' = left - 1
      /\ IF left' = 0 THEN count' = count + found' /\ label' = next ELSE UNCHANGED <<count, label>>
      /\ UNCHANGED <<remaining, i, r>>
  BY DEF Store
<1>2. PICK es \in Compacted :
        /\ frame' = StoreVector(frame, wp, es) /\ wp' = wp + Len(es)
        /\ found' = found + Len(es) /\ accepted' = accepted \o es
  BY DEF Store, Advance
<1>3. /\ Types /\ Pointer /\ Buffer /\ FrameOK
      /\ wp \in Nat /\ found \in Nat /\ count \in Nat /\ left \in 1..4 /\ remaining \in Nat
      /\ wp = count + found /\ count < Out /\ found <= (4 - left) * Lanes
      /\ frame \in [0..(Frame - 1) -> Int] /\ accepted \in Seq(Int) /\ read \in Nat
  BY <1>1 DEF IInv, Types, Pointer
<1>4. /\ es \in Seq(Int) /\ Len(es) \in Nat /\ Len(es) <= Lanes
      /\ \A k \in 1..Len(es) : es[k] \in Int
  BY <1>2, <1>3, CompactedFacts
<1>5. /\ wp = Len(accepted) /\ l \notin {"initial_zero", "final_copy", "return"}
      /\ \A k \in 0..(wp - 1) : frame[k] = accepted[k + 1]
      /\ \A k \in wp..(Out - 1) : frame[k] = 0
  BY <1>1, <1>3 DEF FrameOK, Stores
<1>6. found + Lanes <= (4 - (left - 1)) * Lanes /\ wp + Lanes <= Frame /\ wp + Lanes \in Nat
  <2>1. (4 - (left - 1)) * Lanes = (4 - left) * Lanes + Lanes /\ (4 - left) * Lanes \in Nat
        /\ (4 - left) * Lanes <= 3 * Lanes
    BY <1>3, Sizes
  <2>2. QED
    BY <1>3, <2>1, Sizes
<1>7. /\ frame' \in [0..(Frame - 1) -> Int]
      /\ \A k \in 0..(Frame - 1) :
           /\ k < wp => frame'[k] = frame[k]
           /\ wp <= k /\ k < wp + Len(es) => frame'[k] = es[k - wp + 1]
           /\ wp + Len(es) <= k => frame'[k] \in {0, frame[k]}
  <2>1. frame' = StoreVector(frame, wp, es)
    BY <1>2
  <2>2. frame \in [0..(Frame - 1) -> Int] /\ wp \in Nat /\ es \in Seq(Int) /\ Len(es) <= Lanes
    BY <1>3, <1>4
  <2>3. QED
    BY <2>1, <2>2, StoreVectorFacts
<1>8. /\ accepted' \in Seq(Int) /\ Len(accepted') = Len(accepted) + Len(es)
      /\ \A k \in 1..(Len(accepted) + Len(es)) :
           accepted'[k] = (IF k <= Len(accepted) THEN accepted[k] ELSE es[k - Len(accepted)])
  BY <1>2, <1>3, <1>4
<1>9. wp' \in Nat /\ found' \in Nat /\ wp' = Len(accepted')
  <2>1. wp' = wp + Len(es) /\ found' = found + Len(es)
    BY <1>2
  <2>2. wp \in Nat /\ found \in Nat /\ Len(es) \in Nat
    BY <1>3, <1>4
  <2>3. Len(accepted') = Len(accepted) + Len(es) /\ wp = Len(accepted)
    BY <1>5, <1>8
  <2>4. QED
    BY <2>1, <2>2, <2>3
<1>10. \A k \in 0..(wp' - 1) : frame'[k] = accepted'[k + 1]
  <2> SUFFICES ASSUME NEW k \in 0..(wp' - 1) PROVE frame'[k] = accepted'[k + 1]
    OBVIOUS
  <2>1. k \in 0..(Frame - 1) /\ k \in Nat /\ k < wp + Len(es)
    BY <1>2, <1>3, <1>4, <1>6, Sizes
  <2>2. CASE k < wp
    <3>1. frame'[k] = frame[k] /\ frame[k] = accepted[k + 1]
      BY <1>3, <1>5, <1>7, <2>1, <2>2
    <3>2. k + 1 \in 1..(Len(accepted) + Len(es)) /\ k + 1 <= Len(accepted)
      BY <1>3, <1>4, <1>5, <2>1, <2>2
    <3>3. accepted'[k + 1] = accepted[k + 1]
      BY <1>8, <3>2
    <3>4. QED
      BY <3>1, <3>3
  <2>3. CASE ~ (k < wp)
    <3>1. frame'[k] = es[k - wp + 1]
      BY <1>3, <1>7, <2>1, <2>3
    <3>2. k + 1 \in 1..(Len(accepted) + Len(es)) /\ ~ (k + 1 <= Len(accepted))
          /\ (k + 1) - Len(accepted) = k - wp + 1
      <4>1. wp \in Nat /\ Len(es) \in Nat /\ wp = Len(accepted)
        BY <1>3, <1>4, <1>5
      <4>2. QED
        BY <2>1, <2>3, <4>1
    <3>3. accepted'[k + 1] = es[k - wp + 1]
      BY <1>8, <3>2
    <3>4. QED
      BY <3>1, <3>3
  <2>4. QED
    BY <2>2, <2>3
<1>11. \A k \in wp'..(Out - 1) : frame'[k] = 0
  <2> SUFFICES ASSUME NEW k \in wp'..(Out - 1) PROVE frame'[k] = 0
    OBVIOUS
  <2>1. k \in 0..(Frame - 1) /\ k \in wp..(Out - 1) /\ wp + Len(es) <= k
    BY <1>2, <1>3, <1>4, <1>9, Sizes
  <2>2. frame'[k] \in {0, frame[k]} /\ frame[k] = 0
    BY <1>5, <1>7, <2>1
  <2>3. QED
    BY <2>2
<1>12. FrameOK'
  BY <1>9, <1>10, <1>11 DEF FrameOK
<1>13. found' <= (4 - left') * Lanes /\ left' \in Nat
  <2>1. (4 - left') * Lanes = (4 - (left - 1)) * Lanes
    BY <1>1
  <2>2. (4 - (left - 1)) * Lanes \in Int
    BY <1>3, Sizes
  <2>3. QED
    BY <1>1, <1>2, <1>3, <1>4, <1>6, <2>1, <2>2, Sizes
<1>14. \E b \in Nat : remaining' = b * (2 * Lanes)
  BY <1>1, <1>3 DEF Buffer
<1>15. /\ remaining' \in Nat /\ left' \in Nat /\ wp' \in Nat /\ found' \in Nat /\ i' \in Nat
       /\ read' \in Nat /\ frame' \in [0..(Frame - 1) -> Int] /\ r' \in [0..(Out - 1) -> Int]
       /\ accepted' \in Seq(Int)
  <2>1. read' \in Nat
    BY <1>1, <1>3, Sizes
  <2>2. remaining' \in Nat /\ i' \in Nat /\ r' \in [0..(Out - 1) -> Int]
    BY <1>1, <1>3 DEF Types
  <2>3. QED
    BY <1>7, <1>8, <1>9, <1>13, <2>1, <2>2
<1>16. CASE left' = 0
  <2>1. count' = count + found' /\ label' = next
    BY <1>1, <1>16
  <2>2. next \in {"loop48", "loop48_end", "memory_copy"} /\ count' = wp' /\ count' \in Nat
    <3>1. next \in {"loop48", "loop48_end", "memory_copy"}
      BY DEF AfterLoop48, Stores
    <3>2. QED
      BY <1>2, <1>3, <1>4, <2>1, <3>1
  <2>3. Types'
    <3>1. label' \in Labels
      BY <2>1, <2>2 DEF Labels
    <3>2. count' \in Nat
      BY <2>2
    <3>3. QED
      BY <1>15, <3>1, <3>2 DEF Types
  <2>4. Buffer'
    <3>1. CASE l = "loop48_store"
      <4>1. remaining' = remaining /\ label' = (IF remaining >= 4 * Lanes THEN "loop48" ELSE "loop48_end")
        BY <1>1, <2>1, <3>1 DEF AfterLoop48
      <4>2. remaining \in Nat /\ 4 * Lanes \in Nat
        BY <1>3, Sizes
      <4>3. /\ label' = "loop48" => remaining' >= 4 * Lanes
            /\ label' = "loop48_end" => remaining' < 4 * Lanes
            /\ label' \in {"loop48", "loop48_end"}
        BY <4>1, <4>2
      <4>4. QED
        BY <1>14, <4>3 DEF Buffer
    <3>2. CASE l = "loop48_end_store"
      BY <1>1, <1>3, <1>14, <2>1, <3>2 DEF Buffer
    <3>3. QED
      BY <3>1, <3>2 DEF Stores
  <2>5. Pointer'
    BY <2>1, <2>2 DEF Pointer, Stores
  <2>6. QED
    BY <1>12, <2>1, <2>2, <2>3, <2>4, <2>5 DEF IInv, Zeroing, Copying
<1>17. CASE left' # 0
  <2>1. count' = count /\ label' = l /\ l \in Stores
    BY <1>1, <1>17
  <2>2. Types'
    BY <1>3, <1>15, <2>1 DEF Types, Labels
  <2>3. Buffer'
    BY <1>1, <1>3, <1>14, <2>1 DEF Buffer, Stores
  <2>4. Pointer'
    <3>1. left' \in 1..4 /\ wp' = count' + found'
      BY <1>1, <1>2, <1>3, <1>4, <1>17, <2>1
    <3>2. QED
      BY <1>3, <1>13, <2>1, <3>1 DEF Pointer, Stores
  <2>5. QED
    BY <1>12, <2>1, <2>2, <2>3, <2>4 DEF IInv, Zeroing, Copying, Stores
<1>18. QED
  BY <1>16, <1>17

\* The clamp of the count keeps the invariant.
LEMMA MemoryCopyStep == IInv /\ MemoryCopy => IInv'
<1> SUFFICES ASSUME IInv, MemoryCopy PROVE IInv'
  OBVIOUS
<1>1. /\ label = "memory_copy" /\ count' = Clamp(count) /\ i' = 0 /\ wp' = 0 /\ label' = "final_copy"
      /\ UNCHANGED <<remaining, left, found, frame, r, read, accepted>>
  BY DEF MemoryCopy
<1>2. /\ Types /\ Buffer /\ wp = count /\ wp = Len(accepted) /\ count \in Nat
      /\ \A k \in 0..(wp - 1) : frame[k] = accepted[k + 1]
      /\ \A k \in wp..(Out - 1) : frame[k] = 0
  BY <1>1 DEF IInv, Types, Pointer, FrameOK
<1>3. Clamp(count) \in Nat
  BY <1>2, Sizes DEF Clamp
<1>4. Types'
  BY <1>1, <1>2, <1>3 DEF Types, Labels
<1>5. Buffer'
  BY <1>1, <1>2 DEF Buffer
<1>6. Copying'
  <2>1. ASSUME NEW k \in 0..(Out - 1)
        PROVE  frame'[k] = (IF k < Len(accepted') THEN accepted'[k + 1] ELSE 0)
    <3>1. k \in 0..(wp - 1) \/ k \in wp..(Out - 1)
      BY <1>2, Sizes
    <3>2. QED
      BY <1>1, <1>2, <3>1
  <2>2. \A k \in 0..(Out - 1) : ~ (k < i')
    BY <1>1
  <2>3. QED
    BY <1>1, <1>2, <2>1, <2>2 DEF Copying
<1>7. QED
  BY <1>1, <1>4, <1>5, <1>6 DEF IInv, Zeroing, Pointer, FrameOK, Stores

\* A copied chunk keeps the invariant: the entries so far are in the output.
LEMMA FinalCopyStep == IInv /\ FinalCopy => IInv'
<1> SUFFICES ASSUME IInv, FinalCopy PROVE IInv'
  OBVIOUS
<1>1. /\ label = "final_copy" /\ r' = StoreChunk(r, wp, frame) /\ wp' = wp + Chunk /\ i' = i + Chunk
      /\ label' = (IF i' < Out THEN label ELSE "return")
      /\ UNCHANGED <<remaining, left, found, count, frame, read, accepted>>
  BY DEF FinalCopy
<1>2. /\ Types /\ Buffer /\ count = Clamp(Len(accepted)) /\ wp = i /\ i \in Nat
      /\ \A k \in 0..(Out - 1) :
           /\ frame[k] = (IF k < Len(accepted) THEN accepted[k + 1] ELSE 0)
           /\ k < i => r[k] = frame[k]
      /\ frame \in [0..(Frame - 1) -> Int] /\ r \in [0..(Out - 1) -> Int]
  BY <1>1 DEF IInv, Types, Copying
<1>3. \A k \in 0..(Out - 1) : frame[k] \in Int
  <2> SUFFICES ASSUME NEW k \in 0..(Out - 1) PROVE frame[k] \in Int
    OBVIOUS
  <2>1. k \in 0..(Frame - 1)
    BY Sizes
  <2>2. QED
    BY <1>2, <2>1
<1>4. /\ r' \in [0..(Out - 1) -> Int]
      /\ \A k \in 0..(Out - 1) : r'[k] = (IF i <= k /\ k < i + Chunk THEN frame[k] ELSE r[k])
  <2>1. /\ StoreChunk(r, i, frame) \in [0..(Out - 1) -> Int]
        /\ \A k \in 0..(Out - 1) :
             StoreChunk(r, i, frame)[k] = (IF i <= k /\ k < i + Chunk THEN frame[k] ELSE r[k])
    <3>1. r \in [0..(Out - 1) -> Int] /\ i \in Nat /\ Out \in Nat
      BY <1>2, Sizes
    <3>2. QED
      BY <1>3, <3>1, StoreChunkFacts
  <2>2. QED
    BY <1>1, <1>2, <2>1
<1>5. \A k \in 0..(Out - 1) : k < i' => r'[k] = frame'[k]
  BY <1>1, <1>2, <1>4, Sizes
<1>6. wp' = i' /\ i' \in Nat /\ (label' = "return" => i' >= Out) /\ label' \in {"final_copy", "return"}
  BY <1>1, <1>2, Sizes
<1>7. Types'
  BY <1>1, <1>2, <1>4, <1>6 DEF Types, Labels
<1>8. Buffer'
  BY <1>1, <1>2, <1>6 DEF Buffer
<1>9. Copying'
  BY <1>1, <1>2, <1>5, <1>6 DEF Copying
<1>10. QED
  BY <1>6, <1>7, <1>8, <1>9 DEF IInv, Zeroing, Pointer, FrameOK, Stores

\* The invariant holds in every state of a call.
LEMMA Invariance == RejSpec => []IInv
<1>1. RejInit => IInv
  BY Initially
<1>2. IInv /\ [RejNext]_rejVars => IInv'
  <2> SUFFICES ASSUME IInv, [RejNext]_rejVars PROVE IInv'
    OBVIOUS
  <2>1. CASE InitialZero
    BY <2>1, InitialZeroStep
  <2>2. CASE Loop48
    BY <2>2, BlockStep DEF Loop48
  <2>3. CASE StoreOfLoop48
    BY <2>3, VectorStep DEF StoreOfLoop48, Stores
  <2>4. CASE Loop48End
    BY <2>4, BlockStep DEF Loop48End
  <2>5. CASE StoreOfLast
    BY <2>5, VectorStep DEF StoreOfLast, AfterLast, Stores
  <2>6. CASE MemoryCopy
    BY <2>6, MemoryCopyStep
  <2>7. CASE FinalCopy
    BY <2>7, FinalCopyStep
  <2>8. CASE UNCHANGED rejVars
    BY <2>8 DEF rejVars, IInv, Types, Zeroing, Pointer, Buffer, FrameOK, Copying
  <2>9. QED
    BY <2>1, <2>2, <2>3, <2>4, <2>5, <2>6, <2>7, <2>8 DEF RejNext
<1>3. QED
  BY <1>1, <1>2, PTL DEF RejSpec

-----------------------------------------------------------------------------
(* The properties of the run, for every size.                               *)

\* No whole-vector store of mlkem_rej_uniform_VARIABLE_TIME leaves its frame,
\* whatever the entries.
THEOREM StoresStayInFrame == RejSpec => []StoreInFrame
<1>1. IInv => StoreInFrame
  <2> SUFFICES ASSUME IInv, label \in Stores PROVE wp + Lanes <= Frame
    BY DEF StoreInFrame, Stores
  <2>1. /\ wp = count + found /\ count < Out /\ left \in 1..4 /\ found <= (4 - left) * Lanes
        /\ count \in Nat /\ found \in Nat
    BY DEF IInv, Pointer, Types
  <2>2. (4 - left) * Lanes <= 3 * Lanes /\ (4 - left) * Lanes \in Int
    BY <2>1, Sizes
  <2>3. QED
    BY <2>1, <2>2, Sizes
<1>2. QED
  BY <1>1, Invariance, PTL

\* Between its stores the frame holds the acceptable entries and then zeros.
THEOREM FrameCorrect == RejSpec => []FrameOK
<1>1. IInv => FrameOK
  BY DEF IInv
<1>2. QED
  BY <1>1, Invariance, PTL

\* mlkem_rej_uniform_VARIABLE_TIME returns the first Out acceptable entries, or
\* all of them followed by zeros, and their number.
THEOREM ResultCorrect == RejSpec => []Result
<1>1. IInv => Result
  <2> SUFFICES ASSUME IInv, label = "return"
               PROVE  /\ count = Min({Len(accepted), Out})
                      /\ \A k \in 0..(Out - 1) :
                           r[k] = (IF k < Len(accepted) THEN accepted[k + 1] ELSE 0)
                      /\ Len(accepted) >= Out \/ remaining = 0
    BY DEF Result
  <2>1. /\ count = Clamp(Len(accepted)) /\ i >= Out /\ i \in Nat /\ accepted \in Seq(Int)
        /\ \A k \in 0..(Out - 1) :
             /\ frame[k] = (IF k < Len(accepted) THEN accepted[k + 1] ELSE 0)
             /\ k < i => r[k] = frame[k]
        /\ Len(accepted) >= Out \/ remaining = 0
    BY DEF IInv, Copying, Types, Buffer
  <2>2. \A k \in 0..(Out - 1) : k < i
    BY <2>1, Sizes
  <2>3. count = Min({Len(accepted), Out})
    <3> DEFINE S == {Len(accepted), Out}
    <3>1. Len(accepted) \in Nat
      BY <2>1
    <3>2. Clamp(Len(accepted)) \in S /\ \A y \in S : Clamp(Len(accepted)) <= y
      BY <3>1, Sizes DEF Clamp
    <3>3. \A x \in S : (\A y \in S : x <= y) => x = Clamp(Len(accepted))
      BY <3>1, <3>2, Sizes DEF Clamp
    <3>4. Min(S) = Clamp(Len(accepted))
      BY <3>2, <3>3 DEF Min
    <3>5. QED
      BY <2>1, <3>4
  <2>4. QED
    BY <2>1, <2>2, <2>3
<1>2. QED
  BY <1>1, Invariance, PTL
===============================================================================

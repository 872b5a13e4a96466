---------------------------- MODULE MCCallFrames ----------------------------
(***************************************************************************)
(* The frames of functions of the library: every instruction that moves    *)
(* the stack pointer, saves or restores a register, calls, jumps or        *)
(* returns, in the order of the source, with the code between reduced to   *)
(* what it writes (a Body, loops that stay inside it included).  Offsets   *)
(* and sizes are in words; of the large local areas (31 * 32 bytes and the *)
(* like) a few words are kept.                                             *)
(***************************************************************************)
EXTENDS CallFrames

\* arm/p256/p256_montjscalarmul.S: pushes, locals, calls in loops.
ArmScalarMul ==
  << CFI_PUSH2("x19", "x20"), CFI_PUSH2("x21", "x30"), CFI_DEC_SP(3),
     Body({"x19", "x20", "x21"}, 0..2), CFI_BL, Body({"x20"}, 0..2), CFI_BL,
     Branch(5), Body({}, {}),
     CFI_INC_SP(3), CFI_POP2("x21", "x30"), CFI_POP2("x19", "x20"), CFI_RET >>

\* arm/p256/p256_montjdouble.S: the registers lie above the locals.
ArmDouble ==
  << CFI_DEC_SP(4 + 10),
     CFI_STACKSAVE2("x19", "x20", 4), CFI_STACKSAVE2("x21", "x22", 6),
     CFI_STACKSAVE2("x23", "x24", 8), CFI_STACKSAVE2("x25", "x26", 10),
     CFI_STACKSAVE1Z("x27", 12),
     Body({"x19", "x20", "x21", "x22", "x23", "x24", "x25", "x26", "x27"}, 0..3),
     CFI_STACKLOAD1Z("x27", 12),
     CFI_STACKLOAD2("x25", "x26", 10), CFI_STACKLOAD2("x23", "x24", 8),
     CFI_STACKLOAD2("x21", "x22", 6), CFI_STACKLOAD2("x19", "x20", 4),
     CFI_INC_SP(4 + 10), CFI_RET >>

\* stp lo, hi, [sp, #-8n]! and ldp lo, hi, [sp], #8n with their directives.
PushFrame(lo, hi, n) == [CFI_PUSH2(lo, hi) EXCEPT !.size = n]
PopFrame(lo, hi, n) == [CFI_POP2(lo, hi) EXCEPT !.size = n]

\* arm/sha3/sha3_keccak_f1600_alt2.S: registers are saved one pair at a
\* time, between instructions that already use the locals.
ArmKeccak ==
  << PushFrame("x29", "x30", 26), Body({"x29"}, {}),
     CFI_STACKSAVE2("x19", "x20", 2), Body({}, {14}),
     CFI_STACKSAVE2("x21", "x22", 4), Body({"x30"}, {19}),
     CFI_STACKSAVE2("x23", "x24", 6), CFI_STACKSAVE2("x25", "x26", 8), Body({}, {20}),
     CFI_STACKSAVE2("x27", "x28", 10),
     Body({"x19", "x20", "x21", "x22", "x23", "x24", "x25", "x26", "x27", "x28", "x30"},
          13..25),
     Branch(11), CFI_STACKLOAD2("x19", "x20", 2), CFI_STACKLOAD2("x21", "x22", 4),
     CFI_STACKLOAD2("x23", "x24", 6), CFI_STACKLOAD2("x25", "x26", 8),
     CFI_STACKLOAD2("x27", "x28", 10), PopFrame("x29", "x30", 26), CFI_RET >>

\* x86/p256/p256_scalarmul.S, the standard entry.
X86ScalarMul ==
  << CFI_PUSH("r15"), CFI_PUSH("r14"), CFI_PUSH("r13"), CFI_PUSH("r12"),
     CFI_PUSH("rbp"), CFI_PUSH("rbx"), CFI_DEC_RSP(3),
     Body({"rbx", "rbp", "r12", "r13", "r14", "r15"}, 0..2), CFI_CALL, Branch(8),
     CFI_INC_RSP(3), CFI_POP("rbx"), CFI_POP("rbp"), CFI_POP("r12"), CFI_POP("r13"),
     CFI_POP("r14"), CFI_POP("r15"), CFI_RET >>

\* What WINDOWS_ABI adds to a function: rdi and rsi, which the caller keeps
\* under the standard ABI only, are pushed and take the arguments.
WindowsEntry == << CFI_PUSH("rdi"), CFI_PUSH("rsi"), Body({"rdi", "rsi"}, {}) >>
WindowsExit == << CFI_POP("rsi"), CFI_POP("rdi") >>

\* The Windows entry of the same file calls the standard one, which need
\* not keep rdi and rsi.
X86ScalarMulWindows ==
  WindowsEntry \o << CFI_CALL, Body({"rdi", "rsi"}, {}) >> \o WindowsExit \o << CFI_RET >>

\* x86/mlkem/mlkem_ntt.S for Windows (xmm registers are two words).
Xmm(n) == <<"xmm6", "xmm7", "xmm8", "xmm9", "xmm10",
            "xmm11", "xmm12", "xmm13", "xmm14", "xmm15">>[n]
X86Ntt ==
  << CFI_DEC_RSP(22) >>
  \o [n \in 1..10 |-> CFI_STACKSAVE(Xmm(n), 2 * (n - 1))]
  \o << CFI_STACKSAVE("rdi", 20), CFI_STACKSAVE("rsi", 21),
        Body({Xmm(n) : n \in 1..10} \cup {"rdi", "rsi"}, {}) >>
  \o [n \in 1..10 |-> CFI_STACKLOAD(Xmm(n), 2 * (n - 1))]
  \o << CFI_STACKLOAD("rdi", 20), CFI_STACKLOAD("rsi", 21), CFI_INC_RSP(22), CFI_RET >>

\* x86/generic/bignum_add.S, with what WINDOWS_ABI puts at the entry and
\* before each of the three returns, two of them bare.  p is rdi.
X86Add(entry, exit, cfa) ==
  LET e == Len(entry)
      x == Len(exit)
      p == IF entry = << >> THEN {} ELSE {"rdi"}
      ylonger == e + x + 7
      tails == e + 2 * x + 10
  IN  entry
      \o << Body({}, {}), Branch(ylonger), Body(p, {}), Branch(tails) >> \o exit
      \o << Ret, DefCfa(cfa) >>
      \o << Body(p, {}), Branch(tails) >> \o exit \o << Ret >>
      \o << Body({}, {}), Jump(tails + 3), Body({}, {}),
            Body(p, {}), Branch(tails + 2) >> \o exit \o << CFI_RET >>

\* x86/generic/bignum_sub.S: no directive follows the first return, and
\* the second part jumps back into the tail loop of the first.
X86Sub(entry, exit) ==
  LET e == Len(entry)
      p == IF entry = << >> THEN {} ELSE {"rdi"}
      tailloop == e + 5
      ylonger == e + Len(exit) + 9
  IN  entry
      \o << Body({}, {}), Branch(ylonger), Body(p, {}), Branch(tailloop + 2),
            Body(p, {}), Branch(tailloop), Body({}, {}) >> \o exit \o << Ret >>
      \o << Body(p, {}), Branch(tailloop), Body({}, {}) >> \o exit \o << CFI_RET >>

\* x86/p256/bignum_mod_p256.S: the trivial path for inputs below four
\* words (line 180) stands after the return and jumps back.
X86ModP256(entry, exit) ==
  LET writeback == Len(entry) + 5
      shortinput == Len(entry) + Len(exit) + 8
  IN  entry
      \o << CFI_PUSH("rbx"), CFI_PUSH("r12"), Branch(shortinput),
            Body({"rbx", "r12"}, {}), CFI_POP("r12"), CFI_POP("rbx") >> \o exit
      \o << CFI_RET, Body({}, {}), Branch(writeback), Jump(writeback) >>

Sources ==
  [p256_montjscalarmul |-> ArmScalarMul, p256_montjdouble |-> ArmDouble,
   sha3_keccak_f1600_alt2 |-> ArmKeccak, p256_scalarmul |-> X86ScalarMul,
   p256_scalarmul_windows |-> X86ScalarMulWindows, mlkem_ntt_x86_windows |-> X86Ntt,
   bignum_add |-> X86Add(<< >>, << >>, 1),
   bignum_add_windows |-> X86Add(WindowsEntry, WindowsExit, 3),
   bignum_sub |-> X86Sub(<< >>, << >>),
   bignum_sub_windows |-> X86Sub(WindowsEntry, WindowsExit),
   bignum_mod_p256 |-> X86ModP256(<< >>, << >>),
   bignum_mod_p256_windows |-> X86ModP256(WindowsEntry, WindowsExit)]

All == DOMAIN Sources
Arm == {"p256_montjscalarmul", "p256_montjdouble", "sha3_keccak_f1600_alt2"}
ShortInput == {"bignum_mod_p256"}
WindowsAdd == {"bignum_add_windows"}
\* All but the two families of functions with a finding.
Straight == All \ {"bignum_mod_p256", "bignum_mod_p256_windows",
                   "bignum_add_windows", "bignum_sub_windows"}

MCStart == [f \in Fn |-> IF f \in Arm THEN 0 ELSE 1]
MCText == [f \in Fn |-> Sources[f]]
\* The registers a text stores or writes, and the return address.
Mentioned(t) == UNION {DOMAIN t[i].at \cup t[i].writes : i \in DOMAIN t}
MCKept == [f \in Fn |-> Mentioned(Sources[f]) \cup {IF f \in Arm THEN "x30" ELSE "ra"}]

\* The assembler: a row per instruction, from the top of the text.
RowsOf(f) ==
  LET rows[i \in 1..Len(Text[f]) + 1] ==
        IF i = 1 THEN CFI_START(f) ELSE Directives(f, Text[f][i - 1], rows[i - 1])
  IN  [i \in 1..Len(Text[f]) + 1 |-> rows[i]]
MCTable == [f \in Fn |-> RowsOf(f)]

\* On entry to a function: those of Straight keep the discipline of the macros,
\* which is what the theorems of FrameProofs ask of a function.  Those of the two
\* findings do not: they save and return rightly (ReturnOK), but the rows of the
\* code behind their first return are not the rows of the places that jump there.
FollowsDiscipline == pc = 1 => (Disciplined(fn) <=> fn \in Straight)
=============================================================================

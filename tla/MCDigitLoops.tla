---------------------------- MODULE MCDigitLoops ----------------------------
(***************************************************************************)
(* Three buffers of two words; the output is the first, the operands are   *)
(* in place or beside it.                                                  *)
(***************************************************************************)
EXTENDS DigitLoops, SequencesExt

Lengths == 0..2
Shifts == 0..W
Word == {0, 1, 3, B \div 2, B - 1}

\* Calls of op with lengths k and n, which read the buffers in reads.
Shape(op, reads, ks, ns, xs, ys, ms, ws) ==
  { c \in [op : {op}, reads : {reads}, k : ks, n : ns, z : {0},
           x : xs, y : ys, m : ms, w : ws] :
      op \in TwoLengths \/ c.n = c.k }

InPlaceOrBeside == {0, 2}

MCCalls ==
  Shape("optadd", {"x", "y"}, Lengths, Lengths, InPlaceOrBeside, {0, 2, 4}, {4}, {0, 1, B - 1})
  \cup Shape("optsub", {"x", "y"}, Lengths, Lengths, InPlaceOrBeside, {0, 2, 4}, {4}, {0, 1})
  \cup Shape("optsubadd", {"x", "y"}, Lengths, Lengths, InPlaceOrBeside, {0, 4}, {4}, {0, 1, B - 1})
  \cup Shape("mux", {"x", "y"}, Lengths, Lengths, InPlaceOrBeside, {0, 4}, {4}, {0, 1})
  \cup UNION { Shape(op, {"x", "y", "m"}, {1, 2}, {1, 2}, InPlaceOrBeside, {0, 2}, {4}, {0}) :
               op \in {"modadd", "modsub"} }
  \cup Shape("moddouble", {"x", "m"}, {1, 2}, {1, 2}, InPlaceOrBeside, {4}, {4}, {0})
  \cup Shape("modoptneg", {"x", "m"}, {1, 2}, {1, 2}, InPlaceOrBeside, {4}, {0, 4}, {0, 1})
  \cup Shape("optneg", {"x"}, Lengths, Lengths, InPlaceOrBeside, {4}, {4}, {0, 1})
  \cup Shape("cmul", {"x"}, Lengths, Lengths, InPlaceOrBeside, {4}, {4}, Word)
  \cup UNION { Shape(op, {"z", "x"}, Lengths, Lengths, InPlaceOrBeside, {4}, {4}, Word) :
               op \in {"cmadd", "cmnegadd"} }
  \cup Shape("muladd10", {"z"}, Lengths, Lengths, {0}, {4}, {4}, Word)
  \cup Shape("normalize", {"z"}, 0..3, 0..3, {0}, {4}, {4}, {0})
  \cup UNION { Shape(op, {"x"}, Lengths, Lengths, InPlaceOrBeside, {4}, {4}, Shifts) :
               op \in {"shl_small", "shr_small"} }
  \cup Shape("copy", {"x"}, Lengths, Lengths, InPlaceOrBeside, {4}, {4}, {0})
  \cup Shape("pow2", {}, 0..3, 0..3, {0}, {4}, {4}, 0..(5 * W))
  \cup Shape("of_word", {}, 0..3, 0..3, {0}, {4}, {4}, Word)

OptnegCalls == { c \in MCCalls : c.op = "optneg" }

MCSamples == {0, 1, 3, B \div 2, B - 1}
=============================================================================

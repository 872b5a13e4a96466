--------------------------- MODULE MCBignumAddSub ---------------------------
(***************************************************************************)
(* Instances of BignumAddSub for TLC.  The output buffer is at 0; an input *)
(* is the output buffer, or lies in the words above it; both inputs may be *)
(* the same buffer.  Words that are not an input word hold B - 1, so that  *)
(* a stale word of the output buffer is visible.                           *)
(***************************************************************************)
EXTENDS BignumAddSub

CONSTANT XMax       \* bound on the lengths of the inputs

Pointers == {0, MaxLen, MaxLen + XMax}

InputWords(c) == Region(c.x, XLen(c)) \cup Region(c.y, YLen(c))

MCInit ==
  /\ \E op \in {"add", "sub"}, pp \in Lengths, mm \in 0 .. XMax, nn \in 0 .. XMax,
        xx \in {0, MaxLen}, yy \in Pointers :
       /\ args = [op |-> op, p |-> pp, z |-> 0, m |-> mm, x |-> xx,
                  n |-> nn, y |-> yy]
       /\ args \in Calls
  /\ \E d \in [InputWords(args) -> Digit] :
       mem0 = [w \in Addr |-> IF w \in InputWords(args) THEN d[w] ELSE B - 1]
  /\ mem = mem0
  /\ pc = "entry"
  /\ p = args.p /\ m = args.m /\ n = args.n
  /\ i = 0 /\ a = 0 /\ cf = 0 /\ ret = 0

MCSpec == MCInit /\ [][Next]_vars
MCFairSpec == MCSpec /\ WF_vars(Next)
=============================================================================

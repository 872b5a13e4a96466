------------------------------ MODULE MCFrames ------------------------------
(***************************************************************************)
(* One call of a function with a frame on the stack: a behaviour is that   *)
(* of the saves, restores and returns of one of the texts of MCCallFrames, *)
(* or that of the stores of mlkem_rej_uniform into its frame, and the      *)
(* variables of the other module rest.                                     *)
(***************************************************************************)
EXTENDS MCCallFrames, RejUniform

VARIABLE part     \* what is modelled of the call

\* A call that has returned, and a sampling that has not begun.
NoCall ==
  /\ fn = "bignum_add" /\ pc = 0 /\ depth = 0
  /\ mem = [s \in Slots |-> Junk] /\ regs = [q \in Kept[fn] |-> Junk]
NoSampling ==
  /\ label = "initial_zero" /\ remaining = 0
  /\ left = 0 /\ wp = 0 /\ found = 0 /\ count = 0 /\ i = 0
  /\ frame = <<>> /\ r = <<>> /\ read = 0 /\ accepted = <<>>

MCInit == \/ part = "call" /\ Init /\ NoSampling
          \/ part = "sampling" /\ RejInit /\ NoCall

MCNext ==
  /\ part' = part
  /\ \/ part = "call" /\ Next /\ UNCHANGED rejVars
     \/ part = "sampling" /\ RejNext /\ UNCHANGED vars

MCSpec == MCInit /\ [][MCNext]_<<part, vars, rejVars>>
=============================================================================

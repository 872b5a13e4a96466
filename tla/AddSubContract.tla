--------------------------- MODULE AddSubContract ---------------------------
(***************************************************************************)
(* What a caller of bignum_add or bignum_sub relies on: one atomic step    *)
(* that writes the output buffer, nothing else, and returns the carry.     *)
(***************************************************************************)
EXTENDS AddSubInterface

VARIABLES call,      \* the arguments
          memory,    \* the memory the caller sees
          result,    \* the value returned
          returned   \* whether the call has returned

cvars == <<call, memory, result, returned>>

Init == /\ call \in Calls
        /\ memory \in [Addr -> Digit]
        /\ result = 0
        /\ returned = FALSE

Return == /\ returned = FALSE
          /\ returned' = TRUE
          /\ memory' \in [Addr -> Digit]
          /\ result' \in {0, 1}
          /\ OnlyOutput(call, memory, memory', call.p)
          /\ Balance(call, memory, memory', call.p, result')
          /\ UNCHANGED call

Spec == Init /\ [][Return]_cvars
=============================================================================

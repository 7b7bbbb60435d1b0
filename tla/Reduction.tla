------------------------------ MODULE Reduction ------------------------------
(***************************************************************************)
(* What a DPU promises the host in task 4 of the third lab: every launch   *)
(* of the kernel ends with the sum of all blocks of the DPU's input in its *)
(* memory, each block counted once.                                        *)
(***************************************************************************)
EXTENDS Naturals

CONSTANT MaxBlocks   \* bound of the input of a DPU, in blocks

VARIABLES
  numBlocks,   \* the size of the input
  running,     \* the kernel has been launched and has not ended
  answer       \* what the host reads from the DPU when the kernel has ended

\* A sum counts how often each block has been added.
BlockIds == 0 .. MaxBlocks - 1
Zero == [b \in BlockIds |-> 0]
Total(n) == [b \in BlockIds |-> IF b < n THEN 1 ELSE 0]

Init ==
  /\ numBlocks \in 1 .. MaxBlocks
  /\ running = TRUE
  /\ answer = Zero

End ==
  /\ running
  /\ running' = FALSE
  /\ answer' = Total(numBlocks)
  /\ UNCHANGED numBlocks

\* The host launches the kernel once per repetition, on the same input.
Launch ==
  /\ ~ running
  /\ running' = TRUE
  /\ answer' = Zero
  /\ UNCHANGED numBlocks

Next == End \/ Launch

Spec == Init /\ [][Next]_<<numBlocks, running, answer>>
=============================================================================

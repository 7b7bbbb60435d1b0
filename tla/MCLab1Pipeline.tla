--------------------------- MODULE MCLab1Pipeline ---------------------------
(***************************************************************************)
(* Programs of four instructions, which the pc runs through in a circle:   *)
(* combinations of a producer, two consumers and an end.  Registers 1 and  *)
(* 2 hold 1 and 2; words have four values, memory two words.               *)
(***************************************************************************)
EXTENDS Lab1Pipeline

I(op, d, s1, s2, imm) == [op |-> op, d |-> d, s1 |-> s1, s2 |-> s2, imm |-> imm]

Producers ==
    {I("addiu", 1, 1, 0, 1), I("lw", 1, 2, 0, 0), I("lh", 1, 2, 0, 1), I("mult", 0, 1, 2, 0),
     I("divu", 0, 2, 1, 0), I("jal", 2, 0, 0, 2)}

Consumers ==
    {I("addu", 1, 1, 2, 0), I("subu", 2, 2, 1, 0), I("sw", 0, 1, 2, 0), I("sh", 0, 1, 2, 1),
     I("beq", 0, 1, 2, 0), I("mflo", 2, 0, 0, 0), I("mthi", 0, 1, 0, 0), I("lhu", 2, 1, 0, 0),
     I("multu", 0, 1, 2, 0)}

Middles ==
    {I("mfhi", 1, 0, 0, 0), I("bne", 0, 1, 2, 0), I("slt", 2, 1, 2, 0), I("sw", 0, 2, 1, 1),
     I("jr", 0, 1, 0, 0), I("syscall", 0, 2, 0, 0), I("mtlo", 0, 2, 0, 0),
     I("sltu", 2, 1, 2, 0), I("slti", 1, 1, 0, 3), I("bltzal", 2, 1, 0, 1)}

Ends == {I("syscall", 0, 2, 0, 0), I("blez", 0, 2, 0, 1), I("jalr", 1, 2, 0, 0), I("j", 0, 0, 0, 0),
         I("bgtz", 0, 1, 0, 2), I("bgez", 0, 2, 0, 1)}

Programs4(first, second, third, last) ==
    {[k \in 0 .. 3 |-> CASE k = 0 -> p [] k = 1 -> c [] k = 2 -> m [] k = 3 -> e] :
        p \in first, c \in second, m \in third, e \in last}

OfOps(instructions, ops) == {i \in instructions : i.op \in ops}

MCPrograms ==
    Programs4(Producers, Consumers, OfOps(Middles, {"mfhi", "bne", "sw"}), OfOps(Ends, {"syscall", "j"}))
      \cup Programs4(OfOps(Producers, {"lw", "mult"}), OfOps(Consumers, {"addu", "beq"}), Middles, Ends)

MCStartRegs == [r \in 0 .. 2 |-> r]
MCStartMemory == [w \in 0 .. 1 |-> 3 - w]
=============================================================================

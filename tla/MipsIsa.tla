------------------------------- MODULE MipsIsa -------------------------------
(***************************************************************************)
(* What the pipeline of lab1 promises: the instructions of a program are   *)
(* executed one after the other, each completely.  An exit syscall does    *)
(* not stop the processor at once: some instructions behind it may still   *)
(* be executed, and when it retires the pc is set to it or behind it, with *)
(* effect at once or after the next of those instructions.                 *)
(***************************************************************************)
EXTENDS MipsSemantics

VARIABLES
    program,   \* the instruction at each pc
    pc, regs, hilo, memory,
    exit       \* the pc of the first exit syscall executed, or NoExit

vars == <<program, pc, regs, hilo, memory, exit>>

NoExit == -1

Init ==
    /\ pc = 0
    /\ exit = NoExit

ExitPcs == IF exit = NoExit THEN {} ELSE {exit, (exit + 1) % WordRange}

Execute ==
    LET i == program[pc]
        a == regs[i.s1]
        b == regs[i.s2]
        address == Address(i, a)
        word == memory[WordOf(address)]
    IN  /\ regs' = Written(regs, i.d, IF IsLoad(i) THEN Loaded(i, word, address)
                                      ELSE Result(i, pc, a, b, hilo))
        /\ hilo' = HiLoAfter(i, a, b, hilo)
        /\ memory' = IF IsStore(i) THEN [memory EXCEPT ![WordOf(address)] = Stored(i, word, address, b)]
                     ELSE memory
        /\ pc' \in {IF BranchTaken(i, a, b) THEN BranchDest(i, a) ELSE (pc + 1) % WordRange} \cup ExitPcs
        /\ exit' = IF exit = NoExit /\ IsExit(i, a) THEN pc ELSE exit
        /\ UNCHANGED program

Exit ==
    /\ pc' \in ExitPcs
    /\ UNCHANGED <<program, regs, hilo, memory, exit>>

Next == Execute \/ Exit

Spec == Init /\ [][Next]_vars
=============================================================================

---------------------------- MODULE MipsSemantics ----------------------------
(***************************************************************************)
(* lab1: what the instructions compute (pipe_stage_execute, the byte lanes *)
(* of pipe_stage_mem), without the pipeline.  An instruction has an        *)
(* operation, its registers s1, s2 and d (0 stands for none, as register 0 *)
(* is never written) and an immediate or a branch target.  A word is two   *)
(* halves of Half values each; a pc is a word number and wraps around, an  *)
(* address counts halves.                                                  *)
(***************************************************************************)
EXTENDS Integers

CONSTANTS
    Half,        \* the values of a half word, 2^16 in the code
    NumRegs,     \* the registers
    V0,          \* the register a syscall reads
    ExitCode     \* 0xA, the syscall that stops the program

ASSUME MipsAssumption ==
    /\ Half \in Nat /\ Half >= 2 /\ Half % 2 = 0
    /\ NumRegs \in Nat /\ V0 \in 1 .. NumRegs - 1
    /\ ExitCode \in Nat

WordRange == Half * Half
Words == 0 .. WordRange - 1
Registers == 0 .. NumRegs - 1

Signed(v) == IF v >= WordRange \div 2 THEN v - WordRange ELSE v
Truth(p) == IF p THEN 1 ELSE 0

IsLoad(i) == i.op \in {"lw", "lh", "lhu"}
IsStore(i) == i.op \in {"sw", "sh"}
IsMem(i) == IsLoad(i) \/ IsStore(i)
UsesMultiplier(i) == i.op \in {"mult", "multu", "divu"}
NeedsHiLo(i) == i.op \in {"mfhi", "mflo", "mthi", "mtlo"}
IsExit(i, a) == i.op = "syscall" /\ a = ExitCode

\* The value for the destination of all but the loads.
Result(i, pc, a, b, hilo) ==
    CASE i.op = "addu"  -> (a + b) % WordRange
      [] i.op = "subu"  -> (a - b) % WordRange
      [] i.op = "slt"   -> Truth(Signed(a) < Signed(b))
      [] i.op = "sltu"  -> Truth(a < b)
      [] i.op = "slti"  -> Truth(Signed(a) < Signed(i.imm))
      [] i.op = "addiu" -> (a + i.imm) % WordRange
      [] i.op = "mfhi"  -> hilo.hi
      [] i.op = "mflo"  -> hilo.lo
      [] i.op \in {"jal", "jalr", "bltzal", "bgezal"} -> (pc + 1) % WordRange
      [] OTHER -> 0

\* HI and LO; a division by 0 clears both.
HiLoAfter(i, a, b, hilo) ==
    LET Split(product) == [hi |-> (product \div WordRange) % WordRange, lo |-> product % WordRange]
    IN  CASE i.op = "mult"  -> Split(Signed(a) * Signed(b))
          [] i.op = "multu" -> Split(a * b)
          [] i.op = "divu"  -> IF b = 0 THEN [hi |-> 0, lo |-> 0] ELSE [hi |-> a % b, lo |-> a \div b]
          [] i.op = "mthi"  -> [hilo EXCEPT !.hi = a]
          [] i.op = "mtlo"  -> [hilo EXCEPT !.lo = a]
          [] OTHER -> hilo

BranchTaken(i, a, b) ==
    CASE i.op = "beq"  -> a = b
      [] i.op = "bne"  -> a # b
      [] i.op = "blez" -> Signed(a) <= 0
      [] i.op = "bgtz" -> Signed(a) > 0
      [] i.op \in {"bltz", "bltzal"} -> Signed(a) < 0
      [] i.op \in {"bgez", "bgezal"} -> Signed(a) >= 0
      [] i.op \in {"j", "jal", "jr", "jalr"} -> TRUE
      [] OTHER -> FALSE

BranchDest(i, a) == IF i.op \in {"jr", "jalr"} THEN a ELSE i.imm

Address(i, a) == (a + i.imm) % WordRange
WordOf(address) == address \div 2

Loaded(i, word, address) ==
    LET half == IF address % 2 = 1 THEN word \div Half ELSE word % Half
    IN  CASE i.op = "lw"  -> word
          [] i.op = "lhu" -> half
          [] i.op = "lh"  -> IF half >= Half \div 2 THEN half + WordRange - Half ELSE half

Stored(i, word, address, value) ==
    IF i.op = "sw" THEN value
    ELSE IF address % 2 = 1 THEN (word % Half) + Half * (value % Half)
    ELSE Half * (word \div Half) + (value % Half)

Written(regs, register, value) == IF register = 0 THEN regs ELSE [regs EXCEPT ![register] = value]
=============================================================================

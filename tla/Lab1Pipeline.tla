---------------------------- MODULE Lab1Pipeline ----------------------------
(***************************************************************************)
(* The timing simulator of lab1 (pipe.c): five stages with a slot before   *)
(* each but the first, an instruction and a data cache that stall fetch    *)
(* and MEM on a miss, a multiplier that stalls readers of HI and LO, a     *)
(* bypass into execute, and branches resolved in execute.  pipe_cycle runs *)
(* write back, MEM, execute, decode, fetch and the recovery in this order, *)
(* one action each.                                                        *)
(***************************************************************************)
EXTENDS MipsSemantics, ReplacementPolicies

CONSTANTS
    Programs,      \* the programs: functions from Words to instructions
    Policies,      \* the replacement policies of the builds
    StartRegs,     \* the registers when a program is started
    StartMemory,   \* the data memory when a program is started
    BlockWords,    \* words per block of the instruction cache
    DramCycles,    \* DRAM_ACCESS_CYCLES
    MultCycles,    \* 4, the latency of a multiplication
    DivCycles      \* 32, the latency of a division

ASSUME Lab1Assumption ==
    /\ Policies \subseteq {"LRU", "RRIP", "RAND"}
    /\ BlockWords \in Nat \ {0} /\ DramCycles \in Nat \ {0}
    /\ MultCycles \in Nat /\ DivCycles \in Nat

\* Every word of the memory decodes to an instruction, one that does nothing at worst.
ASSUME ProgramsAssumption ==
    Programs \subseteq [Words -> [op : STRING, d : Registers, s1 : Registers, s2 : Registers, imm : Words]]

ASSUME StartAssumption ==
    /\ StartRegs \in [Registers -> Words] /\ StartRegs[0] = 0
    /\ StartMemory \in [{WordOf(address) : address \in Words} -> Words]

VARIABLES
    program, policy,
    phase,             \* the stage that runs next, "off" once the simulator stops
    pc,                \* pipe.PC
    decodeOp,          \* the pcs of the ops in the slots, or NoOp
    executeOp,
    memOp, wbOp,       \* ops with their operands and results, or EmptySlot
    regs, hilo, multiplierStall,
    recovery,          \* branch_dest while branch_recover is 1, else NoOp
    memory,
    icache, dcache, fetchStall, memStall,
    runBit,
    exitAt             \* history: the pc of the exit syscall that has retired, or NoOp

slots == <<decodeOp, executeOp, memOp, wbOp>>
machine == <<regs, hilo, multiplierStall, memory>>
caches == <<icache, dcache, fetchStall, memStall>>
control == <<runBit, exitAt>>
vars == <<program, policy, phase, pc, slots, machine, recovery, caches, control>>

NoOp == -1
EmptySlot == [pc |-> NoOp, a |-> 0, b |-> 0, address |-> 0, value |-> 0]

InstructionOf(op) == program[op.pc]

Init ==
    /\ program \in Programs /\ policy \in Policies
    /\ phase = "wb"
    /\ pc = 0
    /\ decodeOp = NoOp /\ executeOp = NoOp /\ memOp = EmptySlot /\ wbOp = EmptySlot
    /\ regs = StartRegs /\ hilo = [hi |-> 0, lo |-> 0] /\ multiplierStall = 0
    /\ recovery = NoOp
    /\ memory = StartMemory
    /\ icache = AllocCache(policy) /\ dcache = AllocCache(policy)
    /\ fetchStall = 0 /\ memStall = 0
    /\ runBit = TRUE /\ exitAt = NoOp

-----------------------------------------------------------------------------

\* pipe_stage_wb: write the register; an exit syscall stops the simulator after this
\* cycle and sets the pc so that fetch advances it, unless fetch waits for memory.
PipeStageWb ==
    /\ phase = "wb" /\ phase' = "mem"
    /\ wbOp' = EmptySlot
    /\ IF wbOp = EmptySlot THEN UNCHANGED <<pc, regs, control>>
       ELSE /\ regs' = Written(regs, InstructionOf(wbOp).d, wbOp.value)
            /\ IF IsExit(InstructionOf(wbOp), wbOp.a)
               THEN /\ pc' = IF fetchStall > 0 THEN (wbOp.pc + 1) % WordRange ELSE wbOp.pc
                    /\ runBit' = FALSE /\ exitAt' = wbOp.pc
               ELSE UNCHANGED <<pc, control>>
    /\ UNCHANGED <<program, policy, decodeOp, executeOp, memOp, hilo, multiplierStall, memory,
                   recovery, caches>>

-----------------------------------------------------------------------------

\* The block of the data cache that the op in MEM needs, one word per block.
MemBlock == WordOf(memOp.address)

MemStalled ==
    /\ memOp = EmptySlot \/ memStall > 0
    /\ memStall' = IF memOp # EmptySlot THEN memStall - 1 ELSE memStall
    /\ UNCHANGED <<memOp, wbOp, memory, dcache>>

\* The block is in the cache at once; the stage waits and then accesses it again.
MemMisses ==
    /\ memOp # EmptySlot /\ memStall = 0
    /\ IsMem(InstructionOf(memOp)) /\ ~ IsHit(dcache, MemBlock)
    /\ dcache' \in MissCaches(policy, dcache, MemBlock)
    /\ memStall' = DramCycles - 1
    /\ UNCHANGED <<memOp, wbOp, memory>>

MemCompletes ==
    LET i == InstructionOf(memOp)
        word == memory[WordOf(memOp.address)]
    IN  /\ memOp # EmptySlot /\ memStall = 0
        /\ IsMem(i) => IsHit(dcache, MemBlock)
        /\ dcache' = IF IsMem(i) THEN HitCache(policy, dcache, MemBlock) ELSE dcache
        /\ wbOp' = IF IsLoad(i) THEN [memOp EXCEPT !.value = Loaded(i, word, memOp.address)] ELSE memOp
        /\ memory' = IF IsStore(i)
                     THEN [memory EXCEPT ![WordOf(memOp.address)] = Stored(i, word, memOp.address, memOp.b)]
                     ELSE memory
        /\ memOp' = EmptySlot
        /\ UNCHANGED memStall

\* pipe_stage_mem
PipeStageMem ==
    /\ phase = "mem" /\ phase' = "execute"
    /\ MemStalled \/ MemMisses \/ MemCompletes
    /\ UNCHANGED <<program, policy, pc, decodeOp, executeOp, regs, hilo, multiplierStall,
                   recovery, icache, fetchStall, control>>

-----------------------------------------------------------------------------

\* Mutation of Operand: no bypass.
OperandOfFile(register) == IF register = 0 THEN 0 ELSE regs[register]

\* A source register.  MEM is empty when an op executes, so that only the op on its
\* way to write back is bypassed.
Operand(register) ==
    IF register = 0 THEN 0
    ELSE IF wbOp # EmptySlot /\ InstructionOf(wbOp).d = register THEN wbOp.value
    ELSE regs[register]

MultiplierBusy == IF multiplierStall > 0 THEN multiplierStall - 1 ELSE 0

\* An op waits while MEM is occupied, or for the multiplier.
ExecuteStalled ==
    \/ memOp # EmptySlot \/ executeOp = NoOp
    \/ NeedsHiLo(program[executeOp]) /\ MultiplierBusy > 0

Executes ==
    LET i == program[executeOp]
        a == Operand(i.s1)
        b == Operand(i.s2)
    IN  /\ memOp' = [pc |-> executeOp, a |-> a, b |-> b, address |-> Address(i, a),
                     value |-> Result(i, executeOp, a, b, hilo)]
        /\ executeOp' = NoOp
        /\ hilo' = HiLoAfter(i, a, b, hilo)
        /\ multiplierStall' = IF ~ UsesMultiplier(i) THEN MultiplierBusy
                              ELSE IF i.op = "divu" THEN DivCycles ELSE MultCycles
        /\ recovery' = IF BranchTaken(i, a, b) /\ recovery = NoOp THEN BranchDest(i, a) ELSE recovery

\* pipe_stage_execute and pipe_recover
PipeStageExecute ==
    /\ phase = "execute" /\ phase' = "decode"
    /\ IF ExecuteStalled
       THEN multiplierStall' = MultiplierBusy /\ UNCHANGED <<memOp, executeOp, hilo, recovery>>
       ELSE Executes
    /\ UNCHANGED <<program, policy, pc, decodeOp, wbOp, regs, memory, caches, control>>

\* pipe_stage_decode; what it extracts is the instruction itself here.
PipeStageDecode ==
    /\ phase = "decode" /\ phase' = "fetch"
    /\ IF executeOp = NoOp THEN executeOp' = decodeOp /\ decodeOp' = NoOp
       ELSE UNCHANGED <<executeOp, decodeOp>>
    /\ UNCHANGED <<program, policy, pc, memOp, wbOp, machine, recovery, caches, control>>

-----------------------------------------------------------------------------

CodeBlock == pc \div BlockWords

FetchStalled ==
    /\ decodeOp # NoOp \/ fetchStall > 0
    /\ fetchStall' = IF decodeOp = NoOp THEN fetchStall - 1 ELSE fetchStall
    /\ UNCHANGED <<pc, decodeOp, icache>>

FetchMisses ==
    /\ decodeOp = NoOp /\ fetchStall = 0 /\ ~ IsHit(icache, CodeBlock)
    /\ icache' \in MissCaches(policy, icache, CodeBlock)
    /\ fetchStall' = DramCycles - 1
    /\ UNCHANGED <<pc, decodeOp>>

Fetches ==
    /\ decodeOp = NoOp /\ fetchStall = 0 /\ IsHit(icache, CodeBlock)
    /\ icache' = HitCache(policy, icache, CodeBlock)
    /\ decodeOp' = pc
    /\ pc' = (pc + 1) % WordRange
    /\ UNCHANGED fetchStall

\* pipe_stage_fetch
PipeStageFetch ==
    /\ phase = "fetch" /\ phase' = "recover"
    /\ FetchStalled \/ FetchMisses \/ Fetches
    /\ UNCHANGED <<program, policy, executeOp, memOp, wbOp, machine, recovery, dcache, memStall, control>>

\* The end of pipe_cycle: a taken branch redirects fetch and flushes the two ops behind
\* it; the miss fetch may wait for is waited for.  go() runs cycles until RUN_BIT is 0.
BranchRecovery ==
    /\ phase = "recover" /\ phase' = IF runBit THEN "wb" ELSE "off"
    /\ IF recovery = NoOp THEN UNCHANGED <<pc, decodeOp, executeOp, recovery>>
       ELSE pc' = recovery /\ decodeOp' = NoOp /\ executeOp' = NoOp /\ recovery' = NoOp
    /\ UNCHANGED <<program, policy, memOp, wbOp, machine, caches, control>>

Stopped == phase = "off" /\ UNCHANGED vars

Next ==
    \/ PipeStageWb \/ PipeStageMem \/ PipeStageExecute \/ PipeStageDecode \/ PipeStageFetch
    \/ BranchRecovery
    \/ Stopped

Spec == Init /\ [][Next]_vars

\* The loop of go() runs one stage after the other.
FairSpec == Spec /\ WF_phase(Next)

-----------------------------------------------------------------------------

Cached(cache) ==
    \A s \in Sets :
        /\ {cache[s][w].rank : w \in Ways} \subseteq 0 .. (IF policy = "RRIP" THEN DistantRrpv ELSE NumWays - 1)
        /\ policy = "LRU" => \A v, w \in Ways : cache[s][v].rank = cache[s][w].rank => v = w
        /\ \A v, w \in Ways : (cache[s][v].valid /\ cache[s][w].valid /\ v # w) => cache[s][v].block # cache[s][w].block

\* The state has its type.  In both caches no set holds a block twice, RRPVs keep their
\* two bits, and under LRU the recencies of a set order its ways, so that a full set
\* always has the victim that cache_access searches (cache.c:133).
TypeOK ==
    /\ phase \in {"wb", "mem", "execute", "decode", "fetch", "recover", "off"}
    /\ pc \in Words /\ {decodeOp, executeOp, recovery, exitAt} \subseteq Words \cup {NoOp}
    /\ \A op \in {memOp, wbOp} \ {EmptySlot} : {op.pc, op.a, op.b, op.address, op.value} \subseteq Words
    /\ regs \in [Registers -> Words] /\ regs[0] = 0
    /\ hilo \in [hi : Words, lo : Words]
    /\ multiplierStall \in 0 .. MultCycles + DivCycles
    /\ memory \in [DOMAIN StartMemory -> Words]
    /\ fetchStall \in 0 .. DramCycles - 1 /\ memStall \in 0 .. DramCycles - 1
    /\ Cached(icache) /\ Cached(dcache)

(***************************************************************************)
(* The refinement mapping: an instruction counts as executed when it       *)
(* leaves the execute stage, since what is behind it there is never        *)
(* squashed.  What is on its way to memory and registers is added to them. *)
(***************************************************************************)
AfterMem ==
    IF memOp # EmptySlot /\ IsStore(InstructionOf(memOp))
    THEN [memory EXCEPT ![MemBlock] = Stored(InstructionOf(memOp), @, memOp.address, memOp.b)]
    ELSE memory

AfterWb == IF wbOp = EmptySlot THEN regs ELSE Written(regs, InstructionOf(wbOp).d, wbOp.value)

AfterBoth ==
    IF memOp = EmptySlot THEN AfterWb
    ELSE LET i == InstructionOf(memOp)
         IN  Written(AfterWb, i.d, IF IsLoad(i) THEN Loaded(i, memory[MemBlock], memOp.address) ELSE memOp.value)

\* The instruction to be executed next.
NextPc ==
    IF recovery # NoOp THEN recovery
    ELSE IF executeOp # NoOp THEN executeOp
    ELSE IF decodeOp # NoOp THEN decodeOp
    ELSE pc

ExitOnItsWay ==
    IF exitAt # NoOp THEN exitAt
    ELSE IF wbOp # EmptySlot /\ IsExit(InstructionOf(wbOp), wbOp.a) THEN wbOp.pc
    ELSE IF memOp # EmptySlot /\ IsExit(InstructionOf(memOp), memOp.a) THEN memOp.pc
    ELSE NoOp

Processor == INSTANCE MipsIsa
           WITH pc <- NextPc, regs <- AfterBoth, memory <- AfterMem, exit <- ExitOnItsWay

\* The pipeline executes programs as MipsIsa does: stalls, bypasses, the multiplier,
\* misses and squashed instructions change the time a program takes and nothing else
\* (pipe.c:86-97, 278-290, 305-330, 405-430).
ImplementsIsa == Processor!Spec

\* The pipeline never stops by itself: until the exit syscall retires, instructions
\* reach write back again and again, whatever the stalls (pipe.c:168, 325, 723) and the
\* policy, whose search for a victim ends (cache.c:153).
Progress == []<>(wbOp # EmptySlot \/ ~ runBit)
=============================================================================

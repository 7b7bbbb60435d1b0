--------------------------- MODULE TaskletReduction ---------------------------
(***************************************************************************)
(* The kernel of task 4 of the third lab (lab3/task4/dpu/task.c) on one    *)
(* DPU: NR_TASKLETS hardware threads add up the blocks dealt out to them   *)
(* and combine their partial sums by one of four strategies, chosen when   *)
(* the kernel is compiled.  An action is one access to shared memory or    *)
(* one synchronisation, so x += y is a load and a store.                   *)
(*                                                                         *)
(* barrier_wait, mutex_lock and the handshakes belong to the UPMEM runtime *)
(* and are modelled from the way the kernel uses them.                     *)
(***************************************************************************)
EXTENDS Integers, FiniteSets

CONSTANTS
  NumTasklets,   \* NR_TASKLETS, 16
  MaxBlocks,     \* bound of the DPU's input, in blocks of BLOCK_SIZE bytes
  MaxLaunches    \* bound of the repetitions of the host program

ASSUME TaskletAssumption ==
  /\ NumTasklets \in Nat \ {0}
  /\ MaxBlocks \in Nat \ {0}
  /\ MaxLaunches \in Nat \ {0}

VARIABLES
  final,       \* which of the FINAL_ macros is defined
  numBlocks,   \* DPU_INPUT_ARGUMENTS.size
  pc,          \* where each tasklet is
  loop,        \* its loop variable: byte_index in blocks, stride, or i
  register,    \* the value it has loaded and not stored yet
  partials,    \* tasklet_partials
  accum,       \* mutex_accum
  lock,        \* the tasklet that holds my_mutex
  firstBlock,  \* the first block in MRAM, overwritten by the result
  launches     \* how often the host has launched the kernel

locals == <<pc, loop, register>>
shared == <<partials, accum, lock, firstBlock>>
build == <<final, numBlocks>>
vars == <<build, locals, shared, launches>>

Tasklets == 0 .. NumTasklets - 1
Nobody == -1

Strategies == {"single", "tree_barrier", "tree_handshake", "mutex"}

\* A sum counts how often each block has been added.
BlockIds == 0 .. MaxBlocks - 1
Zero == [b \in BlockIds |-> 0]
Plus(v, w) == [b \in BlockIds |-> v[b] + w[b]]
JustBlock(block) == [Zero EXCEPT ![block] = 1]

Init ==
  /\ final \in Strategies
  /\ numBlocks \in 1 .. MaxBlocks
  /\ pc = [t \in Tasklets |-> "enter"]
  /\ loop = [t \in Tasklets |-> 0]
  /\ register = [t \in Tasklets |-> Zero]
  /\ partials = [t \in Tasklets |-> Zero]
  /\ accum = Zero
  /\ lock = Nobody
  /\ firstBlock = JustBlock(0)
  /\ launches = 1

Goto(t, label) == pc' = [pc EXCEPT ![t] = label]

-----------------------------------------------------------------------------
(***************************************************************************)
(* main_kernel1 up to the final reduction.                                 *)
(***************************************************************************)
\* The accumulator is not reset.
EnterKeepAccum(t) ==
  /\ pc[t] = "enter"
  /\ Goto(t, "start_barrier")
  /\ UNCHANGED <<build, loop, register, shared, launches>>

\* Tasklet 0 resets the accumulator, then all wait for it.
Enter(t) ==
  /\ pc[t] = "enter"
  /\ accum' = IF t = 0 /\ final = "mutex" THEN Zero ELSE accum
  /\ Goto(t, "start_barrier")
  /\ UNCHANGED <<build, loop, register, partials, lock, firstBlock, launches>>

ClearPartial(t) ==
  /\ pc[t] = "clear"
  /\ partials' = [partials EXCEPT ![t] = Zero]
  /\ loop' = [loop EXCEPT ![t] = t]
  /\ Goto(t, "add")
  /\ UNCHANGED <<build, register, accum, lock, firstBlock, launches>>

\* Blocks are dealt out round robin.  Only this tasklet uses its partial sum.
AddBlock(t) ==
  /\ pc[t] = "add" /\ loop[t] < numBlocks
  /\ partials' = [partials EXCEPT
       ![t] = Plus(@, IF loop[t] = 0 THEN firstBlock ELSE JustBlock(loop[t]))]
  /\ loop' = [loop EXCEPT ![t] = @ + NumTasklets]
  /\ UNCHANGED <<build, pc, register, accum, lock, firstBlock, launches>>

\* The tree of barriers without the one before its first level.
FinalizeReductionUnordered(t) ==
  CASE final = "mutex" -> "lock"
    [] final = "single" -> "final_barrier"
    [] OTHER -> "level"

\* Where the strategy begins.
FinalizeReduction(t) ==
  CASE final = "mutex" -> "lock"
    [] final = "tree_handshake" -> "level"
    [] OTHER -> "final_barrier"

AllBlocksAdded(t) ==
  /\ pc[t] = "add" /\ loop[t] >= numBlocks
  /\ Goto(t, FinalizeReduction(t))
  /\ loop' = [loop EXCEPT ![t] = 1]
  /\ UNCHANGED <<build, register, shared, launches>>

-----------------------------------------------------------------------------
(***************************************************************************)
(* barrier_wait: when all tasklets wait, all go on.                        *)
(***************************************************************************)
Barriers ==
  {"start_barrier", "final_barrier", "single_barrier", "level_barrier", "mutex_barrier"}

AfterBarrier(t) ==
  CASE pc[t] = "start_barrier" -> "clear"
    [] pc[t] = "final_barrier" ->
         IF final = "single" THEN "single_barrier" ELSE "level"
    [] pc[t] = "single_barrier" -> IF t = 0 THEN "sum" ELSE "write"
    [] pc[t] = "level_barrier" -> "level"
    [] pc[t] = "mutex_barrier" -> "return"

OpenBarrier ==
  /\ \A t \in Tasklets : pc[t] \in Barriers
  /\ pc' = [t \in Tasklets |-> AfterBarrier(t)]
  /\ loop' = [t \in Tasklets |->
       CASE pc[t] = "single_barrier" -> 0
         [] pc[t] = "level_barrier" -> 2 * loop[t]
         [] OTHER -> loop[t]]
  /\ register' = [t \in Tasklets |-> Zero]
  /\ UNCHANGED <<build, shared, launches>>

-----------------------------------------------------------------------------
(***************************************************************************)
(* reduce_single_tasklet: tasklet 0 adds up all partial sums.              *)
(***************************************************************************)
AddPartial(t) ==
  /\ pc[t] = "sum"
  /\ register' = [register EXCEPT ![t] = Plus(@, partials[loop[t]])]
  /\ loop' = [loop EXCEPT ![t] = @ + 1]
  /\ Goto(t, IF loop[t] + 1 < NumTasklets THEN "sum" ELSE "write")
  /\ UNCHANGED <<build, shared, launches>>

(***************************************************************************)
(* reduce_tree_barrier and reduce_tree_handshake: at stride s, a tasklet   *)
(* that is a multiple of 2s merges the sum of its partner s further on.    *)
(***************************************************************************)
LevelsLeft(t) == loop[t] < NumTasklets
Merges(t) == t % (2 * loop[t]) = 0
Partner(t) == t + loop[t]

\* The last tasklet is nobody's partner.
HasPartnerButLast(t) == Merges(t) /\ Partner(t) < NumTasklets - 1

HasPartner(t) == Merges(t) /\ Partner(t) < NumTasklets

\* Where the loop goes on after its body.
NextLevel(t) == IF final = "tree_barrier" THEN "level_barrier" ELSE "level"

AtLevel(t) ==
  /\ pc[t] = "level"
  /\ \/ ~ LevelsLeft(t) /\ Goto(t, "return") /\ UNCHANGED loop
     \/ /\ LevelsLeft(t) /\ final = "tree_barrier"
        /\ Goto(t, IF HasPartner(t) THEN "load" ELSE "level_barrier")
        /\ UNCHANGED loop
     \/ /\ LevelsLeft(t) /\ final = "tree_handshake"
        /\ Merges(t) /\ ~ HasPartner(t)
        /\ loop' = [loop EXCEPT ![t] = 2 * @] /\ UNCHANGED pc
  /\ UNCHANGED <<build, register, shared, launches>>

\* handshake_wait_for(partner) meets the partner's handshake_notify; the partner
\* leaves its loop.
Handshake(t) ==
  /\ pc[t] = "level" /\ final = "tree_handshake"
  /\ LevelsLeft(t) /\ HasPartner(t)
  /\ LET p == Partner(t)
     IN  /\ pc[p] = "level" /\ LevelsLeft(p) /\ ~ Merges(p)
         /\ pc' = [pc EXCEPT ![t] = "load", ![p] = "return"]
  /\ UNCHANGED <<build, loop, register, shared, launches>>

LoadPartner(t) ==
  /\ pc[t] = "load" /\ final # "mutex"
  /\ register' = [register EXCEPT ![t] = Plus(partials[t], partials[Partner(t)])]
  /\ Goto(t, "store")
  /\ UNCHANGED <<build, loop, shared, launches>>

StorePartial(t) ==
  /\ pc[t] = "store" /\ final # "mutex"
  /\ partials' = [partials EXCEPT ![t] = register[t]]
  /\ Goto(t, NextLevel(t))
  /\ loop' = [loop EXCEPT ![t] = IF final = "tree_barrier" THEN @ ELSE 2 * @]
  /\ UNCHANGED <<build, register, accum, lock, firstBlock, launches>>

-----------------------------------------------------------------------------
(***************************************************************************)
(* reduce_mutex.                                                           *)
(***************************************************************************)
Lock(t) ==
  /\ pc[t] = "lock" /\ lock = Nobody
  /\ lock' = t
  /\ Goto(t, "load")
  /\ UNCHANGED <<build, loop, register, partials, accum, firstBlock, launches>>

LoadAccum(t) ==
  /\ pc[t] = "load" /\ final = "mutex"
  /\ register' = [register EXCEPT ![t] = Plus(accum, partials[t])]
  /\ Goto(t, "store")
  /\ UNCHANGED <<build, loop, shared, launches>>

StoreAccum(t) ==
  /\ pc[t] = "store" /\ final = "mutex"
  /\ accum' = register[t]
  /\ Goto(t, "unlock")
  /\ UNCHANGED <<build, loop, register, partials, lock, firstBlock, launches>>

\* Then all wait until every tasklet has added its sum.
Unlock(t) ==
  /\ pc[t] = "unlock"
  /\ lock' = Nobody
  /\ Goto(t, "mutex_barrier")
  /\ UNCHANGED <<build, loop, register, partials, accum, firstBlock, launches>>

-----------------------------------------------------------------------------
(***************************************************************************)
(* The end of the kernel, and the host.                                    *)
(***************************************************************************)
Return(t) ==
  /\ pc[t] = "return"
  /\ register' = [register EXCEPT
       ![t] = IF final = "mutex" THEN accum ELSE partials[t]]
  /\ Goto(t, "write")
  /\ UNCHANGED <<build, loop, shared, launches>>

\* Tasklet 0 writes the result over the beginning of the input.
WriteResult(t) ==
  /\ pc[t] = "write"
  /\ firstBlock' = IF t = 0 THEN register[t] ELSE firstBlock
  /\ Goto(t, "done")
  /\ UNCHANGED <<build, loop, register, partials, accum, lock, launches>>

AllDone == \A t \in Tasklets : pc[t] = "done"

\* The next repetition of the host: the input is copied to MRAM again, the
\* static variables of the kernel keep their values.
Launch ==
  /\ AllDone /\ launches < MaxLaunches
  /\ launches' = launches + 1
  /\ pc' = [t \in Tasklets |-> "enter"]
  /\ loop' = [t \in Tasklets |-> 0]
  /\ register' = [t \in Tasklets |-> Zero]
  /\ firstBlock' = JustBlock(0)
  /\ UNCHANGED <<build, partials, accum, lock>>

Step(t) ==
  \/ Enter(t) \/ ClearPartial(t) \/ AddBlock(t) \/ AllBlocksAdded(t)
  \/ AddPartial(t)
  \/ AtLevel(t) \/ Handshake(t) \/ LoadPartner(t) \/ StorePartial(t)
  \/ Lock(t) \/ LoadAccum(t) \/ StoreAccum(t) \/ Unlock(t)
  \/ Return(t) \/ WriteResult(t)

Next == (\E t \in Tasklets : Step(t)) \/ OpenBarrier \/ Launch

Spec == Init /\ [][Next]_vars

\* The DPU's pipeline gives every tasklet its turn.
FairSpec ==
  /\ Spec
  /\ \A t \in Tasklets : WF_vars(Step(t))
  /\ WF_vars(OpenBarrier)

-----------------------------------------------------------------------------
(***************************************************************************)
(* Properties.                                                             *)
(***************************************************************************)
Labels ==
  Barriers \cup
  {"enter", "clear", "add", "sum", "level", "load", "store", "lock", "unlock",
   "return", "write", "done"}

\* In no sum, wherever it is, has a block been counted twice.
Sum == [BlockIds -> 0 .. 1]

\* Every variable keeps its type; in particular no block is ever counted twice,
\* in this launch or from an earlier one.
TypeOK ==
  /\ final \in Strategies
  /\ numBlocks \in 1 .. MaxBlocks
  /\ pc \in [Tasklets -> Labels]
  /\ loop \in [Tasklets -> Nat]
  /\ register \in [Tasklets -> Sum]
  /\ partials \in [Tasklets -> Sum]
  /\ accum \in Sum
  /\ lock \in Tasklets \cup {Nobody}
  /\ firstBlock \in Sum
  /\ launches \in 1 .. MaxLaunches

\* The shared variables that the next step of a tasklet reads and writes.
Reads(t) ==
  CASE pc[t] = "sum" -> {<<"partial", loop[t]>>}
    [] pc[t] = "load" /\ final = "mutex" -> {<<"accum", 0>>, <<"partial", t>>}
    [] pc[t] = "load" /\ final # "mutex" ->
         {<<"partial", t>>, <<"partial", Partner(t)>>}
    [] pc[t] = "return" ->
         IF final = "mutex" THEN {<<"accum", 0>>} ELSE {<<"partial", t>>}
    [] pc[t] = "add" /\ loop[t] = 0 -> {<<"mram", 0>>}
    [] OTHER -> {}

Writes(t) ==
  CASE pc[t] = "enter" /\ final = "mutex" /\ t = 0 -> {<<"accum", 0>>}
    [] pc[t] \in {"clear", "add"} -> {<<"partial", t>>}
    [] pc[t] = "store" ->
         IF final = "mutex" THEN {<<"accum", 0>>} ELSE {<<"partial", t>>}
    [] pc[t] = "write" /\ t = 0 -> {<<"mram", 0>>}
    [] OTHER -> {}

\* No tasklet is about to write a shared variable while another is about to read
\* or write it: the barriers, handshakes and the mutex order every such pair.
RaceFree ==
  \A t, u \in Tasklets :
    t # u => Writes(t) \cap (Reads(u) \cup Writes(u)) = {}

Promise == INSTANCE Reduction WITH
  running <- ~ AllDone,
  answer <- IF AllDone THEN firstBlock ELSE Zero

\* Whatever the strategy and the interleaving, when the kernel has ended the
\* host finds the sum of all blocks, each counted once, in every launch.
ImplementsReduction == Promise!Spec

\* Every launch ends: no tasklet waits forever at a barrier, for the mutex or for
\* a handshake, also when the number of tasklets is no power of two.
EveryLaunchEnds == ~ AllDone ~> AllDone
=============================================================================

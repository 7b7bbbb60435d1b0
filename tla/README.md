# Verification of the computer architecture labs

This directory models and verifies programs of all five labs of this repository:
the timing simulators of labs 1 and 2, the reduction on DPUs of lab 3, the prefetchers of
lab 4 and a cache of the simulator they run in, and the memory controller, its schedulers and the frontend of lab 5. The
source is the reference; every definition is translated from it, and
`PROJECT.json` maps each one to the lines it stands for.

## 1. The system

| Lab | Program | State | Interaction | What is hard |
|---|---|---|---|---|
| 1 | MIPS pipeline with L1 caches (`lab1/src`) | pipeline slots, stall counters, cache sets | fetch and MEM call `cache_access`, which answers with a number of stall cycles | branch recovery while fetch stalls, three replacement policies |
| 2 | the same pipeline with L1, L2, MSHRs, DRAM (`lab2/src`) | slots, miss registers of the two stages, caches, 16 MSHRs, request queue, 8 banks | fetch and MEM share L2 and the MSHRs; the controller polls the MSHRs at the end of each cycle and answers through `done` | see below |
| 3 | AXPY and vector reduction on UPMEM DPUs (`lab3/task1..4`) | per tasklet partial results, an accumulator, MRAM blocks | tasklets synchronise by barrier, handshake or mutex; the host copies data and launches | data races, deadlock, repeated launches |
| 4 | prefetchers in ChampSim (`lab4/prefetcher`) | history buffers, offsets, scores, epochs | called by the cache on every access, fill and cycle | wrapping pointers, stale scores |
| 4 | ChampSim (`lab4/src`): cores, caches, page table walker, DRAM | per cache: tag checks, translation stash, MSHRs, write-backs, lines; channels between the levels | each component operates once a cycle; requests and answers pass through bounded channels | merging, forwarding and retrying at full queues |
| 5 | memory schedulers in Ramulator 2 (`lab5/src`) | request buffers, pending reads, LLC lines and MSHRs, blacklist, attained service | frontend, LLC, controller and plugins tick in turn and call each other back | buffers at their limit, out-of-order completion, starvation |

### Lab 2 in detail

`pipe_cycle` runs the stages from write back to fetch, then branch recovery, then
`memory_controller_cycle`; `cycle` in `shell.c` adds one to `stat_cycles`.

* **Pipeline** (`pipe.c`): `decode_op`, `execute_op`, `mem_op`, PC, a scheduled branch
  recovery; and for each of fetch and MEM whether it waits for a miss, its address,
  and whether it was cancelled. *Correct when* ops are neither lost nor
  duplicated, the wrong path leaves no trace, and no stage waits forever.
* **Caches** (`cache.c`): sets of blocks with a recency. *Correct when* a block is in
  a set once and a full set has one least recently used block.
* **MSHRs** (`cache.c`, `pipe.c`): 16 registers shared by the stages. *Correct when* a
  block has one register, a waiting stage has one, and all are given back.
* **DRAM controller** (`mem_controller.c`): the request queue and, per bank, the
  open row and the *last* request. *Correct when* no two requests hold the command
  bus, the data bus or a bank together and no waiting request is blocked for good.

The hard parts are the sharing of one MSHR by two stages, cancelled misses whose
address is overwritten, requests that outlive their MSHR, a timing check that sees
only the last request of each bank, and fields with two meanings
(`fill_ready_cycle = 1`, `open_row = 0`). `PROJECT.json` lists them as hazards, with
the properties that cover each.

### The other labs in detail

* **Lab 1**: the pipeline of lab 2 with two caches that answer a miss by a number of stall
  cycles, no MSHRs. *Correct when* a program computes what its instructions say, whatever
  the stalls, bypasses, branches and the replacement policy, and never stops by itself.
* **Lab 3**: *correct when* every launch of the kernel leaves the sum of all blocks in
  MRAM, without data races and without a tasklet that waits for good.
* **Lab 4**: the GHB (index table, history ring with wrapping pointers, epochs that adapt the
  degree), best-offset (scores of offsets, recent requests, rounds), and the hybrid that runs
  both in a tournament with a shadow table. *Correct when* what they use is of the present:
  no history of another program counter, no score of an earlier round, no latest prediction lost,
  a degree that follows the measured accuracy. The cache around them merges requests in its channels and
  MSHRs, stashes those that wait for a translation and retries what found no room. *Correct when*
  each load is in one place from which it will be answered, once, the MSHRs are those
  of the requests below, and no write-back is lost.
* **Lab 5**: the controller (four buffers, pending reads, write mode, refresh), FR-FCFS, BLISS or
  ATLAS with its plugin, a DRAM of banks, and in front of it cores with an instruction
  window and a shared LLC. *Correct when* every request is answered once, no bank is
  taken from a request that waits in it, refreshes keep up, every dirty line
  is written back, and no core waits for a load nobody will answer.

## 2. Modules

| Module | Models | Kind |
|---|---|---|
| `DramController` | decisions of `mem_controller.c`: address mapping, row buffer status, timing checks, FR-FCFS, issue | operators |
| `MemController` | the controller alone: any block may miss at any time | state machine |
| `CacheSets` | `update_lru`, `complete_l1_fill`, `insert_l2_block` | operators |
| `MemHierarchy` | pipeline, caches, MSHRs and controller together | state machine |
| `MCMemController`, `MCMemHierarchy` | blocks and programs for TLC | instances |
| `Reduction` | what a DPU promises the host in task 4 of lab 3 | abstract specification |
| `TaskletReduction` | `lab3/task4/dpu/task.c`: the kernel with its four final reductions, relaunched by the host | state machine |
| `MipsSemantics` | what the instructions of lab 1 compute | operators |
| `MipsIsa` | a program runs one instruction at a time | abstract specification |
| `ReplacementPolicies` | `lab1/src/cache.c`: LRU, RRIP, random | operators |
| `Lab1Pipeline` | `lab1/src/pipe.c` with both caches and the loop of `go` | state machine |
| `GlobalHistoryBuffer`, `BestOffset` | the two prefetchers of lab 4 (`ghb_pccs`, `abop`, `hybrid/ghb`, `hybrid/bop`) | operators |
| `Prefetchers` | each of them, and the hybrid, at work in a cache | state machine |
| `ChampSimCache` | `lab4/src/cache.cc` with the channels above it and LRU, as an L1D or an L2C | state machine |
| `DramDevice` | DDR4 as `node.h` runs it: open rows, prerequisites, timing | operators |
| `RamulatorSchedulers` | FR-FCFS, BLISS, ATLAS and the plugins' updates | operators |
| `MemoryPromise` | every request accepted is answered or performed once | abstract specification |
| `RamulatorController` | `generic_dram_controller.cpp` with refresh, scheduler and plugin | state machine |
| `SimpleO3` | cores, translation, LLC; the memory is external | state machine |
| `MCLab1Pipeline`, `MCPrefetchers`, `MCChampSimCache`, `MCRamulatorController`, `MCSimpleO3` | programs, traces, timings, requests | instances |
| `MemControllerProofs`, `MemHierarchyProofs`, `TaskletReductionProofs`, `Lab1PipelineProofs`, `PrefetchersProofs`, `ChampSimCacheProofs`, `RamulatorControllerProofs`, `SimpleO3Proofs` | theorems about the module of that name | proofs |

`MemController` and `MemHierarchy` both extend `DramController`, so what is proved
about the timing checks is about the operators the whole machine uses.

### MemController

`now` is `stat_cycles`, `banks` and `queue` are the fields of `MemController` in C, and
`issued` is a history variable that no action reads. One call of
`memory_controller_cycle` is any number of `QueueMiss` steps, one per iteration of
the loop over the MSHRs, followed by `IssueRequest` or `IdleCycle`, which end the
cycle. The caller of the model may queue any block in any cycle, which includes
all that the MSHRs can present. `QueueMiss` is disabled when the queue is full; the
assert of that case is modelled in `MemHierarchy`.

### MemHierarchy

A cycle is six actions in a fixed order, held by `phase`: `PipeStageMem`,
`PipeStageExecute`, `PipeStageDecode`, `PipeStageFetch`, `BranchRecovery`,
`MemoryControllerCycle`. Each is a whole C function; MEM and fetch are disjunctions of
their return paths. Abstractions:

* Time is relative to the current cycle, so that the state space is finite: `fill` is
  the number of cycles until `fill_ready_cycle` (0 when it has come, which the mark 1
  always has), `reqStart` and `arrival` are at most 0, and a bank start so far back that
  nothing it reserved can matter is no longer aged.
* Instructions are alu, mem with a block, branch and jump. A branch is taken or not by
  choice: registers and data are not modelled. A tag is the whole block number.
* Write back empties its slot in every cycle before MEM fills it, so it is left out,
  and with it the exit syscall. The multiplier's stall is left out.
* `l1_mem_cancelled` needs a recovery that flushes four stages; the only call of
  `pipe_recover` flushes three, so it stays 0 and is left out.
* `assert(0)` ends the run in a state `aborted`, which is not an error of the model: with
  few MSHRs and slots TLC reaches all three asserts.

### TaskletReduction

An action is one access to shared memory or one synchronisation; `x += y` is a load and a
store. `final`, the `FINAL_` macro, is chosen in `Init`, so one run covers the four
builds. A sum is a function that counts how often each block was added, which tells
a lost block, a block counted twice and a sum left from the launch before apart; the
arithmetic of `T` and the partial last block are left out. The input of a DPU is a number of
blocks; block 0 is `firstBlock`, because tasklet 0 writes the result over it and the host
copies the input again for each launch. The static variables keep their values
between launches. Where the kernel adds the elements of a block one by one into its
own partial sum, `AddBlock` is one step: no other tasklet touches that partial then, which
`RaceFree` checks.

`barrier_wait`, the mutex and the handshakes belong to the UPMEM runtime. The barrier opens
when all tasklets wait at it, whichever call they wait in, for there is one
barrier object. `handshake_wait_for` and `handshake_notify` are a rendezvous, one action
`Handshake` of two tasklets. `OpenBarrier` clears the register of every tasklet; only
the sum of `reduce_single_tasklet` starts from it.

`ImplementsReduction` is the refinement: `running` is "not all tasklets have ended", and
`answer` is the first block once they have.

### Lab1Pipeline

One action per stage in the order of `pipe_cycle`, as in `MemHierarchy`, but with values:
registers, HI and LO, memory, the bypass and its stalls, and the exit syscall in write back, so that
the pipeline can be compared with the instruction set. A word has two lanes of `Half`
values; an op in decode or execute is its pc, and gets operands and results in execute. Victims of the random
policy are any way. `ImplementsIsa` is the refinement: an instruction is executed in
the abstract machine when it leaves execute, so the mapped pc is that of the oldest
instruction before that point, and the mapped registers and memory have the results of those
that are behind it. The exit syscall is as loose as the code makes it: instructions
behind it may be executed before it retires, and the pc may end at it or after it,
depending on whether fetch stalls in that cycle; `MipsIsa` states exactly this allowance.

### Prefetchers

`kind` is which prefetcher is built in, chosen in `Init`. `Access`, `Fill`, `Cycle` are the calls of the cache,
in any order; `BeginPhase` is the cache's phase change, which resets the counters that the
epoch controller reads. `hybrid/ghb.cc` and `hybrid/bop.cc` repeat `ghb_pccs.cc` and `abop.cc` but for
the class around them and the number of offsets, so one set of operators stands for both; `map` names
the one or the other. Lines are small numbers, the hash is a given function,
the timestamps of the shadow table are ranks. `log`, `age`, `predicted` and `since` are history
variables that the actions never read.

### ChampSimCache

`Operate` is one call of `operate()`, everything it calls included: collisions in the channels, answers
from below and from the TLB, fills, new tag checks, translations, the stash, then hits and misses. The steps
are operators on the state that follow each other as the calls do; a span of a queue with a
test (`get_span_p`) is `SpanLength`, and a loop is `Repeat` of its turn, each turn of which
takes an element from the queue or passes over it (`CheckNext`, `HitNext`, `MissNext`, `FillHead`). Time points are the cycles still to wait, so a cycle
is counted only as far as it tells which upper level is first. Between two cycles the upper levels add
requests, the prefetcher asks for lines, and the level below and the TLB, which are
external, take requests and answer them in any order; requests of one page are
answered by the TLB at once.

`kind` chooses the configuration of the source: an L1D compares writes by their full address,
is sent virtual addresses and treats stores as reads; an L2C has several upper levels, of which
the L1D writes back and prefetches and the others only read, and fills write-backs at once. A translated
address is the virtual one with a mark. An instruction waiting for a load is an `id`, and
`owed` is the set of those that have not been answered; no action reads it but to keep an upper
level from asking twice for a block it waits for. The prefetcher's hooks call
`prefetch_line` in the middle of a cycle; here the request arrives at its end, from where it
begins its tag check in the next cycle at the earliest, as one of a hook in the tag check
does; one of a fill hook may be a cycle later than in the source. Requests and prefetches
share the bound `MaxRequests`.

### RamulatorController and SimpleO3

A tick of the controller is one action: finish a read, refresh, choose a command, update the
plugin, issue. Absolute cycles (`depart`, `m_cmd_ready_clk`, `m_next_refresh_cycle`) are
kept as what is left of them; arrival times are numbers of cycles in which something arrived.
Every member of `Requests` is sent at most once, at any time. There is one rank of one channel: the
bank groups are folded into the banks, four-activate windows into the distance of two
activates. Only `KeepsPromise` speaks of what a sender may rely on, and `SimpleO3` takes a memory
that keeps exactly that: it accepts a request if it has room, answers in any order, once.

In `SimpleO3` a tick is the LLC's and then each core's, in one action, written as operators on the
state that follow each other as the calls do; a loop of the code (over the hit list, the miss list, the cores)
is a recursive function from the number of turns to the state after them. A hit is answered with the offset
that was requested. A page is one line and the cache one set. Translations are drawn in `Init`, which gives the behaviours of drawing at first use.
`overtaken` records that a hit has been answered after its line was evicted: then
`m_receive_requests` of its address may be overwritten (`llc.cpp:44`), the loads of a new miss are
forgotten and their core stops. TLC reaches that state, and no property here covers it: nothing in the repository says
what is meant, `LoadsAreAwaited` and `CoresProgress` are claimed of
behaviours without it, and the others of all.

## 3. Runs

| Run | Question | Bounds |
|---|---|---|
| `mem_controller` | are buses and banks exclusive, does the scheduler decide, does an idle DRAM serve? | 2 banks, rows 0, 1, 2, 2 slots, 13 cycles |
| `mem_hierarchy` | do misses, cancellations and merging ever confuse or starve a stage? | 3 MSHRs, 2 slots, caches of one set of 2 ways, 4 programs |
| `tasklet_reduction` | does each of the four reductions implement `Reduction`, without data races, and end? | 5 tasklets, up to 6 blocks, 2 launches |
| `ramulator` | is every request answered once under each scheduler, are banks held, do refreshes keep up? | 2 banks, 2 rows, 2 sources, 4 requests, buffers of 2, 3 and 2, a refresh every 12 cycles |
| `llc` | do LLC lines, MSHRs and cores agree when memory refuses and delays? | 2 cores, 4 pages, 16 translations, 3 ways, 2 MSHRs, windows of 2 |
| `prefetchers` | do the prefetchers use only what is of the present? | history of 4 in pointers modulo 8, degree 1 to 2, 3 offsets, rounds of 4, shadow table of 3 |
| `lab1` | does the pipeline implement the instruction set under each policy, and get on? | 540 programs of 4 instructions, 3 policies, 2 cycles of miss, one set of 3 ways |
| `champsim_cache` | is every load answered once and every write-back kept, whatever merges, fails or is full? | 3 requests, 2 blocks, one line, 2 MSHRs (L1D) or 1 (L2C), queues of 2 above, of 1 below |
| `done_means_filled` | is a miss marked done only when it is filled? (no) | as `mem_hierarchy` |
| `no_mshr` | can the MSHRs run out? (yes) | as `mem_hierarchy` |
| `l1_recency` | does L1 keep one most recently used block? (no) | as `mem_hierarchy` |
| `code_loads` | is every miss answered when a program reads its own code? (no) | one such program |

**Bounds.** The timing constants keep the order and roughly the ratios of 4, 100 and 50
cycles: in `mem_controller` 2, 4 and 3, so that two requests can interleave their
commands on the command bus and still collide on the data bus; in `mem_hierarchy` 1, 4
and 2. Thirteen cycles hold a row miss, a row conflict after it and requests to the
other bank in all relative positions; the proofs cover the rest. Two banks and a row
conflict are what the three checks distinguish. The programs of `mem_hierarchy` are
loops, so the state space is closed under running forever; they contain loads that
miss while fetch misses, branches over several code blocks that cancel fetches, a load
from block 0 (the value `l1_fetch_miss_addr` is reset to), and more blocks than the
caches hold. 3 MSHRs and 2 slots (16 and 256 in the source) make both limits
reachable. Code and data lie in different blocks except in `code_loads`.

Five tasklets are the smallest number that is no power of two and has, in the trees, a
tasklet without a partner at two levels and one whose partner is two levels away; six
blocks give tasklet 0 a second block and, with fewer, leave tasklets without any. Two
launches show what is left over from the first.

In `ramulator` the limits of the buffers are as small as they can be (`enqueue` takes one more than
`max_size`), so that the read buffer refuses; that the active and the priority buffer never do is
among what the run shows. The requests hold a row conflict, a read of an address
that is written, and one read more than the read buffer takes. The timings keep the
order of DDR4-2400: a write waits longer after a read than a precharge does. Refresh comes
every 12 cycles, when the slowest request needs about as many, so that refreshes
interrupt requests that wait in the active buffer. In `llc` there are fewer ways than
pages and fewer MSHRs than ways, the second core shares none, one or both of its
pages with the first, and memory takes two reads and a write. `MissMax` bounds the
miss list: while it is longer, the memory writes before the next tick.

In `prefetchers` pointers have one bit more than the history ring, as little as lets an old pointer
be told from a new one (the source has 12 and 8 bits); the adaptive GHB alone is measured, for the hybrid uses
the same operators. In `lab1` a program is a producer, two consumers and an end, run
through in a circle, so that every distance between producer and consumer, every bypass and interlock and a branch over
each of them occurs with hits and with misses. Three ways are the least with which LRU and RRIP
have a middle. The search for a victim under RRIP is a sequence of turns, each of which ages the set;
if none of them finds a distant block, there is no victim and `Progress` fails.

In `champsim_cache` one line makes every fill of a valid line an eviction; with a dirty one and a write
queue of 1 below, fills fail. The L1D has two MSHRs, so that answers overtake each other and
the swap in `finish_packet` matters, and one place in the TLB's queue; the L2C has one MSHR, so that misses fail and
are tried again while others pass them, and two upper levels that merge into it. Three requests are what it
takes to fill the stash, to merge into an MSHR that has its data, and to have two
write-backs of a block in flight. With one way per set a block is never held twice; that no write is lost then either
(`cache.cc:503`) is proved (`WritesStay`) and not seen by TLC.

In the same way, two slots in `mem_controller` show that either request
of a pair is chosen whatever its slot, and `FrFcfsDecides` that a best one remains of any number.
`PredictionsSurvive` speaks of the lines that each part predicted last, in the run and in the proof: the shadow table drops the
oldest ones when it is full, although they may still wait to be scored.

**Row 0.** The bank check takes `open_row = 0` for an unused bank. Exclusivity is therefore
stated, and proved, for requests to the other rows, which all memory regions of
`shell.c` are in. For row 0 it does not hold: the bank is given a second request while it works on the
first, though the comment above the check promises to "ensure no overlap between bank
scheduled start and end" (`mem_controller.c:132`).

**Fairness.** `WF_vars(Next)`: `run` and `go` call `cycle` in a loop, and within a cycle the order
of the actions is fixed. Nothing is assumed of which way branches go. In
`tasklet_reduction` each tasklet is weakly fair, and so is the opening of the barrier: the
DPU's pipeline takes its threads in turn and the runtime wakes those that wait. The
host's `Launch` is not fair; `MaxLaunches` bounds it, and the system stops then. In `lab1` the loop of
`go` runs one stage after the other. In `ramulator` and `llc` the simulation loop of
`main.cpp` ticks forever, so the clock is weakly fair, and nothing is assumed of who sends
requests; the memory behind the LLC is assumed to answer its oldest read and perform a
write at last, which is what `Drains` says of the controller. In `champsim_cache`
the simulation operates every component once per clock period, so the cycle is weakly fair, and so are the
level below and the TLB, which are components like it. `prefetchers` has no liveness.

**What the violations show.** Each is a disagreement of a comment and the code, listed
under `findings` with the quoted line: `done` set one cycle
after a miss is queued; MSHRs leaked by cancelled fetches; L1 recencies that never
leave 0; and a fetch that waits forever after MEM has freed the MSHR they shared.

## 4. Proofs

Each proof is for every value of the constants that satisfies the module's assumptions. In each module
`Invariance` proves an inductive invariant `IInv`, with one lemma per action, and the listed theorems follow from it.
TLC checked every `IInv` on the states of the run above before it was proved, and `RefreshInTime` of
`RamulatorControllerProofs` on the states of the same instance with a refresh every 37 cycles, for which its hypothesis holds.

| Theorems | State | Proved of |
|---|---|---|
| `TypeCorrect`, `CommandBusSafe`, `DataBusSafe`, `BankSafe`, `IdleDramProgress`, `FrFcfsDecides` | `TypeOK`, the three exclusivities, `IdleDramServes`, `SchedulerDecides` | `MemController` |
| `TypeCorrect`, `InProgramOrder`, `OneMshrOneCopy`, `L2InLruOrder`, `WaitersAreServed` | `TypeOK`, `ProgramOrder`, `OneOfEachBlock`, `L2RecencyIsOrder`, `WaitsForWhatItNeeds` | `MemHierarchy` |
| `TypeCorrect`, `NoDataRaces`, `Refinement` | `TypeOK`, `RaceFree`, `ImplementsReduction` | `TaskletReduction` |
| `TypeCorrect`, `Refinement` | `TypeOK`, `ImplementsIsa` | `Lab1Pipeline` |
| `TypeCorrect`, `HistoryIsOwn`, `ScoresCount`, `PredictionsStay`, `DegreeFollows` | types, `WalkIsOwnHistory`, `ScoresAreTests`, `PredictionsSurvive`, `DegreeFollowsAccuracy` | `Prefetchers` |
| `TypeCorrect`, `AnswersAreAwaited`, `LoadsAreOwedOnce`, `WritesStay` | `TypeOK`, `MshrsAwaitAnswers`, `OwedOnce`, `WritesAreKept` | `ChampSimCache` |
| `TypeCorrect`, `NothingLost`, `ActiveKeepsBank`, `AtlasCounts`, `Refinement` | `TypeOK`, `NoRequestLost`, `ActiveOwnsItsBank`, `BanksAreCounted`, `KeepsPromise` | `RamulatorController` |
| `RefreshesKeepUp` | `RefreshKeepsUp`, if `RefreshFits` | `RamulatorController` |
| `TypeCorrect`, `LinesMatchMshrs`, `LoadsWait`, `StoresSurvive` | `TypeOK`, `LinesAndMshrs`, `LoadsAreAwaited`, `DirtyIsWrittenBack` | `SimpleO3` |

### MemController

The assumption is `TimingAssumption`: the command time and the transfer time are at most the
bank time. Exclusivity is not inductive, because `is_request_schedulable` compares a request only with
the last request of each bank. The strengthening is `RememberedOrOver`: a request is
the one its bank remembers, or its commands have ended. A remembered request is
excluded by the checks (`SchedulableMeetsNobody`); a forgotten one has ended its commands
before now, and since the transfer is no longer than a bank period, its transfer ends
before any transfer of a request that begins now. The second invariant, for
`IdleDramProgress`, is that every used bank's last request is in the history and
nothing is dated in the future; then with all reservations over each check passes,
the candidates are not empty and the cycle cannot be idle.

`FrFcfsDecides` needs a least element of a set of natural numbers (`LeastNatural`, from the
well-foundedness of `<`): of the candidates, the row hits, of those the earliest, of
those MEM's, of those the first slot is the one no other beats.

### MemHierarchy

`IInv` adds where the next instruction comes from when decode is empty, in which phases a recovery or
a resolved jump is pending, and that the block a stage waits for is not in its L1 cache. An L2 set is in LRU
order: the recencies of its valid blocks are the numbers from 0 on, each once (`LruOrder`); so a full set has a
least recently used block, and an insertion cannot push a recency out of range. `OneMshrOneCopy` then says that
a block has one MSHR and is once in a set, the fills of one cycle included. The assumption on the constants is
`ProgramAssumption`: instructions are of the four kinds, with a block or a target.

`InProgramOrder` has two parts. In every state the slots hold consecutive instructions, those behind MEM a successor of its
op on, or its sequential one while the recovery to another is pending (`Consecutive`). And in every step MEM keeps its op, ends it, or takes
the next one (`MemTakesTheNext`), so that an op that waits in MEM is not overwritten by the one behind it. Both follow
from `IInv`, stage by stage (`PathStep`).

That a stage that waits has the MSHR it needs does not hold of every program: fetch cancels misses, and releases the
MSHR of whatever address it remembers. `WaitersAreServed` is therefore proved under `[]CodeAndDataApart`: fetch never reads a
block that a load or store of the program reads. That is no more than a linker gives; the programs of
`mem_hierarchy` satisfy it, and the one of `code_loads` shows what happens otherwise. Under it, `ApartInv` is
inductive: the MSHRs of data blocks are MEM's own, and a fill that MEM waits for is taken by the
stage that runs right after the controller, so that no release of fetch comes between.

### TaskletReduction

The invariant says, for every place in the kernel, which blocks each partial sum, the register and the
accumulator count, as the blocks dealt to a set of tasklets: in the tree, those of `stride` tasklets from `t` on. All tasklets are
in the same stretch between two barriers (`SamePhase`). In the tree of handshakes there is no barrier,
and the tasklets may be at different levels; what holds is that two tasklets that meet are at the same power
of two, since a tasklet that waits at a level has its number divisible by the stride and not by the double, which determines
the stride (`PartnerAtSameStride`). Powers of two are the smallest set that contains 1 and doubles, which
replaces induction. `NoDataRaces` reads the conflicting accesses off the invariant; `Refinement` that the answer is the
sum of all blocks when the last tasklet has ended.

### Lab1Pipeline

The assumptions are `ProgramsAssumption`, that every word decodes to an instruction (as in the code, where an unknown one
does nothing), and `StartAssumption`, that registers and memory start with words. The refinement needs of the slots that
the ops which are not squashed follow each other in the program (`InSequence`): decode holds the
instruction behind the one in execute, and the pc is behind the last of them, until a retiring exit syscall
has set it, after which only its own cycle is left to run. And of the stages: write back is empty when MEM runs, so that MEM
never overwrites an op; MEM is empty when an op executes, so that one bypass is enough
(`OperandIsAfterWb`); a recovery is pending only from execute to the end of its cycle. Then execute is one step of `MipsIsa` on the
operands it should have, and every other stage is a stutter, except a retiring exit, which `MipsIsa` allows
as `Exit`. `TypeCorrect` includes the arithmetic (a product splits into two words, lanes make a word) and
the caches of all three policies: under LRU the valid ways are the first and their ranks are below every invalid
one's, so that a full set has the greatest rank (by counting, `GreatestRank`) and `cache_access` finds its victim; under
RRIP a turn of the search ages each block by one (`TurnIsGood`), so that after three of them there is a distant one: the search
ends in every set of every size (`AgedIsGood`), and the RRPVs keep to two bits.

### Prefetchers

The assumptions are those of the tables: `PtrRange` is a multiple of `GhbSize` and greater, as 2^12 and 2^8 are; the tournament and
the shadow table have room for what one access predicts (`ShadowMax > MaxDegree`, 256 and 6); and `TraceAssumption`, that a
trace is not empty and has accesses to lines. `HistoryIsOwn` rests on what a pointer is worth: the pointer of the q-th newest access is accepted
by `pointer_valid` if and only if that access is still in the buffer and has the tag, for all q up to `PtrRange`
(`PointersNameAccesses`), because the number of slots divides the number of pointers and different accesses of a buffer differ
modulo both. `GhbInv` says that the buffer holds the accesses of the log and nothing else, that the index table names the last access through
each of its entries, and that an access which was not late is linked to the one before it (`Recorded` keeps this, `RecordedKeeps`). A walk is
two steps (`WalkIsTwoSteps`), and the accesses it finds are all that count. `ScoresCount` follows a round: an
access is one more turn of the offset it tests, and shifts the turns of all others (`TurnsGrow`). For `PredictionsStay` the clean-up of the
table must not remove what the same access put in: the entries of now are no more than its predictions
(`SomeAreOlder`), so the oldest of more than `ShadowMax` entries is older than now; this is the invariant `Filling` of the loop over the
predictions. `DegreeFollows` needs `CountInv`: unless a phase began, the counters of the cache are those sampled last and what was counted
since, and as they stay below 2^64 the difference modulo 2^64 is that count.

### ChampSimCache

The assumption is `CacheAssumption`: sizes, latencies and bandwidths are numbers, those that the code divides by or cannot
work without are positive, and a page is a number of whole blocks. None of the four properties is inductive, because a request is
in many queues on its way, and what must be said of it there is not what the property says. `IInv` therefore says
for every queue what its elements look like: one that is for a load also names the upper level to answer
(`\A id \in e.ids : id.upper \in e.to`), a prefetch of the cache itself is for nobody, a write is for no load. Then
it counts: `CountIn(q, S)` is the number of places of `q` with an element of `S`. The places that are for a load that is
owed add up to one (`OwedFits`); the requests and answers below of a block are as many as its MSHRs that await one (`Balanced`);
the prefetches that are not settled and those counted as useful or useless are at most those issued
(`StatsFit`). What the code does to its queues is then a handful of lemmas about counts, one each for an append, removal,
replacement, swap, split and stable partition (`CountAppend`, `CountRemove`, `CountReplace`, `SwapCount`,
`CountParts`, `SplitCount`), and most steps need only that the elements they move stay alike in block, type, origin and loads
(`MovedIsFine`, `MissesMovedIsFine`).

A cycle is one action with eight loops in it. Each step of it has a lemma that it preserves `Fine`, and each loop
one for its turn, with what the loop has done so far (`TagsAt`, `AboveAt`, `CheckedAt`); `CycleIsFine` puts them
in the order of `operate()`. Three places are worth reading. `finish_packet` swaps the MSHR that has returned with the first
that has not: that the returned ones stay in the order they become ready needs that an answer is only ever for an MSHR that has not
(`Balanced`), or the swap would move one that has. `MergeIsFine` is where a demand miss on a prefetch's MSHR counts the prefetch as
useful and takes its place, which keeps the sum of `StatsFit`. And tag checks that fail stay where they are, so the bound on those in flight
rests on new ones beginning only as far as there is room (`InitiateTagChecksIsFine`, `TagTakenIsFine`).

`WritesStay` is about one step, but a step is a whole cycle in which a write may go from a channel through a tag check into a line, and on
below. `Fine` takes a set `D` of blocks whose writes are to be followed (`Kept`: in a channel, a tag check, a write under way, a dirty line, or
on its way below); the invariant is `Fine` of the empty set, and the action property applies the same lemmas to the set of one block.

### RamulatorController

Beside what the constants are, the assumption is `RefreshTimingAssumption`: an `ACT` waits no longer than a `REFab` after a
`PREA`, and whatever else keeps it waiting is over `nRP` after a `PREA` could be issued. All presets of `DDR4.cpp`
(27-50, 392-415) satisfy it. What has to be shown is that a request in the active buffer keeps its bank although
a refresh closes the row under it. `RowsReturn` says why: while the row of an active request is closed, the
refresh is still in the priority buffer, which keeps reads and writes out; and whatever keeps an `ACT` waiting is over when the
`REFab` becomes ready. So all active requests are ready then, the scheduler's choice exists (`BestIsFound`, for each of the
three), and the `REFab` is issued only after the active buffer has become empty. No other request can take a bank
in between (`ActiveKeepsBank`).
Different active requests have different banks, which bounds the active buffer by the number of banks: the result of
`m_active_buffer.enqueue`, which the code ignores, is never a refusal, and `NothingLost` counts every accepted request
in exactly one place or done. `AtlasCounts` says that the bank counter of a source is the number of banks it owns in
the table. `Refinement` maps a send to an acceptance and a tick to the finishing of outstanding requests.

`RefreshesKeepUp` is a bound in cycles: a refresh that waits is issued before the next one is due, so `all_bank_refresh` never finds the
priority buffer full. A refresh may close the rows of active requests and let them be opened again, as a `PREA` can
be ready when a write is not. But once such a row is open again, all active requests are ready by the time the next `PREA`
is (`ReadyByPrea`), and as the active buffer goes first, one of them is finished before it. So `n` active requests cost at most `n + 1`
`PREA`s, and between two of them as many activates as there are active requests left. `Effort` adds up, twice over, the cycles that these commands can cost in the present state. Every tick with a
refresh that waits lowers it by at least two (`TickHastens`): if nothing is issued a timer
runs (`IdleEffort`), and otherwise a command that was counted is spent (`ReopenEffort`, `ServeEffort`, `CloseEffort`). The
invariant `RefreshInTime` says that the effort is at most twice the cycles that are left until the next refresh.
The hypothesis `RefreshFits` says that no command but a refresh keeps another waiting longer than `nRAS`, a `REFab` at most `nRP` longer, and that the most effort
fits between two refreshes. With 16 banks the `DDR4_2400R` of `lab5_config.yaml` needs 6426 of its 9364 cycles, and all presets of
`DDR4.cpp` in all three widths satisfy it, with at most three quarters of `nREFI`. The refresh interval of the run, 12 cycles, is below what
the hypothesis asks: there the requests are too few to need it all, and TLC finds that refreshes keep up all the same.

### SimpleO3

The assumption on the constants is `TraceAssumption`: every core has a trace, of bubbles, loads and stores of known pages.
`IInv` ties four things: the lines of the LLC, its MSHRs, the reads under way in the miss list and in the memory, and the loads that
wait in the windows of the cores. A page has one line; a line is not ready exactly while it has an MSHR (`Structure`); that MSHR's read is
under way, exactly once (`Fetched`, `FetchedOnce`); and a load that is not ready waits in the hit list or in `m_receive_requests` under the
address of the MSHR (`AllAwaited`). A hit that is answered in time finds its line still there, so no MSHR has its address and
what the answer overwrites in `m_receive_requests` is nobody else's; after a late one (`overtaken`) only the part about lines
and MSHRs is claimed. The three loops of a tick have loop invariants (`AnswersKeep`, `OffersKeep`, `CoreTicksKeep`), from
`LoopKeeps`. `StoresSurvive` is an action property: a dirty line stays dirty, or a write of it is in the miss list.

### How loops and induction are done

The provers cannot instantiate the induction theorems of the library, which take an operator. Each proof module that needs
it therefore begins with lemmas that state induction over sets: a set that contains 0 and is closed under `+ 1` up to `n`
contains `0 .. n` (`LoopInduction`, from `LeastNatural`); a loop of `n` turns has a run (`LoopRuns`), and turns that keep an invariant, which may
differ from turn to turn, keep it along the run (`LoopKeeps`).

### Only model-checked

* Liveness: `MissesAnswered`, `EveryLaunchEnds`, `Drains`, `CoresProgress`, `Progress`, `LoadsAnswered`.
* `RefreshKeepsUp` where `RefreshFits` does not hold, as with the short refresh interval of the run.
* The four violations, which are counterexamples.

## 5. Not modelled, and the plan

Not modelled:

* the shells' command loops and loaders, reports, plots and inputs; statistics everywhere but
  where the epoch controller of lab 4 reads them;
* lab 1: shifts, bitwise operations, `lui`, byte loads and stores (a word has two lanes here),
  signed `div` (undefined for the smallest number by -1, `pipe.c:393`), a misaligned pc, programs
  that change themselves;
* lab 2: register values; the wrap of the 32-bit cycle counter (`mem_controller.c:231`);
* lab 3: the host's partition of the input and tasks 1 to 3;
* lab 4: of ChampSim the out-of-order core, page table walker, virtual memory and DRAM controller, its upstream
  prefetchers, replacement policies and branch predictors, `lab4/vcpkg`: this is the bulk of the repository's
  C++, written by others and used unchanged. Of its cache: warm-up, in which all latencies are 0, prefetches
  by virtual address, bypassing replacement policies, `invalidate_entry`, statistics but those of prefetches;
* lab 5: other DRAM standards, the four-activate window as such, RowHammer plugins, several
  channels (ATLAS then adds up the service of all), the end of a simulation, serialization of the LLC.

A remark on lab 1: the exit syscall means to leave `PC` one instruction behind itself (`pipe.c:146`), and checks
`fetch_stall` to that end, but fetch also skips its turn when decode is occupied and when it
misses in that very cycle; `PC` then stays at the syscall, and a branch among the instructions
behind it may move it. `MipsIsa` allows all of this.

Seen in the code, modelled as it is, and claimed neither way, because no comment or test says
what is meant: BLISS tests its threshold on commands that do not finish a request (`plugin/bliss.cpp:62`);
the maximal score of best-offset is out of reach, for a round ends after `ROUND_MAX` accesses and not
rounds (`abop.cc:92`); a refetch may reach memory before the refused write-back of
its line (`llc.cpp:28`); in a ChampSim L1D a load that merges into the MSHR of a store takes over its type, so
the block is filled clean (`cache.cc:117`, `146`), and `WritesAreKept` is claimed of the L2C only.

Seen as well, and against a comment, but no property here depends on it: new blocks are to be "inserted
with LONG_RRPV" (`lab1/src/cache.c:173`), but `update_rrip` overwrites the value at once (`cache.c:185`), as `Filled` does; the random translation is to
assign no page that is already assigned (`random_translation.cpp:74`), but never marks one as used; `insert_l2_block` is to be called
"when fill completes from memory" (`lab2/src/cache.h:99`), but `memory_controller_cycle` calls it for the requests
that still wait in the queue while their MSHR is done (`mem_controller.c:284`), and one served as soon as it is queued never enters L2.
`MemHierarchy` inserts as the code does.

Planned:

1. `HostPartition` (lab 3, task 4): the partition of the input over the DPUs in `host/app.c`,
   whose sizes are differences of roundings: a pure algorithm against a reference
   definition, composed with `Reduction`.

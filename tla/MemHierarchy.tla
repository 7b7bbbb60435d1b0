---------------------------- MODULE MemHierarchy ----------------------------
(***************************************************************************)
(* The timing simulator of the second lab: a five stage pipeline whose     *)
(* fetch and MEM stages share the L2 cache, the MSHRs and the DRAM         *)
(* controller (lab2/src/pipe.c, cache.c, mem_controller.c).                *)
(*                                                                         *)
(* A simulated cycle is pipe_cycle: MEM, execute, decode, fetch, branch    *)
(* recovery, memory controller, one action each, in that order.  The write *)
(* back stage always empties its slot first and is left out.               *)
(*                                                                         *)
(* Time is relative to the current cycle: the memory controller's action   *)
(* ends the cycle and shifts every time by one.  fill is the number of     *)
(* cycles until fill_ready_cycle; a start or arrival time is <= 0.         *)
(***************************************************************************)
EXTENDS DramController, CacheSets

CONSTANTS
  Programs,       \* the programs to run: functions from pcs to instructions
  StartPC,        \* 0x00400000, as a word number
  WordsPerBlock,  \* 8: BLOCK_SIZE / 4
  NumMshr,        \* NUM_MSHR, 16
  L2HitLatency,   \* L2_HIT_LATENCY, 15
  L1Sets, L1Ways, \* geometry of both L1 caches
  L2Sets, L2Ways

ASSUME HierarchyAssumption ==
  /\ StartPC \in Nat
  /\ {WordsPerBlock, NumMshr, L2HitLatency, L1Sets, L1Ways, L2Sets, L2Ways}
       \subseteq Nat \ {0}

(***************************************************************************)
(* mem_addr and branch_dest of an op are uint32_t (pipe.h:42, pipe.h:54).  *)
(***************************************************************************)
ASSUME ProgramAssumption ==
  \A p \in Programs : \A address \in DOMAIN p :
    /\ p[address].kind \in {"alu", "mem", "branch", "jump"}
    /\ p[address].kind = "mem" => p[address].block \in Nat
    /\ p[address].kind \in {"branch", "jump"} => p[address].dest \in Nat

VARIABLES
  program,        \* the program being run
  phase,          \* the stage that runs next
  pc,             \* pipe.PC, a word number
  decodeOp, executeOp, memOp,   \* pcs of the ops in the slots, or NoOp
  recovery,       \* branch_dest while branch_recover is 1, else NoOp
  fetchMiss,      \* l1_fetch_waiting, l1_fetch_cancelled, l1_fetch_miss_addr
  memMiss,        \* l1_mem_waiting, l1_mem_miss_addr
  icache, dcache, l2cache,
  mshrs,          \* the miss status holding registers
  banks, queue,   \* the DRAM controller
  aborted         \* the assert(0) that has stopped the simulator, if any

pipeline == <<pc, decodeOp, executeOp, memOp, recovery>>
misses == <<fetchMiss, memMiss>>
caches == <<icache, dcache, l2cache>>
dram == <<banks, queue>>
vars == <<program, phase, pipeline, misses, caches, mshrs, dram, aborted>>

NoOp == -1
Mshrs == 0 .. NumMshr - 1

\* fill_ready_cycle = 0: an L2 miss nobody has queued.
NotQueued == -1

\* An MSHR with valid = 0; its other fields are not read before allocation.
FreeMshr == [valid |-> FALSE, done |-> FALSE, block |-> 0, fill |-> NotQueued,
             isIcache |-> FALSE]

BlockOf(address) == address \div WordsPerBlock

\* Beyond the program memory holds zeros, which decode to a no-op.
Instruction(address) ==
  IF address \in DOMAIN program THEN program[address] ELSE [kind |-> "alu"]

Init ==
  /\ program \in Programs
  /\ phase = "mem"
  /\ pc = StartPC
  /\ decodeOp = NoOp /\ executeOp = NoOp /\ memOp = NoOp
  /\ recovery = NoOp
  /\ fetchMiss = [waiting |-> FALSE, cancelled |-> FALSE, block |-> 0]
  /\ memMiss = [waiting |-> FALSE, block |-> 0]
  /\ icache = AllocCache(L1Sets, L1Ways)
  /\ dcache = AllocCache(L1Sets, L1Ways)
  /\ l2cache = AllocCache(L2Sets, L2Ways)
  /\ mshrs = [i \in Mshrs |-> FreeMshr]
  /\ banks = [b \in Banks |-> UnusedBank]
  /\ queue = [i \in Slots |-> NoRequest]
  /\ aborted = "no"

-----------------------------------------------------------------------------
(***************************************************************************)
(* MSHRs.                                                                  *)
(***************************************************************************)
FindMshr(ms, block) == {i \in Mshrs : ms[i].valid /\ ms[i].block = block}

FreeMshrs(ms) == {i \in Mshrs : ~ ms[i].valid}

\* check_l1_fill_ready
FillReady(block) ==
  /\ FindMshr(mshrs, block) # {}
  /\ mshrs[Lowest(FindMshr(mshrs, block))].done

\* free_mshr
MshrsWithout(block) ==
  IF FindMshr(mshrs, block) = {} THEN mshrs
  ELSE [mshrs EXCEPT ![Lowest(FindMshr(mshrs, block))] = FreeMshr]

\* l2_cache_access with a free MSHR: an L2 hit knows when it will be filled.
L2CacheAccess(ms, block, isIcache) ==
  LET hit == IsCached(l2cache, block)
  IN  /\ mshrs' = [ms EXCEPT ![Lowest(FreeMshrs(ms))] =
           [valid |-> TRUE, done |-> FALSE, block |-> block,
            fill |-> IF hit THEN L2HitLatency ELSE NotQueued,
            isIcache |-> isIcache]]
      /\ l2cache' = IF hit THEN TouchBlock(l2cache, block) ELSE l2cache

\* Mutation: l1_cache_access without the search for a pending request.
L1MissAllocates(ms, l1, block, isIcache) ==
  /\ ~ IsCached(l1, block)
  /\ FreeMshrs(ms) # {}
  /\ L2CacheAccess(ms, block, isIcache)

\* l1_cache_access returns CACHE_MISS_WAIT: a request for the block is pending
\* already, or L2 is probed and an MSHR allocated.
L1MissWait(ms, l1, block, isIcache) ==
  /\ ~ IsCached(l1, block)
  /\ \/ FindMshr(ms, block) # {} /\ mshrs' = ms /\ UNCHANGED l2cache
     \/ /\ FindMshr(ms, block) = {} /\ FreeMshrs(ms) # {}
        /\ L2CacheAccess(ms, block, isIcache)

\* l1_cache_access returns CACHE_NO_MSHR.
L1NoMshr(ms, l1, block) ==
  ~ IsCached(l1, block) /\ FindMshr(ms, block) = {} /\ FreeMshrs(ms) = {}

\* assert(0): in the stage that got CACHE_NO_MSHR, or in the controller when
\* its queue is full.
Abort(reason) ==
  /\ aborted' = reason
  /\ UNCHANGED <<program, pipeline, misses, caches, mshrs, dram>>

-----------------------------------------------------------------------------
(***************************************************************************)
(* pipe_stage_mem.  l1_mem_cancelled stays 0: every recovery flushes three *)
(* stages, MEM is not among them.                                          *)
(***************************************************************************)
MemBlock == Instruction(memOp).block
MemAccesses == memOp # NoOp /\ Instruction(memOp).kind = "mem"

\* The fill has arrived: insert the block, retry the access next cycle.
MemFill ==
  /\ memOp # NoOp /\ memMiss.waiting /\ FillReady(memMiss.block)
  /\ dcache' = CompleteL1Fill(dcache, memMiss.block)
  /\ mshrs' = MshrsWithout(memMiss.block)
  /\ memMiss' = [waiting |-> FALSE, block |-> 0]
  /\ UNCHANGED <<program, pipeline, fetchMiss, icache, l2cache, dram, aborted>>

\* Nothing in the stage, or still waiting.
MemStall ==
  /\ memOp = NoOp \/ (memMiss.waiting /\ ~ FillReady(memMiss.block))
  /\ UNCHANGED <<program, pipeline, misses, caches, mshrs, dram, aborted>>

MemMiss ==
  /\ MemAccesses /\ ~ memMiss.waiting
  /\ L1MissWait(mshrs, dcache, MemBlock, FALSE)
  /\ memMiss' = [waiting |-> TRUE, block |-> MemBlock]
  /\ UNCHANGED <<program, pipeline, fetchMiss, icache, dcache, dram, aborted>>

MemNoMshr ==
  /\ MemAccesses /\ ~ memMiss.waiting
  /\ L1NoMshr(mshrs, dcache, MemBlock)
  /\ Abort("no_mshr")

\* The op moves on to write back, which empties its slot every cycle.
MemDone ==
  /\ memOp # NoOp /\ ~ memMiss.waiting
  /\ \/ ~ MemAccesses /\ UNCHANGED dcache
     \/ /\ MemAccesses /\ IsCached(dcache, MemBlock)
        /\ dcache' = TouchBlock(dcache, MemBlock)
  /\ memOp' = NoOp
  /\ UNCHANGED <<program, pc, decodeOp, executeOp, recovery, misses, icache,
                 l2cache, mshrs, dram, aborted>>

PipeStageMem ==
  /\ phase = "mem" /\ aborted = "no"
  /\ phase' = "execute"
  /\ MemFill \/ MemStall \/ MemMiss \/ MemNoMshr \/ MemDone

-----------------------------------------------------------------------------
(***************************************************************************)
(* pipe_stage_execute and pipe_stage_decode: an op moves on when the slot  *)
(* after it is empty.  A branch is resolved in execute; whether it is      *)
(* taken depends on data the model does not have.                          *)
(***************************************************************************)
\* Mutation: execute does not look whether MEM has stalled.
ExecuteMovesAlways == executeOp # NoOp

ExecuteMoves == memOp = NoOp /\ executeOp # NoOp

PipeStageExecute ==
  /\ phase = "execute" /\ aborted = "no"
  /\ phase' = "decode"
  /\ IF ExecuteMoves
     THEN /\ memOp' = executeOp
          /\ executeOp' = NoOp
          /\ LET instruction == Instruction(executeOp)
             IN  \/ instruction.kind # "jump" /\ UNCHANGED recovery
                 \/ /\ instruction.kind \in {"branch", "jump"}
                    /\ recovery' = instruction.dest
     ELSE UNCHANGED <<memOp, executeOp, recovery>>
  /\ UNCHANGED <<program, pc, decodeOp, misses, caches, mshrs, dram, aborted>>

PipeStageDecode ==
  /\ phase = "decode" /\ aborted = "no"
  /\ phase' = "fetch"
  /\ IF executeOp = NoOp
     THEN executeOp' = decodeOp /\ decodeOp' = NoOp
     ELSE UNCHANGED <<executeOp, decodeOp>>
  /\ UNCHANGED <<program, pc, memOp, recovery, misses, caches, mshrs, dram,
                 aborted>>

-----------------------------------------------------------------------------
(***************************************************************************)
(* pipe_stage_fetch.                                                       *)
(***************************************************************************)
FetchStall ==
  /\ \/ decodeOp # NoOp
     \/ fetchMiss.waiting /\ ~ FillReady(fetchMiss.block)
  /\ UNCHANGED <<program, pipeline, misses, caches, mshrs, dram, aborted>>

FetchFill ==
  /\ decodeOp = NoOp /\ fetchMiss.waiting /\ FillReady(fetchMiss.block)
  /\ icache' = CompleteL1Fill(icache, fetchMiss.block)
  /\ mshrs' = MshrsWithout(fetchMiss.block)
  /\ fetchMiss' = [fetchMiss EXCEPT !.waiting = FALSE, !.block = 0]
  /\ UNCHANGED <<program, pipeline, memMiss, dcache, l2cache, dram, aborted>>

\* A cancelled miss whose fill has arrived gives its MSHR back, and the stage
\* goes on to access the cache in the same cycle.
DropsCancelled == fetchMiss.cancelled /\ FillReady(fetchMiss.block)

MshrsAtFetch == IF DropsCancelled THEN MshrsWithout(fetchMiss.block) ELSE mshrs

FetchMissState ==
  IF DropsCancelled
  THEN [fetchMiss EXCEPT !.cancelled = FALSE, !.block = 0]
  ELSE fetchMiss

FetchAccess == decodeOp = NoOp /\ ~ fetchMiss.waiting

\* The instruction enters the decode slot.
FetchHit ==
  /\ FetchAccess /\ IsCached(icache, BlockOf(pc))
  /\ icache' = TouchBlock(icache, BlockOf(pc))
  /\ mshrs' = MshrsAtFetch
  /\ fetchMiss' = FetchMissState
  /\ decodeOp' = pc
  /\ pc' = pc + 1
  /\ UNCHANGED <<program, executeOp, memOp, recovery, memMiss, dcache, l2cache,
                 dram, aborted>>

\* The one l1_fetch_miss_addr now belongs to this miss, even if a cancelled
\* miss is still outstanding.
FetchWait ==
  /\ FetchAccess
  /\ L1MissWait(MshrsAtFetch, icache, BlockOf(pc), TRUE)
  /\ fetchMiss' = [FetchMissState EXCEPT !.waiting = TRUE, !.block = BlockOf(pc)]
  /\ UNCHANGED <<program, pipeline, memMiss, icache, dcache, dram, aborted>>

FetchNoMshr ==
  /\ FetchAccess /\ L1NoMshr(MshrsAtFetch, icache, BlockOf(pc))
  /\ Abort("no_mshr")

PipeStageFetch ==
  /\ phase = "fetch" /\ aborted = "no"
  /\ phase' = "recover"
  /\ FetchStall \/ FetchFill \/ FetchHit \/ FetchWait \/ FetchNoMshr

-----------------------------------------------------------------------------
\* Mutation: the recovery leaves fetch waiting.
FetchStillWaiting == [fetchMiss EXCEPT !.cancelled = @ \/ fetchMiss.waiting]

\* The miss that fetch waits for is cancelled; its MSHR stays allocated.
FetchCancelled ==
  [fetchMiss EXCEPT !.cancelled = @ \/ fetchMiss.waiting, !.waiting = FALSE]

(***************************************************************************)
(* The end of pipe_cycle: a taken branch redirects fetch, flushes decode   *)
(* and execute and cancels the miss fetch waits for.                       *)
(***************************************************************************)
BranchRecovery ==
  /\ phase = "recover" /\ aborted = "no"
  /\ phase' = "dram"
  /\ IF recovery = NoOp THEN UNCHANGED <<pipeline, fetchMiss>>
     ELSE /\ pc' = recovery
          /\ decodeOp' = NoOp /\ executeOp' = NoOp
          /\ recovery' = NoOp
          /\ fetchMiss' = FetchCancelled
          /\ UNCHANGED memOp
  /\ UNCHANGED <<program, memMiss, caches, mshrs, dram, aborted>>

-----------------------------------------------------------------------------
(***************************************************************************)
(* memory_controller_cycle.                                                *)
(***************************************************************************)
\* 1. Fills that are due are done.
MarkDone(ms) ==
  [i \in Mshrs |->
    IF ms[i].valid /\ ms[i].fill = 0 THEN [ms[i] EXCEPT !.done = TRUE] ELSE ms[i]]

\* Mutation: only the misses of the data cache are queued.
UnqueuedData(ms) ==
  {i \in Mshrs : /\ ms[i].valid /\ ~ ms[i].done /\ ms[i].fill = NotQueued
                 /\ ~ ms[i].isIcache}

\* 2. Unqueued L2 misses take the free slots, both in index order.  The mark
\* fill_ready_cycle = 1 keeps a miss from being queued again; it is a time, and
\* one that has already come.
Unqueued(ms) ==
  {i \in Mshrs : ms[i].valid /\ ~ ms[i].done /\ ms[i].fill = NotQueued}

FreeSlots == {s \in Slots : queue[s] = NoRequest}

RankIn(S, x) == Cardinality({y \in S : y < x})

QueueMisses(ms) ==
  [s \in Slots |->
    IF \E i \in Unqueued(ms) : s \in FreeSlots /\ RankIn(FreeSlots, s) = RankIn(Unqueued(ms), i)
    THEN LET i == CHOOSE i \in Unqueued(ms) :
                    RankIn(FreeSlots, s) = RankIn(Unqueued(ms), i)
         IN  [block |-> ms[i].block, arrival |-> 0,
              fromMem |-> ~ ms[i].isIcache, mshr |-> i]
    ELSE queue[s]]

MarkQueued(ms) ==
  [i \in Mshrs |->
    IF i \in Unqueued(ms) THEN [ms[i] EXCEPT !.fill = 0] ELSE ms[i]]

\* 3. The fill time of the issued request goes through its mshr pointer.
IssueFill(ms, request) ==
  [ms EXCEPT ![request.mshr].fill =
     IF ms[request.mshr].valid
     THEN FillCompleteCycle(0, NumCommands(banks, request.block))
     ELSE @]

\* 4. Requests still queued whose MSHR is done go to L2, in slot order.
InsertFills(l2, q, ms) ==
  LET after[s \in 0 .. QueueCapacity] ==
        IF s = 0 THEN l2
        ELSE IF q[s - 1] # NoRequest /\ ms[q[s - 1].mshr].done
             THEN InsertL2Block(after[s - 1], q[s - 1].block)
             ELSE after[s - 1]
  IN  after[QueueCapacity]

(***************************************************************************)
(* The next cycle begins: stat_cycles++ in shell.c.  A bank forgets a      *)
(* start so long ago that everything it reserved is over.                  *)
(***************************************************************************)
LongAgo == -(3 * BankBusyCycles + DataTfCycles)

AgeMshrs(ms) ==
  [i \in Mshrs |-> IF ms[i].fill > 0 THEN [ms[i] EXCEPT !.fill = @ - 1] ELSE ms[i]]

AgeBanks(bs) ==
  [b \in Banks |->
    IF bs[b].hasOpenRow /\ bs[b].reqStart > LongAgo
    THEN [bs[b] EXCEPT !.reqStart = @ - 1] ELSE bs[b]]

AgeQueue(q) ==
  [s \in Slots |->
    IF q[s] = NoRequest THEN NoRequest ELSE [q[s] EXCEPT !.arrival = @ - 1]]

\* assert(0): an L2 miss finds no free slot.
QueueOverflow ==
  /\ Cardinality(Unqueued(MarkDone(mshrs))) > Cardinality(FreeSlots)
  /\ Abort("queue_full")

ServeMemory ==
  LET done     == MarkDone(mshrs)
      q        == QueueMisses(done)
      marked   == MarkQueued(done)
      selected == SelectRequestToSchedule(banks, q, 0)
  IN  /\ Cardinality(Unqueued(done)) <= Cardinality(FreeSlots)
      /\ IF selected = {}
         THEN /\ mshrs' = AgeMshrs(marked)
              /\ queue' = AgeQueue(q)
              /\ banks' = AgeBanks(banks)
              /\ l2cache' = InsertFills(l2cache, q, marked)
         ELSE \E s \in selected :
                LET served == IssueFill(marked, q[s])
                    left   == [q EXCEPT ![s] = NoRequest]
                IN  /\ mshrs' = AgeMshrs(served)
                    /\ queue' = AgeQueue(left)
                    /\ banks' = AgeBanks(IssueOnBank(banks, q[s].block, 0))
                    /\ l2cache' = InsertFills(l2cache, left, served)
      /\ UNCHANGED <<program, pipeline, misses, icache, dcache, aborted>>

MemoryControllerCycle ==
  /\ phase = "dram" /\ aborted = "no"
  /\ phase' = "mem"
  /\ QueueOverflow \/ ServeMemory

\* The simulator has stopped on assert(0).
Aborted == aborted # "no" /\ UNCHANGED vars

Next ==
  \/ PipeStageMem \/ PipeStageExecute \/ PipeStageDecode \/ PipeStageFetch
  \/ BranchRecovery \/ MemoryControllerCycle
  \/ Aborted

Spec == Init /\ [][Next]_vars

\* run() calls cycle() until the program ends or the simulator aborts.
FairSpec == Spec /\ WF_vars(Next)

-----------------------------------------------------------------------------
(***************************************************************************)
(* Properties.                                                             *)
(***************************************************************************)
Cache(sets, ways) ==
  [0 .. sets - 1 -> [0 .. ways - 1 -> CacheBlock(Nat, ways)]]

\* Every variable keeps its type; the recency of an L2 block never leaves the
\* range that insert_l2_block searches for its victim.
TypeOK ==
  /\ phase \in {"mem", "execute", "decode", "fetch", "recover", "dram"}
  /\ pc \in Nat
  /\ {decodeOp, executeOp, memOp, recovery} \subseteq Nat \cup {NoOp}
  /\ fetchMiss \in [waiting : BOOLEAN, cancelled : BOOLEAN, block : Nat]
  /\ memMiss \in [waiting : BOOLEAN, block : Nat]
  /\ icache \in Cache(L1Sets, L1Ways) /\ dcache \in Cache(L1Sets, L1Ways)
  /\ l2cache \in Cache(L2Sets, L2Ways)
  /\ mshrs \in [Mshrs -> [valid : BOOLEAN, done : BOOLEAN, block : Nat,
                          fill : Nat \cup {NotQueued}, isIcache : BOOLEAN]]
  /\ banks \in [Banks -> Bank]
  /\ \A s \in Slots : queue[s] # NoRequest =>
       queue[s] \in [block : Nat, arrival : Int, fromMem : BOOLEAN, mshr : Mshrs]
  /\ aborted \in {"no", "no_mshr", "queue_full"}

\* A stage waits for the block it needs now, by an MSHR of that block.  A redirected
\* fetch never goes on waiting for the block of the wrong path; and the other
\* stage, or the release of a cancelled miss through the shared address variable, never
\* takes the MSHR away while code and data lie in different blocks.
WaitsForWhatItNeeds ==
  /\ fetchMiss.waiting =>
       fetchMiss.block = BlockOf(pc) /\ FindMshr(mshrs, fetchMiss.block) # {}
  /\ memMiss.waiting =>
       /\ MemAccesses /\ memMiss.block = MemBlock
       /\ FindMshr(mshrs, memMiss.block) # {}

\* The op that execute hands on to MEM next, perhaps not fetched yet.
NextOp ==
  IF executeOp # NoOp THEN executeOp ELSE IF decodeOp # NoOp THEN decodeOp ELSE pc

\* The instructions that may follow op in the executed path.
Successors(op) ==
  (IF Instruction(op).kind = "jump" THEN {} ELSE {op + 1})
    \cup (IF Instruction(op).kind \in {"branch", "jump"} THEN {Instruction(op).dest} ELSE {})

\* The slots hold consecutive instructions.  Behind MEM they go on with a
\* successor of its op, except until the recovery at the end of a cycle.
Consecutive ==
  /\ decodeOp # NoOp => pc = decodeOp + 1
  /\ executeOp # NoOp =>
       IF decodeOp = NoOp THEN pc = executeOp + 1 ELSE decodeOp = executeOp + 1
  /\ memOp # NoOp =>
       IF recovery = NoOp THEN NextOp \in Successors(memOp)
       ELSE NextOp = memOp + 1 /\ recovery \in Successors(memOp)

\* MEM keeps its op until the access is done, then takes the next one, and only
\* a recovery changes which one that is.
MemTakesTheNext ==
  \/ memOp' = memOp /\ NextOp' = NextOp
  \/ memOp # NoOp /\ ~ memMiss.waiting /\ memOp' = NoOp /\ NextOp' = NextOp
  \/ memOp = NoOp /\ memOp' = NextOp /\ NextOp' = NextOp + 1
  \/ recovery # NoOp /\ memOp' = memOp /\ NextOp' = recovery

\* MEM executes the instructions of one path through the program, each once and
\* without a gap: no stall of fetch, decode, execute or MEM loses or duplicates
\* an op (pipe.c:365), and none of the wrong path stays behind a jump or a taken branch.
ProgramOrder == []Consecutive /\ [][MemTakesTheNext]_vars

NoDuplicates(cache) ==
  \A s \in DOMAIN cache : \A v, w \in DOMAIN cache[s] :
    /\ cache[s][v].valid /\ cache[s][w].valid
    /\ cache[s][v].tag = cache[s][w].tag
    => v = w

\* The two stages and the cancelled misses never hold two MSHRs for one block:
\* l1_cache_access finds the pending one, whoever allocated it.  So a block is filled
\* once and has one copy in an L1 cache, although complete_l1_fill does not look.
OneOfEachBlock ==
  /\ \A i, j \in Mshrs :
       mshrs[i].valid /\ mshrs[j].valid /\ mshrs[i].block = mshrs[j].block => i = j
  /\ NoDuplicates(icache) /\ NoDuplicates(dcache)

\* The recencies of the valid blocks of an L2 set are 0, 1, ... without gaps or
\* ties, so a full set has exactly one least recently used block, although
\* inserting and touching a block age the others by different rules.
L2RecencyIsOrder ==
  \A s \in DOMAIN l2cache :
    LET used == {w \in DOMAIN l2cache[s] : l2cache[s][w].valid}
    IN  {l2cache[s][w].recency : w \in used} = 0 .. Cardinality(used) - 1

\* Every miss is answered: no stage waits forever, whatever was cancelled,
\* queued or served before, unless the simulator stops on an assert.
MissesAnswered ==
  /\ fetchMiss.waiting ~> (~ fetchMiss.waiting \/ aborted # "no")
  /\ memMiss.waiting ~> (~ memMiss.waiting \/ aborted # "no")

-----------------------------------------------------------------------------
(***************************************************************************)
(* What the comments of the source say and the code does not do.           *)
(***************************************************************************)
\* cache.h says of done: "1 = memory fill ready, 0 = still waiting".
DoneMeansFilled ==
  \A s \in Slots : queue[s] # NoRequest => ~ mshrs[queue[s].mshr].done

\* cache.h says of CACHE_NO_MSHR: "should never occur".
NoMshrNeverOccurs == aborted # "no_mshr"

\* cache.h: "recency = 0 -> most recently used", of which a set has one.
OneMostRecentInL1 ==
  \A s \in DOMAIN dcache :
    Cardinality({w \in DOMAIN dcache[s] :
                  dcache[s][w].valid /\ dcache[s][w].recency = 0}) <= 1
=============================================================================

--------------------------- MODULE DramController ---------------------------
(***************************************************************************)
(* The decisions of the DRAM controller of the second lab's timing         *)
(* simulator (lab2/src/mem_controller.c): address mapping, row buffer      *)
(* status, the three timing checks of is_request_schedulable, the FR-FCFS  *)
(* choice among the queued requests, and the update of a bank when a       *)
(* request is issued.                                                      *)
(*                                                                         *)
(* The operators take the bank states, the queue and the current cycle as  *)
(* arguments, so that MemController (absolute time, a log of every issued  *)
(* request) and MemHierarchy (time relative to the current cycle, caches   *)
(* and MSHRs around the controller) share one definition of each decision. *)
(*                                                                         *)
(* An address is abstracted to its block number, address >> 5.             *)
(***************************************************************************)
EXTENDS Integers, FiniteSets

CONSTANTS
  NumBanks,        \* NUM_BANKS, 8 in cache.h
  RowBlocks,       \* blocks with the same row index: 2^16 / 32 in the source
  CmdCycles,       \* CMD_CYCLES, 4: a command holds the command bus this long
  BankBusyCycles,  \* BANK_BUSY_CYCLES, 100: and its bank this long
  DataTfCycles,    \* DATA_TF_CYCLES, 50: a block holds the data bus this long
  FillLatency,     \* MEM_TO_L2_LATENCY + L2_TO_MEM_LATENCY, 10
  QueueCapacity,   \* 256, the argument of init_memory_controller
  NoRequest        \* a queue slot whose valid flag is 0

(***************************************************************************)
(* The relations between the timing constants of mem_controller.h that the *)
(* controller relies on: 4 <= 100 and 50 <= 100.                           *)
(***************************************************************************)
ASSUME TimingAssumption ==
  /\ NumBanks \in Nat \ {0}
  /\ RowBlocks \in Nat \ {0}
  /\ BankBusyCycles \in Nat \ {0}
  /\ CmdCycles \in 1 .. BankBusyCycles
  /\ DataTfCycles \in 1 .. BankBusyCycles
  /\ FillLatency \in Nat
  /\ QueueCapacity \in Nat \ {0}

Banks == 0 .. NumBanks - 1
Slots == 0 .. QueueCapacity - 1

\* The state of one bank; numCommands is 1, 2 or 3 once it has served a request.
Bank == [hasOpenRow  : BOOLEAN,
         openRow     : Nat,
         reqStart    : Int,
         numCommands : 0 .. 3]

\* calloc'ed banks: no row open, nothing scheduled.
UnusedBank ==
  [hasOpenRow |-> FALSE, openRow |-> 0, reqStart |-> 0, numCommands |-> 0]

\* Bits [7:5] of the address are the low bits of the block number.
GetBankIndex(block) == block % NumBanks

\* Bits [31:16] of the address.
GetRowIndex(block) == block \div RowBlocks

IsRowHit(banks, block) ==
  LET bank == banks[GetBankIndex(block)]
  IN  bank.hasOpenRow /\ bank.openRow = GetRowIndex(block)

\* Mutation: the transfer counted as a command on a row conflict.
NumCommandsWithTransfer(banks, block) ==
  IF IsRowHit(banks, block) THEN 1
  ELSE IF banks[GetBankIndex(block)].hasOpenRow THEN 4 ELSE 2

(***************************************************************************)
(* READ/WRITE on a row hit, ACTIVATE first when no row is open, PRECHARGE  *)
(* before that when another row is open.                                   *)
(***************************************************************************)
NumCommands(banks, block) ==
  IF IsRowHit(banks, block) THEN 1
  ELSE IF banks[GetBankIndex(block)].hasOpenRow THEN 3 ELSE 2

-----------------------------------------------------------------------------
(***************************************************************************)
(* Timing.  [start, start + length - 1] are the cycles a resource is held. *)
(***************************************************************************)
Disjoint(start1, length1, start2, length2) ==
  start1 + length1 <= start2 \/ start2 + length2 <= start1

\* Command k of a request begins k bank-busy periods after the request.
CommandStart(start, k) == start + k * BankBusyCycles

\* When the commands are done: the bank is released, the transfer begins.
CommandsEnd(start, n) == start + n * BankBusyCycles

\* Mutation: only the first command of a scheduled request counts.
FirstCommandBusFree(banks, n, cycle) ==
  \A b \in Banks : banks[b].hasOpenRow =>
    \A k \in 0 .. n - 1 :
      Disjoint(CommandStart(cycle, k), CmdCycles, banks[b].reqStart, CmdCycles)

\* 1. No command of ours meets a command last scheduled on any bank.
CommandBusFree(banks, n, cycle) ==
  \A b \in Banks : banks[b].hasOpenRow =>
    \A k \in 0 .. n - 1, j \in 0 .. banks[b].numCommands - 1 :
      Disjoint(CommandStart(cycle, k), CmdCycles,
               CommandStart(banks[b].reqStart, j), CmdCycles)

\* Mutation: <= for < against the inclusive end of a transfer.
DataBusFreeInclusive(banks, n, cycle) ==
  \A b \in Banks : banks[b].hasOpenRow =>
    Disjoint(CommandsEnd(cycle, n), DataTfCycles - 1,
             CommandsEnd(banks[b].reqStart, banks[b].numCommands),
             DataTfCycles - 1)

\* 2. Our transfer meets no transfer last scheduled by any bank.
DataBusFree(banks, n, cycle) ==
  \A b \in Banks : banks[b].hasOpenRow =>
    Disjoint(CommandsEnd(cycle, n), DataTfCycles,
             CommandsEnd(banks[b].reqStart, banks[b].numCommands), DataTfCycles)

\* Mutation: the bank is released when its last command starts.
BankFreeEarly(bank, n, cycle) ==
  bank.openRow # 0 =>
    Disjoint(cycle, n * BankBusyCycles,
             bank.reqStart, (bank.numCommands - 1) * BankBusyCycles)

\* Mutation: half of the overlap test.
BankFreeBefore(bank, n, cycle) ==
  bank.openRow # 0 => cycle + n * BankBusyCycles <= bank.reqStart

\* 3. Our bank is free.  The code tests open_row here, not has_open_row.
BankFree(bank, n, cycle) ==
  bank.openRow # 0 =>
    Disjoint(cycle, n * BankBusyCycles,
             bank.reqStart, bank.numCommands * BankBusyCycles)

IsRequestSchedulable(banks, block, cycle) ==
  LET n == NumCommands(banks, block)
  IN  /\ CommandBusFree(banks, n, cycle)
      /\ DataBusFree(banks, n, cycle)
      /\ BankFree(banks[GetBankIndex(block)], n, cycle)

-----------------------------------------------------------------------------
(***************************************************************************)
(* FR-FCFS.                                                                *)
(***************************************************************************)
Candidates(banks, queue, cycle) ==
  {i \in Slots : /\ queue[i] # NoRequest
                 /\ queue[i].arrival <= cycle
                 /\ IsRequestSchedulable(banks, queue[i].block, cycle)}

\* Mutation: no "continue" when the best so far is a row hit and this one is not.
BeatsHits(banks, r, best) ==
  LET hit(q) == IsRowHit(banks, q.block)
  IN  \/ hit(r) /\ ~ hit(best)
      \/ r.arrival < best.arrival
      \/ r.arrival = best.arrival /\ r.fromMem /\ ~ best.fromMem

\* The loop replaces its best request only by one that beats it: a row hit
\* over a miss, then the earlier arrival, then the MEM stage over fetch.
Beats(banks, r, best) ==
  LET hit(q) == IsRowHit(banks, q.block)
  IN  \/ hit(r) /\ ~ hit(best)
      \/ /\ hit(r) = hit(best)
         /\ \/ r.arrival < best.arrival
            \/ r.arrival = best.arrival /\ r.fromMem /\ ~ best.fromMem

\* What the loop over the slots ends with: the first slot that no candidate
\* beats.  SchedulerDecides (MemController) says that there is exactly one.
SelectRequestToSchedule(banks, queue, cycle) ==
  {i \in Candidates(banks, queue, cycle) :
     \A j \in Candidates(banks, queue, cycle) :
       /\ ~ Beats(banks, queue[j], queue[i])
       /\ j < i => Beats(banks, queue[i], queue[j])}

(***************************************************************************)
(* The part of issue_dram_request that updates the bank.                   *)
(***************************************************************************)
IssueOnBank(banks, block, cycle) ==
  [banks EXCEPT ![GetBankIndex(block)] =
     [hasOpenRow  |-> TRUE,
      openRow     |-> GetRowIndex(block),
      reqStart    |-> cycle,
      numCommands |-> NumCommands(banks, block)]]

\* When a request issued at cycle is filled.
FillCompleteCycle(cycle, n) == CommandsEnd(cycle, n) + DataTfCycles + FillLatency
=============================================================================

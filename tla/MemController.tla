---------------------------- MODULE MemController ----------------------------
(***************************************************************************)
(* The DRAM controller as a machine of its own: every call of              *)
(* memory_controller_cycle queues the L2 misses it finds in the MSHRs      *)
(* (QueueMiss, one iteration of that loop each) and then issues at most    *)
(* one request (IssueRequest), or none (IdleCycle), which ends the cycle.  *)
(* Which blocks miss is the environment's choice; MemHierarchy puts the    *)
(* MSHRs and caches there.                                                 *)
(*                                                                         *)
(* A bank remembers only the last request it was given.  The history       *)
(* variable issued remembers all of them, so that the invariants can say   *)
(* that no two requests ever hold a bus or a bank together.                *)
(***************************************************************************)
EXTENDS DramController

CONSTANTS
  Blocks,    \* the block numbers that may miss
  MaxCycle   \* bound of the clock, for TLC

ASSUME BoundAssumption ==
  /\ Blocks \subseteq Nat
  /\ MaxCycle \in Nat

VARIABLES
  now,      \* stat_cycles, the argument of memory_controller_cycle
  banks,    \* MemController.banks
  queue,    \* MemController.queue
  issued    \* history: every request issued, with the resources it was given

vars == <<now, banks, queue, issued>>

Request == [block : Blocks, arrival : Nat, fromMem : BOOLEAN]

ASSUME NoRequestAssumption == NoRequest \notin Request

Reservation == [block : Blocks, start : Nat, numCommands : 1 .. 3]

\* The state has its type: requests are in the slots of the queue, and what a bank
\* remembers and what was issued occupies one to three commands (mem_controller.c:46-61).
TypeOK ==
  /\ now \in Nat
  /\ banks \in [Banks -> Bank]
  /\ queue \in [Slots -> Request \cup {NoRequest}]
  /\ issued \subseteq Reservation

-----------------------------------------------------------------------------
Init ==
  /\ now = 0
  /\ banks = [b \in Banks |-> UnusedBank]
  /\ queue = [i \in Slots |-> NoRequest]
  /\ issued = {}

\* An MSHR that holds an unqueued L2 miss goes to the first free slot.
QueueMiss(block, fromMem) ==
  /\ now < MaxCycle
  /\ \E i \in Slots :
       /\ queue[i] = NoRequest
       /\ \A j \in Slots : j < i => queue[j] # NoRequest
       /\ queue' = [queue EXCEPT
            ![i] = [block |-> block, arrival |-> now, fromMem |-> fromMem]]
  /\ UNCHANGED <<now, banks, issued>>

\* select_request_to_schedule found a request: issue it, free its slot.
IssueRequest ==
  /\ now < MaxCycle
  /\ \E i \in SelectRequestToSchedule(banks, queue, now) :
       LET block == queue[i].block
       IN  /\ banks' = IssueOnBank(banks, block, now)
           /\ queue' = [queue EXCEPT ![i] = NoRequest]
           /\ issued' = issued \cup
                {[block |-> block, start |-> now,
                  numCommands |-> NumCommands(banks, block)]}
  /\ now' = now + 1

\* It returned NULL.
IdleCycle ==
  /\ now < MaxCycle
  /\ Candidates(banks, queue, now) = {}
  /\ now' = now + 1
  /\ UNCHANGED <<banks, queue, issued>>

Next ==
  \/ \E block \in Blocks, fromMem \in BOOLEAN : QueueMiss(block, fromMem)
  \/ IssueRequest
  \/ IdleCycle

Spec == Init /\ [][Next]_vars

-----------------------------------------------------------------------------
(***************************************************************************)
(* Safety.  A request that opened row 0 is not protected by the bank check *)
(* (see BankFree), so the invariants that hold are about the others.       *)
(***************************************************************************)
RowOf(r) == GetRowIndex(r.block)
BankOf(r) == GetBankIndex(r.block)

Protected == {r \in issued : RowOf(r) # 0}

CommandsDisjoint(r, s) ==
  \A k \in 0 .. r.numCommands - 1, j \in 0 .. s.numCommands - 1 :
    Disjoint(CommandStart(r.start, k), CmdCycles,
             CommandStart(s.start, j), CmdCycles)

TransfersDisjoint(r, s) ==
  Disjoint(CommandsEnd(r.start, r.numCommands), DataTfCycles,
           CommandsEnd(s.start, s.numCommands), DataTfCycles)

BankUseDisjoint(r, s) ==
  Disjoint(r.start, r.numCommands * BankBusyCycles,
           s.start, s.numCommands * BankBusyCycles)

\* Two requests never drive the command bus in the same cycle, although
\* is_request_schedulable looks only at the last request of each bank.
CommandBusExclusive ==
  \A r, s \in Protected : r # s => CommandsDisjoint(r, s)

\* Two requests never drive the data bus in the same cycle.
DataBusExclusive ==
  \A r, s \in Protected : r # s => TransfersDisjoint(r, s)

\* A bank never works on two requests at a time.
BankExclusive ==
  \A r, s \in Protected :
    r # s /\ BankOf(r) = BankOf(s) => BankUseDisjoint(r, s)

\* The comparisons of select_request_to_schedule order the candidates: they
\* single out one request whenever some request passes the timing checks, in
\* whatever slots the requests are.
SchedulerDecides ==
  Candidates(banks, queue, now) # {} =>
    Cardinality(SelectRequestToSchedule(banks, queue, now)) = 1

AllReservationsOver ==
  \A r \in issued :
    CommandsEnd(r.start, r.numCommands) + DataTfCycles <= now

\* When every reservation has run out and a request waits, a cycle that ends
\* issues one: the three checks never block a request on an idle DRAM, so the
\* scheduler cannot deadlock.
IdleDramServes ==
  [][/\ now' # now
     /\ AllReservationsOver
     /\ \E i \in Slots : queue[i] # NoRequest
     => issued' # issued]_vars
=============================================================================

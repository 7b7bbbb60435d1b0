------------------------- MODULE MemControllerProofs -------------------------
(***************************************************************************)
(* Proofs about MemController for every number of banks, rows, slots and   *)
(* blocks and for all timing constants that satisfy TimingAssumption.      *)
(*                                                                         *)
(* The exclusivity invariants are not inductive: is_request_schedulable    *)
(* compares a request only with the last one of each bank, so nothing in   *)
(* the exclusivity of the past says that an older request of the bank is   *)
(* out of the way.  RememberedOrOver adds that: a protected request is     *)
(* still the one its bank remembers, or its commands have ended.           *)
(***************************************************************************)
EXTENDS MemController, FiniteSetTheorems, WellFoundedInduction, TLAPS

-----------------------------------------------------------------------------
(***************************************************************************)
(* Numbers.                                                                *)
(***************************************************************************)
\* A set of numbers that is not empty has a least member.
LEMMA LeastNatural ==
  ASSUME NEW S \in SUBSET Nat, S # {}
  PROVE  \E n \in S : \A m \in S : n <= m
  <1> DEFINE R == {ss \in Nat \X Nat : ss[1] < ss[2]}
  <1>1. IsWellFoundedOn(R, Nat)
    BY NatLessThanWellFounded DEF OpToRel
  <1>2. PICK n \in S : \A m \in S : ~ (<<m, n>> \in R)
    <2> HIDE DEF R
    <2> QED
      BY <1>1, WFMin
  <1>3. \A m \in S : ~ (m < n)
    BY <1>2
  <1> QED
    BY <1>3

-----------------------------------------------------------------------------
Remembered(r) ==
  /\ banks[BankOf(r)].hasOpenRow
  /\ banks[BankOf(r)].openRow = RowOf(r)
  /\ banks[BankOf(r)].reqStart = r.start
  /\ banks[BankOf(r)].numCommands = r.numCommands

RememberedOrOver ==
  \A r \in Protected :
    /\ r.start < now
    /\ Remembered(r) \/ CommandsEnd(r.start, r.numCommands) <= now

IInv ==
  /\ TypeOK
  /\ RememberedOrOver
  /\ CommandBusExclusive
  /\ DataBusExclusive
  /\ BankExclusive

-----------------------------------------------------------------------------
\* The address mapping yields a bank of the DRAM and a row number.
LEMMA AddressMapping ==
  ASSUME NEW block \in Nat
  PROVE  /\ GetBankIndex(block) \in Banks
         /\ GetRowIndex(block) \in Nat
  <1>1. NumBanks \in Nat \ {0} /\ RowBlocks \in Nat \ {0}
    BY TimingAssumption
  <1>2. block % NumBanks \in 0 .. NumBanks - 1
    BY <1>1
  <1>3. block \div RowBlocks \in Nat
    BY <1>1
  <1> QED
    BY <1>2, <1>3 DEF GetBankIndex, GetRowIndex, Banks

\* One, two or three commands, whatever the bank's state.
LEMMA NumCommandsRange ==
  ASSUME NEW block \in Nat, NEW bs
  PROVE  NumCommands(bs, block) \in 1 .. 3
  BY DEF NumCommands

-----------------------------------------------------------------------------
\* Command k of a request is over when the request releases its bank: this is
\* where CMD_CYCLES <= BANK_BUSY_CYCLES is needed.
LEMMA CommandsFitBankTime ==
  ASSUME NEW start \in Int, NEW n \in 1 .. 3, NEW k \in 0 .. n - 1
  PROVE  /\ CommandStart(start, k) \in Int
         /\ CommandStart(start, k) >= start
         /\ CommandStart(start, k) + CmdCycles <= CommandsEnd(start, n)
  <1>1. BankBusyCycles \in Nat \ {0} /\ CmdCycles \in 1 .. BankBusyCycles
    BY TimingAssumption
  <1>2. k \in 0 .. 2 /\ k + 1 <= n
    OBVIOUS
  <1>3. CASE k = 0
    BY <1>1, <1>2, <1>3 DEF CommandStart, CommandsEnd
  <1>4. CASE k = 1
    BY <1>1, <1>2, <1>4 DEF CommandStart, CommandsEnd
  <1>5. CASE k = 2
    BY <1>1, <1>2, <1>5 DEF CommandStart, CommandsEnd
  <1> QED
    BY <1>2, <1>3, <1>4, <1>5

\* A request holds its bank for at least one bank-busy period.
LEMMA CommandsTakeTime ==
  ASSUME NEW start \in Int, NEW n \in 1 .. 3
  PROVE  /\ CommandsEnd(start, n) \in Int
         /\ CommandsEnd(start, n) >= start + BankBusyCycles
         /\ n * BankBusyCycles \in Nat
  <1>1. BankBusyCycles \in Nat \ {0}
    BY TimingAssumption
  <1>2. n = 1 \/ n = 2 \/ n = 3
    OBVIOUS
  <1> QED
    BY <1>1, <1>2 DEF CommandsEnd

-----------------------------------------------------------------------------
\* A request that passes the checks meets no earlier protected request, on
\* either bus or on its bank.  The remembered ones are what the checks look
\* at; the others are over.
LEMMA SchedulableMeetsNobody ==
  ASSUME TypeOK, RememberedOrOver,
         NEW block \in Blocks,
         IsRequestSchedulable(banks, block, now),
         NEW r \in Protected,
         NEW new, new = [block |-> block, start |-> now,
                         numCommands |-> NumCommands(banks, block)]
  PROVE  /\ CommandsDisjoint(new, r) /\ CommandsDisjoint(r, new)
         /\ TransfersDisjoint(new, r) /\ TransfersDisjoint(r, new)
         /\ BankOf(new) = BankOf(r) =>
              BankUseDisjoint(new, r) /\ BankUseDisjoint(r, new)
         /\ BankOf(new) = BankOf(r) =>
              CommandsEnd(r.start, r.numCommands) <= now
  <1> DEFINE n == NumCommands(banks, block)
             m == r.numCommands
  <1>1. r \in Reservation /\ now \in Nat
    BY DEF TypeOK, Protected
  <1>2. block \in Nat /\ r.block \in Nat
    BY <1>1, BoundAssumption DEF Reservation
  <1>3. n \in 1 .. 3 /\ m \in 1 .. 3 /\ r.start \in Nat
    BY <1>1, <1>2, NumCommandsRange DEF Reservation
  <1>4. /\ BankOf(r) \in Banks /\ BankOf(new) \in Banks
        /\ BankOf(new) = GetBankIndex(block)
    BY <1>2, AddressMapping DEF BankOf
  <1>5. /\ CommandsEnd(now, n) \in Int
        /\ CommandsEnd(r.start, m) \in Int
        /\ CommandsEnd(now, n) >= now + BankBusyCycles
        /\ CommandsEnd(r.start, m) >= r.start + BankBusyCycles
        /\ n * BankBusyCycles \in Nat /\ m * BankBusyCycles \in Nat
    BY <1>1, <1>3, CommandsTakeTime
  <1>6. /\ BankBusyCycles \in Nat \ {0}
        /\ CmdCycles \in 1 .. BankBusyCycles
        /\ DataTfCycles \in 1 .. BankBusyCycles
    BY TimingAssumption
  <1>7. r.start < now
    BY DEF RememberedOrOver
  <1> HIDE DEF n, m
  <1>a. CASE CommandsEnd(r.start, m) <= now
    <2>1. ASSUME NEW k \in 0 .. n - 1, NEW j \in 0 .. m - 1
          PROVE  /\ CommandStart(now, k) \in Int /\ CommandStart(r.start, j) \in Int
                 /\ CommandStart(r.start, j) + CmdCycles <= CommandStart(now, k)
      <3>1. CommandStart(now, k) \in Int /\ CommandStart(now, k) >= now
        <4>1. now \in Int
          BY <1>1
        <4> QED
          BY <4>1, <1>3, CommandsFitBankTime
      <3>2. /\ CommandStart(r.start, j) \in Int
            /\ CommandStart(r.start, j) + CmdCycles <= CommandsEnd(r.start, m)
        <4>1. r.start \in Int
          BY <1>3
        <4> QED
          BY <4>1, <1>3, CommandsFitBankTime
      <3> QED
        BY <1>a, <1>1, <1>5, <1>6, <3>1, <3>2
    <2>2. CommandsDisjoint(new, r) /\ CommandsDisjoint(r, new)
      BY <2>1 DEF CommandsDisjoint, Disjoint, n, m
    <2>3. CommandsEnd(r.start, m) + DataTfCycles <= CommandsEnd(now, n)
      BY <1>a, <1>1, <1>5, <1>6
    <2>4. TransfersDisjoint(new, r) /\ TransfersDisjoint(r, new)
      BY <2>3 DEF TransfersDisjoint, Disjoint, n, m
    <2>5. r.start + m * BankBusyCycles <= now
      BY <1>a DEF CommandsEnd
    <2>6. BankUseDisjoint(new, r) /\ BankUseDisjoint(r, new)
      BY <2>5 DEF BankUseDisjoint, Disjoint, m
    <2> QED
      BY <1>a, <2>2, <2>4, <2>6 DEF m
  <1>b. CASE Remembered(r)
    <2>1. CommandsDisjoint(new, r) /\ CommandsDisjoint(r, new)
      BY <1>b, <1>4 DEF IsRequestSchedulable, CommandBusFree, Remembered,
         CommandsDisjoint, Disjoint
    <2>2. TransfersDisjoint(new, r) /\ TransfersDisjoint(r, new)
      BY <1>b, <1>4 DEF IsRequestSchedulable, DataBusFree, Remembered,
         TransfersDisjoint, Disjoint
    <2>3. ASSUME BankOf(new) = BankOf(r)
          PROVE  Disjoint(now, n * BankBusyCycles, r.start, m * BankBusyCycles)
      BY <1>b, <1>4, <2>3 DEF IsRequestSchedulable, BankFree, Remembered,
         Protected, n, m
    <2>4. ASSUME BankOf(new) = BankOf(r)
          PROVE  r.start + m * BankBusyCycles <= now
      <3>1. n * BankBusyCycles >= 1
        BY <1>1, <1>5, <1>6 DEF CommandsEnd
      <3> QED
        BY <2>3, <2>4, <3>1, <1>1, <1>3, <1>5, <1>7 DEF Disjoint
    <2>5. BankOf(new) = BankOf(r) =>
            BankUseDisjoint(new, r) /\ BankUseDisjoint(r, new)
      BY <2>3 DEF BankUseDisjoint, Disjoint, n, m
    <2>6. BankOf(new) = BankOf(r) => CommandsEnd(r.start, r.numCommands) <= now
      BY <2>4 DEF CommandsEnd, m
    <2> QED
      BY <2>1, <2>2, <2>5, <2>6
  <1> QED
    BY <1>a, <1>b DEF RememberedOrOver, m

-----------------------------------------------------------------------------
\* Init and every step keep the types: in particular a bank never records
\* anything but one, two or three commands once it has served a request.
LEMMA TypeInit == Init => TypeOK
  BY TimingAssumption DEF Init, TypeOK, UnusedBank, Bank

\* Issuing a queued request leaves a well-formed bank and history.
LEMMA IssueType ==
  ASSUME TypeOK, NEW block \in Blocks
  PROVE  /\ IssueOnBank(banks, block, now) \in [Banks -> Bank]
         /\ [block |-> block, start |-> now,
             numCommands |-> NumCommands(banks, block)] \in Reservation
  <1>1. block \in Nat /\ now \in Nat
    BY BoundAssumption DEF TypeOK
  <1>2. NumCommands(banks, block) \in 1 .. 3
    BY <1>1, NumCommandsRange
  <1>3. GetRowIndex(block) \in Nat
    BY <1>1, AddressMapping
  <1>4. [hasOpenRow |-> TRUE, openRow |-> GetRowIndex(block), reqStart |-> now,
         numCommands |-> NumCommands(banks, block)] \in Bank
    BY <1>1, <1>2, <1>3 DEF Bank
  <1> QED
    BY <1>1, <1>2, <1>4 DEF IssueOnBank, TypeOK, Reservation

\* Every step of the controller keeps the types.
LEMMA TypeStep == TypeOK /\ [Next]_vars => TypeOK'
  <1> SUFFICES ASSUME TypeOK, [Next]_vars PROVE TypeOK'
    OBVIOUS
  <1>1. ASSUME NEW block \in Blocks, NEW fromMem \in BOOLEAN,
               QueueMiss(block, fromMem)
        PROVE  TypeOK'
    <2>1. [block |-> block, arrival |-> now, fromMem |-> fromMem] \in Request
      BY DEF TypeOK, Request
    <2> QED
      BY <1>1, <2>1 DEF QueueMiss, TypeOK
  <1>2. ASSUME IssueRequest PROVE TypeOK'
    <2>1. PICK i \in SelectRequestToSchedule(banks, queue, now) :
            /\ banks' = IssueOnBank(banks, queue[i].block, now)
            /\ queue' = [queue EXCEPT ![i] = NoRequest]
            /\ issued' = issued \cup
                 {[block |-> queue[i].block, start |-> now,
                   numCommands |-> NumCommands(banks, queue[i].block)]}
      BY <1>2 DEF IssueRequest
    <2>2. i \in Slots /\ queue[i] # NoRequest
      BY DEF SelectRequestToSchedule, Candidates
    <2>3. queue[i].block \in Blocks
      BY <2>2 DEF TypeOK, Request
    <2>4. banks' \in [Banks -> Bank] /\ issued' \subseteq Reservation
      BY <2>1, <2>3, IssueType DEF TypeOK
    <2>5. queue' \in [Slots -> Request \cup {NoRequest}]
      BY <2>1 DEF TypeOK
    <2>6. now' \in Nat
      BY <1>2 DEF IssueRequest, TypeOK
    <2> QED
      BY <2>4, <2>5, <2>6 DEF TypeOK
  <1>3. CASE IdleCycle
    BY <1>3 DEF IdleCycle, TypeOK
  <1>4. CASE UNCHANGED vars
    BY <1>4 DEF vars, TypeOK
  <1> QED
    BY <1>1, <1>2, <1>3, <1>4 DEF Next

\* The type invariant of the controller.
THEOREM TypeCorrect == Spec => []TypeOK
  BY TypeInit, TypeStep, PTL DEF Spec

-----------------------------------------------------------------------------
\* Issuing the request the scheduler selected keeps the whole invariant.
LEMMA IssueKeepsInvariant ==
  ASSUME IInv, TypeOK', IssueRequest
  PROVE  IInv'
  <1>1. PICK i \in SelectRequestToSchedule(banks, queue, now) :
          /\ banks' = IssueOnBank(banks, queue[i].block, now)
          /\ issued' = issued \cup
               {[block |-> queue[i].block, start |-> now,
                 numCommands |-> NumCommands(banks, queue[i].block)]}
          /\ now' = now + 1
    BY DEF IssueRequest
  <1> DEFINE block == queue[i].block
             new == [block |-> block, start |-> now,
                     numCommands |-> NumCommands(banks, block)]
  <1>2. /\ i \in Slots /\ queue[i] # NoRequest
        /\ IsRequestSchedulable(banks, block, now)
    BY DEF SelectRequestToSchedule, Candidates
  <1>3. block \in Blocks /\ block \in Nat
    BY <1>2, BoundAssumption DEF IInv, TypeOK, Request
  <1>4. now \in Nat /\ TypeOK /\ RememberedOrOver
    BY DEF IInv, TypeOK
  <1>5. BankOf(new) = GetBankIndex(block) /\ RowOf(new) = GetRowIndex(block)
    BY DEF BankOf, RowOf
  <1>6. ASSUME NEW r \in Protected
        PROVE  /\ CommandsDisjoint(new, r) /\ CommandsDisjoint(r, new)
               /\ TransfersDisjoint(new, r) /\ TransfersDisjoint(r, new)
               /\ BankOf(new) = BankOf(r) =>
                    BankUseDisjoint(new, r) /\ BankUseDisjoint(r, new)
               /\ BankOf(new) = BankOf(r) =>
                    CommandsEnd(r.start, r.numCommands) <= now
    BY <1>2, <1>3, <1>4, SchedulableMeetsNobody
  <1>7. Protected' \subseteq Protected \cup {new}
    BY <1>1 DEF Protected, RowOf
  <1>8. RememberedOrOver'
    <2> SUFFICES ASSUME NEW r \in Protected'
                 PROVE  /\ r.start < now'
                        /\ Remembered(r)' \/ CommandsEnd(r.start, r.numCommands) <= now'
      BY DEF RememberedOrOver
    <2>1. CASE r = new
      <3>1. GetBankIndex(block) \in Banks
        BY <1>3, AddressMapping
      <3>2. banks'[GetBankIndex(block)] =
              [hasOpenRow |-> TRUE, openRow |-> GetRowIndex(block),
               reqStart |-> now, numCommands |-> NumCommands(banks, block)]
        BY <1>1, <1>4, <3>1 DEF IssueOnBank, TypeOK
      <3>3. Remembered(r)'
        BY <2>1, <3>2, <1>5 DEF Remembered, RowOf, BankOf
      <3> QED
        BY <2>1, <3>3, <1>1, <1>4
    <2>2. CASE r \in Protected
      <3>1. r.start \in Nat /\ r.numCommands \in 1 .. 3 /\ r.start < now
        BY <2>2, <1>4 DEF TypeOK, Protected, Reservation, RememberedOrOver
      <3>2. CommandsEnd(r.start, r.numCommands) \in Int
        <4>1. r.start \in Int
          BY <3>1
        <4> QED
          BY <4>1, <3>1, CommandsTakeTime
      <3>3. CASE CommandsEnd(r.start, r.numCommands) <= now
        BY <3>1, <3>2, <3>3, <1>1, <1>4
      <3>4. CASE ~ (CommandsEnd(r.start, r.numCommands) <= now)
        <4>1. Remembered(r) /\ BankOf(r) # GetBankIndex(block)
          BY <3>4, <2>2, <1>4, <1>5, <1>6 DEF RememberedOrOver
        <4>2. banks'[BankOf(r)] = banks[BankOf(r)]
          <5>1. BankOf(r) \in Banks
            BY <2>2, <1>4, AddressMapping, BoundAssumption
               DEF BankOf, Protected, TypeOK, Reservation
          <5> QED
            BY <1>1, <1>4, <4>1, <5>1 DEF IssueOnBank, TypeOK
        <4>3. Remembered(r)'
          BY <4>1, <4>2 DEF Remembered, BankOf, RowOf
        <4> QED
          BY <4>3, <3>1, <1>1, <1>4
      <3> QED
        BY <3>3, <3>4
    <2> QED
      BY <2>1, <2>2, <1>7
  <1>9. CommandBusExclusive'
    BY <1>6, <1>7 DEF IInv, CommandBusExclusive, CommandsDisjoint
  <1>10. DataBusExclusive'
    BY <1>6, <1>7 DEF IInv, DataBusExclusive, TransfersDisjoint
  <1>11. BankExclusive'
    BY <1>6, <1>7 DEF IInv, BankExclusive, BankUseDisjoint, BankOf
  <1> QED
    BY <1>8, <1>9, <1>10, <1>11 DEF IInv

\* Nothing is issued at first, so the whole invariant holds.
LEMMA InvariantInit == Init => IInv
  BY TypeInit DEF Init, IInv, RememberedOrOver, CommandBusExclusive,
     DataBusExclusive, BankExclusive, Protected

\* Queueing and idling add no reservation; issuing is IssueKeepsInvariant.
LEMMA InvariantStep == IInv /\ [Next]_vars => IInv'
  <1> SUFFICES ASSUME IInv, [Next]_vars PROVE IInv'
    OBVIOUS
  <1> USE DEF IInv
  <1>1. TypeOK'
    BY TypeStep
  <1>2. CASE IssueRequest
    BY <1>1, <1>2, IssueKeepsInvariant
  <1>3. ASSUME UNCHANGED <<banks, issued>>, now' = now \/ now' = now + 1
        PROVE  IInv'
    <2>1. RememberedOrOver'
      <3> SUFFICES ASSUME NEW r \in Protected
                   PROVE  /\ r.start < now'
                          /\ Remembered(r)' \/ CommandsEnd(r.start, r.numCommands) <= now'
        BY <1>3 DEF RememberedOrOver, Protected, RowOf
      <3>1. /\ now \in Nat /\ r.start \in Nat /\ r.start \in Int
            /\ r.numCommands \in 1 .. 3
        BY DEF TypeOK, Protected, Reservation
      <3>2. CommandsEnd(r.start, r.numCommands) \in Int
        BY <3>1, CommandsTakeTime
      <3>3. Remembered(r) => Remembered(r)'
        BY <1>3 DEF Remembered, BankOf, RowOf
      <3> QED
        BY <1>3, <3>1, <3>2, <3>3 DEF RememberedOrOver
    <2>2. CommandBusExclusive' /\ DataBusExclusive' /\ BankExclusive'
      BY <1>3 DEF CommandBusExclusive, DataBusExclusive, BankExclusive,
         Protected, RowOf, BankOf, CommandsDisjoint, TransfersDisjoint,
         BankUseDisjoint
    <2> QED
      BY <1>1, <2>1, <2>2
  <1>4. ASSUME NEW block \in Blocks, NEW fromMem \in BOOLEAN,
               QueueMiss(block, fromMem)
        PROVE  IInv'
    BY <1>4, <1>3 DEF QueueMiss
  <1>5. CASE IdleCycle
    BY <1>5, <1>3 DEF IdleCycle
  <1>6. CASE UNCHANGED vars
    BY <1>6, <1>3 DEF vars
  <1> QED
    BY <1>2, <1>4, <1>5, <1>6 DEF Next

\* The invariant behind the three exclusivity theorems.
LEMMA Invariant == Spec => []IInv
  BY InvariantInit, InvariantStep, PTL DEF Spec

-----------------------------------------------------------------------------
\* is_request_schedulable keeps the command bus exclusive although it only
\* looks at the last request of each bank.
THEOREM CommandBusSafe == Spec => []CommandBusExclusive
  BY Invariant, PTL DEF IInv

\* The same for the data bus, where DATA_TF_CYCLES <= BANK_BUSY_CYCLES is what
\* protects the transfers no bank remembers any more.
THEOREM DataBusSafe == Spec => []DataBusExclusive
  BY Invariant, PTL DEF IInv

\* A bank serves one request at a time, row 0 excepted (see BankFree).
THEOREM BankSafe == Spec => []BankExclusive
  BY Invariant, PTL DEF IInv

-----------------------------------------------------------------------------
(***************************************************************************)
(* Progress of an idle DRAM.  The bank states and the queue must agree     *)
(* with the history: what a bank remembers was issued, and nothing in the  *)
(* queue or the history is from the future.                                *)
(***************************************************************************)
BanksRecorded ==
  \A b \in Banks :
    IF banks[b].hasOpenRow
    THEN \E r \in issued : /\ banks[b].reqStart = r.start
                            /\ banks[b].numCommands = r.numCommands
    ELSE banks[b].openRow = 0

NothingFromTheFuture ==
  /\ \A r \in issued : r.start < now
  /\ \A i \in Slots : queue[i] # NoRequest => queue[i].arrival <= now

ProgressInv == TypeOK /\ BanksRecorded /\ NothingFromTheFuture

\* calloc'ed banks have no open row and nothing has been issued.
LEMMA ProgressInit == Init => ProgressInv
  BY TypeInit DEF Init, ProgressInv, BanksRecorded, NothingFromTheFuture,
     UnusedBank

\* Every step keeps each used bank's last request among those issued, and dates
\* no issued or queued request in the future.
LEMMA ProgressStep == ProgressInv /\ [Next]_vars => ProgressInv'
  <1> SUFFICES ASSUME ProgressInv, [Next]_vars PROVE ProgressInv'
    OBVIOUS
  <1> USE DEF ProgressInv
  <1>1. TypeOK'
    BY TypeStep
  <1>2. ASSUME NEW block \in Blocks, NEW fromMem \in BOOLEAN,
               QueueMiss(block, fromMem)
        PROVE  ProgressInv'
    <2>1. PICK i \in Slots :
            queue' = [queue EXCEPT
              ![i] = [block |-> block, arrival |-> now, fromMem |-> fromMem]]
      BY <1>2 DEF QueueMiss
    <2>2. UNCHANGED <<now, banks, issued>>
      BY <1>2 DEF QueueMiss
    <2>3. now \in Nat
      BY DEF TypeOK
    <2>4. ASSUME NEW j \in Slots, queue'[j] # NoRequest
          PROVE  queue'[j].arrival <= now
      <3>1. CASE j = i
        <4>1. queue'[j] = [block |-> block, arrival |-> now, fromMem |-> fromMem]
          BY <2>1, <3>1 DEF TypeOK
        <4> QED
          BY <4>1, <2>3
      <3>2. CASE j # i
        BY <2>1, <2>4, <3>2 DEF TypeOK, NothingFromTheFuture
      <3> QED
        BY <3>1, <3>2
    <2>5. NothingFromTheFuture'
      BY <2>2, <2>4 DEF NothingFromTheFuture
    <2>6. BanksRecorded'
      BY <2>2 DEF BanksRecorded
    <2> QED
      BY <1>1, <2>5, <2>6
  <1>3. ASSUME IssueRequest PROVE ProgressInv'
    <2>1. PICK i \in SelectRequestToSchedule(banks, queue, now) :
            /\ banks' = IssueOnBank(banks, queue[i].block, now)
            /\ queue' = [queue EXCEPT ![i] = NoRequest]
            /\ issued' = issued \cup
                 {[block |-> queue[i].block, start |-> now,
                   numCommands |-> NumCommands(banks, queue[i].block)]}
            /\ now' = now + 1
      BY <1>3 DEF IssueRequest
    <2>2. now \in Nat
      BY DEF TypeOK
    <2>3. BanksRecorded'
      <3> SUFFICES ASSUME NEW b \in Banks
                   PROVE  IF banks'[b].hasOpenRow
                          THEN \E r \in issued' :
                                 /\ banks'[b].reqStart = r.start
                                 /\ banks'[b].numCommands = r.numCommands
                          ELSE banks'[b].openRow = 0
        BY DEF BanksRecorded
      <3>1. CASE b = GetBankIndex(queue[i].block)
        <4>1. banks'[b] =
                [hasOpenRow |-> TRUE, openRow |-> GetRowIndex(queue[i].block),
                 reqStart |-> now,
                 numCommands |-> NumCommands(banks, queue[i].block)]
          BY <2>1, <3>1 DEF IssueOnBank, TypeOK
        <4> DEFINE new == [block |-> queue[i].block, start |-> now,
                           numCommands |-> NumCommands(banks, queue[i].block)]
        <4>2. new \in issued'
          BY <2>1
        <4>3. new.start = now /\ new.numCommands = NumCommands(banks, queue[i].block)
          OBVIOUS
        <4> HIDE DEF new
        <4> QED
          BY <4>1, <4>2, <4>3
      <3>2. CASE b # GetBankIndex(queue[i].block)
        <4>1. banks'[b] = banks[b]
          BY <2>1, <3>2 DEF IssueOnBank, TypeOK
        <4> QED
          BY <4>1, <2>1 DEF BanksRecorded
      <3> QED
        BY <3>1, <3>2
    <2>4. \A r \in issued' : r.start < now'
      <3>1. \A r \in issued : r.start \in Nat /\ r.start < now
        BY DEF TypeOK, Reservation, NothingFromTheFuture
      <3> QED
        BY <2>1, <2>2, <3>1
    <2>5. ASSUME NEW j \in Slots, queue'[j] # NoRequest
          PROVE  queue'[j].arrival <= now'
      <3>1. j # i /\ queue'[j] = queue[j]
        BY <2>1, <2>5 DEF TypeOK
      <3>2. queue[j].arrival \in Nat /\ queue[j].arrival <= now
        BY <2>5, <3>1 DEF TypeOK, Request, NothingFromTheFuture
      <3> QED
        BY <2>1, <2>2, <3>1, <3>2
    <2> QED
      BY <1>1, <2>3, <2>4, <2>5 DEF NothingFromTheFuture
  <1>4. CASE IdleCycle
    <2>1. now \in Nat /\ now' = now + 1 /\ UNCHANGED <<banks, queue, issued>>
      BY <1>4 DEF IdleCycle, TypeOK
    <2>2. \A r \in issued : r.start \in Nat
      BY DEF TypeOK, Reservation
    <2>3. \A i \in Slots : queue[i] # NoRequest => queue[i].arrival \in Nat
      BY DEF TypeOK, Request
    <2> QED
      BY <1>1, <2>1, <2>2, <2>3 DEF BanksRecorded, NothingFromTheFuture
  <1>5. CASE UNCHANGED vars
    BY <1>1, <1>5 DEF vars, BanksRecorded, NothingFromTheFuture
  <1> QED
    BY <1>2, <1>3, <1>4, <1>5 DEF Next

\* With every reservation over, each waiting request passes all three checks.
LEMMA IdleDramAcceptsAll ==
  ASSUME ProgressInv, AllReservationsOver,
         NEW i \in Slots, queue[i] # NoRequest
  PROVE  i \in Candidates(banks, queue, now)
  <1> DEFINE block == queue[i].block
             n == NumCommands(banks, block)
  <1>1. /\ block \in Blocks /\ block \in Nat
        /\ now \in Nat /\ now \in Int
        /\ queue[i].arrival <= now
    <2>1. queue[i] \in Request /\ now \in Nat
      BY DEF ProgressInv, TypeOK
    <2>2. block \in Blocks
      BY <2>1 DEF Request
    <2>3. queue[i].arrival <= now
      BY DEF ProgressInv, NothingFromTheFuture
    <2>4. block \in Nat
      BY <2>2, BoundAssumption
    <2>5. now \in Int
      BY <2>1
    <2> QED
      BY <2>1, <2>2, <2>3, <2>4, <2>5
  <1>2. n \in 1 .. 3
    BY <1>1, NumCommandsRange
  <1>3. /\ CommandsEnd(now, n) \in Int
        /\ CommandsEnd(now, n) >= now + BankBusyCycles
    BY <1>1, <1>2, CommandsTakeTime
  <1>4. /\ BankBusyCycles \in Nat \ {0}
        /\ CmdCycles \in 1 .. BankBusyCycles
        /\ DataTfCycles \in 1 .. BankBusyCycles
    BY TimingAssumption
  <1> HIDE DEF n, block
  <1>5. ASSUME NEW b \in Banks, banks[b].hasOpenRow
        PROVE  /\ banks[b].reqStart \in Int
               /\ banks[b].numCommands \in 1 .. 3
               /\ CommandsEnd(banks[b].reqStart, banks[b].numCommands) \in Int
               /\ CommandsEnd(banks[b].reqStart, banks[b].numCommands)
                    + DataTfCycles <= now
    <2>1. PICK r \in issued : /\ banks[b].reqStart = r.start
                              /\ banks[b].numCommands = r.numCommands
      BY <1>5 DEF ProgressInv, BanksRecorded
    <2>2. r.start \in Int /\ r.numCommands \in 1 .. 3
      BY DEF ProgressInv, TypeOK, Reservation
    <2>3. CommandsEnd(r.start, r.numCommands) \in Int
      BY <2>2, CommandsTakeTime
    <2> QED
      BY <2>1, <2>2, <2>3 DEF AllReservationsOver
  <1>6. CommandBusFree(banks, n, now)
    <2> SUFFICES ASSUME NEW b \in Banks, banks[b].hasOpenRow,
                        NEW k \in 0 .. n - 1,
                        NEW j \in 0 .. banks[b].numCommands - 1
                 PROVE  CommandStart(banks[b].reqStart, j) + CmdCycles
                          <= CommandStart(now, k)
      BY DEF CommandBusFree, Disjoint
    <2>1. CommandStart(now, k) \in Int /\ CommandStart(now, k) >= now
      BY <1>1, <1>2, CommandsFitBankTime
    <2>2. /\ CommandStart(banks[b].reqStart, j) \in Int
          /\ CommandStart(banks[b].reqStart, j) + CmdCycles
               <= CommandsEnd(banks[b].reqStart, banks[b].numCommands)
      BY <1>5, CommandsFitBankTime
    <2> QED
      BY <1>1, <1>4, <1>5, <2>1, <2>2
  <1>7. DataBusFree(banks, n, now)
    BY <1>1, <1>3, <1>4, <1>5 DEF DataBusFree, Disjoint
  <1>8. BankFree(banks[GetBankIndex(block)], n, now)
    <2>1. GetBankIndex(block) \in Banks
      BY <1>1, AddressMapping
    <2>2. CASE banks[GetBankIndex(block)].hasOpenRow
      BY <1>1, <1>4, <1>5, <2>1, <2>2 DEF BankFree, Disjoint, CommandsEnd
    <2>3. CASE ~ banks[GetBankIndex(block)].hasOpenRow
      BY <2>1, <2>3 DEF BankFree, ProgressInv, BanksRecorded
    <2> QED
      BY <2>2, <2>3
  <1> QED
    BY <1>1, <1>6, <1>7, <1>8 DEF Candidates, IsRequestSchedulable, n, block

\* An idle DRAM with a request waiting issues one before the cycle ends: the
\* scheduler never deadlocks on its own timing checks.
THEOREM IdleDramProgress == Spec => IdleDramServes
  <1>1. ProgressInv /\ [Next]_vars =>
          [/\ now' # now
           /\ AllReservationsOver
           /\ \E i \in Slots : queue[i] # NoRequest
           => issued' # issued]_vars
    <2> SUFFICES ASSUME ProgressInv, Next, now' # now, AllReservationsOver,
                        NEW i \in Slots, queue[i] # NoRequest
                 PROVE  issued' # issued
      OBVIOUS
    <2>1. Candidates(banks, queue, now) # {}
      BY IdleDramAcceptsAll
    <2>2. IssueRequest
      BY <2>1 DEF Next, QueueMiss, IdleCycle
    <2>3. PICK j \in SelectRequestToSchedule(banks, queue, now) :
            [block |-> queue[j].block, start |-> now,
             numCommands |-> NumCommands(banks, queue[j].block)] \in issued'
      BY <2>2 DEF IssueRequest
    <2>4. \A r \in issued : r.start < now
      BY DEF ProgressInv, NothingFromTheFuture
    <2>5. now \in Nat
      BY DEF ProgressInv, TypeOK
    <2> QED
      BY <2>3, <2>4, <2>5
  <1> QED
    BY <1>1, ProgressInit, ProgressStep, PTL DEF Spec, IdleDramServes

-----------------------------------------------------------------------------
\* The comparisons of select_request_to_schedule, with the slot as the last
\* resort, have a least element in every set of candidates: row hits first, of
\* those the earliest, of those MEM's, of those the first slot.
LEMMA BestExists ==
  ASSUME TypeOK, Candidates(banks, queue, now) # {}
  PROVE  \E n \in Candidates(banks, queue, now) :
           n \in SelectRequestToSchedule(banks, queue, now)
  <1> DEFINE C == Candidates(banks, queue, now)
             Hit(i) == IsRowHit(banks, queue[i].block)
             H == {i \in C : \A j \in C : Hit(j) => Hit(i)}
  <1>1. C \subseteq Slots /\ \A i \in C : queue[i] \in Request
    BY DEF TypeOK, Candidates
  <1>2. Slots \subseteq Nat
    BY TimingAssumption DEF Slots
  <1>3. \A i \in C : queue[i].arrival \in Nat /\ queue[i].fromMem \in BOOLEAN
    BY <1>1 DEF Request
  <1>4. C # {}
    OBVIOUS
  <1> HIDE DEF C
  <1>5. H # {}
    BY <1>4
  <1>6. H \subseteq C
    OBVIOUS
  <1>7. \A i \in H, j \in C : Hit(j) = Hit(i) => j \in H
    BY DEF IsRowHit
  <1>8. \A i \in H, j \in C : Hit(j) # Hit(i) => Hit(i) /\ ~ Hit(j)
    BY DEF IsRowHit
  <1> HIDE DEF H
  <1> DEFINE A == {queue[i].arrival : i \in H}
  <1>9. PICK a \in A : \A b \in A : a <= b
    <2>1. A \in SUBSET Nat
      BY <1>3, <1>6
    <2>2. A # {}
      BY <1>5
    <2> HIDE DEF A
    <2> QED
      BY <2>1, <2>2, LeastNatural
  <1> DEFINE G == {i \in H : queue[i].arrival = a}
             F == {i \in G : \A j \in G : queue[j].fromMem => queue[i].fromMem}
  <1>10. G # {}
    BY <1>9
  <1>11. F # {}
    <2> HIDE DEF G
    <2> QED
      BY <1>10
  <1>12. PICK n \in F : \A m \in F : n <= m
    <2>1. F \in SUBSET Nat
      BY <1>1, <1>2, <1>6
    <2> HIDE DEF F
    <2> QED
      BY <1>11, <2>1, LeastNatural
  <1>13. n \in C /\ n \in H /\ n \in G
    BY <1>6
  <1>14. ASSUME NEW j \in C
         PROVE  /\ ~ Beats(banks, queue[j], queue[n])
                /\ j < n => Beats(banks, queue[n], queue[j])
    <2>1. CASE Hit(j) # Hit(n)
      <3>1. Hit(n) /\ ~ Hit(j)
        BY <1>8, <1>13, <2>1
      <3> QED
        BY <2>1, <3>1 DEF Beats
    <2>2. CASE Hit(j) = Hit(n) /\ queue[j].arrival # a
      <3>1. j \in H
        BY <1>7, <1>13, <2>2
      <3>2. queue[j].arrival > a /\ queue[n].arrival = a
        <4>1. queue[j].arrival \in A
          BY <3>1
        <4>2. a <= queue[j].arrival
          BY <4>1, <1>9
        <4>3. queue[n].arrival = a
          BY <1>13
        <4> QED
          BY <4>2, <4>3, <1>3, <1>13, <2>2
      <3>3. ~ (queue[j].arrival < queue[n].arrival)
            /\ queue[n].arrival < queue[j].arrival
        BY <1>3, <1>13, <3>2
      <3> QED
        BY <2>2, <3>2, <3>3 DEF Beats
    <2>3. CASE Hit(j) = Hit(n) /\ queue[j].arrival = a
      <3>1. j \in G
        BY <1>7, <1>13, <2>3
      <3>2. queue[n].arrival = a /\ ~ (a < a)
        BY <1>3, <1>13
      <3>3. queue[j].fromMem => queue[n].fromMem
        BY <3>1, <1>12
      <3>4. CASE queue[n].fromMem /\ ~ queue[j].fromMem
        BY <2>3, <3>2, <3>4 DEF Beats
      <3>5. CASE queue[n].fromMem = queue[j].fromMem
        <4>1. j \in F
          BY <3>1, <3>5, <1>12
        <4>2. ~ (j < n)
          BY <4>1, <1>12, <1>1, <1>2, <1>13
        <4> QED
          BY <2>3, <3>2, <3>5, <4>2 DEF Beats
      <3> QED
        BY <3>3, <3>4, <3>5, <1>3, <1>13
    <2> QED
      BY <2>1, <2>2, <2>3
  <1> QED
    BY <1>13, <1>14 DEF SelectRequestToSchedule, C

\* Of two slots, the one further on is chosen only if its request beats the
\* other, which then is not chosen.
LEMMA BestIsUnique ==
  ASSUME TypeOK,
         NEW i \in SelectRequestToSchedule(banks, queue, now),
         NEW j \in SelectRequestToSchedule(banks, queue, now)
  PROVE  i = j
  <1>1. i \in Nat /\ j \in Nat
    BY TimingAssumption DEF SelectRequestToSchedule, Candidates, Slots
  <1>2. ~ (i < j) /\ ~ (j < i)
    BY DEF SelectRequestToSchedule
  <1> QED
    BY <1>1, <1>2

\* FR-FCFS decides: whatever waits in the queue, in whatever slots, the loop of
\* select_request_to_schedule has one result.
THEOREM FrFcfsDecides == Spec => []SchedulerDecides
  <1>1. TypeOK => SchedulerDecides
    <2> SUFFICES ASSUME TypeOK, Candidates(banks, queue, now) # {}
                 PROVE  Cardinality(SelectRequestToSchedule(banks, queue, now)) = 1
      BY DEF SchedulerDecides
    <2>1. PICK n : n \in SelectRequestToSchedule(banks, queue, now)
      BY BestExists
    <2>2. SelectRequestToSchedule(banks, queue, now) = {n}
      BY <2>1, BestIsUnique
    <2> QED
      BY <2>2, FS_Singleton
  <1> QED
    BY <1>1, TypeCorrect, PTL
=============================================================================

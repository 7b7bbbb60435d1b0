SPECIFICATION Spec
CONSTANTS
  NumBanks = 2
  RowBlocks = 2
  CmdCycles = 2
  BankBusyCycles = 4
  DataTfCycles = 3
  FillLatency = 1
  QueueCapacity = 2
  NoRequest = NoRequest
  Blocks <- MCBlocks
  MaxCycle = 13
INVARIANTS
  TypeOK
  CommandBusExclusive
  DataBusExclusive
  BankExclusive
  SchedulerDecides
PROPERTIES
  IdleDramServes
\* The clock is bounded, so every behaviour ends.
CHECK_DEADLOCK FALSE

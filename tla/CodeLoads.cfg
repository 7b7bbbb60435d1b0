SPECIFICATION FairSpec
CONSTANTS
  NumBanks = 2
  RowBlocks = 2
  CmdCycles = 1
  BankBusyCycles = 4
  DataTfCycles = 2
  FillLatency = 1
  QueueCapacity = 2
  NoRequest = NoRequest
  Programs <- MCCodeLoadPrograms
  StartPC = 4
  WordsPerBlock = 2
  NumMshr = 3
  L2HitLatency = 3
  L1Sets = 1
  L1Ways = 2
  L2Sets = 1
  L2Ways = 2
PROPERTIES
  MissesAnswered

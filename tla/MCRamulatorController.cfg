SPECIFICATION FairSpec
CONSTANTS
  Banks = {0, 1}
  Rows = {0, 1}
  RankLatency <- MCRankLatency
  BankLatency <- MCBankLatency
  Sources = {1, 2}
  BlissThreshold = 1
  ClearingInterval = 6
  AtlasThreshold = 4
  QuantumLength = 6
  AtlasScale = 1
  Requests <- MCRequests
  Schedulers = {"FRFCFS", "BLISS", "ATLAS"}
  BufferMax = 1
  ActiveMax = 2
  PriorityMax = 1
  LowWatermark = 1
  HighWatermark = 0
  ReadLatency = 3
  RefreshInterval = 12
CHECK_DEADLOCK FALSE
INVARIANTS
  TypeOK
  NoRequestLost
  ActiveOwnsItsBank
  RefreshKeepsUp
  BanksAreCounted
PROPERTIES
  KeepsPromise
  Drains

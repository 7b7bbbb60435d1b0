SPECIFICATION FairSpec
CONSTANTS
  Kinds = {"L1D", "L2C"}
  Prefetching = {"L2C"}
  UppersOf <- MCUppersOf
  Addresses <- MCAddresses
  BlockSize = 2
  PageSize = 4
  NumSet = 1
  NumWay = 1
  MshrSize <- MCMshrSize
  QueueSize = 2
  PqSize = 1
  LowerSize = 1
  TlbSize = 1
  HitLatency = 1
  FillLatency = 1
  MaxTag = 2
  MaxFill = 1
  PrefetchAsLoad = FALSE
  MaxRequests <- MCMaxRequests
INVARIANTS
  TypeOK
  MshrsAwaitAnswers
  OwedOnce
PROPERTIES
  WritesAreKept
  LoadsAnswered


SPECIFICATION FairSpec
CONSTANTS
  Half = 2
  NumRegs = 3
  V0 = 2
  ExitCode = 3
  NumSets = 1
  NumWays = 3
  Programs <- MCPrograms
  Policies = {"LRU", "RRIP", "RAND"}
  StartRegs <- MCStartRegs
  StartMemory <- MCStartMemory
  BlockWords = 1
  DramCycles = 2
  MultCycles = 2
  DivCycles = 3
INVARIANTS
  TypeOK
PROPERTIES
  ImplementsIsa
  Progress

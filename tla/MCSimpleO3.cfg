SPECIFICATION FairSpec
CONSTANTS
  NumCores = 2
  Trace <- MCTrace
  VirtualPages = {1, 2, 3}
  Pages = {1, 2, 3, 4}
  Translations <- MCTranslations
  Offsets = {0, 1}
  Ipc = 2
  Depth = 2
  Latency = 4
  Associativity = 3
  MshrsPerCore = 1
  ReadRoom = 2
  WriteRoom = 1
  MissMax = 2
  NoAddr = NoAddr
INVARIANTS
  TypeOK
  LinesAndMshrs
  LoadsAreAwaited
PROPERTIES
  DirtyIsWrittenBack
  CoresProgress

SPECIFICATION Spec
CONSTANTS
  Kinds = {"ghb_pccs", "ghb_adaptive", "abop", "hybrid"}
  Indexes = {0, 1}
  Tags = {0, 1}
  GhbSize = 4
  PtrRange = 8
  HistoryLength = 2
  Distance = 1
  MinDegree = 1
  MaxDegree = 2
  EpochLength = 2
  StatRange = 16
  Offsets <- MCOffsets
  RrSize = 2
  RrSlot <- MCRrSlot
  RrTags = 4
  MaxScore = 2
  BadScore = 0
  RoundMax = 4
  LinesPerPage = 8
  LineRange = 16
  Trace <- MCTrace
  Fills <- MCFills
  Bandwidths = {"low", "high"}
  TournamentMax = 2
  ShadowMax = 3
  Measured = {"ghb_adaptive"}
  CountMax = 3
INVARIANTS
  WalkIsOwnHistory
  ScoresAreTests
  PredictionsSurvive
PROPERTIES
  DegreeFollowsAccuracy

SPECIFICATION FairSpec
CONSTANTS
  NumTasklets = 5
  MaxBlocks = 6
  MaxLaunches = 2
INVARIANTS
  TypeOK
  RaceFree
PROPERTIES
  ImplementsReduction
  EveryLaunchEnds
\* The host launches the kernel a bounded number of times.
CHECK_DEADLOCK FALSE

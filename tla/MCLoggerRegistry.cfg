CONSTANTS
  Threads = {t1, t2}
  arena = arena
  mask = mask
  AllLoggers <- MCAllLoggers
  Levels = {info, off}
  HostRegisters = TRUE
  HostDrops = TRUE
SPECIFICATION FairSpec
INVARIANTS
  InitialisedMeansRegistered
  LateReportsAreTrue
PROPERTY
  FirstCallWins
  CallsReturn

CONSTANTS
  Arenas = {a1, a2}
  Subject = a1
  HeapBlocks = {h1, h2, h3}
  InitialSizes = {4}
  Sizes = {1, 5}
  Alignments = {1, 4}
  DefaultAlignment = 2
  BaseSpan = 4
  NumaMinimum = 8
  NumaMaximumAlign = 2
  MaxViews = 3
  MaxRequests = 2
SPECIFICATION FairReplay
CHECK_DEADLOCK FALSE
INVARIANT
  ReplayRepeatsAddresses HandedOutExtent ViewsDisjoint BlocksOwnedOnce
PROPERTY
  CallsReturn

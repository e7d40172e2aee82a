CONSTANTS
  Arguments <- MCArguments
  Malformed <- MCMalformed
  ShapeHits <- MCShapeHits
  Declines <- MCDeclines
  Lines <- MCLines
  Dialects = {0, 1, 2, 3, 9}
  Channels = {0, 7, 9}
  WordBytes = {1, 2}
  LogLines <- MCLogLines
  SideInputs <- MCSideInputs
  Scanned <- MCScanned
  MaxLines = 3
SPECIFICATION SpecOutcome
INVARIANTS
  OneRulePerKey
  OrderInvisible
  ViewIsFresh
  NoSilentShadow
  WithholdingIsTrue
  LastVerdictLineWins
  StrictLadder
  NoSilentMiss
CHECK_DEADLOCK FALSE

SPECIFICATION SpecClock
CONSTANTS
  SlotsPerDay = 2
  MinReprYear = 2021
  MaxReprYear = 2029
  Start <- MCStart
  Moves <- MCMoves
  MaxLines = 4
INVARIANTS
  TrueWhileDense

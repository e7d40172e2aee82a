CONSTANTS
  SlotsPerDay = 2
  MinReprYear = 1678
  MaxReprYear = 2261
  TicksPerSlot = 2
  Stacks <- MCStacks
  Deliveries <- MCDeliveries
SPECIFICATION Spec
INVARIANTS
  PeelUnwraps
  OnlyClaimedIsRemoved
  TimeOfInnermostStamp
  RenderedReadsBack
CHECK_DEADLOCK FALSE

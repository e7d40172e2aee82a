CONSTANTS
  Threads = {t1, t2}
  arena = arena
  mask = mask
  AllLoggers <- MCAllLoggers
  Levels = {info}
  HostRegisters = FALSE
  HostDrops = FALSE
SPECIFICATION Spec
INVARIANT
  ReportPrecondition

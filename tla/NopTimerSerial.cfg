SPECIFICATION FairSpec
CONSTANTS
  Calls = {c1, c2}
  InstrProgram <- MCInstr
  FlushProgram <- MCFlush
  Features = {}
  NumCpus = 2
  HaveVmem = FALSE
  Faulting <- MCFaulting
  Concurrent = FALSE
  NULL = NULL
  ERR = ERR
INVARIANTS
  TypeOK WindowCoversLoop CountFollowsLabel ReportComplete
  NoThreadOutlivesCall NotStoppedWhileMeasuring StartTogether FaultsKnown
  InterruptsRestored
PROPERTIES
  ImplementsReport CallEnds
CHECK_DEADLOCK FALSE

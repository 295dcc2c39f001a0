SPECIFICATION Spec
CONSTANTS
  Calls = {c1, c2}
  InstrProgram <- MCInstr1
  FlushProgram <- MCFlush1
  Features = {}
  NumCpus = 2
  HaveVmem = FALSE
  Faulting = {}
  Concurrent = TRUE
  NULL = NULL
  ERR = ERR
SYMMETRY Symmetry
INVARIANTS
  WaitsForOwnInstr
CHECK_DEADLOCK FALSE

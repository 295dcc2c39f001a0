SPECIFICATION Spec
CONSTANTS
  Sessions = {s1, s2}
  Table <- MCTable
  Program <- MCProgram
  Rounds = 2
  Time <- MCTime
  LogSizes = {200}
  Faulting = {}
  MaxFailures = 0
  NULL = NULL
SYMMETRY Symmetry
INVARIANT RerunWorks
CHECK_DEADLOCK FALSE

SPECIFICATION Spec
CONSTANTS
  Sessions = {s1, s2}
  Table <- MCTable
  Program <- MCProgram
  Rounds = 2
  Time <- MCTime
  LogSizes = {24, 200}
  Faulting = {"RDMSR"}
  MaxFailures = 2
  NULL = NULL
SYMMETRY Symmetry
VIEW Ahead
CONSTRAINT Bounded
INVARIANTS TypeOK OwnValues OwnOrNothing StatisticsTrue MarksTell ModuleRemoved
CHECK_DEADLOCK FALSE

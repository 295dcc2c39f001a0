SPECIFICATION Spec
CONSTANTS
  Clients = {a, b}
  Bases = {1024, 2056}
  Contents = {0, 7}
  Unload = TRUE
SYMMETRY Symmetry
INVARIANT NothingRunsRemoved

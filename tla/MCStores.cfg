CONSTANTS
  Process = {p, q}
  Call = {c1, c2, c3}
  Key = {k1, k2}
  None = None
  MaxExits = 1
  FineClock = TRUE
  MaxVersion = 4
SPECIFICATION MCSpec
SYMMETRY Symmetry
INVARIANTS TypeOK DurableAtRest LoadIsFresh
PROPERTIES Isolated
CHECK_DEADLOCK FALSE

CONSTANTS
  N = 4
  Operands = 2
  Programs <- MCPrograms
SPECIFICATION FairSpec
INVARIANTS TypeOK NoDangling KeepsExactly
PROPERTIES Removal Terminates
CHECK_DEADLOCK FALSE

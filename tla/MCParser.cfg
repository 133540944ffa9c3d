CONSTANTS
  MaxTop = 2
  MaxParams = 4
  MaxBody = 4
  MaxBlock = 4
  MaxExpr = 5
  MaxArgs = 4
  MaxChain = 5
  Sources <- MCSources
SPECIFICATION FairSpec
INVARIANTS TypeOK Language NothingDropped PrecedenceOK
PROPERTIES Terminates LinearTime
CHECK_DEADLOCK FALSE

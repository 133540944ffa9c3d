CONSTANTS
  N = 4
  Functions <- MCFunctions
SPECIFICATION Spec
INVARIANTS TypeOK NoDangling HonestAnswer PhisKept MergesEnough
PROPERTIES KeepsPaths
CHECK_DEADLOCK FALSE

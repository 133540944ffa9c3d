CONSTANTS
  N = 4
  Functions <- MCFunctions
SPECIFICATION Spec
INVARIANT PhisNamePredecessors
CHECK_DEADLOCK FALSE

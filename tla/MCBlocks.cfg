CONSTANTS
  Names = {"f", "a"}
  Exprs <- BlockExprs
  Height <- MCHeight
  Programs <- MCPrograms
  VarSpecs = {}
  MaxStmts = 4
  MaxFunctions = 1
  MaxParams = 0
  FunctionNames = {"f"}
  FunctionSpecs = {"void", "int"}
  ParamNames = {"a"}
  ParamSpecs = {"int"}
SPECIFICATION Spec
INVARIANTS BlocksWellFormed BlocksClosed
CHECK_DEADLOCK FALSE

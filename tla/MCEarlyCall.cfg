CONSTANTS
  Names = {"f", "a"}
  Exprs <- CallExprs
  Height <- MCHeight
  Programs <- MCPrograms
  VarSpecs = {"int"}
  MaxStmts = 1
  MaxFunctions = 2
  MaxParams = 0
  FunctionNames = {"f", "a"}
  FunctionSpecs = {"void"}
  ParamNames = {"a"}
  ParamSpecs = {"int"}
SPECIFICATION Spec
INVARIANTS CallsReach
CHECK_DEADLOCK FALSE

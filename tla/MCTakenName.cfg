CONSTANTS
  Names = {"a", "f", "str"}
  Exprs <- TakenExprs
  Height <- MCHeight
  Programs <- MCPrograms
  VarSpecs = {}
  MaxStmts = 2
  MaxFunctions = 2
  MaxParams = 0
  FunctionNames = {"f", "str"}
  FunctionSpecs = {"void"}
  ParamNames = {"a"}
  ParamSpecs = {"int"}
SPECIFICATION Spec
INVARIANTS DefinedCallsReach
CHECK_DEADLOCK FALSE

CONSTANTS
  Names = {"f", "a", "fmt", "str", "printf"}
  Exprs <- ValueAndCalleeExprs
  Height <- MCHeight
  Programs <- ValueAndCalleePrograms
  VarSpecs = {"int", "float"}
  MaxStmts = 2
  MaxFunctions = 1
  MaxParams = 1
  FunctionNames = {"f"}
  FunctionSpecs = {"void", "int"}
  ParamNames = {"a"}
  ParamSpecs = {"float", "void"}
SPECIFICATION MainSpec
CONSTRAINT OwnQuestion
INVARIANTS ValuesAgree CalleesAgree ExitStatus
CHECK_DEADLOCK FALSE

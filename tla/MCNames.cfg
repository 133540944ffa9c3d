CONSTANTS
  Names = {"f", "a"}
  Exprs <- NameExprs
  Height <- MCHeight
  Programs <- MCPrograms
  VarSpecs = {"int"}
  MaxStmts = 4
  MaxFunctions = 2
  MaxParams = 2
  FunctionNames = {"f", "a"}
  FunctionSpecs = {"void"}
  ParamNames = {"a"}
  ParamSpecs = {"int"}
SPECIFICATION Spec
INVARIANTS TypeOK LexicalScoping NamesAgree
CHECK_DEADLOCK FALSE

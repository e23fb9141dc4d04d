SPECIFICATION Spec
CONSTANTS
  Names = {"x"}
  Basic = {"Int", "Float", "Bool"}
  Sigs <- SomeSigs
  Forms = {"arith", "mod", "compare", "logic", "not", "neg", "call", "struct", "field", "method", "ifExpr", "match", "assign", "expr", "if", "setField"}
  MaxStack = 3
CHECK_DEADLOCK FALSE
INVARIANTS AcceptedCompiles TypesAgree

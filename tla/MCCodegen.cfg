SPECIFICATION RunSpec
CONSTANTS
  Names = {"x"}
  Forms = {"decl", "set", "use", "expr", "return", "if", "loop", "match", "ifExpr"}
  MaxStmts = 5
CHECK_DEADLOCK FALSE
INVARIANTS GenTypeOK BuilderContract TerminatedIsTrue SameRun NamesResolve

SPECIFICATION OSpec
CONSTANTS
  Vars = {"x", "y"}
  Params <- AllParams
  Shapes <- SomeShapes
  Forms <- AnyThenSimple
CONSTRAINT ShortOrSimple
CHECK_DEADLOCK FALSE
INVARIANTS OTypeOK AcceptedRunsClean TableDescribesRun
PROPERTY FlagsAreReal

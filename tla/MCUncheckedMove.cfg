SPECIFICATION OSpec
CONSTANTS
  Vars = {"x", "y"}
  Params <- OwnsOneOnly
  Shapes <- OneParam
  Forms <- UncheckedMoves
CHECK_DEADLOCK FALSE
INVARIANT UseAfterMoveIsRejected

SPECIFICATION TargetSpec
CONSTANTS
    Ints = {0, 1}
    Literals <- TheLiterals
    Names = {"a", "b"}
    Param = "a"
    Function = "f"
    Struct = "T"
    Reserved = {"new"}
    Fields <- TheFields
    Forms = {}
    MaxInt = 2
    MaxLeaves = 4
    MaxStatements = 4
    MaxCalls = 2
INVARIANTS SameCalls SameResult
CHECK_DEADLOCK FALSE

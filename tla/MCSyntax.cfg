SPECIFICATION Spec
CONSTANTS
    Lower = {"a", "_"}
    Upper = {"A", "Array", "Optional"}
    Literals = {"1"}
    Strings = {"path"}
    Floats = {"1.5"}
    MaxNesting = 3
    Languages <- TheLanguages
INVARIANTS
    ReadsBack
    NothingIsLost
    StatementsStandAlone
CHECK_DEADLOCK FALSE

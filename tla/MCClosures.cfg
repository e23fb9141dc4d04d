SPECIFICATION DispatchSpec
CONSTANTS
    Sources <- ClosureSources
    MaxClosures = 2
    Fields <- PQ
    Names <- VarNames
    Forms = {}
INVARIANT AcceptedLinks
CHECK_DEADLOCK FALSE

SPECIFICATION DispatchSpec
CONSTANTS
    Sources <- SomeSources
    MaxClosures = 2
    Fields <- PQ
    Names <- VarNames
    Forms = {}
INVARIANTS LinkTypeOK LinkedIsTheSource CallDelivers  FieldsWereChecked
CHECK_DEADLOCK FALSE

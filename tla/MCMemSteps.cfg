SPECIFICATION StepSpec
ACTION_CONSTRAINT NoReset
CONSTRAINT SmallHeap
CONSTANTS
  Addr = {a1, a2, a3, a4}
  CStr = {}
  Num = {}
  Null = Null
  TypeIds = {0}
  StrLen = {2}
  MaxFields = 2
  MaxAllocs = 4
INVARIANTS
  NoReentry
PROPERTIES
  ImplementsRocaMem
  CallsReturn
CHECK_DEADLOCK FALSE

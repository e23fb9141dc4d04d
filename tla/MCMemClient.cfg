SPECIFICATION NoResetSpec
CONSTANTS
  Addr = {a1, a2, a3, a4}
  CStr = {c1}
  Num = {}
  Null = Null
  TypeIds = {0}
  StrLen = {2}
  MaxFields = 2
  MaxAllocs = 5
SYMMETRY AddrSymmetry
INVARIANTS
  HeldLive
  NoDangling
  OneOwner
  NoLeak
  AlwaysTrees
PROPERTIES
  FreeIsLocal
CHECK_DEADLOCK FALSE

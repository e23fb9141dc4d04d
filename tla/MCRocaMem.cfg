SPECIFICATION Spec
CONSTANTS
  Addr = {a1, a2, a3}
  CStr = {c1}
  Num = {n1}
  Null = Null
  TypeIds = {0, 7}
  StrLen = {2}
  MaxFields = 1
  MaxAllocs = 4
SYMMETRY AddrSymmetry
INVARIANTS
  TypeOK
  TypeIdsAgree
  CountsAgree
  BytesAgree

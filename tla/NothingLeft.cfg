SPECIFICATION Spec
CONSTANTS
  Request = {r1}
  DotiName = {d1}
  ObjName = {o1}
  NArgs = 1
  SrcLen = 1
  ObjLen = 1
  Cap = 2
  MaxChildren = 1
  Absent = Absent
  Old = Old
INVARIANT NothingLeft

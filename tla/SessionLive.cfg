SPECIFICATION Spec
CONSTANTS
  Request = {1, 2}
  DotiName = {1, 2}
  ObjName = {1, 2}
  NArgs = 1
  SrcLen = 1
  ObjLen = 1
  Cap = 1
  MaxChildren = 1
  Absent = Absent
  Old = Old
CONSTRAINTS
  NamesInOrder
  OneFaulty
PROPERTIES
  KeepsPromise
  HandlerEnds
  Answered
  

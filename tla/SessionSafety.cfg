SPECIFICATION Spec
CONSTANTS
  Request = {r1, r2}
  DotiName = {d1, d2}
  ObjName = {o1, o2}
  NArgs = 1
  SrcLen = 2
  ObjLen = 2
  Cap = 1
  MaxChildren = 2
  Absent = Absent
  Old = Old
SYMMETRY Symmetry
INVARIANTS
  Aligned
  
  FaithfulUnlessShared
  OverwrittenOnlyAfterSuccess
  LeftoverIsPartialUpload
  

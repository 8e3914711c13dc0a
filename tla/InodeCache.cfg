SPECIFICATION Spec
CONSTANTS
  Proc = {p1, p2, p3}
  short = short
  edge = edge
  long = long
  huge = huge
  Value = {short, edge, long, huge}
  Size <- Sizes
  MaxSize = 4
  Missing = Missing
INVARIANTS
  TypeOK
  GetIsLastPut
  TornOnlyIfCutShort
  PutIsStored
PROPERTY Quiesces

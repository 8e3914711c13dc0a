SPECIFICATION Spec
CONSTANTS
  Proc = {p1}
  short = short
  edge = edge
  long = long
  huge = huge
  Value = {short, edge, long, huge}
  Size <- Sizes
  MaxSize = 4
  Missing = Missing
INVARIANT FitsBuffer

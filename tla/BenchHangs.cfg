SPECIFICATION BenchSpec
CONSTANTS
  Proc = {1, 2}
  N = 2
PROPERTY RunEnds

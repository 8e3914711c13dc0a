SPECIFICATION Spec
CONSTANTS
  Proc = {p1, p2, p3, p4}
  N <- Everybody
INVARIANTS
  CountExact
  TokensKept
PROPERTIES
  KeepsPromise
  Opens

SPECIFICATION MainSpec
CONSTANTS
  Proc = {1, 2, 3}
  N = 3
  Depth = 2
  PipeCap = 1
  MaxLines = 3
INVARIANTS
  MainTypeOK
  PhasesApart
  NoMergeLost
  FailuresCounted
  DirectoryMade
  LeftOnlyByFailures
  OnlyAnswers
  FreedTwiceOnlyAfterTriplet
  SuccessMeansMeasured
PROPERTY MainEnds

SPECIFICATION Spec
CONSTANTS
  N = 4
  MaxSize = 2
  MsgCount = 6
INVARIANTS
  NoLostWakeup
  LeavesWhenDone
PROPERTIES
  KeepsPromise
  Returns

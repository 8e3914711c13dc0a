SPECIFICATION Spec
CONSTANTS
  Parts = 3
  c1 = c1
  c2 = c2
  Client = {c1, c2}
  Joined <- Joins
  Other <- Others
  Commands <- MCCommands
  InitialFiles <- MCFiles
INVARIANTS
  TypeOK
  ObjectIsLocal
  FailsOnlyIf
  ServerAgrees

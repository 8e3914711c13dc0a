SPECIFICATION Spec
CONSTANTS
  Texts <- MCTexts
  TokenLen = 3
  SendSize = 2
  RecvSize = 3
  Cap = 4
  MaxSize = 5
  MaxWrites = 3
INVARIANTS
  FieldsIntact
  NothingUnread
PROPERTY LoopsEnd

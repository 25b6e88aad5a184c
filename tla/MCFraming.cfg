CONSTANTS
  Byte <- MCByte
  Messages <- MCMessages
  Separators <- MCSeparators
  MaxSent = 3
  MaxCuts = 1
SPECIFICATION Spec
CHECK_DEADLOCK FALSE
INVARIANTS
  TypeOK
  LostOnlyToFraming
  NothingInvented
  ExtractedApart

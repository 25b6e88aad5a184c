SPECIFICATION Spec
CHECK_DEADLOCK FALSE
CONSTANTS
  Logs <- MCLogs
  Room = 2
  AnswerRoom = 1
PROPERTIES
  ReplayEnds
INVARIANTS
  InOrder
  CountsWholeMessages
  PacedAsRecorded

SPECIFICATION Spec
CHECK_DEADLOCK FALSE
CONSTANTS
  MAX_FIELDS = 14
  MAX_INSTANCES = 2
  Placeholder = 3
  MaxInt = 65535
  Keyword <- MCKeyword
  Names <- MCNames
  MsgTypes = {"A", "D"}
  Absent = Absent
  Files <- StandardFiles
  Scripts <- OneScript
  BeginString <- MCBegin
  SenderCompID <- MCSender
  TargetCompID <- MCTarget
  SendingTime <- MCTime
  Capacity = 121
  TypeOf <- MCTypeOf
  DamagedBytes <- MCDamagedBytes
INVARIANTS
  SchemaEnforced

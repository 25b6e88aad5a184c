CONSTANTS
  MaxInt = 9
  Messages <- MCMessages
  HostNumbers <- MCHostNumbers
  Unparsable = Unparsable
  Values <- MCValues
  Scenarios <- MCScenarios
  Transports = {"memory", "tcp"}
  ExpectTimeout = 1
  MaxRuns = 2
  MaxSutSends = 3
SPECIFICATION Spec
INVARIANTS
  TypeOK
  LostOnlyToTimeout
  SuccessMeansExpectationsMet
  OutgoingNumbered
  IncomingInOrder
  ExpectKeepsDeadline
PROPERTY RunEnds
CHECK_DEADLOCK FALSE

CONSTANTS
  MaxInt = 9
  Messages <- MCMessages
  HostNumbers <- MCHostNumbers
  Unparsable = Unparsable
  Values <- MCValues
  Scenarios <- OnlyTrade
  Transports = {"memory"}
  ExpectTimeout = 1
  MaxRuns = 1
  MaxSutSends = 3
SPECIFICATION Spec
INVARIANT DuplicateIgnored
CHECK_DEADLOCK FALSE

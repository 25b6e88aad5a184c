CONSTANTS
  MaxInt = 5
  MaxOut = 4
  Messages <- MCMessages
  HostNumbers <- MCHostNumbers
SPECIFICATION HostSpec
INVARIANTS
  HostTypeOK
  TakenOnceInOrder

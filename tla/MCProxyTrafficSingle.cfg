SPECIFICATION Spec
CONSTANTS
  Conns = {c1}
  Fds <- MCFds
  MaxSends = 2
  Overlapping = FALSE
INVARIANTS TypeOK StreamFaithful ClosedWhenDone
PROPERTIES StopEndsStart ConnectionEnds
CHECK_DEADLOCK FALSE

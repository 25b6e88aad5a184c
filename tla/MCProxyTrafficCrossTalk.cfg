SPECIFICATION Spec
CONSTANTS
  Conns = {c1, c2}
  Fds <- MCFds
  MaxSends = 1
  Overlapping = TRUE
SYMMETRY MCClients
INVARIANT NoCrossTalk
CHECK_DEADLOCK FALSE

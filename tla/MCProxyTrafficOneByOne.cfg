SPECIFICATION Spec
CONSTANTS
  Conns = {c1, c2}
  Fds <- MCFds
  MaxSends = 1
  Overlapping = FALSE
SYMMETRY MCClients
INVARIANTS NoCrossTalk
CHECK_DEADLOCK FALSE

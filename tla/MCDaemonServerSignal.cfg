SPECIFICATION Spec
CONSTANTS
  Clients = {c1}
  Backlog = 1
INVARIANT SignalsAreHandled
CHECK_DEADLOCK FALSE

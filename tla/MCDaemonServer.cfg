SPECIFICATION FairSpec
CONSTANTS
  Clients = {c1, c2, c3}
  Backlog = 2
INVARIANT OnlyWholeRequests
PROPERTY EveryClientHears
PROPERTY SignalEnds
\* The daemon waits for clients, or is gone.
CHECK_DEADLOCK FALSE

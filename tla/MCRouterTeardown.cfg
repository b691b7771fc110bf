SPECIFICATION FairSpec
CONSTANTS
  Nodes = {n1, n2}
  MaxObjects = 1
  MaxEvents = 3
  MaxErrors = 1
INVARIANT TypeOK
INVARIANT NoUseAfterFree
INVARIANT StopCleansUp
INVARIANT ListIsComplete
PROPERTY CallsEnd
\* The router has stopped, or waits for a server that is lost.
CHECK_DEADLOCK FALSE

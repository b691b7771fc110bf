SPECIFICATION FairSpec
CONSTANTS
  A = A
  B = B
  Names = {n}
  Sinks = {A, B}
  Anywhere = Anywhere
  RapidWindow = 1
  SuppressFor = 2
  Threshold = 2
  MaxStreams = 3
  MaxTime = 3
  Limits <- MCLimits
INVARIANT TypeOK
INVARIANT RecordIsRight
INVARIANT StopRestoresStreams
PROPERTY SuppressionHolds
PROPERTY EventuallyPatched
\* The session has stopped.
CHECK_DEADLOCK FALSE

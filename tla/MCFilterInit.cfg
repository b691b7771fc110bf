SPECIFICATION FairSpec
CONSTANTS
  Formats <- MCFormats
  Prealloc = 2
  MaxChanges = 4
  NoFormat = NoFormat
INVARIANT HostNotShared
INVARIANT RunsConfigured
INVARIANT SmallQuantaHold
PROPERTY Settles
\* With a quantum of 0 nothing runs.
CHECK_DEADLOCK FALSE

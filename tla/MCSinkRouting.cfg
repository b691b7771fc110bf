SPECIFICATION FairSpec
CONSTANTS
  Sinks = {A, B}
  NoName = NoName
  MaxChanges = 3
  MaxNodes = 3
INVARIANT ChainOnSelected
INVARIANT SelectorPinned
PROPERTY FollowsDefault
\* The router has stopped, or failed to start.
CHECK_DEADLOCK FALSE

SPECIFICATION SocketSpec
CONSTANTS
  Daemons = {d1, d2, d3, d4}
  NoOne = NoOne
SYMMETRY Symmetry
INVARIANT OrderlyDaemonReached
INVARIANT RaceEndsReachable
PROPERTY StaleSocketRecovered
\* Every daemon has been started and has ended.
CHECK_DEADLOCK FALSE

SPECIFICATION AdapterSpec
CONSTANTS
  Quanta = {32, 64, 96, 160, 1000, 1024}
  MinBlock = 64
  MaxSetups = 3
  MaxFailures = 3
INVARIANT FramesConserved
INVARIANT LatencyBound
INVARIANT ReserveHolds
\* The real-time thread may stop calling.
CHECK_DEADLOCK FALSE

SPECIFICATION Spec
CONSTANTS
  Presets = {p1, p2}
  Sinks = {s1, s2}
  NoSelector = NoSelector
  NaN = NaN
  Garbage = Garbage
  None = None
  VolumeArgs = {50, 151, NaN, Garbage}
SYMMETRY Symmetry
INVARIANT SessionFollowsDesired
INVARIANT ReportsAreTruthful
PROPERTY ConfigFollowsRequests
\* The process ends with a shutdown, a signal or a failed bootstrap.
CHECK_DEADLOCK FALSE

SPECIFICATION Spec
CONSTANTS
  Presets = {p1}
  Sinks = {s1}
  NoSelector = NoSelector
  NaN = NaN
  Garbage = Garbage
  None = None
  VolumeArgs = {50}
PROPERTY EnableRestarts
\* The process ends with a shutdown, a signal or a failed bootstrap.
CHECK_DEADLOCK FALSE

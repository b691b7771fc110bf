SPECIFICATION Spec
CONSTANTS
  kMaxBands = 2
  Homes <- MCHomes
  CommandLines <- MCCommandLines
  MaxCalls = 2
INVARIANT ConvertedPlaysAsMeant
INVARIANT ChainIsThePreset
\* The calls are over.
CHECK_DEADLOCK FALSE

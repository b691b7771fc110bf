--------------------------- MODULE MCStreamPatching ---------------------------
(* Two sets of limits for StreamPatching: streams that come, go and change their target  *)
(* around a reconnect; and one application that recreates its stream over and over.       *)
EXTENDS StreamPatching

CONSTANTS A, B

MCLimits ==
  { [streams |-> 2, ticks |-> 1, reconnects |-> 1, retargets |-> 1, sinks |-> {A, B},
     onePerName |-> FALSE],
    [streams |-> 3, ticks |-> 3, reconnects |-> 0, retargets |-> 0, sinks |-> {A},
     onePerName |-> TRUE] }
===============================================================================

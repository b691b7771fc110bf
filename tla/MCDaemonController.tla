------------------------- MODULE MCDaemonController -------------------------
(***************************************************************************)
(* DaemonController for TLC.  Two presets and two sinks are enough for a   *)
(* configuration to differ from the previous one; the volumes are the      *)
(* default, another legal one, one just above the range, and the two       *)
(* arguments that are not numbers.                                         *)
(***************************************************************************)
EXTENDS DaemonController, TLC

\* Presets and sinks are interchangeable.
Symmetry == Permutations(Presets) \cup Permutations(Sinks)
=============================================================================

--------------------------- MODULE MCDaemonSocket ---------------------------
(***************************************************************************)
(* DaemonSocket for TLC: four daemons, so that one can find the remains of *)
(* two others while a third serves.                                        *)
(***************************************************************************)
EXTENDS DaemonSocket, TLC

Symmetry == Permutations(Daemons)
=============================================================================

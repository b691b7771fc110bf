---------------------------- MODULE MCFilterInit ----------------------------
(***************************************************************************)
(* FilterInit for TLC: frames are counted in units of 4096, so that the    *)
(* 8192 frames allocated in advance are 2.                                 *)
(***************************************************************************)
EXTENDS FilterInit

\* Formats within the frames allocated in advance, one beyond them, and one without a
\* quantum, for which nothing runs.
MCFormats == {[rate |-> 48, frames |-> 0], [rate |-> 48, frames |-> 1],
              [rate |-> 48, frames |-> 3], [rate |-> 44, frames |-> 3]}
=============================================================================

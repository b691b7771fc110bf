----------------------------- MODULE BlockAdapter -----------------------------
(***************************************************************************)
(* ConvolverHost (convolver_host.cpp): the convolver works on blocks of a  *)
(* power of two frames, PipeWire's real-time thread brings quanta of any   *)
(* size.  process_buffered keeps what does not fill a block and what does  *)
(* not fit a quantum in two queues, which ensure_ready, on the session's   *)
(* worker, sets up for a quantum.  Both sides take mutex_, the real-time   *)
(* thread only if it is free.  A queue is the number of frames in it; the  *)
(* left and the right one are always alike.  The names of this module are  *)
(* not those of FilterInit: FilterProofs extends both.                     *)
(***************************************************************************)
EXTENDS Integers

CONSTANTS
  Quanta,       \* sizes of a quantum that occur
  MinBlock,     \* the smallest block zita-convolver takes
  MaxSetups,    \* bound on calls of ensure_ready and stop
  MaxFailures   \* bound on blocks the convolver fails on

VARIABLES
  holder,      \* who holds mutex_: nobody, rt or worker
  ready,       \* ready_
  conv,        \* conv_: none, running (ST_PROC) or down
  stream, block,  \* stream_block_size_, block_size_
  reserved,    \* what the queues have room for without an allocation
  in, out,     \* pending_input_, pending_output_
  pc,          \* the real-time thread: idle, or in process_buffered
  zeros,       \* history: zeros played since the set-up, in place of output not there yet
  debt,        \* history: frames taken in by calls that failed since the set-up
  setups, failures

adapterVars == <<holder, ready, conv, stream, block, reserved, in, out, pc, zeros, debt, setups,
                 failures>>

hostVars == <<ready, conv, stream, block, reserved>>
queueVars == <<in, out, zeros, debt>>

\* The largest power of two that is not above n.
LargestPower[n \in Nat] == IF n < 2 THEN 1 ELSE 2 * LargestPower[n \div 2]

normalized_zita_block_size(n) ==
  IF LargestPower[n] < MinBlock THEN MinBlock ELSE LargestPower[n]

ASSUME AdapterAssumption ==
  /\ Quanta \subseteq Nat \ {0} /\ MinBlock \in Nat \ {0}
  /\ MaxSetups \in Nat /\ MaxFailures \in Nat
  /\ \A n \in Quanta : LET b == normalized_zita_block_size(n) IN
                        b \in Nat /\ b >= MinBlock /\ (b = MinBlock \/ b <= n) /\ n < 2 * b

AdapterTypeOK ==
  /\ holder \in {"nobody", "rt", "worker"}
  /\ ready \in BOOLEAN /\ conv \in {"none", "running", "down"}
  /\ stream \in Quanta \cup {0} /\ block \in Nat /\ reserved \in Nat
  /\ in \in Nat /\ out \in Nat
  /\ pc \in {"idle", "blocks", "emit"} /\ (holder = "rt" <=> pc # "idle")
  /\ zeros \in Nat /\ debt \in Nat
  /\ setups \in 0..MaxSetups /\ failures \in 0..MaxFailures

AdapterInit ==
  /\ holder = "nobody" /\ ready = FALSE /\ conv = "none"
  /\ stream = 0 /\ block = 0 /\ reserved = 0
  /\ in = 0 /\ out = 0 /\ pc = "idle" /\ zeros = 0 /\ debt = 0
  /\ setups = 0 /\ failures = 0

-------------------------------------------------------------------------------
(* The worker *)

\* ensure_ready, when it is not ready for n already: the old convolver is stopped.
EnsureBegin(n) ==
  /\ holder = "nobody" /\ setups < MaxSetups
  /\ ~(ready /\ stream = n)
  /\ holder' = "worker" /\ setups' = setups + 1
  /\ ready' = FALSE /\ conv' = "down"
  /\ stream' = n /\ block' = normalized_zita_block_size(n)
  /\ UNCHANGED <<reserved, queueVars, pc, failures>>

\* The convolver cannot be configured, given the kernel or started; the queues are left.
EnsureFails ==
  /\ holder = "worker" /\ holder' = "nobody"
  /\ UNCHANGED <<hostVars, queueVars, pc, setups, failures>>

\* Mutant: frames of the old format are kept.
EnsureDone_Keeps ==
  /\ holder = "worker" /\ holder' = "nobody"
  /\ ready' = TRUE /\ conv' = "running" /\ reserved' = stream + block
  /\ zeros' = 0 /\ debt' = 0
  /\ UNCHANGED <<stream, block, in, out, pc, setups, failures>>

\* Mutant: room is made for a block only.
EnsureDone_BlockOnly ==
  /\ holder = "worker" /\ holder' = "nobody"
  /\ ready' = TRUE /\ conv' = "running" /\ reserved' = block
  /\ in' = 0 /\ out' = 0 /\ zeros' = 0 /\ debt' = 0
  /\ UNCHANGED <<stream, block, pc, setups, failures>>

EnsureDone ==
  /\ holder = "worker" /\ holder' = "nobody"
  /\ ready' = TRUE /\ conv' = "running" /\ reserved' = stream + block
  /\ in' = 0 /\ out' = 0 /\ zeros' = 0 /\ debt' = 0
  /\ UNCHANGED <<stream, block, pc, setups, failures>>

\* stop, when the filter node is disconnected.
stop ==
  /\ holder = "nobody" /\ setups < MaxSetups /\ setups' = setups + 1
  /\ ready' = FALSE /\ conv' = IF conv = "none" THEN "none" ELSE "down"
  /\ in' = 0 /\ out' = 0 /\ zeros' = 0 /\ debt' = 0
  /\ UNCHANGED <<holder, stream, block, reserved, pc, failures>>

-------------------------------------------------------------------------------
(* The real-time thread.  Where process returns without an effect (mutex_ is taken, the     *)
(* host is not ready or set up for another quantum) the node plays the input as it is.      *)

Accepts(n) == ready /\ conv = "running" /\ n = stream

\* process where no adapter is needed; a block that fails leaves nothing behind.
ProcessDirect(n) ==
  /\ holder = "nobody" /\ Accepts(n) /\ stream = block
  /\ \/ UNCHANGED failures
     \/ failures < MaxFailures /\ failures' = failures + 1
  /\ UNCHANGED <<holder, hostVars, queueVars, pc, setups>>

\* process_buffered takes the quantum in.
Insert(n) ==
  /\ holder = "nobody" /\ Accepts(n) /\ stream # block
  /\ holder' = "rt" /\ pc' = "blocks"
  /\ in' = in + n
  /\ UNCHANGED <<hostVars, out, zeros, debt, setups, failures>>

\* Mutant: a block that is just full is left for the next call.
BlockThere_Beyond == in > block

BlockThere == in >= block

process_zita_block ==
  /\ pc = "blocks" /\ BlockThere
  /\ in' = in - block /\ out' = out + block
  /\ UNCHANGED <<holder, hostVars, pc, zeros, debt, setups, failures>>

\* The call returns false; the block stays in the queue and is tried again in the next one.
BlockFails ==
  /\ pc = "blocks" /\ BlockThere /\ failures < MaxFailures
  /\ pc' = "idle" /\ holder' = "nobody"
  /\ failures' = failures + 1 /\ debt' = debt + stream
  /\ UNCHANGED <<hostVars, in, out, zeros, setups>>

BlocksDone ==
  /\ pc = "blocks" /\ ~BlockThere
  /\ pc' = "emit"
  /\ UNCHANGED <<holder, hostVars, queueVars, setups, failures>>

Return == pc' = "idle" /\ holder' = "nobody" /\ UNCHANGED <<hostVars, in, debt, setups, failures>>

Emit ==
  /\ pc = "emit" /\ out >= stream
  /\ out' = out - stream /\ UNCHANGED zeros
  /\ Return

\* Too little output: zeros first, then all there is.
Pad ==
  /\ pc = "emit" /\ out < stream
  /\ zeros' = zeros + (stream - out) /\ out' = 0
  /\ Return

-------------------------------------------------------------------------------
AdapterNext ==
  \/ \E n \in Quanta : EnsureBegin(n)
  \/ EnsureFails \/ EnsureDone \/ stop
  \/ \E n \in Quanta : ProcessDirect(n) \/ Insert(n)
  \/ process_zita_block \/ BlockFails \/ BlocksDone \/ Emit \/ Pad

AdapterSpec == AdapterInit /\ [][AdapterNext]_adapterVars

-------------------------------------------------------------------------------
(* Properties *)

\* No frame is lost, played twice or left over from an earlier format: between calls the
\* frames in the queues are exactly the delay, the zeros played and the quanta of calls that
\* failed, since the set-up.
FramesConserved == ready /\ pc = "idle" => in + out = zeros + debt

\* The delay stays below a block, in addition to what failed calls have left behind: a gap is
\* filled once, and not again and again.
LatencyBound == ready /\ pc = "idle" => in + out < block + debt

\* As long as no block fails the queues stay within what was reserved for them, at every step
\* of a call: the real-time thread does not allocate.  After a failure it may.
ReserveHolds == ready /\ debt = 0 => in <= reserved /\ out <= reserved
===============================================================================

------------------------------ MODULE FilterProofs ------------------------------
(***************************************************************************)
(* Proofs about what runs on the real-time thread.                         *)
(*                                                                         *)
(* The hand-over between on_process and the worker (FilterInit) is safe    *)
(* for any formats and any number of format changes.  The invariant says   *)
(* where the single outstanding initialisation is, and what each side may  *)
(* rely on.                                                                *)
(*                                                                         *)
(* The convolver's queues (BlockAdapter), for every set of quanta, every   *)
(* smallest block and any number of set-ups and failures: inside a call    *)
(* the queues hold one quantum more than between calls, so the invariant   *)
(* speaks of both; from it the delay and the reserved room follow.         *)
(***************************************************************************)
EXTENDS FilterInit, BlockAdapter, TLAPS

-------------------------------------------------------------------------------
(* The hand-over *)

\* Where the outstanding initialisation is, if there is one.
Claimed == rt.pc = "claimed" /\ tasks = <<>> /\ wk.pc = "idle"
Queued == rt.pc # "claimed" /\ tasks = <<fmt>> /\ wk.pc = "idle"
Working == rt.pc # "claimed" /\ tasks = <<>> /\ wk.pc # "idle" /\ wk.fmt = fmt
Nowhere == rt.pc # "claimed" /\ tasks = <<>> /\ wk.pc = "idle"

Handover ==
  /\ init_state = "InitPending" => Claimed \/ Queued \/ Working
  /\ init_state # "InitPending" => Nowhere

\* What on_process may rely on: a state other than InitPending does not change behind it.
RtKnows ==
  /\ rt.pc # "idle" => rt.fmt \in Formats
  /\ rt.pc = "idle" => ~rt.dummy
  /\ rt.pc = "loaded" /\ rt.seen # "InitPending" => init_state = rt.seen
  /\ rt.pc = "run" => init_state = "Ready" /\ rt.fmt = fmt

\* What the worker has built so far, and what Ready stands for.
Built ==
  /\ tasks # <<>> \/ wk.pc # "idle" => fmt \in Formats
  /\ wk.pc \in {"resize", "publish"} => host.exists /\ host.fmt = wk.fmt
  /\ wk.pc = "publish" => wk.fmt.frames <= scratch
  /\ init_state = "Ready" =>
       fmt \in Formats /\ host.exists /\ host.fmt = fmt /\ fmt.frames <= scratch

IndInv == TypeOK /\ Handover /\ RtKnows /\ Built

\* A buffer resized for a format holds it.
LEMMA MaxFrames ==
  ASSUME NEW n \in Nat
  PROVE  max_frames(n) \in Nat /\ n <= max_frames(n) /\ Prealloc <= max_frames(n)
BY FormatsAssumption DEF max_frames

\* A filter starts with nothing outstanding.
LEMMA InitInv == Init => IndInv
<1> SUFFICES ASSUME Init PROVE IndInv OBVIOUS
<1>1. TypeOK BY FormatsAssumption DEF Init, TypeOK, InitStates, AnyFormat
<1>2. Handover BY DEF Init, Handover, Nowhere
<1>3. RtKnows BY DEF Init, RtKnows
<1>4. Built BY DEF Init, Built
<1> QED BY <1>1, <1>2, <1>3, <1>4 DEF IndInv

\* Every step of on_process keeps the invariant.
LEMMA RtStep == ASSUME IndInv, on_process PROVE IndInv'
<1> USE DEF IndInv
<1>1. CASE RtBegin
  <2>1. TypeOK' BY <1>1 DEF RtBegin, TypeOK, wkVars, AnyFormat
  <2>2. rt.pc = "idle" /\ rt'.pc = "begun" /\ rt'.fmt = graph BY <1>1 DEF RtBegin
  <2>3. UNCHANGED <<graph, init_state, fmt, tasks, wk, host, scratch>>
        BY <1>1 DEF RtBegin, wkVars
  <2>4. Handover' BY <2>2, <2>3 DEF Handover, Claimed, Queued, Working, Nowhere
  <2>5. RtKnows' BY <2>2, <2>3 DEF RtKnows, TypeOK
  <2>6. Built' BY <2>3 DEF Built
  <2> QED BY <2>1, <2>4, <2>5, <2>6
<1>2. CASE RtLoad
  <2>1. /\ rt.pc = "begun" /\ rt'.pc = "loaded" /\ rt'.seen = init_state /\ rt'.fmt = rt.fmt
        /\ UNCHANGED <<graph, changes, init_state, fmt, tasks, wk, host, scratch, dummy>>
        BY <1>2 DEF RtLoad, TypeOK, wkVars
  <2>2. TypeOK' BY <1>2, <2>1 DEF RtLoad, TypeOK
  <2>3. Handover' BY <2>1 DEF Handover, Claimed, Queued, Working, Nowhere
  <2>4. RtKnows' BY <2>1 DEF RtKnows
  <2>5. Built' BY <2>1 DEF Built
  <2> QED BY <2>2, <2>3, <2>4, <2>5
<1>3. CASE RtPassThrough \/ RtDone
  <2>1. /\ rt.pc \in {"loaded", "run"} /\ RtEnd
        /\ UNCHANGED <<graph, changes, init_state, fmt, tasks, wk, host, scratch, dummy>>
        BY <1>3 DEF RtPassThrough, RtDone, wkVars
  <2>2. rt'.pc = "idle" /\ ~rt'.dummy BY <2>1 DEF RtEnd, TypeOK
  <2>3. TypeOK' BY <2>1 DEF RtEnd, TypeOK
  <2>4. Handover' BY <2>1, <2>2 DEF Handover, Claimed, Queued, Working, Nowhere
  <2>5. RtKnows' BY <2>2 DEF RtKnows
  <2>6. Built' BY <2>1 DEF Built
  <2> QED BY <2>3, <2>4, <2>5, <2>6
<1>4. CASE RtRestart
  <2>1. /\ rt.pc = "loaded" /\ rt.seen \in {"Failed", "Ready"} /\ RtEnd
        /\ init_state' = "Uninitialized"
        /\ UNCHANGED <<graph, changes, fmt, tasks, wk, host, scratch, dummy>>
        BY <1>4 DEF RtRestart, wkVars
  <2>2. init_state # "InitPending" BY <2>1 DEF RtKnows
  <2>3. Nowhere BY <2>2 DEF Handover
  <2>4. rt'.pc = "idle" /\ ~rt'.dummy BY <2>1 DEF RtEnd, TypeOK
  <2>5. TypeOK' BY <2>1 DEF RtEnd, TypeOK, InitStates
  <2>6. Handover' BY <2>1, <2>3, <2>4 DEF Handover, Nowhere
  <2>7. RtKnows' BY <2>4 DEF RtKnows
  <2>8. Built' BY <2>1 DEF Built
  <2> QED BY <2>5, <2>6, <2>7, <2>8
<1>5. CASE RtClaim
  <2>1. /\ rt.pc = "loaded" /\ rt.seen = "Uninitialized"
        /\ init_state' = "InitPending" /\ rt' = [rt EXCEPT !.pc = "claimed"]
        /\ UNCHANGED <<graph, changes, fmt, tasks, wk, host, scratch, dummy>>
        BY <1>5 DEF RtClaim, wkVars
  <2>2. init_state = "Uninitialized" BY <2>1 DEF RtKnows
  <2>3. Nowhere BY <2>2 DEF Handover
  <2>4. rt'.pc = "claimed" /\ rt'.fmt = rt.fmt BY <2>1 DEF TypeOK
  <2>5. TypeOK' BY <2>1 DEF TypeOK, InitStates
  <2>6. Handover' BY <2>1, <2>3, <2>4 DEF Handover, Nowhere, Claimed
  <2>7. RtKnows' BY <2>1, <2>4 DEF RtKnows
  <2>8. Built' BY <2>1 DEF Built
  <2> QED BY <2>5, <2>6, <2>7, <2>8
<1>6. CASE schedule_initialization
  <2>1. /\ rt.pc = "claimed" /\ fmt' = rt.fmt /\ tasks' = Append(tasks, rt.fmt) /\ RtEnd
        /\ UNCHANGED <<graph, changes, init_state, wk, host, scratch, dummy>>
        BY <1>6 DEF schedule_initialization, wkVars
  <2>2. init_state = "InitPending" /\ Claimed
        BY <2>1 DEF Handover, Nowhere, Queued, Working
  <2>3. rt.fmt \in Formats BY <2>1 DEF RtKnows
  <2>4. tasks' = <<rt.fmt>> BY <2>1, <2>2, <2>3 DEF Claimed
  <2>5. rt'.pc = "idle" /\ ~rt'.dummy BY <2>1 DEF RtEnd, TypeOK
  <2>6. TypeOK'
    <3>1. tasks' \in Seq(Formats) BY <2>3, <2>4
    <3> QED BY <2>1, <2>3, <3>1 DEF TypeOK, RtEnd, AnyFormat
  <2>7. Handover' BY <2>1, <2>2, <2>4, <2>5 DEF Handover, Claimed, Queued
  <2>8. RtKnows' BY <2>5 DEF RtKnows
  <2>9. Built' BY <2>1, <2>2, <2>3 DEF Built, Claimed
  <2> QED BY <2>6, <2>7, <2>8, <2>9
<1>7. CASE RtRun
  <2>1. /\ rt.pc = "loaded" /\ rt.seen = "Ready" /\ rt.fmt = fmt
        /\ rt' = [rt EXCEPT !.pc = "run"]
        /\ UNCHANGED <<graph, changes, init_state, fmt, tasks, wk, host, scratch, dummy>>
        BY <1>7 DEF RtRun, wkVars
  <2>2. rt'.pc = "run" /\ rt'.fmt = rt.fmt BY <2>1 DEF TypeOK
  <2>3. TypeOK' BY <2>1 DEF TypeOK
  <2>4. Handover' BY <2>1, <2>2 DEF Handover, Claimed, Queued, Working, Nowhere
  <2>5. RtKnows' BY <2>1, <2>2 DEF RtKnows
  <2>6. Built' BY <2>1 DEF Built
  <2> QED BY <2>3, <2>4, <2>5, <2>6
<1> QED BY <1>1, <1>2, <1>3, <1>4, <1>5, <1>6, <1>7 DEF on_process

\* Every step of the worker keeps the invariant.
LEMMA WkStep == ASSUME IndInv, initialize_on_worker PROVE IndInv'
<1> USE DEF IndInv
<1>0. /\ UNCHANGED <<graph, changes, fmt, rt>>
      /\ init_state = "InitPending" /\ (Queued \/ Working)
  <2>1. wk.pc # "idle" \/ tasks # <<>>
        BY DEF initialize_on_worker, WkTake, WkKeep, WkCreate, WkRefuse, WkResize, WkPublish
  <2>2. UNCHANGED <<graph, changes, fmt, rt>>
        BY DEF initialize_on_worker, WkTake, WkKeep, WkCreate, WkRefuse, WkResize, WkPublish
  <2> QED BY <2>1, <2>2 DEF Handover, Nowhere, Claimed
<1>1. fmt \in Formats BY <1>0 DEF Built, Queued, Working
<1>2. CASE WkTake
  <2>1. Queued BY <1>0, <1>2 DEF WkTake, Working
  <2>2. /\ wk' = [pc |-> "create", fmt |-> fmt] /\ tasks' = <<>>
        /\ UNCHANGED <<init_state, host, scratch, dummy>>
        BY <1>1, <1>2, <2>1 DEF WkTake, Queued
  <2>3. TypeOK' BY <1>0, <1>1, <2>2 DEF TypeOK, AnyFormat
  <2>4. Handover' BY <1>0, <2>1, <2>2 DEF Handover, Queued, Working
  <2>5. RtKnows' BY <1>0, <2>2 DEF RtKnows
  <2>6. Built' BY <1>0, <1>1, <2>2 DEF Built
  <2> QED BY <2>3, <2>4, <2>5, <2>6
<1>3. CASE WkKeep \/ WkCreate \/ WkRefuse
  <2>1. wk.pc = "create" /\ Working
        BY <1>0, <1>3 DEF WkKeep, WkCreate, WkRefuse, Queued
  <2>2. /\ wk'.pc \in {"resize", "fail"} /\ wk'.fmt = wk.fmt
        /\ wk' \in [pc : {"idle", "create", "resize", "publish", "fail"}, fmt : AnyFormat]
        /\ host' \in [fmt : AnyFormat, exists : BOOLEAN]
        /\ wk'.pc = "resize" => host'.exists /\ host'.fmt = wk.fmt
        /\ UNCHANGED <<init_state, tasks, scratch, dummy>>
        BY <1>3 DEF WkKeep, WkCreate, WkRefuse, Matches, TypeOK
  <2>3. TypeOK' BY <1>0, <2>2 DEF TypeOK
  <2>4. Handover' BY <1>0, <2>1, <2>2 DEF Handover, Working
  <2>5. RtKnows' BY <1>0, <2>2 DEF RtKnows
  <2>6. Built' BY <1>0, <1>1, <2>2 DEF Built
  <2> QED BY <2>3, <2>4, <2>5, <2>6
<1>4. CASE WkResize
  <2>1. wk.pc = "resize" /\ Working BY <1>0, <1>4 DEF WkResize, Queued
  <2>2. wk.fmt.frames \in Nat BY <1>1, <2>1, FormatsAssumption DEF Working
  <2>3. /\ wk' = [wk EXCEPT !.pc = "publish"]
        /\ scratch' = max_frames(wk.fmt.frames) /\ dummy' = max_frames(wk.fmt.frames)
        /\ UNCHANGED <<init_state, tasks, host>>
        BY <1>4 DEF WkResize
  <2>4. wk'.pc = "publish" /\ wk'.fmt = wk.fmt BY <2>3 DEF TypeOK
  <2>5. scratch' \in Nat /\ dummy' \in Nat /\ wk.fmt.frames <= scratch'
        BY <2>2, <2>3, MaxFrames
  <2>6. TypeOK' BY <1>0, <2>3, <2>5 DEF TypeOK
  <2>7. Handover' BY <1>0, <2>1, <2>3, <2>4 DEF Handover, Working
  <2>8. RtKnows' BY <1>0, <2>3 DEF RtKnows
  <2>9. Built' BY <1>0, <1>1, <2>1, <2>3, <2>4, <2>5 DEF Built
  <2> QED BY <2>6, <2>7, <2>8, <2>9
<1>5. CASE WkPublish
  <2>1. wk.pc \in {"publish", "fail"} /\ Working BY <1>0, <1>5 DEF WkPublish, Queued
  <2>2. /\ wk' = [wk EXCEPT !.pc = "idle"]
        /\ init_state' = IF wk.pc = "publish" THEN "Ready" ELSE "Failed"
        /\ UNCHANGED <<tasks, host, scratch, dummy>>
        BY <1>5 DEF WkPublish
  <2>3. wk'.pc = "idle" /\ wk'.fmt = wk.fmt BY <2>2 DEF TypeOK
  <2>4. TypeOK' BY <1>0, <2>2 DEF TypeOK, InitStates
  <2>5. Handover' BY <1>0, <2>1, <2>2, <2>3 DEF Handover, Working, Nowhere
  <2>6. RtKnows' BY <1>0, <2>2 DEF RtKnows
  <2>7. Built' BY <1>0, <1>1, <2>1, <2>2, <2>3 DEF Built, Working
  <2> QED BY <2>4, <2>5, <2>6, <2>7
<1> QED BY <1>2, <1>3, <1>4, <1>5 DEF initialize_on_worker

\* Every step keeps the invariant.
LEMMA NextInv == IndInv /\ [Next]_vars => IndInv'
<1> SUFFICES ASSUME IndInv, [Next]_vars PROVE IndInv' OBVIOUS
<1>1. CASE \E f \in Formats : GraphChanges(f)
  <2>1. /\ graph' \in Formats /\ changes' \in 0..MaxChanges
        /\ UNCHANGED <<init_state, fmt, tasks, rt, wk, host, scratch, dummy>>
        BY <1>1, FormatsAssumption DEF GraphChanges, IndInv, TypeOK
  <2> QED BY <2>1 DEF IndInv, TypeOK, Handover, Claimed, Queued, Working, Nowhere, RtKnows, Built
<1>2. CASE on_process BY <1>2, RtStep
<1>3. CASE initialize_on_worker BY <1>3, WkStep
<1>4. CASE UNCHANGED vars
      BY <1>4 DEF vars, IndInv, TypeOK, Handover, Claimed, Queued, Working, Nowhere, RtKnows, Built
<1> QED BY <1>1, <1>2, <1>3, <1>4 DEF Next

-------------------------------------------------------------------------------
(* The theorems *)

\* The inductive invariant holds in every reachable state.
THEOREM Invariance == Spec => []IndInv
BY InitInv, NextInv, PTL DEF Spec

\* Every variable of the filter keeps its type.
THEOREM TypeCorrect == Spec => []TypeOK
<1>1. IndInv => TypeOK BY DEF IndInv
<1> QED BY <1>1, Invariance, PTL

\* The worker never touches the host or the buffers while on_process runs them.
THEOREM HostExclusive == Spec => []HostNotShared
<1>1. IndInv => HostNotShared
      BY DEF IndInv, HostNotShared, RtKnows, Handover, Nowhere
<1> QED BY <1>1, Invariance, PTL

\* on_process runs only a host built for its format, on buffers that hold it.
THEOREM RunsOnlyConfigured == Spec => []RunsConfigured
<1>1. IndInv => RunsConfigured BY DEF IndInv, RunsConfigured, RtKnows, Built
<1> QED BY <1>1, Invariance, PTL

\* At most one initialisation is outstanding, exactly while the state is InitPending.
THEOREM OneInit == Spec => []OneInitOutstanding
<1>1. IndInv => OneInitOutstanding
  <2> SUFFICES ASSUME IndInv PROVE OneInitOutstanding OBVIOUS
  <2> USE DEF OneInitOutstanding
  <2>1. CASE Claimed /\ init_state = "InitPending" BY <2>1 DEF Claimed
  <2>2. CASE Queued /\ init_state = "InitPending"
    <3>1. Len(tasks) = 1 BY <2>2 DEF Queued
    <3> QED BY <2>2, <3>1 DEF Queued
  <2>3. CASE Working /\ init_state = "InitPending" BY <2>3 DEF Working
  <2>4. CASE Nowhere /\ init_state # "InitPending" BY <2>4 DEF Nowhere
  <2> QED BY <2>1, <2>2, <2>3, <2>4 DEF IndInv, Handover
<1> QED BY <1>1, Invariance, PTL

\* Quanta within the frames allocated in advance always find dummy buffers that hold them
\* and stay put: no resize ever makes them smaller than they were at first.
THEOREM DummyBuffers == Spec => []SmallQuantaHold
<1> DEFINE Enough == Prealloc <= dummy
<1>1. Init => Enough BY FormatsAssumption DEF Init
<1>2. IndInv /\ Enough /\ [Next]_vars => Enough'
  <2> SUFFICES ASSUME IndInv, Enough, [Next]_vars PROVE Enough' OBVIOUS
  <2>1. CASE WkResize
    <3>1. wk.fmt \in Formats
          BY <2>1 DEF WkResize, IndInv, Handover, Built, Claimed, Queued, Working, Nowhere
    <3>2. wk.fmt.frames \in Nat BY <3>1, FormatsAssumption
    <3> QED BY <2>1, <3>2, MaxFrames DEF WkResize
  <2>2. CASE ~WkResize
    <3>1. dummy' = dummy
          BY <2>2 DEF Next, vars, GraphChanges, on_process, RtBegin, RtLoad, RtPassThrough,
             RtRestart, RtClaim, schedule_initialization, RtRun, RtDone, wkVars,
             initialize_on_worker, WkTake, WkKeep, WkCreate, WkRefuse, WkPublish
    <3> QED BY <3>1
  <2> QED BY <2>1, <2>2
<1>3. IndInv /\ Enough => SmallQuantaHold
  <2> SUFFICES ASSUME IndInv, Enough PROVE SmallQuantaHold OBVIOUS
  <2>1. rt.dummy => rt.fmt \in Formats BY DEF IndInv, RtKnows
  <2>2. wk.pc # "idle" => wk.fmt \in Formats
        BY DEF IndInv, Handover, Built, Claimed, Queued, Working, Nowhere
  <2>3. \A f \in Formats : f.frames \in Nat BY FormatsAssumption
  <2>4. dummy \in Nat /\ Prealloc \in Nat BY FormatsAssumption DEF IndInv, TypeOK
  <2> QED BY <2>1, <2>2, <2>3, <2>4 DEF SmallQuantaHold, max_frames
<1> QED BY <1>1, <1>2, <1>3, Invariance, PTL DEF Spec

-------------------------------------------------------------------------------
(* The convolver's queues *)

\* The quantum a call under way has brought in.
Held == IF pc = "idle" THEN 0 ELSE stream

\* What is in the queues, between and inside calls, of a host that is ready.
Balance ==
  ready => /\ stream \in Nat \ {0} /\ block \in Nat \ {0}
           /\ reserved = stream + block
           /\ in + out = zeros + debt + Held
           /\ in + out < block + debt + Held

\* A call is only under way while the host is ready; in its last step less than a block of
\* input is left.
Calls ==
  /\ pc # "idle" => ready
  /\ pc = "emit" => in < block
  /\ holder = "worker" => ~ready /\ stream \in Quanta /\ block \in Nat \ {0}

AdapterInv == AdapterTypeOK /\ Balance /\ Calls

\* Initially nothing is set up.
LEMMA AdapterInitInd == AdapterInit => AdapterInv
<1> SUFFICES ASSUME AdapterInit PROVE AdapterInv
  OBVIOUS
<1>1. ~ready
  BY DEF AdapterInit
<1>2. AdapterTypeOK
  <2>1. ready \in BOOLEAN
    BY Zenon DEF AdapterInit
  <2>2. 0 \in 0..MaxSetups /\ 0 \in 0..MaxFailures
    BY AdapterAssumption
  <2> QED BY <2>1, <2>2 DEF AdapterInit, AdapterTypeOK
<1>3. Balance /\ Calls
  BY <1>1 DEF AdapterInit, Balance, Calls
<1> QED BY <1>2, <1>3 DEF AdapterInv

\* One step per action: the worker's, which are made without a call under way, then the
\* steps of a call.
LEMMA AdapterNextInd == AdapterInv /\ [AdapterNext]_adapterVars => AdapterInv'
<1> SUFFICES ASSUME AdapterInv, [AdapterNext]_adapterVars PROVE AdapterInv'
  OBVIOUS
<1> USE AdapterAssumption DEF AdapterInv, AdapterTypeOK, Balance, Calls, Held, hostVars, queueVars
<1>1. ASSUME NEW n \in Quanta, EnsureBegin(n) PROVE AdapterInv'
  <2>1. normalized_zita_block_size(n) \in Nat \ {0}
    OBVIOUS
  <2>2. ready' \in BOOLEAN /\ ~ready'
    BY <1>1, Zenon DEF EnsureBegin
  <2> QED BY <1>1, <2>1, <2>2 DEF EnsureBegin
<1>2. CASE EnsureFails
  BY <1>2 DEF EnsureFails
<1>3. CASE EnsureDone
  <2>1. ready' \in BOOLEAN /\ ready'
    BY <1>3, Zenon DEF EnsureDone
  <2> QED BY <1>3, <2>1 DEF EnsureDone
<1>4. CASE stop
  <2>1. ready' \in BOOLEAN /\ ~ready'
    BY <1>4, Zenon DEF stop
  <2> QED BY <1>4, <2>1 DEF stop
<1>5. ASSUME NEW n \in Quanta, ProcessDirect(n) PROVE AdapterInv'
  BY <1>5 DEF ProcessDirect
<1>6. ASSUME NEW n \in Quanta, Insert(n) PROVE AdapterInv'
  BY <1>6 DEF Insert, Accepts
<1>7. CASE process_zita_block
  BY <1>7 DEF process_zita_block, BlockThere
<1>8. CASE BlockFails
  BY <1>8 DEF BlockFails
<1>9. CASE BlocksDone
  BY <1>9 DEF BlocksDone, BlockThere
<1>10. CASE Emit
  BY <1>10 DEF Emit, Return
<1>11. CASE Pad
  BY <1>11 DEF Pad, Return
<1>12. CASE UNCHANGED adapterVars
  BY <1>12 DEF adapterVars
<1> QED
  BY <1>1, <1>2, <1>3, <1>4, <1>5, <1>6, <1>7, <1>8, <1>9, <1>10, <1>11, <1>12 DEF AdapterNext

\* The invariant holds in every state.
LEMMA AdapterInvariance == AdapterSpec => []AdapterInv
BY AdapterInitInd, AdapterNextInd, PTL DEF AdapterSpec

\* The state of the host is well typed; in particular no queue is taken below zero.
THEOREM AdapterTypeCorrect == AdapterSpec => []AdapterTypeOK
BY AdapterInvariance, PTL DEF AdapterInv

\* process_buffered loses and repeats no frame, and ensure_ready keeps none from an earlier
\* format, for all quanta.
THEOREM Conserved == AdapterSpec => []FramesConserved
<1>1. AdapterInv => FramesConserved
  BY DEF AdapterInv, AdapterTypeOK, Balance, Held, FramesConserved
<1> QED BY <1>1, AdapterInvariance, PTL

\* The delay process_buffered adds stays below one block, apart from what failed calls left.
THEOREM LatencyBounded == AdapterSpec => []LatencyBound
<1>1. AdapterInv => LatencyBound
  BY DEF AdapterInv, AdapterTypeOK, Balance, Held, LatencyBound
<1> QED BY <1>1, AdapterInvariance, PTL

\* What ensure_ready reserves is enough at every step of every call until a block fails.
THEOREM ReserveIsEnough == AdapterSpec => []ReserveHolds
<1>1. AdapterInv => ReserveHolds
  BY AdapterAssumption DEF AdapterInv, AdapterTypeOK, Balance, Calls, Held, ReserveHolds
<1> QED BY <1>1, AdapterInvariance, PTL
===============================================================================

------------------------------ MODULE FilterInit ------------------------------
(***************************************************************************)
(* How one filter node (EqFilterNode, LimiterFilterNode and                *)
(* ConvolverFilterNode of pipewire_router.cpp) gets its DSP host built:    *)
(* on_process, on PipeWire's real-time thread, must not allocate, so it    *)
(* hands the work to the session's worker thread and passes audio through  *)
(* until the worker publishes the result in the atomic init_state_.  The   *)
(* host and the buffers have no lock: init_state_ alone says who may touch *)
(* them.  The graph's rate and quantum may change at any moment.           *)
(***************************************************************************)
EXTENDS Integers, Sequences

CONSTANTS
  Formats,     \* [rate, frames] the graph can run at: clock.rate.denom, clock.duration
  Prealloc,    \* frames the buffers are allocated for in advance: 8192
  MaxChanges,  \* bound on the format changes explored
  NoFormat     \* rate_ and n_samples_ before any initialisation

ASSUME FormatsAssumption ==
  /\ Formats \subseteq [rate : Nat, frames : Nat] /\ NoFormat \notin Formats
  /\ Prealloc \in Nat /\ MaxChanges \in Nat

VARIABLES
  graph,       \* the format the graph runs at
  changes,     \* format changes so far
  init_state,  \* init_state_
  fmt,         \* rate_ and n_samples_: the format last scheduled, read by on_process only
  tasks,       \* this filter's tasks in the router's scheduled_tasks_
  rt,          \* on_process: where it is, its format, the state it loaded, and whether a
               \* port had no buffer so that it uses the dummy ones
  wk,          \* initialize_on_worker: where it is and the format it captured
  host,        \* the DSP host: the format it was built for, and whether it exists
  scratch,     \* frames in scratch_left_, scratch_right_ (and the convolver's input_*_)
  dummy        \* frames in dummy_left_, dummy_right_

vars == <<graph, changes, init_state, fmt, tasks, rt, wk, host, scratch, dummy>>

wkVars == <<wk, host, scratch, dummy>>

InitStates == {"Uninitialized", "InitPending", "Ready", "Failed"}
AnyFormat == Formats \cup {NoFormat}

TypeOK ==
  /\ graph \in Formats
  /\ changes \in 0..MaxChanges
  /\ init_state \in InitStates
  /\ fmt \in AnyFormat
  /\ tasks \in Seq(Formats)
  /\ rt \in [pc : {"idle", "begun", "loaded", "claimed", "run"}, fmt : AnyFormat,
             seen : InitStates, dummy : BOOLEAN]
  /\ wk \in [pc : {"idle", "create", "resize", "publish", "fail"}, fmt : AnyFormat]
  /\ host \in [fmt : AnyFormat, exists : BOOLEAN]
  /\ scratch \in Nat
  /\ dummy \in Nat

max_frames(frames) == IF frames > Prealloc THEN frames ELSE Prealloc

\* Mutant: the dummy buffers are left to the first initialisation.
Init_NoDummy ==
  /\ graph \in Formats /\ changes = 0
  /\ init_state = "Uninitialized" /\ fmt = NoFormat /\ tasks = <<>>
  /\ rt = [pc |-> "idle", fmt |-> NoFormat, seen |-> "Uninitialized", dummy |-> FALSE]
  /\ wk = [pc |-> "idle", fmt |-> NoFormat]
  /\ host = [fmt |-> NoFormat, exists |-> FALSE]
  /\ scratch = 0 /\ dummy = 0

Init ==
  /\ graph \in Formats
  /\ changes = 0
  /\ init_state = "Uninitialized"
  /\ fmt = NoFormat
  /\ tasks = <<>>
  /\ rt = [pc |-> "idle", fmt |-> NoFormat, seen |-> "Uninitialized", dummy |-> FALSE]
  /\ wk = [pc |-> "idle", fmt |-> NoFormat]
  /\ host = [fmt |-> NoFormat, exists |-> FALSE]
  /\ scratch = 0
  /\ dummy = Prealloc

-------------------------------------------------------------------------------
(* The graph *)

GraphChanges(f) ==
  /\ changes < MaxChanges /\ f # graph
  /\ graph' = f
  /\ changes' = changes + 1
  /\ UNCHANGED <<init_state, fmt, tasks, rt, wk, host, scratch, dummy>>

-------------------------------------------------------------------------------
(* on_process *)

\* on_process returns at once when there is no quantum or no rate.
Runnable(f) == f.rate # 0 /\ f.frames # 0

\* The buffers are fetched; a port without one gets a span of the dummy buffers.
RtBegin ==
  /\ rt.pc = "idle" /\ Runnable(graph)
  /\ \E d \in BOOLEAN :
       rt' = [pc |-> "begun", fmt |-> graph, seen |-> rt.seen, dummy |-> d]
  /\ UNCHANGED <<graph, changes, init_state, fmt, tasks, wkVars>>

RtLoad ==
  /\ rt.pc = "begun"
  /\ rt' = [rt EXCEPT !.pc = "loaded", !.seen = init_state]
  /\ UNCHANGED <<graph, changes, init_state, fmt, tasks, wkVars>>

RtEnd == rt' = [rt EXCEPT !.pc = "idle", !.dummy = FALSE]

\* Mutant: after a failure the format is not looked at again.
RtPassThrough_AfterFailure ==
  /\ rt.pc = "loaded"
  /\ rt.seen \in {"InitPending", "Failed"} \/ (rt.seen = "Ready" /\ rt.fmt = fmt)
  /\ RtEnd
  /\ UNCHANGED <<graph, changes, init_state, fmt, tasks, wkVars>>

\* Input is copied to output: an initialisation is pending, the last one failed for this
\* format, or the filter is ready and bypassed.
RtPassThrough ==
  /\ rt.pc = "loaded"
  /\ rt.seen = "InitPending" \/ (rt.seen \in {"Failed", "Ready"} /\ rt.fmt = fmt)
  /\ RtEnd
  /\ UNCHANGED <<graph, changes, init_state, fmt, tasks, wkVars>>

\* Mutant: a change of format begins again at once, also while one is pending.
RtRestart_Pending ==
  /\ rt.pc = "loaded" /\ rt.seen # "Uninitialized" /\ rt.fmt # fmt
  /\ init_state' = "Uninitialized"
  /\ RtEnd
  /\ UNCHANGED <<graph, changes, fmt, tasks, wkVars>>

\* The format is not the one the last initialisation was for: begin again.
RtRestart ==
  /\ rt.pc = "loaded" /\ rt.seen \in {"Failed", "Ready"} /\ rt.fmt # fmt
  /\ init_state' = "Uninitialized"
  /\ RtEnd
  /\ UNCHANGED <<graph, changes, fmt, tasks, wkVars>>

RtClaim ==
  /\ rt.pc = "loaded" /\ rt.seen = "Uninitialized"
  /\ init_state' = "InitPending"
  /\ rt' = [rt EXCEPT !.pc = "claimed"]
  /\ UNCHANGED <<graph, changes, fmt, tasks, wkVars>>

schedule_initialization ==
  /\ rt.pc = "claimed"
  /\ fmt' = rt.fmt
  /\ tasks' = Append(tasks, rt.fmt)
  /\ RtEnd
  /\ UNCHANGED <<graph, changes, init_state, wkVars>>

\* Ready for this format and not bypassed: the scratch buffers and the host are used
\* until the cycle ends.
RtRun ==
  /\ rt.pc = "loaded" /\ rt.seen = "Ready" /\ rt.fmt = fmt
  /\ rt' = [rt EXCEPT !.pc = "run"]
  /\ UNCHANGED <<graph, changes, init_state, fmt, tasks, wkVars>>

RtDone ==
  /\ rt.pc = "run"
  /\ RtEnd
  /\ UNCHANGED <<graph, changes, init_state, fmt, tasks, wkVars>>

-------------------------------------------------------------------------------
(* initialize_on_worker *)

\* run_due_tasks takes the task off the queue and calls it.
WkTake ==
  /\ wk.pc = "idle" /\ tasks # <<>>
  /\ wk' = [pc |-> "create", fmt |-> Head(tasks)]
  /\ tasks' = Tail(tasks)
  /\ UNCHANGED <<graph, changes, init_state, fmt, rt, host, scratch, dummy>>

Matches == host.exists /\ host.fmt = wk.fmt

\* create_instance and ensure_ready keep a host that was built for this format.
WkKeep ==
  /\ wk.pc = "create" /\ Matches
  /\ wk' = [wk EXCEPT !.pc = "resize"]
  /\ UNCHANGED <<graph, changes, init_state, fmt, tasks, rt, host, scratch, dummy>>

\* Otherwise they destroy the old host and build a new one, or fail to.
WkCreate ==
  /\ wk.pc = "create" /\ ~Matches
  /\ \E built \in BOOLEAN :
       /\ host' = [fmt |-> wk.fmt, exists |-> built]
       /\ wk' = [wk EXCEPT !.pc = IF built THEN "resize" ELSE "fail"]
  /\ UNCHANGED <<graph, changes, init_state, fmt, tasks, rt, scratch, dummy>>

\* validate_rate: the convolver's kernel has another rate; the host is left alone.
WkRefuse ==
  /\ wk.pc = "create"
  /\ wk' = [wk EXCEPT !.pc = "fail"]
  /\ UNCHANGED <<graph, changes, init_state, fmt, tasks, rt, host, scratch, dummy>>

\* Mutant: the buffers keep the size they were given in advance.
WkResize_Fixed ==
  /\ wk.pc = "resize"
  /\ scratch' = Prealloc /\ dummy' = dummy
  /\ wk' = [wk EXCEPT !.pc = "publish"]
  /\ UNCHANGED <<graph, changes, init_state, fmt, tasks, rt, host>>

WkResize ==
  /\ wk.pc = "resize"
  /\ scratch' = max_frames(wk.fmt.frames)
  /\ dummy' = max_frames(wk.fmt.frames)
  /\ wk' = [wk EXCEPT !.pc = "publish"]
  /\ UNCHANGED <<graph, changes, init_state, fmt, tasks, rt, host>>

WkPublish ==
  /\ wk.pc \in {"publish", "fail"}
  /\ init_state' = IF wk.pc = "publish" THEN "Ready" ELSE "Failed"
  /\ wk' = [wk EXCEPT !.pc = "idle"]
  /\ UNCHANGED <<graph, changes, fmt, tasks, rt, host, scratch, dummy>>

-------------------------------------------------------------------------------
on_process ==
  \/ RtBegin \/ RtLoad \/ RtPassThrough \/ RtRestart
  \/ RtClaim \/ schedule_initialization \/ RtRun \/ RtDone

initialize_on_worker ==
  WkTake \/ WkKeep \/ WkCreate \/ WkRefuse \/ WkResize \/ WkPublish

Next == (\E f \in Formats : GraphChanges(f)) \/ on_process \/ initialize_on_worker

Spec == Init /\ [][Next]_vars

\* PipeWire calls on_process every quantum, and the session's worker runs what is due.
FairSpec == Spec /\ WF_vars(on_process) /\ WF_vars(initialize_on_worker)

-------------------------------------------------------------------------------
(* Properties *)

\* The worker never rebuilds the host or resizes the buffers while on_process runs them,
\* whatever the order of quanta, format changes and initialisations.
HostNotShared == rt.pc = "run" => wk.pc \notin {"create", "resize"}

\* on_process only runs a host that exists and was built for exactly this cycle's rate
\* and quantum, on scratch buffers that hold the quantum.
RunsConfigured ==
  rt.pc = "run" => /\ host.exists /\ host.fmt = rt.fmt
                   /\ rt.fmt.frames <= scratch

\* An initialisation is on its way exactly while the state says InitPending, and only one:
\* claimed by on_process, queued, or running on the worker.
OneInitOutstanding ==
  LET outstanding == Len(tasks) + (IF rt.pc = "claimed" THEN 1 ELSE 0)
                                + (IF wk.pc # "idle" THEN 1 ELSE 0) IN
  outstanding = IF init_state = "InitPending" THEN 1 ELSE 0

\* Once the format stays the same, the filter comes to rest: ready, and built for the
\* format the graph runs at, or failed for it.
Settles ==
  <>[](Runnable(graph)) =>
    <>[](/\ init_state \in {"Ready", "Failed"} /\ fmt = graph
         /\ init_state = "Ready" => host.exists /\ host.fmt = graph)

\* With a quantum of no more than the frames allocated in advance, a port without a buffer
\* gets a dummy one that holds the quantum, and an initialisation for such a quantum does
\* not reallocate the dummy buffers on_process may hold, whatever formats came before.
SmallQuantaHold ==
  rt.dummy => /\ rt.fmt.frames <= Prealloc => rt.fmt.frames <= dummy
              /\ wk.pc = "resize" /\ wk.fmt.frames <= Prealloc =>
                   max_frames(wk.fmt.frames) <= dummy
===============================================================================

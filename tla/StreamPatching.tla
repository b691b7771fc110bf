---------------------------- MODULE StreamPatching ----------------------------
(***************************************************************************)
(* How a session moves applications' output streams onto its virtual sink  *)
(* (PipeWireRouter in pipewire_router.cpp).  PipeWire's thread reports     *)
(* streams and queues a patch 150 ms later; the session's worker patches,  *)
(* by setting the stream's target in PipeWire's metadata, and on a         *)
(* reconnect to another sink unpatches all streams and patches the ones    *)
(* that match the new sink.  A name whose streams are removed again and    *)
(* again soon after being patched is left alone for a while (loop_guard_). *)
(***************************************************************************)
EXTENDS Integers, Sequences

CONSTANTS
  Names,          \* stream names, the keys of loop_guard_
  Sinks,          \* sinks the session may be on and streams may ask for
  Anywhere,       \* no target.object, or the virtual sink: matches every sink
  RapidWindow,    \* kRapidRemovalWindow, in ticks
  SuppressFor,    \* kLoopSuppressDuration, in ticks
  Threshold,      \* kLoopSuppressThreshold
  MaxStreams,     \* bound on streams ever created
  MaxTime,        \* bound on ticks
  Limits          \* what may happen in a behaviour, see Limit

\* Bounds: streams created, ticks, reconnects and target changes; the sinks that are there;
\* and whether an application has one stream at a time under a name.
Limit == [streams : 0..MaxStreams, ticks : 0..MaxTime, reconnects : Nat, retargets : Nat,
          sinks : SUBSET Sinks, onePerName : BOOLEAN]

ASSUME PatchingAssumption ==
  /\ Anywhere \notin Sinks
  /\ {RapidWindow, SuppressFor, Threshold, MaxStreams, MaxTime} \subseteq Nat
  /\ Limits \subseteq Limit

VARIABLES
  streams,   \* every stream ever created, by serial: its name and the target it asks for
  alive,     \* serials of the streams that exist
  info,      \* the target the router knows for each (NodeInfo.target_object)
  news,      \* streams whose node info PipeWire's thread has still to deliver
  selected,  \* selected_sink_
  patched,   \* patched_streams_
  pending,   \* pending_patch_streams_
  recent,    \* recent_patch_attempts_: when a stream was patched, Never if it is not there
  guard,     \* loop_guard_
  tasks,     \* queued patches in scheduled_tasks_
  meta,      \* existing streams whose metadata target is the virtual sink
  wk,        \* the worker: what it is doing, the streams still to do, the sink before a
             \* reconnect, and whether stop has begun or a rollback has failed
  now, reconnects, retargets,
  lim        \* the limits of this behaviour

vars == <<streams, alive, info, news, selected, patched, pending, recent, guard, tasks, meta,
          wk, now, reconnects, retargets, lim>>

bounds == <<reconnects, retargets, lim>>

Never == -RapidWindow - 1
Targets == Sinks \cup {Anywhere}
Serials == 1..MaxStreams

TypeOK ==
  /\ streams \in Seq([name : Names, target : Targets]) /\ Len(streams) <= MaxStreams
  /\ alive \subseteq DOMAIN streams /\ news \subseteq alive
  /\ info \in [Serials -> Targets] /\ selected \in Sinks
  /\ patched \subseteq alive /\ pending \subseteq alive
  /\ recent \in [Serials -> {Never} \cup 0..MaxTime]
  /\ guard \in [Names -> [rapid : Nat, last : {Never} \cup 0..MaxTime, until : Nat]]
  /\ tasks \in Seq(Serials) /\ meta \subseteq alive
  /\ wk \in [pc : {"idle", "set", "clear", "relink", "link", "rollback", "list", "all", "stopped"},
             todo : SUBSET Serials, stream : Serials \cup {0}, old : Sinks, stop : BOOLEAN,
             unlinked : BOOLEAN]
  /\ lim \in Limits /\ now \in 0..lim.ticks
  /\ reconnects \in 0..lim.reconnects /\ retargets \in 0..lim.retargets

\* start ends with patch_existing_streams.
Init ==
  /\ streams = <<>> /\ alive = {} /\ news = {} /\ meta = {}
  /\ info = [s \in Serials |-> Anywhere]
  /\ lim \in Limits /\ selected \in lim.sinks
  /\ patched = {} /\ pending = {} /\ tasks = <<>>
  /\ recent = [s \in Serials |-> Never]
  /\ guard = [k \in Names |-> [rapid |-> 0, last |-> Never, until |-> 0]]
  /\ wk = [pc |-> "list", todo |-> {}, stream |-> 0, old |-> selected, stop |-> FALSE,
            unlinked |-> FALSE]
  /\ now = 0 /\ reconnects = 0 /\ retargets = 0

\* stream_targets_selected_sink, of what the router knows of the stream.
stream_targets_selected_sink(s, sink) == info[s] \in {Anywhere, sink}

NameOf(s) == streams[s].name
Suppressed(k) == now < guard[k].until

-------------------------------------------------------------------------------
(* PipeWire's thread *)

\* A stream's node is bound with its name; its target comes with the node info.
on_registry_global(k, t) ==
  /\ Len(streams) < lim.streams /\ wk.pc # "stopped"
  /\ lim.onePerName => \A s \in alive : NameOf(s) # k
  /\ LET s == Len(streams) + 1 IN
     /\ streams' = Append(streams, [name |-> k, target |-> t])
     /\ alive' = alive \cup {s} /\ news' = news \cup {s}
  /\ UNCHANGED <<info, selected, patched, pending, recent, guard, tasks, meta, wk, now, bounds>>

\* The application, or the user, sends the stream somewhere else.
Retarget(s, t) ==
  /\ s \in alive /\ streams[s].target # t /\ retargets < lim.retargets /\ wk.pc # "stopped"
  /\ streams' = [streams EXCEPT ![s].target = t]
  /\ news' = news \cup {s} /\ retargets' = retargets + 1
  /\ UNCHANGED <<alive, info, selected, patched, pending, recent, guard, tasks, meta, wk, now,
                 reconnects, lim>>

\* Mutant: the loop guard is not consulted.
queues_Always(s, t) ==
  t \in {Anywhere, selected} /\ s \notin patched \cup pending

\* on_node_info goes on to queue_patch_stream, and that queues the stream.
queues(s, t) ==
  /\ t \in {Anywhere, selected} /\ ~Suppressed(NameOf(s))
  /\ s \notin patched \cup pending

\* Once stop has begun the callback returns at once.
on_node_info(s) ==
  /\ s \in news /\ wk.pc # "stopped"
  /\ news' = news \ {s}
  /\ IF wk.stop THEN UNCHANGED <<info, pending, tasks>>
     ELSE /\ info' = [info EXCEPT ![s] = streams[s].target]
          /\ IF queues(s, streams[s].target)
             THEN pending' = pending \cup {s} /\ tasks' = Append(tasks, s)
             ELSE UNCHANGED <<pending, tasks>>
  /\ UNCHANGED <<streams, alive, selected, patched, recent, guard, meta, wk, now, bounds>>

\* What the removal of a stream that had been patched does to its name's guard.
guard_removal(g, patchedAt) ==
  LET rapid == IF now - g.last > RapidWindow THEN 1 ELSE g.rapid + 1 IN
  IF now - patchedAt <= RapidWindow
  THEN [rapid |-> rapid, last |-> now,
        until |-> IF rapid >= Threshold THEN now + SuppressFor ELSE g.until]
  ELSE [g EXCEPT !.rapid = 0, !.last = now]

\* Mutant: a removed stream is still counted as patched.
on_node_proxy_removed_Kept(s) ==
  /\ s \in alive /\ wk.pc # "stopped"
  /\ alive' = alive \ {s} /\ news' = news \ {s}
  /\ pending' = pending \ {s} /\ meta' = meta \ {s}
  /\ UNCHANGED <<streams, info, selected, patched, recent, guard, tasks, wk, now, bounds>>

on_node_proxy_removed(s) ==
  /\ s \in alive /\ wk.pc # "stopped"
  /\ alive' = alive \ {s} /\ news' = news \ {s}
  /\ patched' = patched \ {s} /\ pending' = pending \ {s} /\ meta' = meta \ {s}
  /\ recent' = [recent EXCEPT ![s] = Never] /\ info' = [info EXCEPT ![s] = Anywhere]
  /\ guard' = IF recent[s] = Never THEN guard
              ELSE [guard EXCEPT ![NameOf(s)] = guard_removal(@, recent[s])]
  /\ UNCHANGED <<streams, selected, tasks, wk, now, bounds>>

Tick ==
  /\ now < lim.ticks /\ now' = now + 1
  /\ UNCHANGED <<streams, alive, info, news, selected, patched, pending, recent, guard, tasks,
                 meta, wk, bounds>>

-------------------------------------------------------------------------------
(* The worker *)

\* Mutant: the stream is not recorded.
patch_stream_Unrecorded(s, next) ==
  IF s \in patched \/ s \notin alive
  THEN wk' = next /\ UNCHANGED <<patched, recent>>
  ELSE wk' = [next EXCEPT !.pc = "set", !.stream = s] /\ UNCHANGED <<patched, recent>>

\* patch_stream up to the release of the mutex: the stream is recorded as patched, and its
\* metadata is what is set next.
patch_stream(s, next) ==
  IF s \in patched \/ s \notin alive
  THEN wk' = next /\ UNCHANGED <<patched, recent>>
  ELSE /\ wk' = [next EXCEPT !.pc = "set", !.stream = s]
       /\ patched' = patched \cup {s}
       /\ recent' = [recent EXCEPT ![s] = now]

\* A queued patch comes due.
RunPatch ==
  /\ wk.pc = "idle" /\ tasks # <<>>
  /\ tasks' = Tail(tasks)
  /\ pending' = pending \ {Head(tasks)}
  /\ patch_stream(Head(tasks), wk)
  /\ UNCHANGED <<streams, alive, info, news, selected, guard, meta, now, bounds>>

\* The metadata of a stream that has gone meanwhile is of no interest.
set_metadata_target_node ==
  /\ wk.pc = "set"
  /\ meta' = meta \cup ({wk.stream} \cap alive)
  /\ wk' = [wk EXCEPT !.pc = IF wk.todo = {} THEN "idle" ELSE "all", !.stream = 0]
  /\ UNCHANGED <<streams, alive, info, news, selected, patched, pending, recent, guard, tasks,
                 now, bounds>>

clear_patched_streams(stop) ==
  /\ wk' = [wk EXCEPT !.pc = "clear", !.todo = patched, !.stop = stop]
  /\ patched' = {} /\ pending' = {}
  /\ recent' = [s \in Serials |-> Never]
  /\ UNCHANGED <<streams, alive, info, news, selected, guard, tasks, meta, now>>

\* reconnect_to_sink, once the new sink has its ports; stop, once the worker has ended.
Reconnect ==
  /\ wk.pc = "idle" /\ reconnects < lim.reconnects
  /\ reconnects' = reconnects + 1 /\ UNCHANGED <<retargets, lim>>
  /\ clear_patched_streams(FALSE)

\* Mutant: the streams are left where they are.
Stop_Leave ==
  /\ wk.pc = "idle"
  /\ wk' = [wk EXCEPT !.pc = "stopped", !.stop = TRUE]
  /\ UNCHANGED <<streams, alive, info, news, selected, patched, pending, recent, guard, tasks,
                 meta, now, bounds>>

Stop ==
  /\ wk.pc = "idle"
  /\ clear_patched_streams(TRUE)
  /\ UNCHANGED bounds

\* One after the other the streams that still exist lose their metadata target.
clear_metadata_target_node(s) ==
  /\ wk.pc = "clear" /\ s \in wk.todo
  /\ meta' = meta \ {s}
  /\ wk' = [wk EXCEPT !.todo = @ \ {s}]
  /\ UNCHANGED <<streams, alive, info, news, selected, patched, pending, recent, guard, tasks,
                 now, bounds>>

ClearDone ==
  /\ wk.pc = "clear" /\ wk.todo = {}
  /\ wk' = [wk EXCEPT !.pc = IF wk.stop THEN "stopped" ELSE "relink"]
  /\ UNCHANGED <<streams, alive, info, news, selected, patched, pending, recent, guard, tasks,
                 meta, now, bounds>>

\* The new sink is selected, and the chain is being linked to it.
Relink(sink) ==
  /\ wk.pc = "relink"
  /\ selected' = sink
  /\ wk' = [wk EXCEPT !.pc = "link", !.old = selected]
  /\ UNCHANGED <<streams, alive, info, news, patched, pending, recent, guard, tasks, meta, now,
                 bounds>>

\* The chain could not be linked: the old sink is selected again and linked,
RollBack ==
  /\ wk.pc = "link"
  /\ selected' = wk.old
  /\ wk' = [wk EXCEPT !.pc = "rollback"]
  /\ UNCHANGED <<streams, alive, info, news, patched, pending, recent, guard, tasks, meta, now,
                 bounds>>

\* which may fail as well.
RollbackFails ==
  /\ wk.pc = "rollback"
  /\ wk' = [wk EXCEPT !.pc = "idle", !.unlinked = TRUE]
  /\ UNCHANGED <<streams, alive, info, news, selected, patched, pending, recent, guard, tasks,
                 meta, now, bounds>>

\* Mutant: the streams are left to be found by their next node info.
LinkUp_NoPatch ==
  /\ wk.pc \in {"link", "rollback"}
  /\ wk' = [wk EXCEPT !.pc = "idle"]
  /\ UNCHANGED <<streams, alive, info, news, selected, patched, pending, recent, guard, tasks,
                 meta, now, bounds>>

\* The chain is up again; patch_existing_streams is next.
LinkUp ==
  /\ wk.pc \in {"link", "rollback"}
  /\ wk' = [wk EXCEPT !.pc = "list"]
  /\ UNCHANGED <<streams, alive, info, news, selected, patched, pending, recent, guard, tasks,
                 meta, now, bounds>>

\* patch_existing_streams: the matching streams are listed under the mutex,
ListStreams ==
  /\ wk.pc = "list"
  /\ LET todo == {s \in alive : stream_targets_selected_sink(s, selected)} IN
     wk' = [wk EXCEPT !.pc = IF todo = {} THEN "idle" ELSE "all", !.todo = todo]
  /\ UNCHANGED <<streams, alive, info, news, selected, patched, pending, recent, guard, tasks,
                 meta, now, bounds>>

\* and patched one after the other without it.
PatchListed(s) ==
  /\ wk.pc = "all" /\ s \in wk.todo
  /\ LET left == wk.todo \ {s} IN
     patch_stream(s, [wk EXCEPT !.pc = IF left = {} THEN "idle" ELSE "all", !.todo = left])
  /\ UNCHANGED <<streams, alive, info, news, selected, pending, guard, tasks, meta, now, bounds>>

-------------------------------------------------------------------------------
Worker ==
  \/ RunPatch \/ set_metadata_target_node \/ ClearDone \/ ListStreams
  \/ RollBack \/ RollbackFails \/ LinkUp
  \/ \E sink \in lim.sinks : Relink(sink)
  \/ \E s \in Serials : clear_metadata_target_node(s) \/ PatchListed(s)

Next ==
  \/ \E k \in Names, t \in lim.sinks \cup {Anywhere} : on_registry_global(k, t)
  \/ \E s \in alive, t \in lim.sinks \cup {Anywhere} : Retarget(s, t)
  \/ \E s \in Serials : on_node_info(s) \/ on_node_proxy_removed(s)
  \/ Tick
  \/ Worker
  \/ Reconnect
  \/ Stop

Spec == Init /\ [][Next]_vars

\* PipeWire's thread delivers node infos, and the worker runs what is due.
FairSpec == /\ Spec /\ WF_vars(Worker) /\ WF_vars(Tick)
            /\ WF_vars(\E s \in Serials : on_node_info(s))

-------------------------------------------------------------------------------
(* Properties *)

\* The router's record is right whenever the worker rests: exactly the streams in
\* patched_streams_ have been moved to the virtual sink, whatever was removed, requeued or
\* cleared meanwhile.  So nothing it moved is ever forgotten.
RecordIsRight == wk.pc = "idle" => meta = patched

\* When the session has stopped no stream is left pointing at the virtual sink.
StopRestoresStreams == wk.pc = "stopped" => meta = {}

\* While a name is suppressed no queued patch moves a stream of that name: the recreate
\* loop is really broken.  For applications with one stream at a time under a name.
SuppressionHolds ==
  [][lim.onePerName /\ wk.pc = "idle" /\ wk'.pc = "set" => ~Suppressed(NameOf(wk'.stream))]_vars

\* A stream that stays and matches the selected sink is moved to the virtual sink, unless
\* the session stops, the loop guard suppresses its name, or a reconnect and its rollback
\* have failed.
EventuallyPatched ==
  \A s \in Serials :
    (s \in alive /\ stream_targets_selected_sink(s, selected))
      ~> \/ s \in patched \/ s \notin alive \/ wk.stop
         \/ ~stream_targets_selected_sink(s, selected)
         \/ guard[NameOf(s)].until > 0 \/ wk.unlinked
===============================================================================

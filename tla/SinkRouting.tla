----------------------------- MODULE SinkRouting -----------------------------
(***************************************************************************)
(* Which sink a session's chain is linked to (PipeWireRouter in            *)
(* pipewire_router.cpp).  Three parties share selected_sink_ under         *)
(* state_mutex_: the thread in start, which polls until a sink is known    *)
(* and then links the chain to it; PipeWire's thread, whose callbacks      *)
(* report nodes and the default sink's name; and the session's worker,     *)
(* which runs reconnect_to_sink.  Each locks the mutex for one access at a *)
(* time, so they interleave between the accesses.                          *)
(*                                                                         *)
(* A node's id and serial are one number here, fresh for every node.       *)
(***************************************************************************)
EXTENDS Integers, Sequences

CONSTANTS
  Sinks,         \* names of audio sinks, the virtual sink not among them
  NoName,        \* the empty name
  MaxChanges,    \* bound on changes of the default sink
  MaxNodes       \* bound on sink nodes ever created

ASSUME RoutingAssumption ==
  NoName \notin Sinks /\ MaxChanges \in Nat /\ MaxNodes \in Nat

VARIABLES
  selector,  \* sink_selector_: a name, or NoName to follow the default sink
  default,   \* the default sink as the metadata has it, NoName if it has none
  changes,   \* changes of it so far
  events,    \* metadata events PipeWire's thread has still to deliver
  owner,     \* history: the name of every sink node ever created, by serial
  present,   \* serials of the nodes in bound_nodes_
  selected,  \* selected_sink_
  locked,    \* startup_sink_locked_
  pc,        \* the router: where start is, up, failed or stopped
  seen,      \* what wait_for_startup_sink read of selected_sink_ or bound_nodes_
  tasks,     \* reconnect tasks in scheduled_tasks_
  rc,        \* reconnect_to_sink: where it is, the new sink and the old one
  linked,    \* serial of the sink the chain is linked to, 0 if there is no chain
  calm       \* history: no sink has vanished, nothing has failed, and every change of the
             \* default sink was to a sink the router knew, after the last one was dealt with

vars == <<selector, default, changes, events, owner, present, selected, locked, pc, seen,
          tasks, rc, linked, calm>>

envVars == <<selector, default, changes, events, owner, present>>

NoSink == [name |-> NoName, serial |-> 0]
Node(n) == [name |-> owner[n], serial |-> n]

\* find_node_by_name: the nodes it may return.
find_node_by_name(name) == {n \in present : owner[n] = name}

SinkInfo == [name : Sinks \cup {NoName}, serial : Nat]

TypeOK ==
  /\ selector \in Sinks \cup {NoName}
  /\ default \in Sinks \cup {NoName} /\ changes \in 0..MaxChanges
  /\ events \in Seq(Sinks) /\ owner \in Seq(Sinks) /\ Len(owner) <= MaxNodes
  /\ present \subseteq DOMAIN owner
  /\ selected \in SinkInfo /\ locked \in BOOLEAN
  /\ pc \in {"wait", "found", "lock", "link", "up", "failed", "stopped"}
  /\ seen \in SinkInfo
  /\ tasks \in Seq(Sinks)
  /\ rc \in [pc : {"idle", "ports", "connect", "rollback"}, new : SinkInfo, old : SinkInfo]
  /\ linked \in Nat /\ calm \in BOOLEAN

\* The session starts when the metadata names a default sink or none; the router learns
\* of it, and of the nodes, from PipeWire's thread.
Init ==
  /\ selector \in Sinks \cup {NoName}
  /\ default \in Sinks \cup {NoName} /\ changes = 0
  /\ events = IF default = NoName THEN <<>> ELSE <<default>>
  /\ owner = <<>> /\ present = {}
  /\ selected = NoSink /\ locked = FALSE
  /\ pc = "wait" /\ seen = NoSink
  /\ tasks = <<>> /\ rc = [pc |-> "idle", new |-> NoSink, old |-> NoSink]
  /\ linked = 0 /\ calm = TRUE

-------------------------------------------------------------------------------
(* PipeWire and its thread *)

Running == pc \notin {"failed", "stopped"}
Settled == events = <<>> /\ tasks = <<>> /\ rc.pc = "idle" /\ pc = "up"

DefaultChanges(name) ==
  /\ changes < MaxChanges /\ name # default /\ Running
  /\ calm' = (calm /\ Settled /\ find_node_by_name(name) # {})
  /\ default' = name /\ changes' = changes + 1
  /\ events' = Append(events, name)
  /\ UNCHANGED <<selector, owner, present, selected, locked, pc, seen, tasks, rc, linked>>

\* A sink node is bound: its serial and name come with the global.
on_registry_global(name) ==
  /\ Len(owner) < MaxNodes /\ find_node_by_name(name) = {} /\ Running
  /\ owner' = Append(owner, name)
  /\ present' = present \cup {Len(owner) + 1}
  /\ UNCHANGED <<selector, default, changes, events, selected, locked, pc, seen, tasks, rc,
                 linked, calm>>

\* The part of on_node_info that concerns sinks.
on_node_info(n) ==
  /\ n \in present /\ Running
  /\ owner[n] = selected.name /\ selected.serial = 0
  /\ selected' = Node(n)
  /\ UNCHANGED <<envVars, locked, pc, seen, tasks, rc, linked, calm>>

on_node_proxy_removed(n) ==
  /\ n \in present /\ Running
  /\ present' = present \ {n} /\ calm' = FALSE
  /\ UNCHANGED <<selector, default, changes, events, owner, selected, locked, pc, seen, tasks,
                 rc, linked>>

\* Mutant: the selector is not looked at.
on_metadata_property_Any ==
  /\ events # <<>> /\ Running
  /\ events' = Tail(events)
  /\ LET name == Head(events) IN
     \/ name = selected.name /\ UNCHANGED <<selected, tasks>>
     \/ /\ name # selected.name /\ ~locked
        /\ selected' = [selected EXCEPT !.name = name] /\ UNCHANGED tasks
     \/ /\ name # selected.name /\ locked
        /\ tasks' = Append(tasks, name) /\ UNCHANGED selected
  /\ UNCHANGED <<selector, default, changes, owner, present, locked, pc, seen, rc, linked,
                 calm>>

\* Mutant: a change is only remembered, never followed.
on_metadata_property_Ignored ==
  /\ events # <<>> /\ Running
  /\ events' = Tail(events)
  /\ selected' = IF locked THEN selected ELSE [selected EXCEPT !.name = Head(events)]
  /\ UNCHANGED <<selector, default, changes, owner, present, locked, pc, seen, tasks, rc,
                 linked, calm>>

\* Before the startup sink is locked only the name is taken over; after, a reconnect is
\* scheduled unless a sink was selected by hand.
on_metadata_property ==
  /\ events # <<>> /\ Running
  /\ events' = Tail(events)
  /\ LET name == Head(events) IN
     \/ name = selected.name /\ UNCHANGED <<selected, tasks>>
     \/ /\ name # selected.name /\ ~locked
        /\ selected' = [selected EXCEPT !.name = name] /\ UNCHANGED tasks
     \/ /\ name # selected.name /\ locked
        /\ tasks' = IF selector = NoName THEN Append(tasks, name) ELSE tasks
        /\ UNCHANGED selected
  /\ UNCHANGED <<selector, default, changes, owner, present, locked, pc, seen, rc, linked,
                 calm>>

-------------------------------------------------------------------------------
(* start *)

\* wait_for_startup_sink with a selector: a matching node is found ...
FindSelector(n) ==
  /\ pc = "wait" /\ selector # NoName /\ n \in find_node_by_name(selector)
  /\ pc' = "found" /\ seen' = Node(n)
  /\ UNCHANGED <<envVars, selected, locked, tasks, rc, linked, calm>>

\* ... and without one, the default sink's name has a serial already,
FindDefault ==
  /\ pc = "wait" /\ selector = NoName
  /\ selected.name # NoName /\ selected.serial # 0
  /\ pc' = "lock"
  /\ UNCHANGED <<envVars, selected, locked, seen, tasks, rc, linked, calm>>

\* or is the name of a node.
FindByName(n) ==
  /\ pc = "wait" /\ selector = NoName
  /\ selected.name # NoName /\ selected.serial = 0 /\ n \in find_node_by_name(selected.name)
  /\ pc' = "found" /\ seen' = Node(n)
  /\ UNCHANGED <<envVars, selected, locked, tasks, rc, linked, calm>>

\* The polls are used up: without a selector the only real sink will do.
WaitTimesOut ==
  /\ pc = "wait"
  /\ \/ /\ selector = NoName
        /\ \E n \in present : present = {n} /\ seen' = Node(n)
        /\ pc' = "found"
     \/ /\ selector # NoName \/ \A n \in present : present # {n}
        /\ pc' = "failed" /\ UNCHANGED seen
  /\ UNCHANGED <<envVars, selected, locked, tasks, rc, linked, calm>>

\* The sink that was found is stored under the mutex,
StoreSink ==
  /\ pc = "found"
  /\ selected' = seen /\ pc' = "lock"
  /\ UNCHANGED <<envVars, locked, seen, tasks, rc, linked, calm>>

\* and startup_sink_locked_ set without it.
LockSink ==
  /\ pc = "lock"
  /\ locked' = TRUE /\ pc' = "link"
  /\ UNCHANGED <<envVars, selected, seen, tasks, rc, linked, calm>>

\* The rest of start: virtual sink, filters and ports, then connect_chain and
\* wait_for_links_ready, which need the sink's node.
StartLinks ==
  /\ pc = "link" /\ selected.serial \in present
  /\ linked' = selected.serial /\ pc' = "up"
  /\ UNCHANGED <<envVars, selected, locked, seen, tasks, rc, calm>>

StartFails ==
  /\ pc = "link" /\ calm' = FALSE
  /\ pc' = "failed"
  /\ UNCHANGED <<envVars, selected, locked, seen, tasks, rc, linked>>

\* stop, after the worker has ended.
Stop ==
  /\ pc = "up" /\ rc.pc = "idle"
  /\ pc' = "stopped" /\ linked' = 0
  /\ UNCHANGED <<envVars, selected, locked, seen, tasks, rc, calm>>

-------------------------------------------------------------------------------
(* reconnect_to_sink, on the worker *)

RcIdle == rc' = [pc |-> "idle", new |-> NoSink, old |-> NoSink]

\* The new sink is looked up; a change to a sink that has no node is ignored.
RcTake ==
  /\ pc = "up" /\ rc.pc = "idle" /\ tasks # <<>>
  /\ tasks' = Tail(tasks)
  /\ \/ find_node_by_name(Head(tasks)) = {} /\ UNCHANGED rc
     \/ \E n \in find_node_by_name(Head(tasks)) :
          rc' = [pc |-> "ports", new |-> Node(n), old |-> NoSink]
  /\ UNCHANGED <<envVars, selected, locked, pc, seen, linked, calm>>

\* Its ports must be there before the old chain is touched.
RcNoPorts ==
  /\ rc.pc = "ports" /\ calm' = FALSE
  /\ RcIdle
  /\ UNCHANGED <<envVars, selected, locked, pc, seen, tasks, linked>>

\* The old chain is taken down and the new sink selected.
RcTearDown ==
  /\ rc.pc = "ports"
  /\ rc' = [rc EXCEPT !.pc = "connect", !.old = selected]
  /\ linked' = 0 /\ selected' = rc.new
  /\ UNCHANGED <<envVars, locked, pc, seen, tasks, calm>>

RcConnected ==
  /\ rc.pc = "connect" /\ rc.new.serial \in present
  /\ linked' = rc.new.serial /\ RcIdle
  /\ UNCHANGED <<envVars, selected, locked, pc, seen, tasks, calm>>

\* Mutant: the old sink is linked again but not selected again.
RcConnectFails_KeepsNew ==
  /\ rc.pc = "connect" /\ calm' = FALSE
  /\ rc' = [rc EXCEPT !.pc = "rollback"]
  /\ UNCHANGED <<envVars, selected, locked, pc, seen, tasks, linked>>

\* The chain could not be created or its links did not negotiate.
RcConnectFails ==
  /\ rc.pc = "connect" /\ calm' = FALSE
  /\ selected' = rc.old
  /\ rc' = [rc EXCEPT !.pc = "rollback"]
  /\ UNCHANGED <<envVars, locked, pc, seen, tasks, linked>>

\* Back to the old sink, or to no chain at all.
RcRollback ==
  /\ rc.pc = "rollback"
  /\ \/ rc.old.serial \in present /\ linked' = rc.old.serial
     \/ linked' = 0
  /\ RcIdle
  /\ UNCHANGED <<envVars, selected, locked, pc, seen, tasks, calm>>

-------------------------------------------------------------------------------
wait_for_startup_sink ==
  \/ FindDefault \/ StoreSink \/ LockSink \/ WaitTimesOut
  \/ \E n \in present : FindSelector(n) \/ FindByName(n)

reconnect_to_sink == RcTake \/ RcNoPorts \/ RcTearDown \/ RcConnected \/ RcConnectFails
                     \/ RcRollback

Callbacks == on_metadata_property \/ \E n \in present : on_node_info(n)

Next ==
  \/ \E name \in Sinks : DefaultChanges(name) \/ on_registry_global(name)
  \/ \E n \in present : on_node_proxy_removed(n)
  \/ Callbacks
  \/ wait_for_startup_sink
  \/ StartLinks \/ StartFails
  \/ Stop
  \/ reconnect_to_sink

Spec == Init /\ [][Next]_vars

\* PipeWire's thread delivers what happened, start goes on, the worker runs its tasks.
FairSpec == /\ Spec /\ WF_vars(Callbacks) /\ WF_vars(wait_for_startup_sink)
            /\ WF_vars(StartLinks \/ StartFails) /\ WF_vars(reconnect_to_sink)

-------------------------------------------------------------------------------
(* Properties *)

\* The sink the chain is linked to is the selected one, by serial, whenever no reconnect is
\* under way: also after a reconnect that failed and was rolled back, and however the
\* callbacks interleave with start.
ChainOnSelected == linked # 0 => linked = selected.serial

\* A sink chosen with --sink or switch-sink stays: no change of the default sink moves the
\* chain off it.
SelectorPinned == selector # NoName /\ linked # 0 => owner[linked] = selector

\* Once the startup sink is locked a real node is selected, and it stays one: never a name
\* without a serial, to which no chain could be linked.
LockedIsResolved == locked => selected.serial \in DOMAIN owner

\* Without a selector, with sinks that stay, links that work and default sink changes that
\* come one at a time once the session is up, the chain ends up on the default sink unless
\* the session stops first.
FollowsDefault ==
  (pc = "up" /\ selector = NoName /\ changes > 0)
    ~> (pc = "stopped" \/ ~calm \/ linked \in find_node_by_name(default))
===============================================================================

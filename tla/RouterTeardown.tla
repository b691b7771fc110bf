---------------------------- MODULE RouterTeardown ----------------------------
(***************************************************************************)
(* The life of a router's PipeWire objects (PipeWireRouter in              *)
(* pipewire_router.cpp): setup_core, list_sinks, the objects a session     *)
(* creates, the nodes PipeWire announces and removes, and stop.  The       *)
(* control thread makes the calls and runs the queued tasks; PipeWire's    *)
(* thread dispatches what the server sends, one callback at a time, while  *)
(* it holds the loop lock.  Callbacks take state_mutex_ inside, and the    *)
(* control thread waits for answers in pw_thread_loop_wait, which gives    *)
(* the loop lock up.                                                       *)
(*                                                                         *)
(* What the control thread does under the loop lock is one step, so that   *)
(* between steps only PipeWire's thread holds it: pw # "poll".             *)
(* state_mutex_ is PipeWire's thread's while pw = "body" and the control   *)
(* thread's while HoldsMutex.                                              *)
(***************************************************************************)
EXTENDS Integers, Sequences, FiniteSets, SequencesExt

CONSTANTS
  Nodes,      \* nodes of the PipeWire graph
  MaxObjects, \* bound on the links and the virtual sink of the router
  MaxEvents,  \* bound on what the server sends by itself
  MaxErrors   \* bound on core errors

None == "none"

ASSUME TeardownAssumption ==
  /\ IsFiniteSet(Nodes) /\ None \notin Nodes
  /\ MaxObjects \in Nat /\ MaxEvents \in Nat /\ MaxErrors \in Nat

VARIABLES
  ctl,       \* the control thread: idle, in a wait, or where in list_sinks or stop
  next,      \* where it goes on after the wait
  woken,     \* its wait has been signalled
  node,      \* the node stop is at
  todo,      \* nodes_snapshot, what is left of it
  pw,        \* PipeWire's thread: poll, call (a callback has begun), body (it goes on
             \* under state_mutex_)
  event,     \* what it dispatches
  wire,      \* what the server has sent, in order
  server,    \* each node there: absent, first (before the router), later or gone
  data,      \* the NodeData of each node
  bound,     \* bound_nodes_
  tasks,     \* nodes whose proxy a queued task is to destroy
  objects,   \* created_links_ and virtual_sink_proxy_, counted
  metadata, registry, core,  \* the pointers are not null
  shutting_down,
  lost,      \* the server is gone
  events, errors

vars == <<ctl, next, woken, node, todo, pw, event, wire, server, data, bound, tasks, objects,
          metadata, registry, core, shutting_down, lost, events, errors>>

ptrVars == <<objects, metadata, registry, core>>
nodeVars == <<node, todo, data, bound, tasks>>
pwVars == <<pw, event>>
srvVars == <<server, lost, events, errors>>

Kinds == {"global", "metadata", "info", "removed", "done", "error"}
Event(kind, n) == [kind |-> kind, node |-> n]
CoreKinds == {"done", "error"}

\* Where the control thread may be inside stop.
Stopping == {"clear", "objects", "take", "nodes", "claim", "check", "free", "destroy", "metadata",
             "registry", "disconnect", "loop"}

TypeOK ==
  /\ {ctl, next} \subseteq {"new", "idle", "wait", "list", "list2", "snapshot", "stopped"}
                            \cup Stopping
  /\ woken \in BOOLEAN /\ (woken => ctl = "wait")
  /\ node \in Nodes \cup {None} /\ todo \subseteq Nodes
  /\ pw \in {"poll", "call", "body"} /\ event \in [kind : Kinds, node : Nodes \cup {None}]
  /\ wire \in Seq([kind : Kinds, node : Nodes \cup {None}])
  /\ server \in [Nodes -> {"absent", "first", "later", "gone"}]
  /\ data \in [Nodes -> [mem : {"none", "live", "freed"}, removed : BOOLEAN,
                         info : {"none", "set", "freed"}, listening : BOOLEAN]]
  /\ bound \subseteq Nodes /\ tasks \subseteq Nodes /\ objects \in 0..MaxObjects
  /\ {metadata, registry, core, shutting_down, lost} \subseteq BOOLEAN
  /\ events \in 0..MaxEvents /\ errors \in 0..MaxErrors

Init ==
  /\ ctl = "new" /\ next = "idle" /\ woken = FALSE
  /\ node = None /\ todo = {} /\ pw = "poll" /\ event = Event("done", None) /\ wire = <<>>
  /\ server \in [Nodes -> {"absent", "first"}]
  /\ data = [n \in Nodes |-> [mem |-> "none", removed |-> FALSE, info |-> "none",
                              listening |-> FALSE]]
  /\ bound = {} /\ tasks = {} /\ objects = 0
  /\ metadata = FALSE /\ registry = FALSE /\ core = FALSE
  /\ shutting_down = FALSE /\ lost = FALSE /\ events = 0 /\ errors = 0

LoopFree == pw = "poll"

\* Mutant: the node is destroyed inside the critical section that claims it.
HoldsMutex_WhileDestroying == ctl \in {"check", "free", "destroy"}

HoldsMutex == ctl = "check"

Live(n) == data[n].mem = "live"

-------------------------------------------------------------------------------
(* The server *)

Sends(e) == core /\ ~lost /\ wire' = Append(wire, e)

\* A server that is still there answers a sync after everything it has sent before.
Answered == IF lost THEN wire ELSE Append(wire, Event("done", None))

ServerEvent ==
  /\ events < MaxEvents /\ events' = events + 1
  /\ UNCHANGED <<ctl, next, woken, nodeVars, pwVars, ptrVars, shutting_down, lost, errors>>

Appear(n) ==
  /\ server[n] = "absent" /\ server' = [server EXCEPT ![n] = "later"]
  /\ Sends(Event("global", n)) /\ ServerEvent

Vanish(n) ==
  /\ server[n] \in {"first", "later"} /\ server' = [server EXCEPT ![n] = "gone"]
  /\ Sends(Event("removed", n)) /\ ServerEvent

NodeInfo(n) ==
  /\ server[n] \in {"first", "later"} /\ UNCHANGED server
  /\ Sends(Event("info", n)) /\ ServerEvent

\* A core error need not be the end; when the connection is lost an error is the last event.
CoreError(fatal) ==
  /\ errors < MaxErrors /\ errors' = errors + 1
  /\ lost' = fatal
  /\ Sends(Event("error", None))
  /\ UNCHANGED <<ctl, next, woken, nodeVars, pwVars, ptrVars, shutting_down, server, events>>

Server == \/ \E n \in Nodes : Appear(n) \/ Vanish(n) \/ NodeInfo(n)
          \/ \E fatal \in BOOLEAN : CoreError(fatal)

-------------------------------------------------------------------------------
(* PipeWire's thread *)

\* Whether libpipewire still has a listener for an event: proxies that were destroyed have
\* none, and on_node_proxy_removed takes the object listener of its node off.
Deliverable(e) ==
  CASE e.kind \in CoreKinds -> core
    [] e.kind \in {"global", "metadata"} -> registry
    [] e.kind = "info" -> Live(e.node) /\ data[e.node].listening
    [] e.kind = "removed" -> Live(e.node)

Dispatch ==
  /\ LoopFree /\ core /\ wire # <<>>
  /\ event' = Head(wire) /\ wire' = Tail(wire)
  /\ pw' = IF Deliverable(Head(wire)) THEN "call" ELSE "poll"
  /\ UNCHANGED <<ctl, next, woken, nodeVars, ptrVars, shutting_down, srvVars>>

\* Mutant: a signal is kept for the next wait.
CoreEvent_Kept ==
  /\ pw = "call" /\ event.kind \in CoreKinds
  /\ woken' = TRUE
  /\ pw' = "poll"
  /\ UNCHANGED <<ctl, next, nodeVars, event, wire, ptrVars, shutting_down, srvVars>>

\* on_core_done and on_core_error: a signal is for whoever waits, and otherwise lost.
CoreEvent ==
  /\ pw = "call" /\ event.kind \in CoreKinds
  /\ woken' = (ctl = "wait")
  /\ pw' = "poll"
  /\ UNCHANGED <<ctl, next, nodeVars, event, wire, ptrVars, shutting_down, srvVars>>

\* The early returns of the node callbacks, under state_mutex_.
Ignored(n) ==
  CASE event.kind = "info" -> shutting_down \/ data[n].removed \/ data[n].info # "set"
    [] event.kind = "removed" -> data[n].removed
    [] OTHER -> FALSE

\* The callback gets state_mutex_.
Enter ==
  /\ pw = "call" /\ event.kind \notin CoreKinds /\ ~HoldsMutex
  /\ pw' = IF event.node # None /\ Ignored(event.node) THEN "poll" ELSE "body"
  /\ UNCHANGED <<ctl, next, woken, nodeVars, event, wire, ptrVars, shutting_down, srvVars>>

\* A global is bound whether or not the router is shutting down.
on_registry_global(n) ==
  /\ pw = "body" /\ event = Event("global", n)
  /\ data' = [data EXCEPT ![n] = [mem |-> "live", removed |-> FALSE, info |-> "set",
                                  listening |-> TRUE]]
  /\ bound' = bound \cup {n} /\ pw' = "poll"
  /\ UNCHANGED <<ctl, next, woken, node, todo, tasks, event, wire, ptrVars, shutting_down, srvVars>>

BindMetadata ==
  /\ pw = "body" /\ event.kind = "metadata"
  /\ metadata' = TRUE /\ pw' = "poll"
  /\ UNCHANGED <<ctl, next, woken, nodeVars, event, wire, objects, registry, core, shutting_down,
                 srvVars>>

\* What it does with the node's description is SinkRouting's and StreamPatching's.
on_node_info(n) ==
  /\ pw = "body" /\ event = Event("info", n)
  /\ pw' = "poll"
  /\ UNCHANGED <<ctl, next, woken, nodeVars, event, wire, ptrVars, shutting_down, srvVars>>

on_node_proxy_removed(n) ==
  /\ pw = "body" /\ event = Event("removed", n)
  /\ data' = [data EXCEPT ![n].removed = TRUE, ![n].info = "freed", ![n].listening = FALSE]
  /\ bound' = bound \ {n} /\ tasks' = tasks \cup {n} /\ pw' = "poll"
  /\ UNCHANGED <<ctl, next, woken, node, todo, event, wire, ptrVars, shutting_down, srvVars>>

PwThread ==
  \/ Dispatch \/ CoreEvent \/ Enter \/ BindMetadata
  \/ \E n \in Nodes : on_registry_global(n) \/ on_node_info(n) \/ on_node_proxy_removed(n)

-------------------------------------------------------------------------------
(* The control thread *)

Goto(c) == ctl' = c /\ UNCHANGED <<next, wire>>

\* pw_core_sync and pw_thread_loop_wait, under the loop lock until the wait gives it up.
SyncAndWait(then) ==
  /\ LoopFree
  /\ ctl' = "wait" /\ next' = then /\ wire' = Answered

\* Mutant: the wait ends after a while in any case.
Wake_Timed ==
  /\ ctl = "wait" /\ LoopFree
  /\ ctl' = next /\ woken' = FALSE
  /\ UNCHANGED <<next, wire, nodeVars, pwVars, ptrVars, shutting_down, srvVars>>

Wake ==
  /\ ctl = "wait" /\ woken /\ LoopFree
  /\ ctl' = next /\ woken' = FALSE
  /\ UNCHANGED <<next, wire, nodeVars, pwVars, ptrVars, shutting_down, srvVars>>

\* The server lists its metadata and nodes to a new registry, then answers the sync.
setup_core(then) ==
  /\ ctl = "new"
  /\ core' = TRUE /\ registry' = TRUE
  /\ ctl' = "wait" /\ next' = then
  /\ LET first == SetToSeq({n \in Nodes : server[n] = "first"}) IN
     wire' = <<Event("metadata", None)>> \o [i \in DOMAIN first |-> Event("global", first[i])]
             \o <<Event("done", None)>>
  /\ UNCHANGED <<woken, nodeVars, pwVars, objects, metadata, shutting_down, srvVars>>

\* No loop, no context or no core; or a core without a registry.
SetupFails ==
  /\ ctl = "new"
  /\ core' \in BOOLEAN /\ shutting_down' = TRUE /\ Goto("clear")
  /\ UNCHANGED <<woken, nodeVars, pwVars, objects, metadata, registry, srvVars>>

\* list_sinks waits for two more answers before it reads the nodes, and stops.
list_sinks ==
  /\ ctl \in {"list", "list2"}
  /\ SyncAndWait(IF ctl = "list" THEN "list2" ELSE "snapshot")
  /\ UNCHANGED <<woken, nodeVars, pwVars, ptrVars, shutting_down, srvVars>>

\* create_virtual_sink, and link_nodes for each pair of ports.
CreateObject ==
  /\ ctl = "idle" /\ objects < MaxObjects
  /\ objects' = objects + 1 /\ SyncAndWait("idle")
  /\ UNCHANGED <<woken, nodeVars, pwVars, metadata, registry, core, shutting_down, srvVars>>

\* set_metadata_target_node and clear_metadata_target_node.
SetMetadata ==
  /\ ctl = "idle" /\ metadata /\ SyncAndWait("idle")
  /\ UNCHANGED <<woken, nodeVars, pwVars, ptrVars, shutting_down, srvVars>>

\* The task queued by on_node_proxy_removed.
DestroyRemoved(n) ==
  /\ ctl = "idle" /\ n \in tasks
  /\ data' = [data EXCEPT ![n].mem = "freed"] /\ tasks' = tasks \ {n}
  /\ SyncAndWait("idle")
  /\ UNCHANGED <<woken, node, todo, bound, pwVars, ptrVars, shutting_down, srvVars>>

\* stop is called when a session ends or could not start, and by list_sinks.  Tasks that
\* are still queued are not run any more.
Stop ==
  /\ ctl \in {"idle", "snapshot"} /\ ~shutting_down
  /\ shutting_down' = TRUE /\ Goto("clear")
  /\ UNCHANGED <<woken, nodeVars, pwVars, ptrVars, srvVars>>

\* clear_patched_streams waits once for each stream there is.
ClearStreams ==
  /\ ctl = "clear"
  /\ \/ Goto("objects")
     \/ metadata /\ SyncAndWait("objects")
  /\ UNCHANGED <<woken, nodeVars, pwVars, ptrVars, shutting_down, srvVars>>

\* destroy_links, the filters, which need the loop lock and no answer, and the virtual sink.
DestroyObjects ==
  /\ ctl = "objects" /\ LoopFree
  /\ IF objects > 0 THEN objects' = objects - 1 /\ SyncAndWait("objects")
     ELSE Goto("take") /\ UNCHANGED objects
  /\ UNCHANGED <<woken, nodeVars, pwVars, metadata, registry, core, shutting_down, srvVars>>

TakeNodes ==
  /\ ctl = "take" /\ pw # "body"
  /\ todo' = bound /\ bound' = {} /\ Goto("nodes")
  /\ UNCHANGED <<woken, node, data, tasks, pwVars, ptrVars, shutting_down, srvVars>>

NextNode ==
  /\ ctl = "nodes"
  /\ IF todo = {} THEN Goto("metadata") /\ node' = None /\ UNCHANGED todo
     ELSE \E n \in todo : node' = n /\ todo' = todo \ {n} /\ Goto("claim")
  /\ UNCHANGED <<woken, data, bound, tasks, pwVars, ptrVars, shutting_down, srvVars>>

LockToClaim ==
  /\ ctl = "claim" /\ pw # "body" /\ Goto("check")
  /\ UNCHANGED <<woken, nodeVars, pwVars, ptrVars, shutting_down, srvVars>>

\* Mutant: a node that was removed meanwhile ends the loop.
Claim_Break ==
  /\ ctl = "check"
  /\ IF data[node].removed THEN Goto("metadata") /\ UNCHANGED data
     ELSE Goto("free") /\ data' = [data EXCEPT ![node].removed = TRUE]
  /\ UNCHANGED <<woken, node, todo, bound, tasks, pwVars, ptrVars, shutting_down, srvVars>>

\* NodeData.removed says who cleans the node up.
Claim ==
  /\ ctl = "check"
  /\ IF data[node].removed THEN Goto("nodes") /\ UNCHANGED data
     ELSE Goto("free") /\ data' = [data EXCEPT ![node].removed = TRUE]
  /\ UNCHANGED <<woken, node, todo, bound, tasks, pwVars, ptrVars, shutting_down, srvVars>>

\* Without any lock.
free_node_info ==
  /\ ctl = "free" /\ Goto("destroy")
  /\ data' = [data EXCEPT ![node].info = "freed"]
  /\ UNCHANGED <<woken, node, todo, bound, tasks, pwVars, ptrVars, shutting_down, srvVars>>

\* Mutant: the proxy is destroyed without the loop lock, which only the sync takes.
destroy_proxy_sync_Unlocked ==
  /\ ctl = "destroy"
  /\ data' = [data EXCEPT ![node].mem = "freed"]
  /\ ctl' = "wait" /\ next' = "nodes" /\ wire' = Answered
  /\ UNCHANGED <<woken, node, todo, bound, tasks, pwVars, ptrVars, shutting_down, srvVars>>

destroy_proxy_sync ==
  /\ ctl = "destroy"
  /\ data' = [data EXCEPT ![node].mem = "freed"]
  /\ SyncAndWait("nodes")
  /\ UNCHANGED <<woken, node, todo, bound, tasks, pwVars, ptrVars, shutting_down, srvVars>>

DestroyMetadata ==
  /\ ctl = "metadata"
  /\ metadata' = FALSE
  /\ IF metadata THEN SyncAndWait("registry") ELSE Goto("registry")
  /\ UNCHANGED <<woken, nodeVars, pwVars, objects, registry, core, shutting_down, srvVars>>

DestroyRegistry ==
  /\ ctl = "registry"
  /\ registry' = FALSE
  /\ IF registry THEN SyncAndWait("disconnect") ELSE Goto("disconnect")
  /\ UNCHANGED <<woken, nodeVars, pwVars, objects, metadata, core, shutting_down, srvVars>>

\* pw_core_disconnect, without the loop lock, destroys the proxies that are left; it may
\* report them removed first, on this thread.
Disconnect ==
  /\ ctl = "disconnect"
  /\ ctl' = "loop" /\ core' = FALSE /\ wire' = <<>>
  /\ \E told \in BOOLEAN :
       data' = [n \in Nodes |->
                  IF ~Live(n) THEN data[n]
                  ELSE [data[n] EXCEPT !.mem = "freed",
                                       !.info = IF told THEN "freed" ELSE @]]
  /\ UNCHANGED <<next, woken, node, todo, bound, tasks, pwVars, objects, metadata, registry,
                 shutting_down, srvVars>>

\* pw_thread_loop_stop waits for PipeWire's thread.
StopLoop ==
  /\ ctl = "loop" /\ LoopFree /\ Goto("stopped")
  /\ UNCHANGED <<woken, nodeVars, pwVars, ptrVars, shutting_down, srvVars>>

stop == \/ ClearStreams \/ DestroyObjects \/ TakeNodes \/ NextNode \/ LockToClaim \/ Claim
        \/ free_node_info \/ destroy_proxy_sync \/ DestroyMetadata \/ DestroyRegistry
        \/ Disconnect \/ StopLoop

Control == \/ Wake \/ list_sinks \/ stop
           \/ ctl = "snapshot" /\ Stop
           \/ \E n \in Nodes : DestroyRemoved(n)

-------------------------------------------------------------------------------
Next == \/ \E then \in {"idle", "list"} : setup_core(then)
        \/ SetupFails \/ CreateObject \/ SetMetadata \/ Stop
        \/ Control
        \/ PwThread
        \/ Server

Spec == Init /\ [][Next]_vars

\* Both threads run.  Nothing is assumed of the server beyond its answers to syncs.
FairSpec == Spec /\ WF_vars(Control) /\ WF_vars(PwThread)

-------------------------------------------------------------------------------
(* Properties *)

\* NodeData.removed keeps stop and the callbacks apart.  Nobody uses a NodeData that was freed
\* with its proxy: not stop, which works on a list it took before, not a queued task, and not a
\* callback that is running, with one exception: pw_core_disconnect, which does not take the loop
\* lock, may free a node that was bound since stop took its list under that node's callback.
\* And stop, which frees a node's description without any lock, never does so while a callback
\* reads or frees it under state_mutex_.
NoUseAfterFree ==
  /\ ctl \in {"claim", "check", "free", "destroy"} => Live(node)
  /\ ~shutting_down => \A n \in tasks : Live(n)
  /\ pw # "poll" /\ event.kind \in {"info", "removed"} =>
       Live(event.node) \/ (ctl = "loop" /\ event.node \in bound)
  /\ ctl = "free" => data[node].info = "set" /\ ~(pw = "body" /\ event.node = node)

\* What stop leaves to the disconnect is only what it cannot know of: nodes bound since it
\* took the list, and removed nodes whose task is not going to run.  The description of no
\* other node is leaked, and the disconnect, which does not take the loop lock, can only run
\* into a callback of the core or of such a node.
StopCleansUp ==
  /\ ctl \in {"disconnect", "loop", "stopped"} =>
       \A n \in Nodes : /\ Live(n) => n \in bound \cup tasks
                        /\ data[n].info = "set" => n \in bound
  /\ ctl = "disconnect" /\ pw # "poll" => event.kind \in CoreKinds \/ event.node \in bound

\* When list_sinks reads the nodes, every node that was there before and still is has been
\* bound: the answers it waits for come after the registry's list.  A core error in between
\* wakes it early.
ListIsComplete ==
  ctl = "snapshot" /\ errors = 0 => \A n \in Nodes : server[n] = "first" => n \in bound

\* No call gets stuck, on an answer or on a lock, as long as the server is there.
CallsEnd == ctl \notin {"new", "idle"} ~> ctl \in {"idle", "stopped"} \/ lost
===============================================================================

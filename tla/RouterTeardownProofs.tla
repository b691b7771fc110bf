------------------------- MODULE RouterTeardownProofs -------------------------
(***************************************************************************)
(* The router's objects for any number of nodes, links, events and errors. *)
(* The invariant says where the control thread is (Places), who is to      *)
(* clean up each node (Owned), what PipeWire's thread may be delivering    *)
(* (Delivering) and what is under way to it: a node is announced and       *)
(* removed once (Once).                                                    *)
(***************************************************************************)
EXTENDS RouterTeardown, FiniteSetTheorems, TLAPS

\* Where the control thread is, or goes on after a wait.
At == IF ctl = "wait" THEN next ELSE ctl

Before == {"new", "idle", "list", "list2", "snapshot"}
WithNode == {"claim", "check", "free", "destroy"}
Ended == {"loop", "stopped"}

\* The control thread.
Places ==
  /\ At \in Before \cup Stopping \cup {"stopped"}
  /\ (ctl = "wait" => next \notin {"new"} \cup Ended \cup WithNode)
  /\ shutting_down <=> At \notin Before
  /\ At \notin {"nodes"} \cup WithNode => todo = {}
  /\ At \in WithNode => node \in Nodes
  /\ core => At \notin {"new"} \cup Ended
  /\ At \in Before \ {"new"} => core /\ registry
  /\ At \in {"new", "disconnect"} \cup Ended => ~registry
  /\ ctl = "check" => pw # "body"

\* Every node that is alive has one owner: the list of bound nodes, the list stop took, stop
\* itself or, when it was removed, the queued task.
Kept(n) ==
  /\ data[n].mem # "live" => n \notin bound \cup todo \cup tasks /\ data[n].info # "set"
  /\ n \in bound => ~data[n].removed /\ n \notin todo
  /\ n \in tasks => data[n].removed
  /\ Live(n) /\ ~data[n].removed => /\ data[n].info = "set"
                                    /\ \/ n \in bound \cup todo
                                       \/ At \in {"claim", "check"} /\ node = n
  /\ Live(n) /\ data[n].removed =>
       \/ n \in tasks /\ data[n].info = "freed" /\ ~data[n].listening
       \/ n \notin tasks /\ At \in {"free", "destroy"} /\ node = n
  /\ At \in WithNode /\ node = n => Live(n) /\ n \notin bound \cup todo
  /\ At \in {"free", "destroy"} /\ node = n =>
       data[n].removed /\ n \notin tasks /\ (At = "free" => data[n].info = "set")
                                         /\ (At = "destroy" => data[n].info = "freed")

Owned == At \notin Ended => \A n \in Nodes : Kept(n)

\* After the disconnect.
Rest == At \in Ended => \A n \in Nodes : ~Live(n) /\ (data[n].info = "set" => n \in bound)

\* The callback under way.
Delivering == pw # "poll" =>
  /\ event.kind \in {"global", "metadata"} => registry
  /\ event.kind \in CoreKinds => pw = "call"
  /\ event.kind \in {"global", "info", "removed"} => event.node \in Nodes
  /\ event.kind \notin {"global", "info", "removed"} => event.node = None
  /\ event.kind = "info" /\ At \notin Ended => Live(event.node) /\ data[event.node].listening
  /\ event.kind = "removed" /\ At \notin Ended => Live(event.node)
  /\ ctl \in {"free", "destroy"} /\ event.node = node => pw # "body"

On(s, e) == \E i \in DOMAIN s : s[i] = e
Delivered(e) == pw # "poll" /\ event = e
Pending(e) == On(wire, e) \/ Delivered(e)

\* Events that name a node and those that do not; announcements and removals occur once.
Shaped(s) ==
  \A i \in DOMAIN s : s[i].kind \in {"global", "info", "removed"} <=> s[i].node \in Nodes
Singles(s) ==
  \A i, j \in DOMAIN s : s[i].kind \in {"global", "removed"} /\ s[i] = s[j] => i = j

\* The story of a node: absent or first, announced, bound, gone, removed.
Story(n) ==
  /\ Pending(Event("global", n)) => data[n].mem = "none" /\ server[n] # "absent"
  /\ server[n] = "absent" => data[n].mem = "none"
  /\ Pending(Event("removed", n)) => server[n] = "gone" /\ n \notin tasks
  /\ n \in tasks => server[n] = "gone"

\* Before the router is set up.
Fresh == At = "new" =>
  /\ wire = <<>> /\ pw = "poll" /\ bound = {} /\ tasks = {}
  /\ \A n \in Nodes : data[n].mem = "none" /\ server[n] \in {"absent", "first"}

\* A node is announced once and removed once.
Once ==
  /\ Shaped(wire) /\ Singles(wire)
  /\ pw # "poll" /\ event.kind \in {"global", "removed"} => ~On(wire, event)
  /\ \A n \in Nodes : Story(n)
  /\ Fresh

\* A node that was there before the router is bound, or its announcement comes before any
\* answer the control thread could be waiting for.
Ahead(s, n) == \E i \in DOMAIN s : /\ s[i] = Event("global", n)
                                   /\ \A j \in 1..i : s[j].kind \notin CoreKinds
Coming(n) ==
  /\ ctl = "wait" /\ ~woken /\ (pw # "poll" => event.kind \notin CoreKinds)
  /\ Delivered(Event("global", n)) \/ Ahead(wire, n)

Complete == errors = 0 /\ At \in Before \ {"new"} =>
  \A n \in Nodes : server[n] = "first" => n \in bound \/ Coming(n)

IndInv == TypeOK /\ Places /\ Owned /\ Rest /\ Delivering /\ Once /\ Complete

-------------------------------------------------------------------------------
(* Sequences of events *)

Events == [kind : Kinds, node : Nodes \cup {None}]

LEMMA EventIs ==
  ASSUME NEW k \in Kinds, NEW n \in Nodes \cup {None}
  PROVE Event(k, n) \in Events /\ Event(k, n).kind = k /\ Event(k, n).node = n
BY DEF Event, Events

LEMMA AppendFacts ==
  ASSUME NEW s \in Seq(Events), NEW e \in Events
  PROVE /\ Append(s, e) \in Seq(Events) /\ Append(s, e)[Len(s) + 1] = e
        /\ DOMAIN Append(s, e) = DOMAIN s \cup {Len(s) + 1} /\ Len(s) + 1 \notin DOMAIN s
        /\ \A i \in DOMAIN s : Append(s, e)[i] = s[i] /\ i \in Nat
OBVIOUS

LEMMA TailFacts ==
  ASSUME NEW s \in Seq(Events), s # <<>>
  PROVE /\ Tail(s) \in Seq(Events) /\ Head(s) \in Events /\ Head(s) = s[1] /\ 1 \in DOMAIN s
        /\ \A i \in DOMAIN Tail(s) : /\ i \in Nat \ {0} /\ i + 1 \in DOMAIN s /\ i + 1 # 1
                                     /\ Tail(s)[i] = s[i + 1]
        /\ \A i \in DOMAIN s : i # 1 => i - 1 \in DOMAIN Tail(s) /\ Tail(s)[i - 1] = s[i]
OBVIOUS

LEMMA ConcatFacts ==
  ASSUME NEW s \in Seq(Events), NEW t \in Seq(Events)
  PROVE /\ s \o t \in Seq(Events) /\ Len(s \o t) = Len(s) + Len(t)
        /\ \A i \in 1..Len(s) : (s \o t)[i] = s[i]
        /\ \A i \in 1..Len(t) : (s \o t)[Len(s) + i] = t[i]
OBVIOUS

\* The server lists the nodes it has once each.
LEMMA ListedOnce ==
  ASSUME NEW T \in SUBSET Nodes
  PROVE /\ SetToSeq(T) \in Seq(T)
        /\ \A n \in T : \E i \in DOMAIN SetToSeq(T) : SetToSeq(T)[i] = n
        /\ \A i, j \in DOMAIN SetToSeq(T) : SetToSeq(T)[i] = SetToSeq(T)[j] => i = j
<1> DEFINE c == Cardinality(T)
           f == SetToSeq(T)
<1>1. IsFiniteSet(T)
  BY FS_Subset, TeardownAssumption
<1>2. c \in Nat /\ ExistsBijection(1..c, T)
  BY <1>1, FS_CardinalityType
<1>3. \E g \in [1..c -> T] : IsInjective(g)
  BY <1>2 DEF ExistsBijection, Bijection, Injection
<1>4. f \in [1..c -> T] /\ IsInjective(f)
  BY <1>3 DEF SetToSeq
<1>5. Cardinality(1..c) = c
  <2>1. 0 \in Int /\ c \in Int /\ 1 \in Int
    BY <1>2
  <2> QED BY <1>2, <2>1, FS_Interval
<1>6. f \in Surjection(1..c, T)
  <2>1. f \in Injection(1..c, T)
    BY <1>4 DEF Injection
  <2> QED BY <1>1, <1>5, <2>1, FS_Injection
<1>7. f \in Seq(T) /\ DOMAIN f = 1..c
  BY <1>2, <1>4
<1> QED BY <1>4, <1>6, <1>7 DEF Surjection, IsInjective

\* What setup_core finds on the wire.
Listing(T) == <<Event("metadata", None)>>
              \o [i \in DOMAIN SetToSeq(T) |-> Event("global", SetToSeq(T)[i])]
              \o <<Event("done", None)>>

LEMMA ListingFacts ==
  ASSUME NEW T \in SUBSET Nodes
  PROVE LET k == Len(SetToSeq(T)) w == Listing(T) IN
        /\ k \in Nat /\ w \in Seq(Events) /\ DOMAIN w = 1..(k + 2)
        /\ w[1] = Event("metadata", None) /\ w[k + 2] = Event("done", None)
        /\ \A i \in 2..(k + 1) : /\ i - 1 \in DOMAIN SetToSeq(T)
                                 /\ w[i] = Event("global", SetToSeq(T)[i - 1])
        /\ \A i \in DOMAIN SetToSeq(T) : i + 1 \in 2..(k + 1)
<1> DEFINE f == SetToSeq(T)
           g == [i \in DOMAIN f |-> Event("global", f[i])]
           a == <<Event("metadata", None)>>
           b == <<Event("done", None)>>
<1>1. f \in Seq(T) /\ Len(f) \in Nat /\ DOMAIN f = 1..Len(f)
  BY ListedOnce
<1>2. \A i \in DOMAIN f : Event("global", f[i]) \in Events
  BY <1>1, EventIs DEF Kinds
<1>3. Event("metadata", None) \in Events /\ Event("done", None) \in Events
  BY EventIs DEF Kinds
<1> HIDE DEF f
<1>4. g \in Seq(Events) /\ Len(g) = Len(f) /\ \A i \in DOMAIN f : g[i] = Event("global", f[i])
  BY <1>1, <1>2
<1>5. a \in Seq(Events) /\ Len(a) = 1 /\ a[1] = Event("metadata", None)
  BY <1>3
<1>6. b \in Seq(Events) /\ Len(b) = 1 /\ b[1] = Event("done", None)
  BY <1>3
<1> HIDE DEF a, b, g
<1>7. /\ a \o g \in Seq(Events) /\ Len(a \o g) = Len(f) + 1 /\ (a \o g)[1] = a[1]
      /\ \A i \in 2..(Len(f) + 1) : (a \o g)[i] = g[i - 1]
  <2>1. /\ a \o g \in Seq(Events) /\ Len(a \o g) = Len(a) + Len(g)
        /\ \A i \in 1..Len(a) : (a \o g)[i] = a[i]
        /\ \A i \in 1..Len(g) : (a \o g)[Len(a) + i] = g[i]
    BY <1>4, <1>5, ConcatFacts
  <2>2. ASSUME NEW i \in 2..(Len(f) + 1) PROVE (a \o g)[i] = g[i - 1]
    <3>1. i - 1 \in 1..Len(g) /\ 1 + (i - 1) = i
      BY <1>1, <1>4
    <3> QED BY <2>1, <3>1, <1>5
  <2> QED BY <1>1, <1>4, <1>5, <2>1, <2>2
<1>8. Listing(T) = (a \o g) \o b
  BY DEF Listing, a, b, g, f
<1>9. /\ Listing(T) \in Seq(Events) /\ DOMAIN Listing(T) = 1..(Len(f) + 2)
      /\ Listing(T)[1] = a[1] /\ Listing(T)[Len(f) + 2] = b[1]
      /\ \A i \in 2..(Len(f) + 1) : Listing(T)[i] = g[i - 1]
  <2> DEFINE h == a \o g
  <2>1. h \in Seq(Events) /\ Len(h) = Len(f) + 1 /\ h[1] = a[1]
    BY <1>7
  <2>2. \A i \in 2..(Len(f) + 1) : h[i] = g[i - 1]
    BY <1>7
  <2> HIDE DEF h
  <2>3. /\ h \o b \in Seq(Events) /\ Len(h \o b) = Len(f) + 2
        /\ \A i \in 1..(Len(f) + 1) : (h \o b)[i] = h[i]
        /\ (h \o b)[Len(f) + 2] = b[1]
    <3>1. /\ h \o b \in Seq(Events) /\ Len(h \o b) = Len(h) + Len(b)
          /\ \A i \in 1..Len(h) : (h \o b)[i] = h[i]
          /\ \A i \in 1..Len(b) : (h \o b)[Len(h) + i] = b[i]
      BY <1>6, <2>1, ConcatFacts
    <3>2. 1 \in 1..Len(b) /\ Len(h) + 1 = Len(f) + 2 /\ Len(h) + Len(b) = Len(f) + 2
      BY <1>1, <1>6, <2>1
    <3>3. (h \o b)[Len(h) + 1] = b[1]
      BY <3>1, <3>2
    <3> QED BY <2>1, <3>1, <3>2, <3>3
  <2>4. DOMAIN (h \o b) = 1..(Len(f) + 2)
    BY <2>3
  <2>5. 1 \in 1..(Len(f) + 1) /\ \A i \in 2..(Len(f) + 1) : i \in 1..(Len(f) + 1)
    BY <1>1
  <2>6. Listing(T) = h \o b
    BY <1>8 DEF h
  <2> QED BY <2>1, <2>2, <2>3, <2>4, <2>5, <2>6
<1>10. \A i \in 2..(Len(f) + 1) : i - 1 \in DOMAIN f
  BY <1>1
<1>11. \A i \in DOMAIN f : i + 1 \in 2..(Len(f) + 1)
  BY <1>1
<1> QED BY <1>1, <1>4, <1>5, <1>6, <1>9, <1>10, <1>11 DEF f

-------------------------------------------------------------------------------
(* Types *)

Data == [mem : {"none", "live", "freed"}, removed : BOOLEAN, info : {"none", "set", "freed"},
         listening : BOOLEAN]
Spots == Before \cup Stopping \cup {"wait", "stopped"}

\* What the steps do to a node's data.
Bound(n) == [data EXCEPT ![n] = [mem |-> "live", removed |-> FALSE, info |-> "set",
                                 listening |-> TRUE]]
Removed(n) == [data EXCEPT ![n].removed = TRUE, ![n].info = "freed", ![n].listening = FALSE]
Claimed(n) == [data EXCEPT ![n].removed = TRUE]
Cleared(n) == [data EXCEPT ![n].info = "freed"]
Destroyed(n) == [data EXCEPT ![n].mem = "freed"]
Cut(told) == [n \in Nodes |->
                IF ~Live(n) THEN data[n]
                ELSE [data[n] EXCEPT !.mem = "freed", !.info = IF told THEN "freed" ELSE @]]

LEMMA DataTypes ==
  ASSUME data \in [Nodes -> Data], NEW n
  PROVE /\ Bound(n) \in [Nodes -> Data] /\ Removed(n) \in [Nodes -> Data]
        /\ Claimed(n) \in [Nodes -> Data] /\ Cleared(n) \in [Nodes -> Data]
        /\ Destroyed(n) \in [Nodes -> Data]
BY DEF Data, Bound, Removed, Claimed, Cleared, Destroyed

LEMMA BoundFacts ==
  ASSUME data \in [Nodes -> Data], NEW n \in Nodes, data' = Bound(n)
  PROVE /\ \A m \in Nodes : m # n => data'[m] = data[m]
        /\ data'[n].mem = "live" /\ data'[n].removed = FALSE
        /\ data'[n].info = "set" /\ data'[n].listening = TRUE
BY DEF Data, Bound

LEMMA RemovedFacts ==
  ASSUME data \in [Nodes -> Data], NEW n \in Nodes, data' = Removed(n)
  PROVE /\ \A m \in Nodes : m # n => data'[m] = data[m]
        /\ data'[n].mem = data[n].mem /\ data'[n].removed = TRUE
        /\ data'[n].info = "freed" /\ data'[n].listening = FALSE
BY DEF Data, Removed

LEMMA ClaimedFacts ==
  ASSUME data \in [Nodes -> Data], NEW n \in Nodes, data' = Claimed(n)
  PROVE /\ \A m \in Nodes : m # n => data'[m] = data[m]
        /\ data'[n].mem = data[n].mem /\ data'[n].removed = TRUE
        /\ data'[n].info = data[n].info /\ data'[n].listening = data[n].listening
BY DEF Data, Claimed

LEMMA ClearedFacts ==
  ASSUME data \in [Nodes -> Data], NEW n \in Nodes, data' = Cleared(n)
  PROVE /\ \A m \in Nodes : m # n => data'[m] = data[m]
        /\ data'[n].mem = data[n].mem /\ data'[n].removed = data[n].removed
        /\ data'[n].info = "freed" /\ data'[n].listening = data[n].listening
BY DEF Data, Cleared

LEMMA DestroyedFacts ==
  ASSUME data \in [Nodes -> Data], NEW n \in Nodes, data' = Destroyed(n)
  PROVE /\ \A m \in Nodes : m # n => data'[m] = data[m]
        /\ data'[n].mem = "freed" /\ data'[n].removed = data[n].removed
        /\ data'[n].info = data[n].info /\ data'[n].listening = data[n].listening
BY DEF Data, Destroyed

LEMMA CutFacts ==
  ASSUME data \in [Nodes -> Data], NEW told \in BOOLEAN
  PROVE /\ Cut(told) \in [Nodes -> Data]
        /\ \A n \in Nodes : /\ ~Live(n) => Cut(told)[n] = data[n]
                            /\ Live(n) => /\ Cut(told)[n].mem = "freed"
                                          /\ Cut(told)[n].info \in {data[n].info, "freed"}
<1>1. ASSUME NEW n \in Nodes
      PROVE /\ [data[n] EXCEPT !.mem = "freed", !.info = "freed"] \in Data
            /\ [data[n] EXCEPT !.mem = "freed", !.info = @] \in Data /\ data[n] \in Data
            /\ [data[n] EXCEPT !.mem = "freed", !.info = "freed"].mem = "freed"
            /\ [data[n] EXCEPT !.mem = "freed", !.info = @].mem = "freed"
            /\ [data[n] EXCEPT !.mem = "freed", !.info = "freed"].info = "freed"
            /\ [data[n] EXCEPT !.mem = "freed", !.info = @].info = data[n].info
  BY DEF Data
<1> QED BY <1>1 DEF Cut

Flags == /\ woken \in BOOLEAN /\ metadata \in BOOLEAN /\ registry \in BOOLEAN /\ core \in BOOLEAN
         /\ shutting_down \in BOOLEAN /\ lost \in BOOLEAN

Others ==
  /\ ctl \in Spots /\ next \in Spots
  /\ node \in Nodes \cup {None} /\ todo \subseteq Nodes
  /\ pw \in {"poll", "call", "body"} /\ event \in Events /\ wire \in Seq(Events)
  /\ server \in [Nodes -> {"absent", "first", "later", "gone"}]
  /\ data \in [Nodes -> Data]
  /\ bound \subseteq Nodes /\ tasks \subseteq Nodes /\ objects \in 0..MaxObjects
  /\ events \in 0..MaxEvents /\ errors \in 0..MaxErrors

Signalled == woken => ctl = "wait"

LEMMA Types == TypeOK <=> Flags /\ Others /\ Signalled
<1> USE DEF Before, Spots
<1>1. ASSUME Others, Flags, Signalled PROVE TypeOK
  <2>1. {metadata, registry, core, shutting_down, lost} \subseteq BOOLEAN /\ woken \in BOOLEAN
    BY <1>1, Zenon DEF Flags
  <2>2. {ctl, next} \subseteq {"new", "idle", "wait", "list", "list2", "snapshot", "stopped"}
                               \cup Stopping
    BY <1>1 DEF Others
  <2> QED BY <1>1, <2>1, <2>2 DEF TypeOK, Others, Signalled, Events, Data
<1>2. ASSUME TypeOK PROVE Flags /\ Signalled
  BY <1>2, Zenon DEF TypeOK, Flags, Signalled
<1>3. ASSUME TypeOK PROVE Others
  <2>1. ctl \in Spots /\ next \in Spots
    BY <1>3 DEF TypeOK
  <2> QED BY <1>3, <2>1 DEF TypeOK, Others, Events, Data
<1> QED BY <1>1, <1>2, <1>3

LEMMA FlagsStep == Flags /\ [Next]_vars => Flags'
<1> SUFFICES ASSUME Flags, [Next]_vars PROVE Flags'
  OBVIOUS
<1> USE DEF Flags, srvVars, ptrVars, nodeVars, pwVars
<1>1. CASE Server
  BY <1>1, Zenon DEF Server, Appear, Vanish, NodeInfo, CoreError, ServerEvent
<1>2. CASE PwThread
  BY <1>2, Zenon DEF PwThread, Dispatch, CoreEvent, Enter, BindMetadata, on_registry_global,
                     on_node_info, on_node_proxy_removed
<1>3. CASE stop
  BY <1>3, Zenon DEF stop, ClearStreams, DestroyObjects, TakeNodes, NextNode, LockToClaim, Claim,
                     free_node_info, destroy_proxy_sync, DestroyMetadata, DestroyRegistry,
                     Disconnect, StopLoop
<1>4. CASE Wake \/ list_sinks \/ Stop \/ SetupFails \/ CreateObject \/ SetMetadata
  BY <1>4, Zenon DEF Wake, list_sinks, Stop, SetupFails, CreateObject, SetMetadata
<1>5. CASE (\E n \in Nodes : DestroyRemoved(n)) \/ (\E then \in {"idle", "list"} : setup_core(then))
  BY <1>5, Zenon DEF DestroyRemoved, setup_core
<1>6. CASE UNCHANGED vars
  BY <1>6, Zenon DEF vars
<1> QED BY <1>1, <1>2, <1>3, <1>4, <1>5, <1>6 DEF Next, Control

LEMMA WireStep == Others /\ [Next]_vars => wire' \in Seq(Events)
<1> SUFFICES ASSUME Others, [Next]_vars PROVE wire' \in Seq(Events)
  OBVIOUS
<1>0. wire \in Seq(Events)
  BY DEF Others
<1>1. \A k \in Kinds, n \in Nodes \cup {None} : Append(wire, Event(k, n)) \in Seq(Events)
  BY <1>0, EventIs, AppendFacts
<1>2. Answered \in Seq(Events)
  BY <1>0, <1>1 DEF Answered, Kinds
<1>3. CASE Server
  BY <1>1, <1>3 DEF Server, Appear, Vanish, NodeInfo, CoreError, Sends, Kinds
<1>4. CASE Dispatch
  BY <1>0, <1>4, TailFacts DEF Dispatch
<1>5. CASE PwThread /\ ~Dispatch
  BY <1>0, <1>5 DEF PwThread, CoreEvent, Enter, BindMetadata, on_registry_global, on_node_info,
                    on_node_proxy_removed
<1>6. CASE stop
  <2>1. <<>> \in Seq(Events)
    OBVIOUS
  <2> QED BY <1>0, <1>2, <1>6, <2>1
       DEF stop, ClearStreams, DestroyObjects, TakeNodes, NextNode, LockToClaim, Claim,
           free_node_info, destroy_proxy_sync, DestroyMetadata, DestroyRegistry, Disconnect,
           StopLoop, Goto, SyncAndWait
<1>7. CASE Wake \/ list_sinks \/ Stop \/ SetupFails \/ CreateObject \/ SetMetadata
  BY <1>0, <1>2, <1>7 DEF Wake, list_sinks, Stop, SetupFails, CreateObject, SetMetadata, Goto,
                          SyncAndWait
<1>8. CASE \E n \in Nodes : DestroyRemoved(n)
  BY <1>2, <1>8 DEF DestroyRemoved, SyncAndWait
<1>9. CASE \E then \in {"idle", "list"} : setup_core(then)
  <2>1. wire' = Listing({n \in Nodes : server[n] = "first"})
    BY <1>9 DEF setup_core, Listing
  <2> QED BY <2>1, ListingFacts
<1>10. CASE UNCHANGED vars
  BY <1>0, <1>10 DEF vars
<1> QED BY <1>3, <1>4, <1>5, <1>6, <1>7, <1>8, <1>9, <1>10 DEF Next, Control

LEMMA OthersStep == Others /\ [Next]_vars => Others'
<1> SUFFICES ASSUME Others, [Next]_vars PROVE Others'
  OBVIOUS
<1>0. wire' \in Seq(Events)
  BY WireStep
<1>a. \A n : /\ Bound(n) \in [Nodes -> Data] /\ Removed(n) \in [Nodes -> Data]
             /\ Claimed(n) \in [Nodes -> Data] /\ Cleared(n) \in [Nodes -> Data]
             /\ Destroyed(n) \in [Nodes -> Data] /\ data \in [Nodes -> Data]
  <2>1. data \in [Nodes -> Data]
    BY DEF Others
  <2> QED BY <2>1, DataTypes, Zenon
<1> USE TeardownAssumption DEF Others, Before, Stopping, Spots, srvVars, ptrVars, nodeVars, pwVars
<1>1. CASE Server
  BY <1>0, <1>1 DEF Server, Appear, Vanish, NodeInfo, CoreError, ServerEvent
<1>2. CASE Dispatch
  <2>1. Head(wire) \in Events
    BY <1>2, TailFacts DEF Dispatch
  <2> QED BY <1>0, <1>2, <2>1 DEF Dispatch
<1>3. CASE CoreEvent \/ Enter \/ BindMetadata \/ \E n \in Nodes : on_node_info(n)
  BY <1>0, <1>3 DEF CoreEvent, Enter, BindMetadata, on_node_info
<1>4. CASE \E n \in Nodes : on_registry_global(n) \/ on_node_proxy_removed(n)
  <2>1. PICK n \in Nodes : on_registry_global(n) \/ on_node_proxy_removed(n)
    BY <1>4
  <2>2. data' \in [Nodes -> Data]
    <3>1. data' \in {Bound(n), Removed(n)}
      BY <2>1 DEF on_registry_global, on_node_proxy_removed, Bound, Removed
    <3> QED BY ONLY <3>1, <1>a
  <2> QED BY <1>0, <2>1, <2>2 DEF on_registry_global, on_node_proxy_removed
<1>5. CASE ClearStreams \/ DestroyObjects \/ TakeNodes \/ NextNode \/ LockToClaim
  BY <1>0, <1>5 DEF ClearStreams, DestroyObjects, TakeNodes, NextNode, LockToClaim, Goto,
                    SyncAndWait
<1>6. CASE Claim \/ free_node_info \/ destroy_proxy_sync
  <2>1. data' \in [Nodes -> Data]
    <3>1. data' \in {data, Claimed(node), Cleared(node), Destroyed(node)}
      BY <1>6 DEF Claim, free_node_info, destroy_proxy_sync, Claimed, Cleared, Destroyed
    <3> QED BY ONLY <3>1, <1>a
  <2> QED BY <1>0, <1>6, <2>1 DEF Claim, free_node_info, destroy_proxy_sync, Goto, SyncAndWait
<1>7. CASE Disconnect
  <2>1. \E told \in BOOLEAN : data' = Cut(told)
    BY <1>7 DEF Disconnect, Cut
  <2>2. data' \in [Nodes -> Data]
    BY <2>1, CutFacts
  <2> QED BY <1>0, <1>7, <2>2 DEF Disconnect
<1>8. CASE DestroyMetadata \/ DestroyRegistry \/ StopLoop
  BY <1>0, <1>8 DEF DestroyMetadata, DestroyRegistry, StopLoop, Goto, SyncAndWait
<1>9. CASE Wake \/ list_sinks \/ Stop \/ SetupFails \/ CreateObject \/ SetMetadata
  BY <1>0, <1>9 DEF Wake, list_sinks, Stop, SetupFails, CreateObject, SetMetadata, Goto,
                    SyncAndWait
<1>10. CASE \E n \in Nodes : DestroyRemoved(n)
  <2>1. data' \in [Nodes -> Data]
    <3>1. \E n \in Nodes : data' = Destroyed(n)
      BY <1>10 DEF DestroyRemoved, Destroyed
    <3> QED BY ONLY <3>1, <1>a
  <2> QED BY <1>0, <1>10, <2>1 DEF DestroyRemoved, SyncAndWait
<1>11. CASE \E then \in {"idle", "list"} : setup_core(then)
  BY <1>0, <1>11 DEF setup_core
<1>12. CASE UNCHANGED vars
  BY <1>12 DEF vars
<1> QED BY <1>1, <1>2, <1>3, <1>4, <1>5, <1>6, <1>7, <1>8, <1>9, <1>10, <1>11, <1>12
        DEF Next, Control, PwThread, stop

LEMMA SignalledStep == Signalled /\ [Next]_vars => Signalled'
<1> SUFFICES ASSUME Signalled, [Next]_vars PROVE Signalled'
  OBVIOUS
<1> USE DEF Signalled, srvVars, ptrVars, nodeVars, pwVars
<1>1. CASE Server
  BY <1>1 DEF Server, Appear, Vanish, NodeInfo, CoreError, ServerEvent
<1>2. CASE PwThread
  BY <1>2 DEF PwThread, Dispatch, CoreEvent, Enter, BindMetadata, on_registry_global,
              on_node_info, on_node_proxy_removed
<1>3. CASE stop
  BY <1>3 DEF stop, ClearStreams, DestroyObjects, TakeNodes, NextNode, LockToClaim, Claim,
              free_node_info, destroy_proxy_sync, DestroyMetadata, DestroyRegistry, Disconnect,
              StopLoop, Goto, SyncAndWait
<1>4. CASE Wake \/ list_sinks \/ Stop \/ SetupFails \/ CreateObject \/ SetMetadata
  BY <1>4 DEF Wake, list_sinks, Stop, SetupFails, CreateObject, SetMetadata, Goto, SyncAndWait
<1>5. CASE (\E n \in Nodes : DestroyRemoved(n)) \/ (\E then \in {"idle", "list"} : setup_core(then))
  BY <1>5 DEF DestroyRemoved, setup_core, SyncAndWait
<1>6. CASE UNCHANGED vars
  BY <1>6 DEF vars
<1> QED BY <1>1, <1>2, <1>3, <1>4, <1>5, <1>6 DEF Next, Control

-------------------------------------------------------------------------------
(* Where the control thread is *)

LEMMA PlacesStep == Others /\ Places /\ [Next]_vars => Places'
<1> SUFFICES ASSUME Others, Places, [Next]_vars PROVE Places'
  OBVIOUS
<1>t. todo \subseteq Nodes
  BY DEF Others
<1> USE DEF Places, At, Before, WithNode, Ended, Stopping, srvVars, ptrVars, nodeVars, pwVars
<1>1. CASE Server
  BY <1>1 DEF Server, Appear, Vanish, NodeInfo, CoreError, ServerEvent
<1>2. CASE PwThread
  <2>1. /\ UNCHANGED <<ctl, next, node, todo, registry, core, shutting_down>>
        /\ ctl = "check" => pw' # "body"
    BY <1>2 DEF PwThread, Dispatch, CoreEvent, Enter, BindMetadata, on_registry_global,
                on_node_info, on_node_proxy_removed, HoldsMutex
  <2> QED BY <2>1
<1>3. CASE ClearStreams \/ DestroyObjects \/ TakeNodes
  BY <1>3 DEF ClearStreams, DestroyObjects, TakeNodes, Goto, SyncAndWait
<1>4. CASE NextNode
  BY <1>t, <1>4 DEF NextNode, Goto
<1>5. CASE LockToClaim \/ Claim \/ free_node_info \/ destroy_proxy_sync
  BY <1>5 DEF LockToClaim, Claim, free_node_info, destroy_proxy_sync, Goto, SyncAndWait
<1>6. CASE DestroyMetadata \/ DestroyRegistry \/ Disconnect \/ StopLoop
  <2>1. CASE DestroyMetadata
    BY <2>1 DEF DestroyMetadata, Goto, SyncAndWait
  <2>2. CASE DestroyRegistry
    BY <2>2 DEF DestroyRegistry, Goto, SyncAndWait
  <2>3. CASE Disconnect
    BY <2>3 DEF Disconnect
  <2>4. CASE StopLoop
    BY <2>4 DEF StopLoop, Goto
  <2> QED BY <1>6, <2>1, <2>2, <2>3, <2>4
<1>7. CASE Wake \/ list_sinks \/ Stop \/ SetupFails \/ CreateObject \/ SetMetadata
  BY <1>7 DEF Wake, list_sinks, Stop, SetupFails, CreateObject, SetMetadata, Goto, SyncAndWait
<1>8. CASE \E n \in Nodes : DestroyRemoved(n)
  BY <1>8 DEF DestroyRemoved, SyncAndWait
<1>9. CASE \E then \in {"idle", "list"} : setup_core(then)
  BY <1>9 DEF setup_core
<1>10. CASE UNCHANGED vars
  BY <1>10 DEF vars
<1> QED BY <1>1, <1>2, <1>3, <1>4, <1>5, <1>6, <1>7, <1>8, <1>9, <1>10 DEF Next, Control, stop

-------------------------------------------------------------------------------
(* Who cleans a node up *)

\* Steps that leave the nodes alone.
NodesKept == UNCHANGED <<data, bound, tasks, todo, node>>

LEMMA KeepsNodes ==
  ASSUME Owned, Rest, NodesKept, At' = At \/ {At, At'} \cap (WithNode \cup Ended) = {}
  PROVE Owned' /\ Rest'
BY DEF Owned, Rest, NodesKept, Kept, Live, WithNode, Ended

LEMMA GlobalKeeps ==
  ASSUME Others, Places, Owned, Rest, Delivering, Once, NEW n \in Nodes, on_registry_global(n)
  PROVE Owned' /\ Rest'
<1>1. data' = Bound(n) /\ bound' = bound \cup {n} /\ UNCHANGED <<tasks, todo, node, ctl, next>>
  BY DEF on_registry_global, Bound
<1>2. data \in [Nodes -> Data]
  BY DEF Others
<1>3. /\ \A m \in Nodes : m # n => data'[m] = data[m]
      /\ data'[n].mem = "live" /\ data'[n].removed = FALSE /\ data'[n].info = "set"
  BY <1>1, <1>2, BoundFacts
<1>4. At' = At /\ At \notin Ended
  <2>1. event.kind = "global" /\ pw # "poll"
    BY DEF on_registry_global, Event
  <2>2. registry
    BY <2>1 DEF Delivering
  <2> QED BY <1>1, <2>2 DEF At, Places
<1>5. data[n].mem = "none"
  BY DEF Once, Story, Pending, Delivered, on_registry_global
<1> QED BY <1>1, <1>3, <1>4, <1>5 DEF Owned, Rest, Kept, Live, WithNode

LEMMA RemovedKeeps ==
  ASSUME Others, Places, Owned, Rest, Delivering, Once, NEW n \in Nodes, on_node_proxy_removed(n)
  PROVE Owned' /\ Rest'
<1>1. /\ data' = Removed(n) /\ bound' = bound \ {n} /\ tasks' = tasks \cup {n}
      /\ UNCHANGED <<todo, node, ctl, next>>
  BY DEF on_node_proxy_removed, Removed
<1>2. data \in [Nodes -> Data]
  BY DEF Others
<1>3. /\ \A m \in Nodes : m # n => data'[m] = data[m]
      /\ data'[n].mem = data[n].mem /\ data'[n].removed = TRUE /\ data'[n].info = "freed"
      /\ data'[n].listening = FALSE
  BY <1>1, <1>2, RemovedFacts
<1>4. At' = At /\ pw = "body" /\ event.kind = "removed" /\ event.node = n
  BY <1>1 DEF At, on_node_proxy_removed, Event
<1>5. n \notin tasks
  BY DEF Once, Story, Pending, Delivered, on_node_proxy_removed
<1>6. At \notin Ended => Live(n) /\ ~(At \in {"check", "free", "destroy"} /\ node = n)
  BY <1>4 DEF Delivering, Places, WithNode, At
<1> QED BY <1>1, <1>3, <1>4, <1>5, <1>6 DEF Owned, Rest, Kept, Live, WithNode

LEMMA DestroyRemovedKeeps ==
  ASSUME Others, Places, Owned, Rest, NEW n \in Nodes, DestroyRemoved(n)
  PROVE Owned' /\ Rest'
<1>1. /\ data' = Destroyed(n) /\ n \in tasks /\ tasks' = tasks \ {n} /\ ctl = "idle"
      /\ UNCHANGED <<bound, todo, node>> /\ At' = "idle" /\ At = "idle"
  BY DEF DestroyRemoved, Destroyed, SyncAndWait, At
<1>2. data \in [Nodes -> Data]
  BY DEF Others
<1>3. /\ \A m \in Nodes : m # n => data'[m] = data[m]
      /\ data'[n].mem = "freed" /\ data'[n].info = data[n].info
  BY <1>1, <1>2, DestroyedFacts
<1>4. todo = {}
  BY <1>1 DEF Places, WithNode
<1> QED BY <1>1, <1>3, <1>4 DEF Owned, Rest, Kept, Live, WithNode, Ended

LEMMA StopKeeps ==
  ASSUME Others, Places, Owned, Rest,
         TakeNodes \/ NextNode \/ LockToClaim \/ Claim \/ free_node_info \/ destroy_proxy_sync
  PROVE Owned' /\ Rest'
<1>0. data \in [Nodes -> Data] /\ todo \subseteq Nodes
  BY DEF Others
<1>1. CASE TakeNodes
  <2>1. /\ todo' = bound /\ bound' = {} /\ UNCHANGED <<data, node, tasks>>
        /\ At = "take" /\ At' = "nodes"
    BY <1>1 DEF TakeNodes, Goto, At
  <2>2. todo = {}
    BY <2>1 DEF Places, WithNode
  <2> QED BY <2>1, <2>2 DEF Owned, Rest, Kept, Live, WithNode, Ended
<1>2. CASE NextNode
  <2>1. CASE todo = {}
    <3>1. /\ UNCHANGED <<data, bound, tasks, todo>> /\ At = "nodes" /\ At' = "metadata"
      BY <1>2, <2>1 DEF NextNode, Goto, At
    <3> QED BY <3>1 DEF Owned, Rest, Kept, Live, WithNode, Ended
  <2>2. CASE todo # {}
    <3>1. PICK n \in todo : node' = n /\ todo' = todo \ {n} /\ Goto("claim")
      BY <1>2, <2>2 DEF NextNode
    <3>2. UNCHANGED <<data, bound, tasks>> /\ At = "nodes" /\ At' = "claim"
      BY <1>2, <3>1 DEF NextNode, Goto, At
    <3> QED BY <1>0, <3>1, <3>2 DEF Owned, Rest, Kept, Live, WithNode, Ended
  <2> QED BY <2>1, <2>2
<1>3. CASE LockToClaim
  <2>1. UNCHANGED <<data, bound, tasks, todo, node>> /\ At = "claim" /\ At' = "check"
    BY <1>3 DEF LockToClaim, nodeVars, Goto, At
  <2> QED BY <2>1 DEF Owned, Rest, Kept, Live, WithNode, Ended
<1>4. CASE Claim
  <2>0. At = "check" /\ node \in Nodes /\ UNCHANGED <<bound, tasks, todo, node>>
    BY <1>4 DEF Claim, Places, At, WithNode
  <2>1. CASE data[node].removed
    <3>1. data' = data /\ At' = "nodes"
      BY <1>4, <2>1 DEF Claim, Goto, At
    <3> QED BY <2>0, <2>1, <3>1 DEF Owned, Rest, Kept, Live, WithNode, Ended
  <2>2. CASE ~data[node].removed
    <3>1. data' = Claimed(node) /\ At' = "free"
      BY <1>4, <2>2 DEF Claim, Claimed, Goto, At
    <3>2. /\ \A m \in Nodes : m # node => data'[m] = data[m]
          /\ data'[node].mem = data[node].mem /\ data'[node].removed = TRUE
          /\ data'[node].info = data[node].info /\ data'[node].listening = data[node].listening
      BY <1>0, <2>0, <3>1, ClaimedFacts
    <3> QED BY <2>0, <2>2, <3>1, <3>2 DEF Owned, Rest, Kept, Live, WithNode, Ended
  <2> QED BY <2>1, <2>2
<1>5. CASE free_node_info
  <2>1. /\ At = "free" /\ node \in Nodes /\ UNCHANGED <<bound, tasks, todo, node>>
        /\ data' = Cleared(node) /\ At' = "destroy"
    BY <1>5 DEF free_node_info, Cleared, Places, Goto, At, WithNode
  <2>2. /\ \A m \in Nodes : m # node => data'[m] = data[m]
        /\ data'[node].mem = data[node].mem /\ data'[node].removed = data[node].removed
        /\ data'[node].info = "freed" /\ data'[node].listening = data[node].listening
    BY <1>0, <2>1, ClearedFacts
  <2> QED BY <2>1, <2>2 DEF Owned, Rest, Kept, Live, WithNode, Ended
<1>6. CASE destroy_proxy_sync
  <2>1. /\ At = "destroy" /\ node \in Nodes /\ UNCHANGED <<bound, tasks, todo, node>>
        /\ data' = Destroyed(node) /\ At' = "nodes"
    BY <1>6 DEF destroy_proxy_sync, Destroyed, Places, SyncAndWait, At, WithNode
  <2>2. /\ \A m \in Nodes : m # node => data'[m] = data[m]
        /\ data'[node].mem = "freed" /\ data'[node].info = data[node].info
    BY <1>0, <2>1, DestroyedFacts
  <2> QED BY <2>1, <2>2 DEF Owned, Rest, Kept, Live, WithNode, Ended
<1> QED BY <1>1, <1>2, <1>3, <1>4, <1>5, <1>6

LEMMA DisconnectKeeps ==
  ASSUME Others, Places, Owned, Rest, Disconnect
  PROVE Owned' /\ Rest'
<1>1. /\ At = "disconnect" /\ At' = "loop" /\ UNCHANGED <<bound, tasks, todo, node>>
      /\ \E told \in BOOLEAN : data' = Cut(told)
  BY DEF Disconnect, At, Cut
<1>2. data \in [Nodes -> Data]
  BY DEF Others
<1>3. \A n \in Nodes : /\ ~Live(n) => data'[n] = data[n]
                       /\ Live(n) => /\ data'[n].mem = "freed"
                                     /\ data'[n].info \in {data[n].info, "freed"}
  BY <1>1, <1>2, CutFacts
<1>4. todo = {} /\ \A n \in Nodes : Kept(n)
  BY <1>1 DEF Places, WithNode, Owned, Ended
<1>5. ASSUME NEW n \in Nodes
      PROVE ~Live(n)' /\ (data'[n].info = "set" => n \in bound')
  <2>0. At = "disconnect" /\ bound' = bound
    BY <1>1
  <2>1. CASE Live(n)
    <3>1. data'[n].mem = "freed" /\ data'[n].info \in {data[n].info, "freed"}
      BY <1>3, <2>1
    <3>2. data[n].info = "set" => n \in bound
      BY <1>4, <2>0, <2>1 DEF Kept
    <3> QED BY <2>0, <3>1, <3>2 DEF Live
  <2>2. CASE ~Live(n)
    BY <1>3, <1>4, <2>2 DEF Kept, Live
  <2> QED BY <2>1, <2>2
<1> QED BY <1>1, <1>5 DEF Owned, Rest, Ended

LEMMA OwnedStep ==
  ASSUME Others, Places, Owned, Rest, Delivering, Once, [Next]_vars
  PROVE Owned' /\ Rest'
<1> USE DEF srvVars, ptrVars, nodeVars, pwVars
<1>1. CASE \/ Server \/ Dispatch \/ CoreEvent \/ Enter \/ BindMetadata
           \/ (\E n \in Nodes : on_node_info(n)) \/ UNCHANGED vars
  <2>1. NodesKept /\ At' = At
    BY <1>1 DEF NodesKept, At, Server, Appear, Vanish, NodeInfo, CoreError, ServerEvent, Dispatch,
                CoreEvent, Enter, BindMetadata, on_node_info, vars
  <2> QED BY <2>1, KeepsNodes, Zenon
<1>2. CASE Wake
  <2>1. NodesKept /\ At' = At
    BY <1>2 DEF NodesKept, At, Wake, Places, Before, Stopping
  <2> QED BY <2>1, KeepsNodes, Zenon
<1>3. CASE \/ list_sinks \/ Stop \/ SetupFails \/ CreateObject \/ SetMetadata
           \/ \E then \in {"idle", "list"} : setup_core(then)
  <2>1. NodesKept /\ {At, At'} \cap (WithNode \cup Ended) = {}
    BY <1>3 DEF NodesKept, At, WithNode, Ended, list_sinks, Stop, SetupFails, CreateObject,
                SetMetadata, setup_core, Goto, SyncAndWait
  <2> QED BY <2>1, KeepsNodes, Zenon
<1>4. CASE ClearStreams \/ DestroyObjects \/ DestroyMetadata \/ DestroyRegistry
  <2>1. NodesKept /\ {At, At'} \cap (WithNode \cup Ended) = {}
    BY <1>4 DEF NodesKept, At, WithNode, Ended, ClearStreams, DestroyObjects, DestroyMetadata,
                DestroyRegistry, Goto, SyncAndWait
  <2> QED BY <2>1, KeepsNodes, Zenon
<1>5. CASE TakeNodes \/ NextNode \/ LockToClaim \/ Claim \/ free_node_info \/ destroy_proxy_sync
  BY <1>5, StopKeeps
<1>6. CASE Disconnect
  BY <1>6, DisconnectKeeps
<1>7. CASE StopLoop
  BY <1>7 DEF StopLoop, Owned, Rest, Live, At, Ended, Goto
<1>8. CASE \E n \in Nodes : \/ on_registry_global(n) \/ on_node_proxy_removed(n)
                            \/ DestroyRemoved(n)
  BY <1>8, GlobalKeeps, RemovedKeeps, DestroyRemovedKeeps
<1> QED BY <1>1, <1>2, <1>3, <1>4, <1>5, <1>6, <1>7, <1>8 DEF Next, Control, PwThread, stop

-------------------------------------------------------------------------------
(* The callback under way *)

\* Steps of the control thread beside a callback.
LEMMA KeepsCallback ==
  ASSUME Delivering, UNCHANGED <<pw, event, registry>>, At \in Ended => At' \in Ended,
         At' \notin Ended => \A n \in Nodes : /\ data'[n].mem = data[n].mem
                                              /\ data'[n].listening = data[n].listening,
         \/ ctl' \notin {"free", "destroy"} \/ pw # "body"
         \/ ctl \in {"free", "destroy"} /\ node' = node
  PROVE Delivering'
<1> SUFFICES ASSUME pw # "poll" PROVE Delivering'
  BY DEF Delivering
<1>1. /\ event.kind \in {"global", "metadata"} => registry'
      /\ event.kind \in CoreKinds => pw = "call"
      /\ event.kind \in {"global", "info", "removed"} => event.node \in Nodes
      /\ event.kind \notin {"global", "info", "removed"} => event.node = None
  BY DEF Delivering
<1>2. /\ event.kind = "info" /\ At' \notin Ended =>
           data'[event.node].mem = "live" /\ data'[event.node].listening
      /\ event.kind = "removed" /\ At' \notin Ended => data'[event.node].mem = "live"
  BY <1>1 DEF Delivering, Live
<1>3. ctl' \in {"free", "destroy"} /\ event.node = node' => pw # "body"
  BY DEF Delivering
<1> QED BY <1>1, <1>2, <1>3 DEF Delivering, Live

LEMMA DispatchDelivers ==
  ASSUME Others, Once, Dispatch
  PROVE Delivering'
<1>1. wire \in Seq(Events) /\ wire # <<>>
  BY DEF Others, Dispatch
<1>2. /\ event' = wire[1] /\ wire[1] \in Events /\ 1 \in DOMAIN wire
      /\ event'.kind \in {"global", "info", "removed"} <=> event'.node \in Nodes
  BY <1>1, TailFacts DEF Dispatch, Once, Shaped
<1>3. event'.kind \in Kinds /\ (event'.node \in Nodes \/ event'.node = None)
  BY <1>2 DEF Events
<1>4. pw' # "poll" => pw' = "call" /\ Deliverable(event')
  BY <1>1, <1>2, TailFacts DEF Dispatch
<1>5. UNCHANGED <<data, registry>>
  BY DEF Dispatch, nodeVars, ptrVars
<1> QED BY <1>2, <1>3, <1>4, <1>5 DEF Delivering, Deliverable, CoreKinds, Kinds, Live

LEMMA EnterDelivers ==
  ASSUME Others, Places, Owned, Delivering, Once, Enter
  PROVE Delivering'
<1>1. /\ UNCHANGED <<ctl, next, node, data, event, registry, shutting_down>>
      /\ pw = "call" /\ event.kind \notin CoreKinds /\ At' = At
  BY DEF Enter, nodeVars, ptrVars, At
<1>2. ASSUME ctl \in {"free", "destroy"}, event.node = node
      PROVE pw' = "poll"
  <2>1. At \in {"free", "destroy"} /\ node \in Nodes
    BY <1>2 DEF At, Places, WithNode
  <2>2. data[node].removed /\ Live(node)
    BY <2>1 DEF Owned, Kept, WithNode, Ended
  <2>3. event.kind # "global"
    <3>1. ASSUME event.kind = "global" PROVE event = Event("global", node)
      BY <1>2, <3>1 DEF Others, Events, Event
    <3> QED BY <1>1, <2>1, <2>2, <3>1 DEF Once, Story, Pending, Delivered, Live
  <2>4. event.kind \in {"info", "removed"}
    BY <1>1, <1>2, <2>1, <2>3, TeardownAssumption DEF Delivering
  <2>5. event.node # None /\ Ignored(event.node)
    BY <1>2, <2>1, <2>2, <2>4, TeardownAssumption DEF Ignored
  <2> QED BY <2>5 DEF Enter
<1> QED BY <1>1, <1>2 DEF Delivering, Live

LEMMA DeliveringStep ==
  ASSUME Others, Places, Owned, Delivering, Once, [Next]_vars
  PROVE Delivering'
<1> USE DEF srvVars, ptrVars, nodeVars, pwVars
<1>0. data \in [Nodes -> Data]
  BY DEF Others
<1>1. CASE Server \/ UNCHANGED vars
  <2>1. UNCHANGED <<ctl, next, node, data, pw, event, registry>>
    BY <1>1 DEF Server, Appear, Vanish, NodeInfo, CoreError, ServerEvent, vars
  <2> QED BY <2>1 DEF Delivering, At, Live
<1>2. CASE Dispatch
  BY <1>2, DispatchDelivers
<1>3. CASE Enter
  BY <1>3, EnterDelivers
<1>4. CASE \/ CoreEvent \/ BindMetadata
           \/ \E n \in Nodes : on_registry_global(n) \/ on_node_info(n) \/ on_node_proxy_removed(n)
  <2>1. pw' = "poll"
    BY <1>4 DEF CoreEvent, BindMetadata, on_registry_global, on_node_info, on_node_proxy_removed
  <2> QED BY <2>1 DEF Delivering
<1>5. CASE \/ Wake \/ list_sinks \/ CreateObject \/ SetMetadata \/ destroy_proxy_sync
           \/ DestroyObjects \/ StopLoop \/ \E n \in Nodes : DestroyRemoved(n)
  <2>1. pw' = "poll"
    BY <1>5 DEF Wake, list_sinks, CreateObject, SetMetadata, destroy_proxy_sync, DestroyObjects,
                StopLoop, DestroyRemoved, SyncAndWait, LoopFree
  <2> QED BY <2>1 DEF Delivering
<1>6. CASE SetupFails \/ \E then \in {"idle", "list"} : setup_core(then)
  <2>1. pw' = "poll"
    BY <1>6 DEF SetupFails, setup_core, Once, Fresh, At
  <2> QED BY <2>1 DEF Delivering
<1>7. CASE Stop \/ ClearStreams \/ TakeNodes \/ NextNode \/ LockToClaim \/ DestroyMetadata
  <2>1. /\ UNCHANGED <<data, pw, event, registry>> /\ ctl' \notin {"free", "destroy"}
        /\ At \in Ended => At' \in Ended
    BY <1>7 DEF Stop, ClearStreams, TakeNodes, NextNode, LockToClaim, DestroyMetadata, Goto,
                SyncAndWait, At, Ended
  <2> QED BY <2>1, KeepsCallback
<1>8. CASE Claim
  <2>1. /\ UNCHANGED <<node, pw, event, registry>> /\ pw # "body" /\ At \notin Ended
        /\ node \in Nodes
    BY <1>8 DEF Claim, Places, At, Ended, WithNode
  <2>2. data' = data \/ data' = Claimed(node)
    BY <1>8 DEF Claim, Claimed
  <2>3. \A n \in Nodes : /\ data'[n].mem = data[n].mem
                         /\ data'[n].listening = data[n].listening
    BY <1>0, <2>1, <2>2, ClaimedFacts
  <2> QED BY <2>1, <2>3, KeepsCallback
<1>9. CASE free_node_info
  <2>1. /\ UNCHANGED <<node, pw, event, registry>> /\ ctl = "free" /\ At \notin Ended
        /\ node \in Nodes /\ data' = Cleared(node)
    BY <1>9 DEF free_node_info, Cleared, Places, At, Ended, WithNode
  <2>2. \A n \in Nodes : /\ data'[n].mem = data[n].mem
                         /\ data'[n].listening = data[n].listening
    BY <1>0, <2>1, ClearedFacts
  <2> QED BY <2>1, <2>2, KeepsCallback
<1>10. CASE DestroyRegistry
  <2>1. CASE registry
    <3>1. pw' = "poll"
      BY <1>10, <2>1 DEF DestroyRegistry, SyncAndWait, LoopFree
    <3> QED BY <3>1 DEF Delivering
  <2>2. CASE ~registry
    <3>1. /\ UNCHANGED <<data, pw, event>> /\ ~registry' /\ ctl' = "disconnect"
          /\ At \notin Ended
      BY <1>10, <2>2 DEF DestroyRegistry, Goto, At, Ended
    <3> QED BY <2>2, <3>1 DEF Delivering, Live
  <2> QED BY <2>1, <2>2
<1>11. CASE Disconnect
  <2>1. UNCHANGED <<pw, event, registry>> /\ ctl' = "loop" /\ At' \in Ended
    BY <1>11 DEF Disconnect, At, Ended
  <2> QED BY <2>1, KeepsCallback
<1> QED BY <1>1, <1>2, <1>3, <1>4, <1>5, <1>6, <1>7, <1>8, <1>9, <1>10, <1>11
        DEF Next, Control, PwThread, stop

-------------------------------------------------------------------------------
(* What is under way *)

LEMMA AppendOn ==
  ASSUME NEW s \in Seq(Events), NEW e \in Events
  PROVE /\ \A x : On(Append(s, e), x) <=> On(s, x) \/ x = e
        /\ Shaped(s) /\ (e.kind \in {"global", "info", "removed"} <=> e.node \in Nodes)
             => Shaped(Append(s, e))
        /\ Singles(s) /\ (e.kind \in {"global", "removed"} => ~On(s, e)) => Singles(Append(s, e))
<1> DEFINE t == Append(s, e)
<1>1. /\ DOMAIN t = DOMAIN s \cup {Len(s) + 1} /\ Len(s) + 1 \notin DOMAIN s
      /\ t[Len(s) + 1] = e /\ \A i \in DOMAIN s : t[i] = s[i]
  BY AppendFacts
<1> HIDE DEF t
<1>2. \A x : On(t, x) <=> On(s, x) \/ x = e
  BY <1>1 DEF On
<1>3. Shaped(s) /\ (e.kind \in {"global", "info", "removed"} <=> e.node \in Nodes) => Shaped(t)
  BY <1>1 DEF Shaped
<1>4. Singles(s) /\ (e.kind \in {"global", "removed"} => ~On(s, e)) => Singles(t)
  BY <1>1 DEF Singles, On
<1> QED BY <1>2, <1>3, <1>4 DEF t

LEMMA TailOn ==
  ASSUME NEW s \in Seq(Events), s # <<>>
  PROVE /\ On(s, Head(s)) /\ \A x : On(Tail(s), x) => On(s, x)
        /\ Shaped(s) => Shaped(Tail(s))
        /\ Singles(s) => Singles(Tail(s))
        /\ Singles(s) /\ Head(s).kind \in {"global", "removed"} => ~On(Tail(s), Head(s))
<1> DEFINE t == Tail(s)
           h == Head(s)
<1>1. /\ h = s[1] /\ 1 \in DOMAIN s
      /\ \A i \in DOMAIN t : i \in Nat /\ i + 1 \in DOMAIN s /\ i + 1 # 1 /\ t[i] = s[i + 1]
  BY TailFacts
<1> HIDE DEF t, h
<1>2. On(s, h) /\ \A x : On(t, x) => On(s, x)
  BY <1>1 DEF On
<1>3. Shaped(s) => Shaped(t)
  BY <1>1 DEF Shaped
<1>4. Singles(s) => Singles(t)
  <2> SUFFICES ASSUME Singles(s), NEW i \in DOMAIN t, NEW j \in DOMAIN t,
                      t[i].kind \in {"global", "removed"}, t[i] = t[j]
               PROVE i = j
    BY DEF Singles
  <2>1. i + 1 = j + 1
    BY <1>1 DEF Singles
  <2> QED BY <1>1, <2>1
<1>5. Singles(s) /\ h.kind \in {"global", "removed"} => ~On(t, h)
  BY <1>1 DEF Singles, On
<1> QED BY <1>2, <1>3, <1>4, <1>5 DEF t, h

LEMMA ListingOn ==
  ASSUME NEW T \in SUBSET Nodes
  PROVE /\ \A n \in Nodes : /\ On(Listing(T), Event("global", n)) => n \in T
                            /\ ~On(Listing(T), Event("removed", n))
        /\ Shaped(Listing(T)) /\ Singles(Listing(T))
<1> DEFINE f == SetToSeq(T)
           k == Len(f)
           w == Listing(T)
<1>1. /\ k \in Nat /\ DOMAIN w = 1..(k + 2)
      /\ w[1] = Event("metadata", None) /\ w[k + 2] = Event("done", None)
      /\ \A i \in 2..(k + 1) : i - 1 \in DOMAIN f /\ w[i] = Event("global", f[i - 1])
  BY ListingFacts
<1>2. /\ \A i \in DOMAIN f : f[i] \in T
      /\ \A i, j \in DOMAIN f : f[i] = f[j] => i = j
  BY ListedOnce
<1>3. \A i \in DOMAIN w : i = 1 \/ i = k + 2 \/ i \in 2..(k + 1)
  BY <1>1
<1> HIDE DEF f, k, w
<1>4. /\ w[1].kind = "metadata" /\ w[1].node = None /\ w[k + 2].kind = "done"
      /\ w[k + 2].node = None
      /\ \A i \in 2..(k + 1) : w[i].kind = "global" /\ w[i].node = f[i - 1] /\ f[i - 1] \in T
  <2>1. w[1].kind = "metadata" /\ w[1].node = None
    BY <1>1 DEF Event
  <2>2. w[k + 2].kind = "done" /\ w[k + 2].node = None
    BY <1>1 DEF Event
  <2>3. ASSUME NEW i \in 2..(k + 1)
        PROVE w[i].kind = "global" /\ w[i].node = f[i - 1] /\ f[i - 1] \in T
    <3>1. w[i] = Event("global", f[i - 1]) /\ f[i - 1] \in T
      BY <1>1, <1>2
    <3> QED BY <3>1 DEF Event
  <2> QED BY <2>1, <2>2, <2>3
<1>5. ASSUME NEW n \in Nodes
      PROVE (On(w, Event("global", n)) => n \in T) /\ ~On(w, Event("removed", n))
  <2>1. \A k1 \in Kinds : Event(k1, n).kind = k1 /\ Event(k1, n).node = n
    BY DEF Event
  <2> QED BY <1>3, <1>4, <2>1, TeardownAssumption DEF On, Kinds
<1>6. Shaped(w)
  BY <1>3, <1>4, TeardownAssumption DEF Shaped
<1>7. Singles(w)
  <2> SUFFICES ASSUME NEW i \in DOMAIN w, NEW j \in DOMAIN w,
                      w[i].kind \in {"global", "removed"}, w[i] = w[j]
               PROVE i = j
    BY DEF Singles
  <2>1. i \in 2..(k + 1) /\ j \in 2..(k + 1)
    BY <1>3, <1>4
  <2>2. f[i - 1] = f[j - 1] /\ i - 1 \in DOMAIN f /\ j - 1 \in DOMAIN f
    BY <1>1, <1>4, <2>1
  <2>3. i - 1 = j - 1
    BY <1>2, <2>2
  <2> QED BY <1>1, <2>1, <2>3
<1> QED BY <1>5, <1>6, <1>7 DEF w

\* A sync leaves the story as it is.
LEMMA AnsweredOn ==
  ASSUME Others, Once, wire' = wire \/ wire' = Answered
  PROVE /\ Shaped(wire') /\ Singles(wire')
        /\ \A x : x.kind \in {"global", "removed"} => (On(wire', x) <=> On(wire, x))
<1> DEFINE e == Event("done", None)
<1>1. e \in Events /\ e.kind = "done" /\ e.node = None
  BY EventIs DEF Kinds
<1>2. wire \in Seq(Events) /\ (wire' = wire \/ wire' = Append(wire, e))
  BY DEF Others, Answered
<1> HIDE DEF e
<1>3. CASE wire' = wire
  BY <1>3 DEF Once
<1>4. CASE wire' = Append(wire, e)
  <2>1. \A x : On(Append(wire, e), x) <=> On(wire, x) \/ x = e
    BY <1>1, <1>2, AppendOn
  <2>2. Shaped(Append(wire, e)) /\ Singles(Append(wire, e))
    BY <1>1, <1>2, AppendOn, TeardownAssumption DEF Once
  <2> QED BY <1>1, <1>4, <2>1, <2>2
<1> QED BY <1>2, <1>3, <1>4

\* Steps of the threads that neither announce nor remove.
LEMMA KeepsStory ==
  ASSUME Others, Once, server' = server, wire' = wire \/ wire' = Answered,
         pw' = "poll" \/ (pw # "poll" /\ event' = event),
         tasks' \subseteq tasks, At' # "new",
         \A n \in Nodes : \/ data'[n].mem = data[n].mem
                          \/ data[n].mem = "live" /\ data'[n].mem = "freed"
  PROVE Once'
<1>1. /\ Shaped(wire') /\ Singles(wire')
      /\ \A x : x.kind \in {"global", "removed"} => (On(wire', x) <=> On(wire, x))
  BY AnsweredOn
<1>2. pw' # "poll" /\ event'.kind \in {"global", "removed"} => ~On(wire', event')
  BY <1>1 DEF Once
<1>3. ASSUME NEW n \in Nodes PROVE Story(n)'
  <2>1. Event("global", n).kind = "global" /\ Event("removed", n).kind = "removed"
    BY DEF Event
  <2>2. /\ Pending(Event("global", n))' => Pending(Event("global", n))
        /\ Pending(Event("removed", n))' => Pending(Event("removed", n))
    BY <1>1, <2>1 DEF Pending, Delivered
  <2>3. Story(n)
    BY DEF Once
  <2> QED BY <2>2, <2>3 DEF Story
<1> QED BY <1>1, <1>2, <1>3 DEF Once, Fresh

LEMMA ServerTells ==
  ASSUME Others, Places, Once, Server
  PROVE Once'
<1>0. /\ UNCHANGED <<ctl, next, data, bound, tasks, pw, event>> /\ core
      /\ server \in [Nodes -> {"absent", "first", "later", "gone"}] /\ wire \in Seq(Events)
  BY DEF Server, Appear, Vanish, NodeInfo, CoreError, ServerEvent, Sends, nodeVars, pwVars, Others
<1>1. At' # "new"
  BY <1>0 DEF At, Places
<1>2. ASSUME NEW e \in Events, wire' = Append(wire, e),
             e.kind \in {"global", "info", "removed"} <=> e.node \in Nodes,
             e.kind \in {"global", "removed"} => ~Pending(e),
             \A n \in Nodes : Story(n)'
      PROVE Once'
  <2>1. /\ \A x : On(wire', x) <=> On(wire, x) \/ x = e
        /\ Shaped(wire') /\ Singles(wire')
    BY <1>0, <1>2, AppendOn DEF Once, Pending
  <2>2. pw' # "poll" /\ event'.kind \in {"global", "removed"} => ~On(wire', event')
    BY <1>0, <1>2, <2>1 DEF Once, Pending, Delivered
  <2> QED BY <1>1, <1>2, <2>1, <2>2 DEF Once, Fresh
<1>3. ASSUME NEW e \in Events, wire' = Append(wire, e), NEW n \in Nodes
      PROVE /\ Pending(Event("global", n))' <=> Pending(Event("global", n)) \/ e = Event("global", n)
            /\ Pending(Event("removed", n))' <=>
                 Pending(Event("removed", n)) \/ e = Event("removed", n)
  BY <1>0, <1>3, AppendOn DEF Pending, Delivered
<1>4. \A k1 \in Kinds, n \in Nodes \cup {None} :
        Event(k1, n) \in Events /\ Event(k1, n).kind = k1 /\ Event(k1, n).node = n
  BY EventIs
<1>5. ASSUME NEW n \in Nodes, Appear(n) PROVE Once'
  <2> DEFINE e == Event("global", n)
  <2>1. /\ wire' = Append(wire, e) /\ server[n] = "absent" /\ server'[n] = "later"
        /\ \A m \in Nodes : m # n => server'[m] = server[m]
    BY <1>0, <1>5 DEF Appear, Sends
  <2>2. e \in Events /\ e.kind = "global" /\ e.node = n
    BY <1>4 DEF Kinds
  <2>3. ~Pending(e) /\ ~Pending(Event("removed", n)) /\ data[n].mem = "none" /\ n \notin tasks
    BY <2>1 DEF Once, Story
  <2>4. ASSUME NEW m \in Nodes PROVE Story(m)'
    <3>1. Event("removed", m).kind = "removed" /\ Event("global", m).node = m
      BY <1>4 DEF Kinds
    <3>2. /\ Pending(Event("global", m))' <=> Pending(Event("global", m)) \/ m = n
          /\ Pending(Event("removed", m))' <=> Pending(Event("removed", m))
      BY <1>3, <2>1, <2>2, <3>1
    <3>3. Story(m)
      BY DEF Once
    <3> QED BY <1>0, <2>1, <2>3, <3>2, <3>3 DEF Story
  <2> HIDE DEF e
  <2> QED BY <1>2, <2>1, <2>2, <2>3, <2>4
<1>6. ASSUME NEW n \in Nodes, Vanish(n) PROVE Once'
  <2> DEFINE e == Event("removed", n)
  <2>1. /\ wire' = Append(wire, e) /\ server[n] \in {"first", "later"} /\ server'[n] = "gone"
        /\ \A m \in Nodes : m # n => server'[m] = server[m]
    BY <1>0, <1>6 DEF Vanish, Sends
  <2>2. e \in Events /\ e.kind = "removed" /\ e.node = n
    BY <1>4 DEF Kinds
  <2>3. ~Pending(e) /\ n \notin tasks
    BY <2>1 DEF Once, Story
  <2>4. ASSUME NEW m \in Nodes PROVE Story(m)'
    <3>1. Event("removed", m).node = m /\ Event("global", m).kind = "global"
      BY <1>4 DEF Kinds
    <3>2. /\ Pending(Event("global", m))' <=> Pending(Event("global", m))
          /\ Pending(Event("removed", m))' <=> Pending(Event("removed", m)) \/ m = n
      BY <1>3, <2>1, <2>2, <3>1
    <3>3. Story(m)
      BY DEF Once
    <3> QED BY <1>0, <2>1, <2>3, <3>2, <3>3 DEF Story
  <2> HIDE DEF e
  <2> QED BY <1>2, <2>1, <2>2, <2>3, <2>4
<1>7. ASSUME NEW k1 \in {"info", "error"}, NEW n \in Nodes \cup {None}, server' = server,
             k1 = "info" <=> n \in Nodes, wire' = Append(wire, Event(k1, n))
      PROVE Once'
  <2> DEFINE e == Event(k1, n)
  <2>1. e \in Events /\ e.kind = k1 /\ e.node = n
    BY <1>4 DEF Kinds
  <2>2. ASSUME NEW m \in Nodes PROVE Story(m)'
    <3>1. Event("removed", m).kind = "removed" /\ Event("global", m).kind = "global"
      BY <1>4 DEF Kinds
    <3>2. /\ Pending(Event("global", m))' <=> Pending(Event("global", m))
          /\ Pending(Event("removed", m))' <=> Pending(Event("removed", m))
      BY <1>3, <1>7, <2>1, <3>1
    <3>3. Story(m)
      BY DEF Once
    <3> QED BY <1>0, <1>7, <3>2, <3>3 DEF Story
  <2>3. wire' = Append(wire, e)
    BY <1>7
  <2> HIDE DEF e
  <2> QED BY <1>2, <1>7, <2>1, <2>2, <2>3
<1>8. ASSUME NEW n \in Nodes, NodeInfo(n) PROVE Once'
  BY <1>7, <1>8 DEF NodeInfo, Sends
<1>9. ASSUME NEW fatal, CoreError(fatal) PROVE Once'
  BY <1>7, <1>9, TeardownAssumption DEF CoreError, Sends
<1> QED BY <1>5, <1>6, <1>8, <1>9 DEF Server

LEMMA DispatchTells ==
  ASSUME Others, Places, Once, Dispatch
  PROVE Once'
<1> DEFINE h == Head(wire)
<1>1. /\ wire \in Seq(Events) /\ wire # <<>> /\ core /\ event' = h /\ wire' = Tail(wire)
      /\ UNCHANGED <<ctl, next, data, bound, tasks, server>>
  BY DEF Others, Dispatch, nodeVars, srvVars
<1>2. /\ On(wire, h) /\ \A x : On(wire', x) => On(wire, x)
      /\ Shaped(wire') /\ Singles(wire')
      /\ h.kind \in {"global", "removed"} => ~On(wire', h)
  BY <1>1, TailOn DEF Once
<1> HIDE DEF h
<1>3. ASSUME NEW n \in Nodes PROVE Story(n)'
  <2>1. /\ Pending(Event("global", n))' => Pending(Event("global", n))
        /\ Pending(Event("removed", n))' => Pending(Event("removed", n))
    BY <1>1, <1>2 DEF Pending, Delivered
  <2>2. Story(n)
    BY DEF Once
  <2> QED BY <1>1, <2>1, <2>2 DEF Story
<1>4. At' # "new"
  BY <1>1 DEF At, Places
<1> QED BY <1>1, <1>2, <1>3, <1>4 DEF Once, Fresh

LEMMA GlobalTells ==
  ASSUME Others, Once, NEW n \in Nodes, on_registry_global(n)
  PROVE Once'
<1>1. /\ data' = Bound(n) /\ pw = "body" /\ pw' = "poll" /\ event = Event("global", n)
      /\ UNCHANGED <<ctl, next, tasks, wire, server>>
  BY DEF on_registry_global, Bound, srvVars
<1>2. \A m \in Nodes : m # n => data'[m] = data[m]
  BY <1>1, BoundFacts DEF Others
<1>3. event.kind = "global"
  BY <1>1 DEF Event
<1>4. ~On(wire, Event("global", n)) /\ Delivered(Event("global", n))
  BY <1>1, <1>3 DEF Once, Delivered
<1>5. ASSUME NEW m \in Nodes PROVE Story(m)'
  <2>1. /\ Pending(Event("global", m))' => Pending(Event("global", m)) /\ m # n
        /\ Pending(Event("removed", m))' => Pending(Event("removed", m))
    BY <1>1, <1>4 DEF Pending, Delivered
  <2>2. Story(m) /\ server[n] # "absent"
    BY <1>4 DEF Once, Story, Pending
  <2> QED BY <1>1, <1>2, <2>1, <2>2 DEF Story
<1>6. At' # "new"
  BY <1>1 DEF At, Once, Fresh
<1> QED BY <1>1, <1>5, <1>6 DEF Once, Fresh

LEMMA RemovedTells ==
  ASSUME Others, Once, NEW n \in Nodes, on_node_proxy_removed(n)
  PROVE Once'
<1>1. /\ data' = Removed(n) /\ pw = "body" /\ pw' = "poll" /\ event = Event("removed", n)
      /\ tasks' = tasks \cup {n} /\ UNCHANGED <<ctl, next, wire, server>>
  BY DEF on_node_proxy_removed, Removed, srvVars
<1>2. \A m \in Nodes : data'[m].mem = data[m].mem
  BY <1>1, RemovedFacts DEF Others
<1>3. event.kind = "removed"
  BY <1>1 DEF Event
<1>4. ~On(wire, Event("removed", n)) /\ Delivered(Event("removed", n))
  BY <1>1, <1>3 DEF Once, Delivered
<1>5. ASSUME NEW m \in Nodes PROVE Story(m)'
  <2>1. /\ Pending(Event("global", m))' => Pending(Event("global", m))
        /\ Pending(Event("removed", m))' => Pending(Event("removed", m)) /\ m # n
    BY <1>1, <1>4 DEF Pending, Delivered
  <2>2. Story(m) /\ server[n] = "gone"
    BY <1>4 DEF Once, Story, Pending
  <2> QED BY <1>1, <1>2, <2>1, <2>2 DEF Story
<1>6. At' # "new"
  BY <1>1 DEF At, Once, Fresh
<1> QED BY <1>1, <1>5, <1>6 DEF Once, Fresh

LEMMA SetupTells ==
  ASSUME Others, Once, NEW then \in {"idle", "list"}, setup_core(then)
  PROVE Once'
<1> DEFINE T == {n \in Nodes : server[n] = "first"}
<1>1. /\ wire' = Listing(T) /\ At = "new" /\ At' # "new"
      /\ UNCHANGED <<data, tasks, pw, server>>
  BY DEF setup_core, Listing, At, nodeVars, pwVars, srvVars
<1>2. /\ pw = "poll" /\ tasks = {} /\ \A n \in Nodes : data[n].mem = "none"
  BY <1>1 DEF Once, Fresh
<1>3. /\ \A n \in Nodes : /\ On(wire', Event("global", n)) => n \in T
                          /\ ~On(wire', Event("removed", n))
      /\ Shaped(wire') /\ Singles(wire')
  BY <1>1, ListingOn
<1>4. ASSUME NEW n \in Nodes PROVE Story(n)'
  BY <1>1, <1>2, <1>3 DEF Story, Pending, Delivered
<1> QED BY <1>1, <1>2, <1>3, <1>4 DEF Once, Fresh

LEMMA DisconnectTells ==
  ASSUME Others, Places, Delivering, Once, Disconnect
  PROVE Once'
<1>1. /\ wire' = <<>> /\ UNCHANGED <<tasks, server, pw, event>> /\ At = "disconnect" /\ At' = "loop"
      /\ \E told \in BOOLEAN : data' = Cut(told)
  BY DEF Disconnect, At, Cut, pwVars, srvVars
<1>2. \A n \in Nodes : \/ data'[n].mem = data[n].mem
                       \/ data[n].mem = "live" /\ data'[n].mem = "freed"
  <2>1. data \in [Nodes -> Data]
    BY DEF Others
  <2>2. \A n \in Nodes : (~Live(n) => data'[n] = data[n]) /\ (Live(n) => data'[n].mem = "freed")
    BY <1>1, <2>1, CutFacts
  <2> QED BY <2>2 DEF Live
<1>3. Shaped(wire') /\ Singles(wire') /\ \A x : ~On(wire', x)
  BY <1>1 DEF Shaped, Singles, On
<1>4. ASSUME NEW n \in Nodes PROVE Story(n)'
  <2>1. ~Delivered(Event("global", n))
    <3>1. Event("global", n).kind = "global" /\ ~registry
      BY <1>1 DEF Event, Places
    <3> QED BY <3>1 DEF Delivered, Delivering
  <2>2. /\ ~Pending(Event("global", n))'
        /\ Pending(Event("removed", n))' => Pending(Event("removed", n))
    BY <1>1, <1>3, <2>1 DEF Pending, Delivered
  <2>3. Story(n)
    BY DEF Once
  <2> QED BY <1>1, <1>2, <2>2, <2>3 DEF Story
<1> QED BY <1>1, <1>3, <1>4 DEF Once, Fresh

LEMMA OnceStep ==
  ASSUME Others, Places, Owned, Delivering, Once, [Next]_vars
  PROVE Once'
<1> USE DEF srvVars, ptrVars, nodeVars, pwVars
<1>0. data \in [Nodes -> Data]
  BY DEF Others
<1>1. CASE Server \/ Dispatch \/ Disconnect
  BY <1>1, ServerTells, DispatchTells, DisconnectTells
<1>2. CASE \/ \E n \in Nodes : on_registry_global(n) \/ on_node_proxy_removed(n)
           \/ \E then \in {"idle", "list"} : setup_core(then)
  BY <1>2, GlobalTells, RemovedTells, SetupTells
<1>3. CASE CoreEvent \/ Enter \/ BindMetadata \/ \E n \in Nodes : on_node_info(n)
  <2>1. /\ UNCHANGED <<server, wire, event, tasks, data, ctl, next>> /\ pw # "poll"
    BY <1>3 DEF CoreEvent, Enter, BindMetadata, on_node_info
  <2>2. At' # "new"
    BY <2>1 DEF At, Once, Fresh
  <2> QED BY <2>1, <2>2, KeepsStory
<1>4. CASE \/ Wake \/ list_sinks \/ Stop \/ SetupFails \/ CreateObject \/ SetMetadata
           \/ ClearStreams \/ DestroyObjects \/ TakeNodes \/ NextNode \/ LockToClaim
           \/ DestroyMetadata \/ DestroyRegistry \/ StopLoop
  <2>1. /\ UNCHANGED <<server, event, pw, tasks, data>> /\ (wire' = wire \/ wire' = Answered)
    BY <1>4 DEF Wake, list_sinks, Stop, SetupFails, CreateObject, SetMetadata, ClearStreams,
                DestroyObjects, TakeNodes, NextNode, LockToClaim, DestroyMetadata,
                DestroyRegistry, StopLoop, Goto, SyncAndWait
  <2>2. At' # "new"
    BY <1>4 DEF At, Places, Wake, list_sinks, Stop, SetupFails, CreateObject, SetMetadata,
                ClearStreams, DestroyObjects, TakeNodes, NextNode, LockToClaim, DestroyMetadata,
                DestroyRegistry, StopLoop, Goto, SyncAndWait
  <2> QED BY <2>1, <2>2, KeepsStory
<1>5. CASE Claim \/ free_node_info
  <2>1. /\ UNCHANGED <<server, event, pw, tasks, wire>> /\ At' # "new" /\ node \in Nodes
        /\ data' \in {data, Claimed(node), Cleared(node)}
    BY <1>5 DEF Claim, free_node_info, Claimed, Cleared, At, Places, WithNode, Goto
  <2>2. \A n \in Nodes : data'[n].mem = data[n].mem
    BY <1>0, <2>1, ClaimedFacts, ClearedFacts
  <2> QED BY <2>1, <2>2, KeepsStory
<1>6. CASE destroy_proxy_sync \/ \E n \in Nodes : DestroyRemoved(n)
  <2>1. PICK n \in Nodes : data' = Destroyed(n) /\ Live(n)
    <3>1. CASE destroy_proxy_sync
      <4>1. ctl = "destroy" /\ data' = Destroyed(node)
        BY <3>1 DEF destroy_proxy_sync, Destroyed
      <4>2. node \in Nodes /\ Live(node)
        BY <4>1 DEF Places, Owned, Kept, At, WithNode, Ended
      <4> QED BY <4>1, <4>2
    <3>2. CASE \E n \in Nodes : DestroyRemoved(n)
      <4>1. PICK n \in Nodes : DestroyRemoved(n)
        BY <3>2
      <4>2. ctl = "idle" /\ data' = Destroyed(n) /\ n \in tasks
        BY <4>1 DEF DestroyRemoved, Destroyed
      <4>3. Live(n)
        BY <4>2 DEF Owned, Kept, At, Ended, Live
      <4> QED BY <4>2, <4>3
    <3> QED BY <1>6, <3>1, <3>2
  <2>2. /\ UNCHANGED <<server, event, pw>> /\ tasks' \subseteq tasks /\ wire' = Answered
        /\ At' # "new"
    BY <1>6 DEF destroy_proxy_sync, DestroyRemoved, SyncAndWait, At
  <2>3. \A m \in Nodes : \/ data'[m].mem = data[m].mem
                         \/ data[m].mem = "live" /\ data'[m].mem = "freed"
    <3>1. (\A m \in Nodes : m # n => data'[m] = data[m]) /\ data'[n].mem = "freed"
      BY <1>0, <2>1, DestroyedFacts
    <3> QED BY <2>1, <3>1 DEF Live
  <2> QED BY <2>2, <2>3, KeepsStory
<1>7. CASE UNCHANGED vars
  BY <1>7 DEF vars, Once, Story, Fresh, Pending, Delivered, At
<1> QED BY <1>1, <1>2, <1>3, <1>4, <1>5, <1>6, <1>7 DEF Next, Control, PwThread, stop

-------------------------------------------------------------------------------
(* The list of nodes *)

LEMMA AppendAhead ==
  ASSUME NEW s \in Seq(Events), NEW e \in Events, NEW n, Ahead(s, n)
  PROVE Ahead(Append(s, e), n)
<1>1. PICK i \in DOMAIN s : /\ s[i] = Event("global", n)
                            /\ \A j \in 1..i : s[j].kind \notin CoreKinds
  BY DEF Ahead
<1>2. /\ i \in DOMAIN Append(s, e) /\ Append(s, e)[i] = s[i]
      /\ \A j \in 1..i : j \in DOMAIN s /\ Append(s, e)[j] = s[j]
  <2>1. \A j \in 1..i : j \in DOMAIN s
    BY <1>1
  <2> QED BY <2>1, AppendFacts
<1> QED BY <1>1, <1>2 DEF Ahead

LEMMA TailAhead ==
  ASSUME NEW s \in Seq(Events), s # <<>>, NEW n, Ahead(s, n)
  PROVE Head(s).kind \notin CoreKinds /\ (Head(s) = Event("global", n) \/ Ahead(Tail(s), n))
<1>1. PICK i \in DOMAIN s : /\ s[i] = Event("global", n)
                            /\ \A j \in 1..i : s[j].kind \notin CoreKinds
  BY DEF Ahead
<1>2. i \in Nat /\ i >= 1 /\ 1 \in 1..i
  BY <1>1
<1>3. Head(s) = s[1] /\ Head(s).kind \notin CoreKinds
  BY <1>1, <1>2, TailFacts
<1>4. CASE i = 1
  BY <1>1, <1>3, <1>4
<1>5. CASE i # 1
  <2>1. i - 1 \in DOMAIN Tail(s) /\ Tail(s)[i - 1] = s[i]
    BY <1>5, TailFacts
  <2>2. ASSUME NEW j \in 1..(i - 1) PROVE Tail(s)[j].kind \notin CoreKinds
    <3>1. j \in DOMAIN Tail(s) /\ j + 1 \in 1..i
      BY <1>2, <2>1
    <3>2. Tail(s)[j] = s[j + 1]
      BY <3>1, TailFacts
    <3> QED BY <1>1, <3>1, <3>2
  <2> QED BY <1>1, <1>3, <2>1, <2>2 DEF Ahead
<1> QED BY <1>4, <1>5

LEMMA ListingAhead ==
  ASSUME NEW T \in SUBSET Nodes, NEW n \in T
  PROVE Ahead(Listing(T), n)
<1> DEFINE f == SetToSeq(T)
           k == Len(f)
           w == Listing(T)
<1>1. /\ k \in Nat /\ DOMAIN w = 1..(k + 2) /\ w[1] = Event("metadata", None)
      /\ \A i \in 2..(k + 1) : i - 1 \in DOMAIN f /\ w[i] = Event("global", f[i - 1])
      /\ \A i \in DOMAIN f : i + 1 \in 2..(k + 1)
  BY ListingFacts
<1>2. PICK i \in DOMAIN f : f[i] = n
  BY ListedOnce
<1>3. i \in Int
  BY ListedOnce
<1> HIDE DEF f, k, w
<1>4. i + 1 \in DOMAIN w /\ w[i + 1] = Event("global", n)
  <2>1. i + 1 \in 2..(k + 1) /\ (i + 1) - 1 = i
    BY <1>1, <1>2, <1>3
  <2>2. w[i + 1] = Event("global", f[(i + 1) - 1])
    BY <1>1, <2>1
  <2> QED BY <1>1, <1>2, <2>1, <2>2
<1>5. ASSUME NEW j \in 1..(i + 1) PROVE w[j].kind \notin CoreKinds
  <2>1. j = 1 \/ j \in 2..(k + 1)
    BY <1>1, <1>2, <1>3
  <2>2. w[j] = Event("metadata", None) \/ \E m : w[j] = Event("global", m)
    BY <1>1, <2>1
  <2>3. Event("metadata", None).kind \notin CoreKinds
    BY DEF Event, CoreKinds
  <2>4. \A m : Event("global", m).kind \notin CoreKinds
    BY DEF Event, CoreKinds
  <2> QED BY <2>2, <2>3, <2>4
<1> QED BY <1>4, <1>5 DEF Ahead, w

LEMMA CompleteStep ==
  ASSUME Others, Signalled, Places, Delivering, Once, Complete, Others', [Next]_vars
  PROVE Complete'
<1> USE DEF srvVars, ptrVars, nodeVars, pwVars
<1> SUFFICES ASSUME errors' = 0, At' \in Before \ {"new"}, NEW n \in Nodes, server'[n] = "first"
             PROVE n \in bound' \/ Coming(n)'
  BY DEF Complete
<1>0. wire \in Seq(Events) /\ errors \in Nat
  BY TeardownAssumption DEF Others
<1>1. CASE Server
  <2>1. /\ UNCHANGED <<ctl, next, woken, bound, pw, event>> /\ At' = At /\ errors = 0
        /\ \E e \in Events : wire' = Append(wire, e)
    <3>1. \A k \in Kinds, m \in Nodes \cup {None} : Event(k, m) \in Events
      BY EventIs
    <3>2. ~\E fatal \in BOOLEAN : CoreError(fatal)
      BY <1>0 DEF CoreError
    <3> QED BY <1>1, <3>1, <3>2 DEF Server, Appear, Vanish, NodeInfo, ServerEvent, Sends, At, Kinds
  <2>2. server[n] = "first"
    BY <1>1 DEF Server, Appear, Vanish, NodeInfo, CoreError, Others
  <2>3. n \in bound \/ Coming(n)
    BY <2>1, <2>2 DEF Complete
  <2> QED BY <1>0, <2>1, <2>3, AppendAhead DEF Coming, Delivered
<1>2. CASE ~Server
  <2> USE <1>2
  <2>1. server[n] = "first" /\ errors = 0
    BY DEF Next, Control, PwThread, stop, vars, Dispatch, CoreEvent, Enter, BindMetadata,
           on_registry_global, on_node_info, on_node_proxy_removed, Wake, list_sinks, Stop,
           SetupFails, CreateObject, SetMetadata, setup_core, DestroyRemoved, ClearStreams,
           DestroyObjects, TakeNodes, NextNode, LockToClaim, Claim, free_node_info,
           destroy_proxy_sync, DestroyMetadata, DestroyRegistry, Disconnect, StopLoop
  <2>2. At \in Before \ {"new"} => n \in bound \/ Coming(n)
    BY <2>1 DEF Complete
  <2>3. CASE Dispatch
    <3> DEFINE h == Head(wire)
    <3>1. /\ UNCHANGED <<ctl, next, woken, bound>> /\ At' = At /\ pw = "poll" /\ wire # <<>>
          /\ event' = h /\ wire' = Tail(wire) /\ pw' = IF Deliverable(h) THEN "call" ELSE "poll"
      BY <2>3 DEF Dispatch, At, LoopFree
    <3>2. CASE n \in bound
      BY <3>1, <3>2
    <3>3. CASE Coming(n)
      <4>1. Ahead(wire, n)
        BY <3>1, <3>3 DEF Coming, Delivered
      <4>2. h.kind \notin CoreKinds /\ (h = Event("global", n) \/ Ahead(wire', n))
        BY <1>0, <3>1, <4>1, TailAhead
      <4>3. h = Event("global", n) => pw' = "call"
        <5>1. Event("global", n).kind = "global" /\ registry
          BY <3>1 DEF Event, Places
        <5> QED BY <3>1, <5>1 DEF Deliverable, CoreKinds
      <4> HIDE DEF h
      <4> QED BY <3>1, <3>3, <4>2, <4>3 DEF Coming, Delivered
    <3> QED BY <2>2, <3>1, <3>2, <3>3
  <2>4. CASE Enter
    <3>1. /\ UNCHANGED <<ctl, next, woken, bound, event, wire>> /\ At' = At /\ pw = "call"
          /\ pw' = IF event.node # None /\ Ignored(event.node) THEN "poll" ELSE "body"
      BY <2>4 DEF Enter, At
    <3>2. event = Event("global", n) => pw' = "body"
      <4>1. Event("global", n).kind = "global"
        BY DEF Event
      <4> QED BY <3>1, <4>1 DEF Ignored
    <3> QED BY <2>2, <3>1, <3>2 DEF Coming, Delivered
  <2>5. CASE CoreEvent \/ BindMetadata \/ \E m \in Nodes : on_node_info(m)
    <3>1. /\ UNCHANGED <<ctl, next, bound, event, wire>> /\ At' = At /\ pw' = "poll" /\ pw # "poll"
          /\ event.kind # "global" /\ (event.kind \in CoreKinds \/ woken' = woken)
      BY <2>5 DEF CoreEvent, BindMetadata, on_node_info, At, Event, CoreKinds
    <3>2. event # Event("global", n)
      BY <3>1 DEF Event
    <3> QED BY <2>2, <3>1, <3>2 DEF Coming, Delivered
  <2>6. CASE \E m \in Nodes : on_registry_global(m)
    <3>1. PICK m \in Nodes : on_registry_global(m)
      BY <2>6
    <3>2. /\ UNCHANGED <<ctl, next, woken, event, wire>> /\ At' = At /\ pw' = "poll" /\ pw # "poll"
          /\ event.node = m /\ bound' = bound \cup {m}
      BY <3>1 DEF on_registry_global, At, Event
    <3>3. event = Event("global", n) => m = n
      BY <3>2 DEF Event
    <3> QED BY <2>2, <3>2, <3>3 DEF Coming, Delivered
  <2>7. CASE \E m \in Nodes : on_node_proxy_removed(m)
    <3>1. PICK m \in Nodes : on_node_proxy_removed(m)
      BY <2>7
    <3>2. /\ UNCHANGED <<ctl, next, woken, event, wire>> /\ At' = At /\ pw' = "poll" /\ pw # "poll"
          /\ event = Event("removed", m) /\ bound' = bound \ {m}
      BY <3>1 DEF on_node_proxy_removed, At
    <3>3. m # n
      BY <2>1, <3>2 DEF Once, Story, Pending, Delivered
    <3>4. event # Event("global", n)
      BY <3>2 DEF Event
    <3> QED BY <2>2, <3>2, <3>3, <3>4 DEF Coming, Delivered
  <2>8. CASE Wake
    <3>1. bound' = bound /\ woken /\ At' = At
      BY <2>8 DEF Wake, At, Places, Before, Stopping
    <3> QED BY <2>2, <3>1 DEF Coming
  <2>9. CASE list_sinks \/ CreateObject \/ SetMetadata \/ \E m \in Nodes : DestroyRemoved(m)
    <3>1. bound' = bound /\ ctl # "wait" /\ At \in Before \ {"new"}
      BY <2>9 DEF list_sinks, CreateObject, SetMetadata, DestroyRemoved, At, Before
    <3> QED BY <2>2, <3>1 DEF Coming
  <2>10. CASE \E then \in {"idle", "list"} : setup_core(then)
    <3> DEFINE T == {m \in Nodes : server[m] = "first"}
    <3>1. /\ wire' = Listing(T) /\ At = "new" /\ ctl' = "wait" /\ ctl # "wait"
          /\ UNCHANGED <<woken, pw>>
      BY <2>10 DEF setup_core, Listing, At
    <3>2. ~woken' /\ pw' = "poll" /\ Ahead(wire', n)
      BY <2>1, <3>1, ListingAhead DEF Signalled, Once, Fresh
    <3> QED BY <3>1, <3>2 DEF Coming
  <2>11. CASE Stop \/ SetupFails \/ stop
    BY <2>11 DEF Stop, SetupFails, stop, ClearStreams, DestroyObjects, TakeNodes, NextNode,
                 LockToClaim, Claim, free_node_info, destroy_proxy_sync, DestroyMetadata,
                 DestroyRegistry, Disconnect, StopLoop, Goto, SyncAndWait, At, Before
  <2>12. CASE UNCHANGED vars
    BY <2>2, <2>12 DEF vars, Coming, Delivered, At
  <2> QED BY <2>3, <2>4, <2>5, <2>6, <2>7, <2>8, <2>9, <2>10, <2>11, <2>12
          DEF Next, Control, PwThread
<1> QED BY <1>1, <1>2

-------------------------------------------------------------------------------
(* The theorems *)

LEMMA InitInd == Init => IndInv
<1> SUFFICES ASSUME Init PROVE IndInv
  OBVIOUS
<1>1. Flags /\ Signalled
  BY Zenon DEF Init, Flags, Signalled
<1>2. Others
  <2>1. Event("done", None) \in Events /\ <<>> \in Seq(Events)
    BY EventIs DEF Kinds
  <2>2. data \in [Nodes -> Data]
    BY DEF Init, Data
  <2> QED BY <2>1, <2>2, TeardownAssumption DEF Init, Others, Spots, Before
<1>3. At = "new"
  BY DEF Init, At
<1>4. Places
  BY <1>3 DEF Init, Places, Before, WithNode, Ended
<1>5. \A n \in Nodes : data[n].mem = "none" /\ data[n].info = "none"
  BY DEF Init
<1>6. Owned /\ Rest
  BY <1>3, <1>5 DEF Init, Owned, Rest, Kept, Live, WithNode, Ended
<1>7. Delivering
  BY DEF Init, Delivering
<1>8. Shaped(wire) /\ Singles(wire) /\ \A x : ~On(wire, x) /\ ~Delivered(x)
  BY DEF Init, Shaped, Singles, On, Delivered
<1>9. Once
  BY <1>5, <1>8 DEF Init, Once, Story, Pending, Fresh
<1>10. Complete
  BY <1>3 DEF Complete
<1> QED BY <1>1, <1>2, <1>4, <1>6, <1>7, <1>9, <1>10, Types DEF IndInv

LEMMA NextInd == IndInv /\ [Next]_vars => IndInv'
<1> SUFFICES ASSUME IndInv, [Next]_vars PROVE IndInv'
  OBVIOUS
<1>1. Flags /\ Others /\ Signalled
  BY Types DEF IndInv
<1>2. Flags' /\ Others' /\ Signalled'
  BY <1>1, FlagsStep, OthersStep, SignalledStep
<1>3. TypeOK' <=> Flags' /\ Others' /\ Signalled'
  BY Types, PTL
<1>4. Places' /\ Owned' /\ Rest' /\ Delivering' /\ Once' /\ Complete'
  BY <1>1, <1>2, PlacesStep, OwnedStep, DeliveringStep, OnceStep, CompleteStep DEF IndInv
<1> QED BY <1>2, <1>3, <1>4 DEF IndInv

\* Where stop is about to disconnect, PipeWire's thread may only be in a callback of the core or
\* of a node bound since stop took its list.
LEMMA AtDisconnect ==
  ASSUME IndInv, ctl = "disconnect"
  PROVE  /\ \A n \in Nodes : /\ Live(n) => n \in bound \cup tasks
                             /\ data[n].info = "set" => n \in bound
         /\ pw # "poll" => event.kind \in CoreKinds \/ event.node \in bound
<1> USE DEF IndInv
<1>1. At = "disconnect" /\ todo = {} /\ ~registry
  BY DEF At, Places, WithNode
<1>2. \A n \in Nodes : Kept(n)
  BY <1>1 DEF Owned, Ended
<1>3. \A n \in Nodes : /\ Live(n) => n \in bound \cup tasks
                       /\ data[n].info = "set" => n \in bound
  BY <1>1, <1>2 DEF Kept, Live
<1>4. ASSUME pw # "poll" PROVE event.kind \in CoreKinds \/ event.node \in bound
  <2>1. event \in Events
    BY Types DEF Others
  <2>2. event.kind \in {"info", "removed"} \/ event.kind \in CoreKinds
    BY <1>1, <1>4, <2>1 DEF Delivering, Events, Kinds, CoreKinds
  <2>3. CASE event.kind = "info"
    BY <1>1, <1>2, <1>4, <2>3 DEF Delivering, Kept, Ended
  <2>4. CASE event.kind = "removed"
    <3>1. event.node \in Nodes /\ Live(event.node)
      BY <1>1, <1>4, <2>4 DEF Delivering, Ended
    <3>2. event = Event("removed", event.node)
      BY <2>1, <2>4 DEF Events, Event
    <3>3. event.node \notin tasks
      BY <1>4, <3>1, <3>2 DEF Once, Story, Pending, Delivered
    <3> QED BY <1>1, <1>2, <3>1, <3>3 DEF Kept
  <2> QED BY <2>2, <2>3, <2>4
<1> QED BY <1>3, <1>4

\* The callback that pw_core_disconnect has run into, if any, until the loop has stopped.
Late ==
  /\ ctl = "loop" /\ pw # "poll" /\ event.kind \in {"info", "removed"} => event.node \in bound
  /\ ctl = "stopped" => pw = "poll"

LEMMA LateStep == ASSUME IndInv, Late, [Next]_vars PROVE Late'
<1> USE DEF srvVars, ptrVars, nodeVars, pwVars
<1>1. CASE Disconnect
  <2>1. ctl = "disconnect" /\ ctl' = "loop" /\ UNCHANGED <<pw, event, bound>>
    BY <1>1 DEF Disconnect
  <2> QED BY <2>1, AtDisconnect DEF Late, CoreKinds
<1>2. CASE StopLoop
  BY <1>2 DEF StopLoop, LoopFree, Goto, Late
<1>3. CASE Dispatch
  <2>1. core /\ ctl' = ctl
    BY <1>3 DEF Dispatch
  <2>2. ctl \notin Ended
    BY <2>1 DEF IndInv, Places, At, Ended
  <2> QED BY <2>1, <2>2 DEF Late, Ended
<1>4. CASE \/ CoreEvent \/ BindMetadata
           \/ \E n \in Nodes : on_registry_global(n) \/ on_node_info(n) \/ on_node_proxy_removed(n)
  <2>1. ctl' = ctl /\ pw' = "poll"
    BY <1>4 DEF CoreEvent, BindMetadata, on_registry_global, on_node_info, on_node_proxy_removed
  <2> QED BY <2>1 DEF Late
<1>5. CASE Enter \/ Server \/ UNCHANGED vars
  <2>1. UNCHANGED <<ctl, event, bound>> /\ (pw = "poll" => pw' = "poll")
    BY <1>5 DEF Enter, Server, Appear, Vanish, NodeInfo, CoreError, ServerEvent, vars
  <2> QED BY <2>1 DEF Late
<1>6. CASE Wake
  <2>1. ctl' = next /\ ctl = "wait"
    BY <1>6 DEF Wake
  <2> QED BY <2>1 DEF IndInv, Places, Ended, Late
<1>7. CASE \/ \E then \in {"idle", "list"} : setup_core(then)
           \/ SetupFails \/ CreateObject \/ SetMetadata \/ Stop \/ list_sinks
           \/ \E n \in Nodes : DestroyRemoved(n)
           \/ ClearStreams \/ DestroyObjects \/ TakeNodes \/ NextNode \/ LockToClaim \/ Claim
           \/ free_node_info \/ destroy_proxy_sync \/ DestroyMetadata \/ DestroyRegistry
  <2>1. ctl' \notin {"loop", "stopped"}
    BY <1>7 DEF setup_core, SetupFails, CreateObject, SetMetadata, Stop, list_sinks, DestroyRemoved,
                ClearStreams, DestroyObjects, TakeNodes, NextNode, LockToClaim, Claim,
                free_node_info, destroy_proxy_sync, DestroyMetadata, DestroyRegistry, Goto,
                SyncAndWait
  <2> QED BY <2>1 DEF Late
<1> QED BY <1>1, <1>2, <1>3, <1>4, <1>5, <1>6, <1>7 DEF Next, Control, PwThread, stop

\* The invariant the others follow from.
THEOREM Invariance == Spec => []IndInv
BY InitInd, NextInd, PTL DEF Spec

\* Every variable keeps its type, and a signal is only ever pending for a control thread that is
\* in pw_thread_loop_wait.
THEOREM TypeCorrect == Spec => []TypeOK
<1>1. IndInv => TypeOK
  BY DEF IndInv
<1> QED BY <1>1, Invariance, PTL

LEMMA LateInvariance == Spec => []Late
<1>1. Init => Late
  BY DEF Init, Late
<1>2. IndInv /\ Late /\ [Next]_vars => Late'
  BY LateStep
<1> QED BY <1>1, <1>2, Invariance, PTL DEF Spec

\* Neither stop, nor a queued task, nor a callback of PipeWire's thread uses a NodeData that was
\* freed with its proxy, and stop never frees a node's description, without any lock, while a
\* callback is at it under state_mutex_: for any number of nodes, objects, events and errors.  The
\* one exception is a callback that pw_core_disconnect runs into, of a node that was bound since
\* stop took its list: that node is freed under it.
THEOREM FreedOnce == Spec => []NoUseAfterFree
<1>1. IndInv /\ Late => NoUseAfterFree
  <2> SUFFICES ASSUME IndInv, Late PROVE NoUseAfterFree
    OBVIOUS
  <2> USE DEF IndInv, Before, WithNode, Ended, Stopping
  <2>1. ctl \in WithNode => At = ctl /\ node \in Nodes
    BY DEF At, Places
  <2>2. ctl \in WithNode => Live(node)
    BY <2>1 DEF Owned, Kept
  <2>3. ~shutting_down => \A n \in tasks : Live(n)
    BY DEF Places, Owned, Kept, Live, TypeOK
  <2>4. ASSUME pw # "poll", event.kind \in {"info", "removed"}
        PROVE  Live(event.node) \/ (ctl = "loop" /\ event.node \in bound)
    <3>1. CASE At \notin Ended
      BY <2>4, <3>1 DEF Delivering
    <3>2. CASE At \in Ended
      BY <2>4, <3>2 DEF Late, At, Places
    <3> QED BY <3>1, <3>2
  <2>5. ctl = "free" => data[node].info = "set"
    BY <2>1 DEF Owned, Kept
  <2>6. ctl = "free" => ~(pw = "body" /\ event.node = node)
    BY DEF Delivering
  <2> QED BY <2>2, <2>3, <2>4, <2>5, <2>6 DEF NoUseAfterFree
<1> QED BY <1>1, Invariance, LateInvariance, PTL

\* What stop leaves to pw_core_disconnect is what it cannot know of: nodes announced since it took
\* the list, and removed nodes whose task will not run; and the disconnect, which does not take
\* the loop lock, can only run into a callback of the core or of such a node.
THEOREM CleansUp == Spec => []StopCleansUp
<1>1. IndInv => StopCleansUp
  <2> SUFFICES ASSUME IndInv PROVE StopCleansUp
    OBVIOUS
  <2>1. CASE ctl \in Ended
    BY <2>1 DEF IndInv, Rest, At, StopCleansUp, Ended
  <2>2. CASE ctl = "disconnect"
    BY <2>2, AtDisconnect DEF StopCleansUp
  <2> QED BY <2>1, <2>2 DEF StopCleansUp, Ended
<1> QED BY <1>1, Invariance, PTL

\* When list_sinks reads the nodes and no core error has woken it early, it has bound every node
\* that was there before the router and still is: its waits end with answers that come after the
\* registry's list.
THEOREM Lists == Spec => []ListIsComplete
<1>1. IndInv => ListIsComplete
  BY DEF IndInv, Complete, Coming, ListIsComplete, At, Before
<1> QED BY <1>1, Invariance, PTL
=============================================================================

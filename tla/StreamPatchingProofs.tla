------------------------- MODULE StreamPatchingProofs -------------------------
(***************************************************************************)
(* Streams are recorded, given back and left alone as they should, for any *)
(* number of streams, sinks, reconnects and ticks and any thresholds of    *)
(* the loop guard.  Moved says how patched_streams_ and the metadata       *)
(* differ while the worker is between the two; Calm says that a stream of  *)
(* a name with one stream at a time is never both queued and suppressed.   *)
(***************************************************************************)
EXTENDS StreamPatching, TLAPS

\* patched_streams_ is ahead of the metadata while a target is set, and behind it while the
\* targets are cleared.
Moved ==
  /\ wk.pc \notin {"set", "clear"} => meta = patched
  /\ wk.pc = "set" => /\ meta = patched \ {wk.stream} /\ wk.stream \in DOMAIN streams
                      /\ wk.stream \in alive => wk.stream \in patched
  /\ wk.pc = "clear" => meta \subseteq wk.todo
  /\ wk.pc \in {"clear", "relink", "link", "rollback", "stopped"} => patched = {}

\* Queued patches are of streams there have been; with one stream at a time under a name, none
\* of a stream that is still there is of a suppressed name.
Queued == {tasks[i] : i \in DOMAIN tasks}
Calm ==
  /\ Queued \subseteq DOMAIN streams
  /\ lim.onePerName =>
       /\ \A s, t \in alive : NameOf(s) = NameOf(t) => s = t
       /\ \A s \in alive \cap Queued : ~Suppressed(NameOf(s))

IndInv == TypeOK /\ Moved /\ Calm

-------------------------------------------------------------------------------
(* Types *)

Stream == [name : Names, target : Targets]
Times == {Never} \cup 0..MaxTime
Guard == [rapid : Nat, last : Times, until : Nat]
Pcs == {"idle", "set", "clear", "relink", "link", "rollback", "list", "all", "stopped"}
Work == [pc : Pcs, todo : SUBSET Serials, stream : Serials \cup {0}, old : Sinks,
         stop : BOOLEAN, unlinked : BOOLEAN]

\* A new stream gets the next serial; a stream that changes its target keeps its name.
LEMMA StreamFacts ==
  ASSUME NEW q \in Seq(Stream), NEW x \in Stream
  PROVE /\ Append(q, x) \in Seq(Stream) /\ Len(Append(q, x)) = Len(q) + 1
        /\ DOMAIN Append(q, x) = DOMAIN q \cup {Len(q) + 1} /\ Len(q) + 1 \notin DOMAIN q
        /\ \A i \in DOMAIN q : Append(q, x)[i] = q[i]
        /\ Append(q, x)[Len(q) + 1] = x
OBVIOUS

LEMMA RetargetFacts ==
  ASSUME NEW q \in Seq(Stream), NEW s \in DOMAIN q, NEW t \in Targets
  PROVE LET r == [q EXCEPT ![s].target = t] IN
        /\ r \in Seq(Stream) /\ Len(r) = Len(q) /\ DOMAIN r = DOMAIN q
        /\ \A i \in DOMAIN q : r[i].name = q[i].name
<1> DEFINE r == [q EXCEPT ![s].target = t]
<1>1. DOMAIN q = 1..Len(q) /\ Len(q) \in Nat /\ DOMAIN r = DOMAIN q
  OBVIOUS
<1>2. ASSUME NEW i \in DOMAIN q PROVE r[i] \in Stream /\ r[i].name = q[i].name
  <2>1. q[i] \in Stream
    OBVIOUS
  <2>2. r[i] = IF i = s THEN [q[i] EXCEPT !.target = t] ELSE q[i]
    OBVIOUS
  <2>3. [q[i] EXCEPT !.target = t] \in Stream /\ [q[i] EXCEPT !.target = t].name = q[i].name
    BY <2>1 DEF Stream
  <2> HIDE DEF r
  <2> QED BY <2>1, <2>2, <2>3
<1>3. r \in [1..Len(q) -> Stream]
  BY <1>1, <1>2
<1> QED BY <1>1, <1>2, <1>3

\* The guard of a name after a removal.
LEMMA GuardFacts ==
  ASSUME NEW g \in Guard, NEW at \in 0..MaxTime, now \in 0..MaxTime
  PROVE guard_removal(g, at) \in Guard
<1> USE PatchingAssumption
<1>1. /\ RapidWindow \in Nat /\ SuppressFor \in Nat /\ MaxTime \in Nat /\ now \in Nat
      /\ g.rapid \in Nat /\ g.until \in Nat /\ g.last \in Times
  BY DEF Guard
<1>2. now \in Times /\ now + SuppressFor \in Nat /\ g.rapid + 1 \in Nat
  BY <1>1 DEF Times
<1> QED BY <1>1, <1>2 DEF guard_removal, Guard

Typed ==
  /\ streams \in Seq(Stream) /\ Len(streams) <= MaxStreams
  /\ alive \subseteq DOMAIN streams /\ news \subseteq alive
  /\ info \in [Serials -> Targets] /\ selected \in Sinks
  /\ patched \subseteq alive /\ pending \subseteq alive
  /\ recent \in [Serials -> Times] /\ guard \in [Names -> Guard]
  /\ tasks \in Seq(Serials) /\ meta \subseteq alive /\ wk \in Work
  /\ lim \in Limits /\ now \in 0..lim.ticks
  /\ reconnects \in 0..lim.reconnects /\ retargets \in 0..lim.retargets

LEMMA Types == TypeOK <=> Typed
BY DEF TypeOK, Typed, Stream, Times, Guard, Pcs, Work

LEMMA Bounded ==
  ASSUME Typed
  PROVE /\ lim.streams \in 0..MaxStreams /\ lim.ticks \in 0..MaxTime
        /\ lim.reconnects \in Nat /\ lim.retargets \in Nat /\ lim.sinks \subseteq Sinks
        /\ lim.onePerName \in BOOLEAN
        /\ MaxStreams \in Nat /\ MaxTime \in Nat /\ now \in 0..MaxTime /\ now \in Nat
        /\ DOMAIN streams \subseteq Serials /\ Len(streams) \in Nat
        /\ \A s \in DOMAIN streams : NameOf(s) \in Names /\ streams[s].target \in Targets
<1>1. lim \in Limit /\ MaxStreams \in Nat /\ MaxTime \in Nat
  BY PatchingAssumption DEF Typed
<1>2. /\ lim.streams \in 0..MaxStreams /\ lim.ticks \in 0..MaxTime
      /\ lim.reconnects \in Nat /\ lim.retargets \in Nat /\ lim.sinks \subseteq Sinks
      /\ lim.onePerName \in BOOLEAN
  BY <1>1 DEF Limit
<1>3. now \in 0..MaxTime /\ now \in Nat
  BY <1>1, <1>2 DEF Typed
<1>4. DOMAIN streams \subseteq Serials /\ Len(streams) \in Nat
  BY <1>1 DEF Typed, Serials
<1>5. \A s \in DOMAIN streams : NameOf(s) \in Names /\ streams[s].target \in Targets
  <2> SUFFICES ASSUME NEW s \in DOMAIN streams
               PROVE NameOf(s) \in Names /\ streams[s].target \in Targets
    OBVIOUS
  <2>1. streams[s] \in Stream
    BY DEF Typed
  <2> QED BY <2>1 DEF Stream, NameOf
<1> QED BY <1>1, <1>2, <1>3, <1>4, <1>5

LEMMA CallbackTypes ==
  ASSUME Typed,
         \/ \E k \in Names, t \in lim.sinks \cup {Anywhere} : on_registry_global(k, t)
         \/ \E s \in alive, t \in lim.sinks \cup {Anywhere} : Retarget(s, t)
         \/ \E s \in Serials : on_node_info(s) \/ on_node_proxy_removed(s)
  PROVE Typed'
<1> USE Bounded DEF bounds
<1>1. ASSUME NEW k \in Names, NEW t \in lim.sinks \cup {Anywhere}, on_registry_global(k, t)
      PROVE Typed'
  <2>1. [name |-> k, target |-> t] \in Stream
    BY DEF Stream, Targets
  <2>2. /\ streams' = Append(streams, [name |-> k, target |-> t])
        /\ alive' = alive \cup {Len(streams) + 1} /\ news' = news \cup {Len(streams) + 1}
        /\ Len(streams) < lim.streams
    BY <1>1 DEF on_registry_global
  <2>3. /\ streams' \in Seq(Stream) /\ Len(streams') = Len(streams) + 1
        /\ DOMAIN streams' = DOMAIN streams \cup {Len(streams) + 1}
    BY <2>1, <2>2, StreamFacts DEF Typed
  <2>4. Len(streams') <= MaxStreams
    BY <2>2, <2>3
  <2> QED BY <1>1, <2>2, <2>3, <2>4 DEF Typed, on_registry_global
<1>2. ASSUME NEW s \in alive, NEW t \in lim.sinks \cup {Anywhere}, Retarget(s, t)
      PROVE Typed'
  <2>1. t \in Targets /\ s \in DOMAIN streams
    BY DEF Targets, Typed
  <2>2. streams' \in Seq(Stream) /\ Len(streams') = Len(streams) /\ DOMAIN streams' = DOMAIN streams
    BY <1>2, <2>1, RetargetFacts DEF Typed, Retarget
  <2>3. retargets' \in 0..lim.retargets
    BY <1>2 DEF Typed, Retarget
  <2> QED BY <1>2, <2>1, <2>2, <2>3 DEF Typed, Retarget
<1>3. ASSUME NEW s \in Serials, on_node_info(s) PROVE Typed'
  <2>1. s \in alive /\ streams[s].target \in Targets
    BY <1>3 DEF Typed, on_node_info
  <2>2. info' \in [Serials -> Targets]
    BY <1>3, <2>1 DEF Typed, on_node_info
  <2>3. tasks' \in Seq(Serials)
    <3>1. Append(tasks, s) \in Seq(Serials) /\ tasks \in Seq(Serials)
      BY DEF Typed
    <3> QED BY <1>3, <3>1 DEF on_node_info
  <2>4. pending' \subseteq alive /\ news' \subseteq alive
    BY <1>3, <2>1 DEF Typed, on_node_info
  <2> QED BY <1>3, <2>2, <2>3, <2>4 DEF Typed, on_node_info
<1>4. ASSUME NEW s \in Serials, on_node_proxy_removed(s) PROVE Typed'
  <2>1. recent' \in [Serials -> Times] /\ info' \in [Serials -> Targets]
    <3>1. Never \in Times /\ Anywhere \in Targets
      BY DEF Times, Targets
    <3> QED BY <1>4, <3>1 DEF Typed, on_node_proxy_removed
  <2>2. guard' \in [Names -> Guard]
    <3>1. CASE recent[s] = Never
      BY <1>4, <3>1 DEF Typed, on_node_proxy_removed
    <3>2. CASE recent[s] # Never
      <4>1. recent[s] \in 0..MaxTime /\ NameOf(s) \in Names
        BY <1>4, <3>2 DEF Typed, on_node_proxy_removed, Times
      <4>2. guard_removal(guard[NameOf(s)], recent[s]) \in Guard
        BY <4>1, GuardFacts DEF Typed
      <4> QED BY <1>4, <3>2, <4>1, <4>2 DEF Typed, on_node_proxy_removed
    <3> QED BY <3>1, <3>2
  <2>3. alive' = alive \ {s} /\ news' = news \ {s} /\ patched' = patched \ {s}
        /\ pending' = pending \ {s} /\ meta' = meta \ {s}
    BY <1>4 DEF on_node_proxy_removed
  <2> QED BY <1>4, <2>1, <2>2, <2>3 DEF Typed, on_node_proxy_removed
<1> QED BY <1>1, <1>2, <1>3, <1>4

LEMMA WorkerTypes ==
  ASSUME Typed, Worker \/ Reconnect \/ Stop \/ Tick \/ UNCHANGED vars
  PROVE Typed'
<1> USE Bounded DEF bounds
<1>0. /\ wk \in Work /\ wk.todo \subseteq Serials /\ alive \subseteq Serials
      /\ patched \subseteq Serials
  BY DEF Typed, Work
<1>a. ASSUME NEW s \in Serials, NEW next \in Work, patch_stream(s, next)
      PROVE wk' \in Work /\ patched' \subseteq alive /\ recent' \in [Serials -> Times]
  <2>1. [next EXCEPT !.pc = "set", !.stream = s] \in Work
    BY DEF Work, Pcs
  <2>2. now \in Times
    BY DEF Times
  <2> QED BY <1>a, <2>1, <2>2 DEF Typed, patch_stream
<1>1. CASE RunPatch
  <2>1. tasks \in Seq(Serials) /\ tasks # <<>>
    BY <1>1 DEF Typed, RunPatch
  <2>2. Tail(tasks) \in Seq(Serials) /\ Head(tasks) \in Serials
    BY <2>1
  <2>3. wk' \in Work /\ patched' \subseteq alive /\ recent' \in [Serials -> Times]
    BY <1>0, <1>1, <1>a, <2>2 DEF RunPatch
  <2> QED BY <1>1, <2>2, <2>3 DEF Typed, RunPatch
<1>2. CASE set_metadata_target_node
  <2>1. wk' \in Work
    <3>1. \A c \in Pcs : [wk EXCEPT !.pc = c, !.stream = 0] \in Work
      BY <1>0 DEF Work
    <3> QED BY <1>2, <3>1 DEF set_metadata_target_node, Pcs
  <2> QED BY <1>2, <2>1 DEF Typed, set_metadata_target_node
<1>3. CASE ClearDone \/ RollBack \/ RollbackFails \/ LinkUp
  <2>1. wk' \in Work
    <3>1. \A c \in Pcs : /\ [wk EXCEPT !.pc = c] \in Work
                         /\ [wk EXCEPT !.pc = c, !.unlinked = TRUE] \in Work
      BY <1>0 DEF Work
    <3> QED BY <1>3, <3>1 DEF ClearDone, RollBack, RollbackFails, LinkUp, Pcs
  <2>2. selected' \in Sinks
    BY <1>0, <1>3 DEF Typed, Work, ClearDone, RollBack, RollbackFails, LinkUp
  <2> QED BY <1>3, <2>1, <2>2 DEF Typed, ClearDone, RollBack, RollbackFails, LinkUp
<1>4. CASE \E sink \in lim.sinks : Relink(sink)
  <2>1. PICK sink \in lim.sinks : Relink(sink)
    BY <1>4
  <2>2. wk' \in Work
    <3>1. [wk EXCEPT !.pc = "link", !.old = selected] \in Work
      BY <1>0 DEF Typed, Work, Pcs
    <3> QED BY <2>1, <3>1 DEF Relink
  <2> QED BY <2>1, <2>2 DEF Typed, Relink
<1>5. CASE ListStreams
  <2>1. wk' \in Work
    <3> DEFINE todo == {s \in alive : stream_targets_selected_sink(s, selected)}
    <3>1. todo \in SUBSET Serials
      BY <1>0
    <3>2. wk' = [wk EXCEPT !.pc = IF todo = {} THEN "idle" ELSE "all", !.todo = todo]
      BY <1>5 DEF ListStreams
    <3> HIDE DEF todo
    <3>3. \A c \in Pcs : [wk EXCEPT !.pc = c, !.todo = todo] \in Work
      BY <1>0, <3>1 DEF Work
    <3> QED BY <3>2, <3>3 DEF Pcs
  <2> QED BY <1>5, <2>1 DEF Typed, ListStreams
<1>6. ASSUME NEW s \in Serials, clear_metadata_target_node(s) PROVE Typed'
  <2>1. wk' \in Work
    <3>1. [wk EXCEPT !.todo = wk.todo \ {s}] \in Work
      BY <1>0 DEF Work
    <3> QED BY <1>6, <3>1 DEF clear_metadata_target_node
  <2> QED BY <1>6, <2>1 DEF Typed, clear_metadata_target_node
<1>7. ASSUME NEW s \in Serials, PatchListed(s) PROVE Typed'
  <2> DEFINE left == wk.todo \ {s}
             next == [wk EXCEPT !.pc = IF left = {} THEN "idle" ELSE "all", !.todo = left]
  <2>1. next \in Work
    <3>1. \A c \in Pcs : [wk EXCEPT !.pc = c, !.todo = wk.todo \ {s}] \in Work
      BY <1>0 DEF Work
    <3> QED BY <3>1 DEF Pcs
  <2>2. patch_stream(s, next)
    BY <1>7 DEF PatchListed
  <2> HIDE DEF next
  <2>3. wk' \in Work /\ patched' \subseteq alive /\ recent' \in [Serials -> Times]
    BY <1>a, <2>1, <2>2
  <2> QED BY <1>7, <2>3 DEF Typed, PatchListed
<1>8. CASE Reconnect \/ Stop
  <2>1. PICK b \in BOOLEAN : clear_patched_streams(b)
    BY <1>8 DEF Reconnect, Stop
  <2>2. wk' \in Work
    <3>1. [wk EXCEPT !.pc = "clear", !.todo = patched, !.stop = b] \in Work
      BY <1>0 DEF Work, Pcs
    <3> QED BY <2>1, <3>1 DEF clear_patched_streams
  <2>3. recent' \in [Serials -> Times]
    BY <2>1 DEF clear_patched_streams, Times
  <2>4. reconnects' \in 0..lim.reconnects /\ retargets' = retargets /\ lim' = lim
    <3>1. reconnects \in 0..lim.reconnects
      BY DEF Typed
    <3>2. lim.reconnects \in Nat
      OBVIOUS
    <3>3. CASE Reconnect
      BY ONLY <3>1, <3>2, <3>3 DEF Reconnect
    <3>4. CASE Stop
      BY <3>1, <3>4 DEF Stop
    <3> QED BY <1>8, <3>3, <3>4
  <2> QED BY <2>1, <2>2, <2>3, <2>4 DEF Typed, clear_patched_streams
<1>9. CASE Tick
  BY <1>9 DEF Tick, Typed
<1>10. CASE UNCHANGED vars
  BY <1>10 DEF vars, Typed
<1> QED BY <1>1, <1>2, <1>3, <1>4, <1>5, <1>6, <1>7, <1>8, <1>9, <1>10 DEF Worker

-------------------------------------------------------------------------------
(* The record of moved streams *)

LEMMA MovedStep ==
  ASSUME Typed, Moved, [Next]_vars
  PROVE Moved'
<1> USE DEF bounds
<1>0. /\ alive \subseteq DOMAIN streams /\ patched \subseteq alive /\ meta \subseteq alive
      /\ wk \in Work
  BY DEF Typed
<1>1. ASSUME NEW k \in Names, NEW t \in lim.sinks \cup {Anywhere}, on_registry_global(k, t)
      PROVE Moved'
  <2>1. [name |-> k, target |-> t] \in Stream /\ streams \in Seq(Stream)
    BY Bounded DEF Stream, Targets, Typed
  <2>2. /\ DOMAIN streams' = DOMAIN streams \cup {Len(streams) + 1}
        /\ Len(streams) + 1 \notin DOMAIN streams
    BY <1>1, <2>1, StreamFacts DEF on_registry_global
  <2> QED BY <1>1, <2>2 DEF Moved, on_registry_global
<1>2. ASSUME NEW s \in alive, NEW t \in lim.sinks \cup {Anywhere}, Retarget(s, t)
      PROVE Moved'
  <2>1. DOMAIN streams' = DOMAIN streams
    BY <1>2 DEF Retarget
  <2> QED BY <1>2, <2>1 DEF Moved, Retarget
<1>3. ASSUME NEW s \in Serials, on_node_info(s) PROVE Moved'
  BY <1>3 DEF Moved, on_node_info
<1>4. ASSUME NEW s \in Serials, on_node_proxy_removed(s) PROVE Moved'
  BY <1>4 DEF Moved, on_node_proxy_removed
<1>5. CASE Tick \/ UNCHANGED vars
  BY <1>5 DEF Moved, Tick, vars
<1>a. ASSUME NEW s, NEW next \in Work, patch_stream(s, next), next.pc \in {"idle", "all"},
             meta = patched, UNCHANGED <<streams, alive, meta>>
      PROVE Moved'
  <2>1. CASE s \in patched \/ s \notin alive
    BY <1>a, <2>1 DEF Moved, patch_stream
  <2>2. CASE s \notin patched /\ s \in alive
    <3>1. wk'.pc = "set" /\ wk'.stream = s /\ patched' = patched \cup {s}
      BY <1>a, <2>2 DEF patch_stream, Work
    <3> QED BY <1>0, <1>a, <2>2, <3>1 DEF Moved
  <2> QED BY <2>1, <2>2
<1>6. CASE RunPatch
  <2>1. wk.pc = "idle" /\ patch_stream(Head(tasks), wk) /\ UNCHANGED <<streams, alive, meta>>
    BY <1>6 DEF RunPatch
  <2>2. meta = patched
    BY <2>1 DEF Moved
  <2> QED BY <1>0, <1>a, <2>1, <2>2
<1>7. ASSUME NEW s \in Serials, PatchListed(s) PROVE Moved'
  <2> DEFINE left == wk.todo \ {s}
             next == [wk EXCEPT !.pc = IF left = {} THEN "idle" ELSE "all", !.todo = left]
  <2>1. next \in Work /\ next.pc \in {"idle", "all"}
    <3>1. \A c \in Pcs : /\ [wk EXCEPT !.pc = c, !.todo = wk.todo \ {s}] \in Work
                         /\ [wk EXCEPT !.pc = c, !.todo = wk.todo \ {s}].pc = c
      BY <1>0 DEF Work
    <3> QED BY <3>1 DEF Pcs
  <2>2. patch_stream(s, next) /\ UNCHANGED <<streams, alive, meta>> /\ wk.pc = "all"
    BY <1>7 DEF PatchListed
  <2>3. meta = patched
    BY <2>2 DEF Moved
  <2> HIDE DEF next
  <2> QED BY <1>a, <2>1, <2>2, <2>3
<1>8. CASE set_metadata_target_node
  <2>1. /\ wk.pc = "set" /\ wk'.pc \in {"idle", "all"} /\ UNCHANGED <<streams, alive, patched>>
        /\ meta' = meta \cup ({wk.stream} \cap alive)
    BY <1>0, <1>8 DEF set_metadata_target_node, Work
  <2> QED BY <1>0, <2>1 DEF Moved
<1>9. CASE Reconnect \/ Stop
  <2>1. /\ wk.pc = "idle" /\ wk'.pc = "clear" /\ wk'.todo = patched /\ patched' = {}
        /\ UNCHANGED <<streams, alive, meta>>
    BY <1>0, <1>9 DEF Reconnect, Stop, clear_patched_streams, Work
  <2> QED BY <2>1 DEF Moved
<1>10. ASSUME NEW s \in Serials, clear_metadata_target_node(s) PROVE Moved'
  <2>1. /\ wk.pc = "clear" /\ wk'.pc = "clear" /\ wk'.todo = wk.todo \ {s} /\ meta' = meta \ {s}
        /\ UNCHANGED <<streams, alive, patched>>
    BY <1>0, <1>10 DEF clear_metadata_target_node, Work
  <2> QED BY <2>1 DEF Moved
<1>11. CASE ClearDone
  <2>1. /\ wk.pc = "clear" /\ wk.todo = {} /\ wk'.pc \in {"stopped", "relink"}
        /\ UNCHANGED <<streams, alive, patched, meta>>
    BY <1>0, <1>11 DEF ClearDone, Work
  <2> QED BY <2>1 DEF Moved
<1>12. CASE (\E sink \in lim.sinks : Relink(sink)) \/ RollBack
  <2>1. /\ wk.pc \in {"relink", "link"} /\ wk'.pc \in {"link", "rollback"}
        /\ UNCHANGED <<streams, alive, patched, meta>>
    BY <1>0, <1>12 DEF Relink, RollBack, Work
  <2> QED BY <2>1 DEF Moved
<1>13. CASE RollbackFails \/ LinkUp \/ ListStreams
  <2>1. /\ wk.pc \in {"link", "rollback", "list"} /\ wk'.pc \in {"idle", "list", "all"}
        /\ UNCHANGED <<streams, alive, patched, meta>>
    BY <1>0, <1>13 DEF RollbackFails, LinkUp, ListStreams, Work
  <2> QED BY <2>1 DEF Moved
<1> QED BY <1>1, <1>2, <1>3, <1>4, <1>5, <1>6, <1>7, <1>8, <1>9, <1>10, <1>11, <1>12, <1>13
        DEF Next, Worker

-------------------------------------------------------------------------------
(* The queue of patches and the loop guard *)

LEMMA QueueFacts ==
  ASSUME NEW q \in Seq(Serials), NEW s \in Serials
  PROVE /\ {Append(q, s)[i] : i \in DOMAIN Append(q, s)} = {q[i] : i \in DOMAIN q} \cup {s}
        /\ q # <<>> => /\ {Tail(q)[i] : i \in DOMAIN Tail(q)} \subseteq {q[i] : i \in DOMAIN q}
                       /\ Head(q) \in {q[i] : i \in DOMAIN q}
<1>1. /\ DOMAIN Append(q, s) = DOMAIN q \cup {Len(q) + 1} /\ Append(q, s)[Len(q) + 1] = s
      /\ \A i \in DOMAIN q : Append(q, s)[i] = q[i]
  OBVIOUS
<1>2. ASSUME q # <<>>
      PROVE /\ \A i \in DOMAIN Tail(q) : i + 1 \in DOMAIN q /\ Tail(q)[i] = q[i + 1]
            /\ 1 \in DOMAIN q /\ Head(q) = q[1]
  BY <1>2
<1> QED BY <1>1, <1>2

LEMMA CalmStep ==
  ASSUME Typed, Calm, [Next]_vars
  PROVE Calm'
<1> USE DEF bounds
<1>0. /\ alive \subseteq DOMAIN streams /\ news \subseteq alive /\ tasks \in Seq(Serials)
      /\ streams \in Seq(Stream) /\ guard \in [Names -> Guard] /\ DOMAIN streams \subseteq Serials
      /\ \A s \in DOMAIN streams : NameOf(s) \in Names
  BY Bounded DEF Typed
<1>1. ASSUME NEW k \in Names, NEW t \in lim.sinks \cup {Anywhere}, on_registry_global(k, t)
      PROVE Calm'
  <2> DEFINE x == [name |-> k, target |-> t]
             u == Len(streams) + 1
  <2>1. x \in Stream /\ x.name = k
    BY Bounded DEF Stream, Targets, Typed
  <2>2. streams' = Append(streams, x) /\ alive' = alive \cup {u}
    BY <1>1 DEF on_registry_global
  <2>3. /\ DOMAIN streams' = DOMAIN streams \cup {u} /\ u \notin DOMAIN streams
        /\ \A s \in DOMAIN streams : streams'[s] = streams[s]
        /\ streams'[u].name = k
    BY <1>0, <2>1, <2>2, StreamFacts
  <2>4. UNCHANGED <<tasks, guard, now, lim>> /\ (lim.onePerName => \A s \in alive : NameOf(s) # k)
    BY <1>1 DEF on_registry_global
  <2> HIDE DEF u, x
  <2>5. Queued' = Queued /\ Queued \subseteq DOMAIN streams
    BY <2>4 DEF Queued, Calm
  <2> QED BY <1>0, <2>2, <2>3, <2>4, <2>5 DEF Calm, NameOf, Suppressed
<1>2. ASSUME NEW s \in alive, NEW t \in lim.sinks \cup {Anywhere}, Retarget(s, t)
      PROVE Calm'
  <2>1. t \in Targets /\ s \in DOMAIN streams
    BY <1>0, Bounded DEF Targets
  <2>2. /\ DOMAIN streams' = DOMAIN streams
        /\ \A i \in DOMAIN streams : streams'[i].name = streams[i].name
    BY <1>0, <1>2, <2>1, RetargetFacts DEF Retarget
  <2>3. UNCHANGED <<alive, tasks, guard, now, lim>>
    BY <1>2 DEF Retarget
  <2> QED BY <1>0, <2>2, <2>3 DEF Calm, Queued, NameOf, Suppressed
<1>3. ASSUME NEW s \in Serials, on_node_info(s) PROVE Calm'
  <2>1. UNCHANGED <<streams, alive, guard, now, lim>> /\ s \in alive
    BY <1>0, <1>3 DEF on_node_info
  <2>2. \/ tasks' = tasks
        \/ tasks' = Append(tasks, s) /\ ~Suppressed(NameOf(s))
    BY <1>3 DEF on_node_info, queues
  <2>3. Queued' = Queued \/ (Queued' = Queued \cup {s} /\ ~Suppressed(NameOf(s)))
    <3>1. {Append(tasks, s)[i] : i \in DOMAIN Append(tasks, s)} = Queued \cup {s}
      BY <1>0, QueueFacts DEF Queued
    <3>2. CASE tasks' = tasks
      BY <3>2 DEF Queued
    <3>3. CASE tasks' = Append(tasks, s) /\ ~Suppressed(NameOf(s))
      <4>1. Queued' = {Append(tasks, s)[i] : i \in DOMAIN Append(tasks, s)}
        BY <3>3 DEF Queued
      <4> QED BY <3>1, <3>3, <4>1
    <3> QED BY <2>2, <3>2, <3>3
  <2> QED BY <1>0, <2>1, <2>3 DEF Calm, NameOf, Suppressed
<1>4. ASSUME NEW s \in Serials, on_node_proxy_removed(s) PROVE Calm'
  <2>1. /\ UNCHANGED <<streams, tasks, now, lim>> /\ s \in alive /\ alive' = alive \ {s}
        /\ \A k \in Names : k # NameOf(s) => guard'[k] = guard[k]
    BY <1>0, <1>4 DEF on_node_proxy_removed
  <2>2. Queued' = Queued /\ \A r : NameOf(r)' = NameOf(r)
    BY <2>1 DEF Queued, NameOf
  <2>3. ASSUME lim.onePerName, NEW r \in alive', r \in Queued PROVE ~Suppressed(NameOf(r))'
    <3>1. r \in alive /\ s \in alive /\ r # s /\ NameOf(r) \in Names
      BY <1>0, <2>1, <2>3
    <3>2. NameOf(r) # NameOf(s) /\ ~Suppressed(NameOf(r))
      BY <2>3, <3>1 DEF Calm
    <3>3. guard'[NameOf(r)] = guard[NameOf(r)]
      BY <2>1, <3>1, <3>2
    <3> QED BY <2>1, <2>2, <3>2, <3>3 DEF Suppressed
  <2>4. \A r, t \in alive' : lim.onePerName /\ NameOf(r) = NameOf(t) => r = t
    BY <2>1 DEF Calm
  <2> QED BY <2>1, <2>2, <2>3, <2>4 DEF Calm
<1>5. CASE Tick
  <2>1. UNCHANGED <<streams, alive, tasks, guard, lim>> /\ now' = now + 1 /\ now \in Nat
    BY <1>5, Bounded DEF Tick
  <2>2. \A k \in Names : guard[k].until \in Nat
    BY <1>0 DEF Guard
  <2>3. \A k \in Names : ~Suppressed(k) => ~Suppressed(k)'
    BY <2>1, <2>2 DEF Suppressed
  <2>4. Queued' = Queued /\ \A s : NameOf(s)' = NameOf(s)
    BY <2>1 DEF Queued, NameOf
  <2> QED BY <1>0, <2>1, <2>3, <2>4 DEF Calm
<1>6. CASE RunPatch
  <2>1. UNCHANGED <<streams, alive, guard, now, lim>> /\ tasks # <<>> /\ tasks' = Tail(tasks)
    BY <1>6 DEF RunPatch
  <2>2. Queued' \subseteq Queued
    BY <1>0, <2>1, QueueFacts DEF Queued
  <2> QED BY <2>1, <2>2 DEF Calm, NameOf, Suppressed
<1>7. CASE \/ (Worker /\ ~RunPatch) \/ Reconnect \/ Stop \/ UNCHANGED vars
  <2>1. UNCHANGED <<streams, alive, guard, now, lim, tasks>>
    BY <1>7 DEF Worker, set_metadata_target_node, ClearDone, ListStreams, RollBack, RollbackFails,
                LinkUp, Relink, clear_metadata_target_node, PatchListed, Reconnect, Stop,
                clear_patched_streams, vars
  <2> QED BY <2>1 DEF Calm, Queued, NameOf, Suppressed
<1> QED BY <1>1, <1>2, <1>3, <1>4, <1>5, <1>6, <1>7 DEF Next

-------------------------------------------------------------------------------
LEMMA InitInd == Init => IndInv
<1> SUFFICES ASSUME Init PROVE IndInv
  OBVIOUS
<1> USE PatchingAssumption DEF Init
<1>1. lim \in Limit /\ MaxStreams \in Nat /\ MaxTime \in Nat /\ RapidWindow \in Nat
  OBVIOUS
<1>2. /\ lim.ticks \in Nat /\ lim.reconnects \in Nat /\ lim.retargets \in Nat
      /\ lim.sinks \subseteq Sinks
  BY <1>1 DEF Limit
<1>3. Never \in Times /\ Anywhere \in Targets /\ selected \in Sinks
  BY <1>2 DEF Times, Targets
<1>4. wk \in Work /\ guard \in [Names -> Guard] /\ recent \in [Serials -> Times]
  BY <1>3 DEF Work, Pcs, Guard
<1>5. streams \in Seq(Stream) /\ Len(streams) = 0 /\ DOMAIN streams = {} /\ tasks \in Seq(Serials)
  OBVIOUS
<1>6. Typed
  BY <1>1, <1>2, <1>3, <1>4, <1>5 DEF Typed
<1>7. Moved /\ Calm
  BY <1>5 DEF Moved, Calm, Queued
<1> QED BY <1>6, <1>7, Types DEF IndInv

LEMMA NextInd == IndInv /\ [Next]_vars => IndInv'
<1> SUFFICES ASSUME IndInv, [Next]_vars PROVE IndInv'
  OBVIOUS
<1>1. Typed /\ Moved /\ Calm
  BY Types DEF IndInv
<1>2. Typed'
  BY <1>1, CallbackTypes, WorkerTypes DEF Next
<1>3. TypeOK'
  BY <1>2 DEF TypeOK, Typed, Stream, Times, Guard, Pcs, Work
<1> QED BY <1>1, <1>2, <1>3, MovedStep, CalmStep DEF IndInv

\* A patch taken from the queue is of a stream whose name is not suppressed: patch_stream sets
\* a target only for a stream that is still there, and Calm speaks of those.
LEMMA PatchNotSuppressed ==
  ASSUME IndInv, [Next]_vars, lim.onePerName, wk.pc = "idle", wk'.pc = "set"
  PROVE ~Suppressed(NameOf(wk'.stream))
<1>1. Typed /\ Calm /\ wk \in Work
  BY Types DEF IndInv, Typed
<1>2. RunPatch
  <2>1. \/ RunPatch \/ ~(wk.pc = "idle") \/ wk' = wk \/ wk'.pc = "clear"
    BY <1>1 DEF Next, vars, Worker, on_registry_global, Retarget, on_node_info,
                on_node_proxy_removed, Tick, set_metadata_target_node, ClearDone, ListStreams,
                RollBack, RollbackFails, LinkUp, Relink, clear_metadata_target_node,
                PatchListed, Reconnect, Stop, clear_patched_streams, Work
  <2> QED BY <2>1
<1>3. tasks # <<>> /\ patch_stream(Head(tasks), wk)
  BY <1>2 DEF RunPatch
<1>4. Head(tasks) \in alive /\ wk'.stream = Head(tasks)
  BY <1>1, <1>3 DEF patch_stream, Work
<1>5. tasks \in Seq(Serials) /\ 1 \in DOMAIN tasks /\ Head(tasks) = tasks[1]
  BY <1>1, <1>3 DEF Typed
<1>6. Head(tasks) \in Queued
  BY <1>5 DEF Queued
<1> QED BY <1>1, <1>4, <1>6 DEF Calm

\* Everything below rests on this: the record and the metadata differ only in what the worker
\* is in the middle of, and no live stream of a suppressed name is queued.
THEOREM Invariance == Spec => []IndInv
BY InitInd, NextInd, PTL DEF Spec

\* The maps and sets of the router hold what their declarations say, and the sets
\* on_node_proxy_removed clears hold only streams that exist.
THEOREM TypeCorrect == Spec => []TypeOK
BY Invariance, PTL DEF IndInv

\* Whenever the worker rests, exactly the streams in patched_streams_ have been moved to the
\* virtual sink, whatever PipeWire's thread removed between patch_stream's unlock and the
\* setting of the metadata.
THEOREM RecordRight == Spec => []RecordIsRight
<1>1. IndInv => RecordIsRight
  BY DEF IndInv, Moved, RecordIsRight
<1> QED BY <1>1, Invariance, PTL

\* stop gives every stream back: clear_patched_streams swaps the set out, clears one target
\* after the other, and none that was moved is missing from what it swapped out.
THEOREM StopRestores == Spec => []StopRestoresStreams
<1>1. IndInv => StopRestoresStreams
  BY DEF IndInv, Moved, StopRestoresStreams
<1> QED BY <1>1, Invariance, PTL

\* The loop guard breaks the recreate loop: a queued patch that run_due_tasks makes is never
\* of a suppressed name, although the guard is consulted only when the patch is queued.
THEOREM SuppressionKept == Spec => SuppressionHolds
<1>1. IndInv /\ [Next]_vars
        => [lim.onePerName /\ wk.pc = "idle" /\ wk'.pc = "set"
              => ~Suppressed(NameOf(wk'.stream))]_vars
  BY PatchNotSuppressed
<1> QED BY <1>1, Invariance, PTL DEF Spec, SuppressionHolds
=============================================================================

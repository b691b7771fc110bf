-------------------------- MODULE SinkRoutingProofs --------------------------
(***************************************************************************)
(* The chain is linked to the selected sink and to no other, and a sink    *)
(* chosen by hand is kept, for any number of sinks, default sink changes   *)
(* and reconnects, with and without faults.                                *)
(*                                                                         *)
(* ChainOnSelected alone is not inductive: a reconnect links the sink it   *)
(* remembers, not the selected one, and the callbacks may write the        *)
(* selected one.  The invariant says that what is remembered is what was   *)
(* selected, and that a selection with a serial is never written by a      *)
(* callback.                                                               *)
(***************************************************************************)
EXTENDS SinkRouting, TLAPS

\* A sink that had a node: it has a serial, and its owner is known.
Known(s) == s.serial \in DOMAIN owner

\* From the moment start has found a sink there is one with a serial.
Resolved ==
  /\ selected.serial # 0 => Known(selected)
  /\ pc = "found" => Known(seen)
  /\ pc \in {"lock", "link", "up", "stopped"} => Known(selected)
  /\ locked => pc \in {"link", "up", "failed", "stopped"} /\ Known(selected)
  /\ pc \in {"link", "up", "stopped"} => locked

\* A reconnect that has taken the chain down has selected what it is about to link.
Remembered ==
  /\ rc.pc # "idle" => pc = "up" /\ Known(rc.new)
  /\ rc.pc \in {"connect", "rollback"} => linked = 0 /\ Known(rc.old)
  /\ rc.pc = "connect" => selected = rc.new
  /\ rc.pc = "rollback" => selected = rc.old

\* Only a session that is up has a chain.
Linked == linked # 0 => pc = "up" /\ linked = selected.serial

\* With a selector nothing is ever reconnected, and only sinks of that name are chosen.
Pinned ==
  selector # NoName =>
    /\ tasks = <<>> /\ rc.pc = "idle"
    /\ pc = "found" => owner[seen.serial] = selector
    /\ pc \in {"lock", "link", "up"} => owner[selected.serial] = selector

IndInv == TypeOK /\ Resolved /\ Remembered /\ Linked /\ Pinned

\* A node that is present is a known sink.
LEMMA PresentKnown ==
  ASSUME TypeOK, NEW n \in present
  PROVE  /\ n \in DOMAIN owner /\ n \in Nat /\ n # 0 /\ owner[n] \in Sinks
         /\ Node(n) \in SinkInfo /\ Known(Node(n)) /\ Node(n).serial = n
BY DEF TypeOK, Node, SinkInfo, Known

\* A known sink has a serial other than 0.
LEMMA KnownSerial == ASSUME TypeOK, NEW s, Known(s) PROVE s.serial # 0
BY DEF TypeOK, Known

\* The router starts without a sink.
LEMMA InitInv == Init => IndInv
<1> SUFFICES ASSUME Init PROVE IndInv OBVIOUS
<1>1. TypeOK
  <2>1. NoSink \in SinkInfo BY DEF NoSink, SinkInfo
  <2>2. events \in Seq(Sinks) /\ owner \in Seq(Sinks) /\ Len(owner) = 0 /\ tasks \in Seq(Sinks)
        BY DEF Init
  <2>3. rc \in [pc : {"idle", "ports", "connect", "rollback"}, new : SinkInfo, old : SinkInfo]
        BY <2>1 DEF Init
  <2>4. changes \in 0..MaxChanges BY RoutingAssumption DEF Init
  <2>5. present \subseteq DOMAIN owner /\ Len(owner) <= MaxNodes
        BY <2>2, RoutingAssumption DEF Init
  <2> QED BY <2>1, <2>2, <2>3, <2>4, <2>5 DEF Init, TypeOK
<1>2. Resolved /\ Remembered /\ Linked /\ Pinned
      BY DEF Init, NoSink, Resolved, Remembered, Linked, Pinned
<1> QED BY <1>1, <1>2 DEF IndInv

\* What happens in PipeWire touches neither the selection nor the chain.
LEMMA WorldStep ==
  ASSUME IndInv,
         \/ \E name \in Sinks : DefaultChanges(name) \/ on_registry_global(name)
         \/ \E n \in present : on_node_proxy_removed(n)
  PROVE  IndInv'
<1> USE DEF IndInv
<1>1. UNCHANGED <<selector, selected, locked, pc, seen, tasks, rc, linked>>
      BY DEF DefaultChanges, on_registry_global, on_node_proxy_removed
<1>2. TypeOK'
  <2>1. CASE \E name \in Sinks : DefaultChanges(name)
    BY <2>1, RoutingAssumption DEF DefaultChanges, TypeOK
  <2>2. CASE \E name \in Sinks : on_registry_global(name)
    BY <2>2, RoutingAssumption DEF on_registry_global, TypeOK
  <2>3. CASE \E n \in present : on_node_proxy_removed(n)
    BY <2>3 DEF on_node_proxy_removed, TypeOK
  <2> QED BY <2>1, <2>2, <2>3
<1>3. \A n \in DOMAIN owner : n \in DOMAIN owner' /\ owner'[n] = owner[n]
  <2>1. CASE owner' = owner BY <2>1
  <2>2. CASE \E name \in Sinks : owner' = Append(owner, name) BY <2>2 DEF TypeOK
  <2> QED BY <2>1, <2>2 DEF DefaultChanges, on_registry_global, on_node_proxy_removed
<1>4. Resolved' BY <1>1, <1>3 DEF Resolved, Known
<1>5. Remembered' BY <1>1, <1>3 DEF Remembered, Known
<1>6. Linked' BY <1>1 DEF Linked
<1>7. Pinned' BY <1>1, <1>3 DEF Pinned, Resolved, Known
<1> QED BY <1>2, <1>4, <1>5, <1>6, <1>7

\* The callbacks write the selection only while it has no serial, or its name alone.
LEMMA CallbackStep == ASSUME IndInv, Callbacks PROVE IndInv'
<1> USE DEF IndInv
<1>1. CASE on_metadata_property
  <2>1. /\ UNCHANGED <<selector, owner, present, locked, pc, seen, rc, linked>>
        /\ selected'.serial = selected.serial
        BY <1>1 DEF on_metadata_property, TypeOK, SinkInfo
  <2>2. locked => selected' = selected BY <1>1 DEF on_metadata_property
  <2>3. selector # NoName => tasks' = tasks
        BY <1>1 DEF on_metadata_property
  <2>4. TypeOK'
    <3>1. Head(events) \in Sinks /\ Tail(events) \in Seq(Sinks) BY <1>1 DEF on_metadata_property, TypeOK
    <3>2. selected' \in SinkInfo BY <1>1, <3>1 DEF on_metadata_property, TypeOK, SinkInfo
    <3>3. tasks' \in Seq(Sinks)
      <4>1. tasks' = tasks \/ tasks' = Append(tasks, Head(events))
            BY <1>1 DEF on_metadata_property
      <4>2. tasks \in Seq(Sinks) BY DEF TypeOK
      <4>3. Append(tasks, Head(events)) \in Seq(Sinks) BY <3>1, <4>2
      <4> QED BY <4>1, <4>2, <4>3
    <3> QED BY <1>1, <3>1, <3>2, <3>3 DEF on_metadata_property, TypeOK
  <2>5. Resolved' BY <2>1 DEF Resolved, Known
  <2>6. Remembered' BY <2>1, <2>2 DEF Remembered, Resolved, Known
  <2>7. Linked' BY <2>1 DEF Linked
  <2>8. Pinned' BY <2>1, <2>3 DEF Pinned
  <2> QED BY <2>4, <2>5, <2>6, <2>7, <2>8
<1>2. CASE \E n \in present : on_node_info(n)
  <2> PICK n \in present : on_node_info(n) BY <1>2
  <2>1. /\ selected.serial = 0 /\ selected' = Node(n)
        /\ UNCHANGED <<envVars, locked, pc, seen, tasks, rc, linked, calm>>
        BY DEF on_node_info, envVars
  <2> USE DEF envVars
  <2>2. pc \notin {"lock", "link", "up", "stopped"} /\ ~locked
        BY <2>1, KnownSerial DEF Resolved
  <2>3. TypeOK' BY <2>1, PresentKnown DEF TypeOK
  <2>4. Resolved' BY <2>1, <2>2, PresentKnown DEF Resolved, Known
  <2>5. Remembered' BY <2>1, <2>2 DEF Remembered, Known
  <2>6. Linked' BY <2>1, <2>2 DEF Linked
  <2>7. Pinned' BY <2>1, <2>2 DEF Pinned
  <2> QED BY <2>3, <2>4, <2>5, <2>6, <2>7
<1> QED BY <1>1, <1>2 DEF Callbacks

\* start finds a sink that has a node, stores it, locks it and links it.
LEMMA StartStep ==
  ASSUME IndInv, wait_for_startup_sink \/ StartLinks \/ StartFails \/ Stop
  PROVE  IndInv'
<1> USE DEF IndInv
<1>1. CASE FindDefault
  <2> USE <1>1 DEF FindDefault, envVars
  <2>1. TypeOK' BY DEF TypeOK
  <2>2. Resolved' BY DEF Resolved, Known
  <2>3. Remembered' BY DEF Remembered, Known
  <2>4. Linked' BY DEF Linked
  <2>5. Pinned' BY DEF Pinned
  <2> QED BY <2>1, <2>2, <2>3, <2>4, <2>5
<1>2. CASE StoreSink
  <2> USE <1>2 DEF StoreSink, envVars
  <2>1. TypeOK' BY DEF TypeOK
  <2>2. Resolved' BY DEF Resolved, Known
  <2>3. Remembered' BY DEF Remembered, Known
  <2>4. Linked' BY DEF Linked
  <2>5. Pinned' BY DEF Pinned
  <2> QED BY <2>1, <2>2, <2>3, <2>4, <2>5
<1>3. CASE LockSink \/ StartFails
  <2> USE <1>3 DEF LockSink, StartFails, envVars
  <2>1. TypeOK' BY DEF TypeOK
  <2>2. Resolved' BY DEF Resolved, Known
  <2>3. Remembered' BY DEF Remembered, Known
  <2>4. Linked' BY DEF Linked
  <2>5. Pinned' BY DEF Pinned
  <2> QED BY <2>1, <2>2, <2>3, <2>4, <2>5
<1>4. CASE /\ pc = "wait" /\ pc' = "found"
           /\ UNCHANGED <<envVars, selected, locked, tasks, rc, linked, calm>>
           /\ \E n \in present : seen' = Node(n) /\ (selector # NoName => owner[n] = selector)
  <2> PICK n \in present : seen' = Node(n) /\ (selector # NoName => owner[n] = selector)
      BY <1>4
  <2> USE <1>4 DEF envVars
  <2>1. TypeOK' BY PresentKnown DEF TypeOK
  <2>2. Resolved' BY PresentKnown DEF Resolved, Known
  <2>3. Remembered' BY DEF Remembered, Known
  <2>4. Linked' BY DEF Linked
  <2>5. Pinned' BY PresentKnown DEF Pinned
  <2> QED BY <2>1, <2>2, <2>3, <2>4, <2>5
<1>5. CASE \E n \in present : FindSelector(n) \/ FindByName(n)
  BY <1>4, <1>5 DEF FindSelector, FindByName, find_node_by_name
<1>6. CASE WaitTimesOut /\ pc' = "failed"
  <2> USE <1>6 DEF WaitTimesOut, envVars
  <2>1. seen' = seen /\ pc = "wait" OBVIOUS
  <2>2. TypeOK' BY <2>1 DEF TypeOK
  <2>3. Resolved' BY DEF Resolved, Known
  <2>4. Remembered' BY DEF Remembered, Known
  <2>5. Linked' BY DEF Linked
  <2>6. Pinned' BY DEF Pinned
  <2> QED BY <2>2, <2>3, <2>4, <2>5, <2>6
<1>7. CASE WaitTimesOut /\ pc' # "failed"
  BY <1>4, <1>7 DEF WaitTimesOut
<1>8. CASE StartLinks
  <2> USE <1>8 DEF StartLinks, envVars
  <2>1. TypeOK' BY DEF TypeOK, SinkInfo
  <2>2. Resolved' BY DEF Resolved, Known
  <2>3. Remembered' BY DEF Remembered, Known
  <2>4. Linked' BY DEF Linked
  <2>5. Pinned' BY DEF Pinned
  <2> QED BY <2>1, <2>2, <2>3, <2>4, <2>5
<1>9. CASE Stop
  <2> USE <1>9 DEF Stop, envVars
  <2>1. TypeOK' BY DEF TypeOK
  <2>2. Resolved' BY DEF Resolved, Known
  <2>3. Remembered' BY DEF Remembered, Known
  <2>4. Linked' BY DEF Linked
  <2>5. Pinned' BY DEF Pinned
  <2> QED BY <2>1, <2>2, <2>3, <2>4, <2>5
<1> QED BY <1>1, <1>2, <1>3, <1>5, <1>6, <1>7, <1>8, <1>9 DEF wait_for_startup_sink

\* A reconnect links the sink it has selected: the new one, or the old one again.
LEMMA ReconnectStep == ASSUME IndInv, reconnect_to_sink PROVE IndInv'
<1> USE DEF IndInv
<1>1. CASE RcTake
  <2> USE <1>1 DEF RcTake, envVars
  <2>1. selector = NoName BY DEF Pinned
  <2>2. Tail(tasks) \in Seq(Sinks) BY DEF TypeOK
  <2>3. \/ rc' = rc
        \/ \E n \in present : rc' = [pc |-> "ports", new |-> Node(n), old |-> NoSink]
        BY DEF find_node_by_name
  <2>4. /\ rc' \in [pc : {"idle", "ports", "connect", "rollback"}, new : SinkInfo, old : SinkInfo]
        /\ rc'.pc \in {"idle", "ports"} /\ (rc'.pc = "ports" => Known(rc'.new))
        BY <2>3, PresentKnown, RoutingAssumption DEF TypeOK, NoSink, SinkInfo
  <2>5. TypeOK' BY <2>2, <2>4 DEF TypeOK
  <2>6. Resolved' BY DEF Resolved, Known
  <2>7. Remembered' BY <2>4 DEF Remembered, Known
  <2>8. Linked' BY DEF Linked
  <2>9. Pinned' BY <2>1 DEF Pinned
  <2> QED BY <2>5, <2>6, <2>7, <2>8, <2>9
<1>2. CASE RcNoPorts \/ RcConnected \/ RcRollback
  <2> USE <1>2 DEF RcNoPorts, RcConnected, RcRollback, RcIdle, envVars
  <2>1. /\ rc'.pc = "idle" /\ rc.pc # "idle" /\ rc' = [pc |-> "idle", new |-> NoSink, old |-> NoSink]
        /\ UNCHANGED <<selector, default, changes, events, owner, present, selected, locked, pc, seen,
                       tasks>>
        OBVIOUS
  <2>2. calm' \in BOOLEAN
    <3>1. calm' = FALSE \/ calm' = calm OBVIOUS
    <3> QED BY <3>1 DEF TypeOK
  <2>3. linked' \in {0, linked, selected.serial} /\ linked' \in Nat
        BY DEF Remembered, TypeOK, SinkInfo
  <2>4. TypeOK' BY <2>1, <2>3, <2>2, RoutingAssumption DEF TypeOK, NoSink, SinkInfo
  <2>5. Resolved' BY <2>1 DEF Resolved, Known
  <2>6. Remembered' BY <2>1 DEF Remembered
  <2>7. Linked' BY <2>1, <2>3 DEF Linked, Remembered
  <2>8. Pinned' BY <2>1 DEF Pinned
  <2> QED BY <2>4, <2>5, <2>6, <2>7, <2>8
<1>3. CASE RcTearDown
  <2> USE <1>3 DEF RcTearDown, envVars
  <2>1. pc = "up" /\ Known(rc.new) /\ Known(selected) /\ locked BY DEF Remembered, Resolved
  <2>2. rc'.pc = "connect" /\ rc'.old = selected /\ rc'.new = rc.new BY DEF TypeOK
  <2>3. TypeOK' BY DEF TypeOK
  <2>4. Resolved' BY <2>1 DEF Resolved, Known
  <2>5. Remembered' BY <2>1, <2>2 DEF Remembered, Known
  <2>6. Linked' BY DEF Linked
  <2>7. Pinned' BY DEF Pinned
  <2> QED BY <2>3, <2>4, <2>5, <2>6, <2>7
<1>4. CASE RcConnectFails
  <2> USE <1>4 DEF RcConnectFails, envVars
  <2>1. pc = "up" /\ Known(rc.new) /\ Known(rc.old) /\ locked /\ linked = 0
        BY DEF Remembered, Resolved
  <2>2. rc'.pc = "rollback" /\ rc'.old = rc.old /\ rc'.new = rc.new BY DEF TypeOK
  <2>3. TypeOK' BY DEF TypeOK
  <2>4. Resolved' BY <2>1 DEF Resolved, Known
  <2>5. Remembered' BY <2>1, <2>2 DEF Remembered, Known
  <2>6. Linked' BY <2>1 DEF Linked
  <2>7. Pinned' BY DEF Pinned
  <2> QED BY <2>3, <2>4, <2>5, <2>6, <2>7
<1> QED BY <1>1, <1>2, <1>3, <1>4 DEF reconnect_to_sink

\* The invariant holds of every behaviour.
LEMMA Invariant == Spec => []IndInv
<1>1. IndInv /\ [Next]_vars => IndInv'
  <2> SUFFICES ASSUME IndInv, [Next]_vars PROVE IndInv' OBVIOUS
  <2>1. CASE UNCHANGED vars
    BY <2>1 DEF IndInv, vars, TypeOK, Resolved, Remembered, Linked, Pinned, Known
  <2>2. CASE Next
    BY <2>2, WorldStep, CallbackStep, StartStep, ReconnectStep DEF Next
  <2> QED BY <2>1, <2>2
<1> QED BY <1>1, InitInv, PTL DEF Spec

\* The router's state is well typed for all sinks, selectors and numbers of changes.
THEOREM TypeCorrect == Spec => []TypeOK
BY Invariant, PTL DEF IndInv

\* The chain start and reconnect_to_sink leave behind is linked to selected_sink_.
THEOREM ChainFollowsSelection == Spec => []ChainOnSelected
<1>1. IndInv => ChainOnSelected BY DEF IndInv, Linked, ChainOnSelected
<1> QED BY <1>1, Invariant, PTL

\* Once startup_sink_locked_ is set, selected_sink_ is a sink that had a node.
THEOREM LockedSinkIsReal == Spec => []LockedIsResolved
<1>1. IndInv => LockedIsResolved BY DEF IndInv, Resolved, Known, LockedIsResolved
<1> QED BY <1>1, Invariant, PTL

\* on_metadata_property never moves a session off a sink that was selected by hand.
THEOREM SelectorIsKept == Spec => []SelectorPinned
<1>1. IndInv => SelectorPinned BY DEF IndInv, Linked, Pinned, SelectorPinned
<1> QED BY <1>1, Invariant, PTL
===============================================================================

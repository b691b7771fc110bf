---------------------------- MODULE DaemonIpcProofs ----------------------------
(***************************************************************************)
(* Proofs about the two halves of daemon_ipc.cpp.                          *)
(*                                                                         *)
(* The accept loop (DaemonServer), for any number of clients and any       *)
(* backlog: a client that waits in the backlog or is being read has not    *)
(* been handled, and no connection is in the backlog twice; so the answer  *)
(* a client gets is about its own request.                                 *)
(*                                                                         *)
(* The socket's path (DaemonSocket), for any number of daemons, with two   *)
(* invariants: one of daemons that start in order, which keeps the path    *)
(* with the one that serves while no probe errs, and one of races in which *)
(* nobody leaves, breaks or crashes, which says who is going to bind the   *)
(* path when it is free.                                                   *)
(***************************************************************************)
EXTENDS DaemonServer, DaemonSocket, TLAPS

-------------------------------------------------------------------------------
(* The accept loop *)

Serving == srv \in {"read", "handle", "reply"}

\* Everyone in the backlog waits for the first time, and is not the one being served.
Waiting == \A i \in DOMAIN queue :
  /\ client[queue[i]] = "connected" /\ queue[i] \notin handled
  /\ Serving => queue[i] # cur
  /\ \A j \in DOMAIN queue : queue[i] = queue[j] => i = j

\* The connection being served, and how far it is.
Current ==
  /\ Serving => cur \in Clients /\ client[cur] = "connected"
  /\ srv \in {"read", "handle"} => cur \notin handled
  /\ srv = "handle" => sent[cur] = "request"

\* Whoever was handled sent a request, and does not hear anything but an answer.
Handled ==
  /\ \A c \in handled : /\ sent[c] = "request"
                        /\ client[c] \in {"connected", "answered", "reset"}
  /\ \A c \in Clients : client[c] = "answered" => c \in handled

IndInv == TypeOK /\ Waiting /\ Current /\ Handled

LEMMA InitInd == Init => IndInv
<1> SUFFICES ASSUME Init PROVE IndInv
  OBVIOUS
<1>1. queue = <<>> /\ queue \in Seq(Clients) /\ Len(queue) = 0 /\ DOMAIN queue = {}
  BY DEF Init
<1>2. TypeOK
  <2>1. Len(queue) <= Backlog
    BY <1>1, ServerAssumption
  <2>2. cur \in Clients \cup {Nobody} /\ handled \subseteq Clients
    BY DEF Init
  <2> QED BY <1>1, <2>1, <2>2 DEF Init, TypeOK
<1>3. Waiting
  BY <1>1 DEF Waiting
<1>4. Current /\ Handled
  BY DEF Init, Current, Handled, Serving
<1> QED BY <1>2, <1>3, <1>4 DEF IndInv

\* Connecting puts a client that has not been there before at the end of the backlog.
LEMMA ConnectStep == ASSUME IndInv, NEW c \in Clients, Connect(c) PROVE IndInv'
<1> USE ServerAssumption
<1>1. queue \in Seq(Clients) /\ queue' = Append(queue, c)
  BY DEF IndInv, TypeOK, Connect
<1>2. /\ Len(queue') = Len(queue) + 1 /\ queue' \in Seq(Clients)
      /\ \A i \in DOMAIN queue' :
           \/ i \in DOMAIN queue /\ queue'[i] = queue[i]
           \/ i \notin DOMAIN queue /\ i = Len(queue) + 1 /\ queue'[i] = c
  BY <1>1
<1>3. TypeOK'
  BY <1>2 DEF IndInv, TypeOK, Connect, Outcomes, Down
<1>4. Waiting'
  <2>1. \A i \in DOMAIN queue : queue[i] # c
    BY DEF IndInv, Waiting, Connect
  <2>2. c \notin handled /\ (Serving => cur # c)
    BY DEF IndInv, Current, Handled, Connect
  <2>3. \A i \in DOMAIN queue : queue[i] \in Clients
    BY <1>1
  <2> QED BY <1>2, <2>1, <2>2, <2>3 DEF IndInv, TypeOK, Waiting, Connect, Serving
<1>5. Current' /\ Handled'
  BY DEF IndInv, TypeOK, Current, Handled, Connect, Serving
<1> QED BY <1>3, <1>4, <1>5 DEF IndInv

\* Accepting takes the first of the backlog.
LEMMA AcceptStep == ASSUME IndInv, Accept PROVE IndInv'
<1>1. queue \in Seq(Clients) /\ queue # <<>> /\ queue' = Tail(queue) /\ cur' = Head(queue)
  BY DEF IndInv, TypeOK, Accept
<1>2. /\ queue' \in Seq(Clients) /\ Len(queue') = Len(queue) - 1 /\ cur' = queue[1]
      /\ 1 \in DOMAIN queue /\ cur' \in Clients
      /\ \A i \in DOMAIN queue' : i \in Nat /\ i + 1 \in DOMAIN queue /\ queue'[i] = queue[i + 1]
  BY <1>1
<1>3. TypeOK'
  BY <1>2, ServerAssumption DEF IndInv, TypeOK, Accept
<1>4. Waiting'
  <2> SUFFICES ASSUME NEW i \in DOMAIN queue'
               PROVE  /\ client[queue'[i]] = "connected" /\ queue'[i] \notin handled
                      /\ queue'[i] # cur'
                      /\ \A j \in DOMAIN queue' : queue'[i] = queue'[j] => i = j
    BY DEF Waiting, Accept
  <2> QED BY <1>2 DEF IndInv, Waiting
<1>5. Current' /\ Handled'
  BY <1>2 DEF IndInv, TypeOK, Waiting, Current, Handled, Accept, Serving
<1> QED BY <1>3, <1>4, <1>5 DEF IndInv

\* The steps that leave the backlog alone.
LEMMA ClientStep ==
  ASSUME IndInv, NEW c \in Clients,
         ConnectRefused(c)
           \/ \E what \in {"part", "excess", "request", "garbage"} : Send(c, what)
  PROVE  IndInv'
<1> USE ServerAssumption DEF IndInv, TypeOK, Waiting, Current, Handled, Serving, Outcomes, Down
<1>1. CASE ConnectRefused(c)
  BY <1>1 DEF ConnectRefused
<1>2. ASSUME NEW what \in {"part", "excess", "request", "garbage"}, Send(c, what) PROVE IndInv'
  BY <1>2 DEF Send
<1> QED BY <1>1, <1>2

LEMMA ReadStep ==
  ASSUME IndInv, ReadTimeout \/ ReadSignal \/ ReadBad \/ ReadRequest
  PROVE  IndInv'
<1> USE DEF IndInv, TypeOK, Waiting, Current, Handled, Serving, Down
<1>1. CASE ReadTimeout \/ ReadSignal \/ ReadBad
  BY <1>1 DEF ReadTimeout, ReadSignal, ReadBad, Refuse
<1>2. CASE ReadRequest
  BY <1>2 DEF ReadRequest
<1> QED BY <1>1, <1>2

LEMMA HandleStep == ASSUME IndInv, Handle PROVE IndInv'
<1>1. cur \in Clients /\ srv' = "reply" /\ handled' = handled \cup {cur} /\ sent[cur] = "request"
      /\ client[cur] = "connected" /\ UNCHANGED <<client, sent, queue, cur, signal>>
  BY DEF IndInv, Current, Serving, Handle
<1>2. TypeOK'
  BY <1>1 DEF IndInv, TypeOK, Handle
<1>3. Waiting'
  BY <1>1 DEF IndInv, Waiting, Serving, Handle
<1>4. Current' /\ Handled'
  BY <1>1 DEF IndInv, TypeOK, Current, Handled, Serving
<1> QED BY <1>2, <1>3, <1>4 DEF IndInv

LEMMA ReplyStep == ASSUME IndInv, Reply PROVE IndInv'
<1>1. cur \in Clients /\ client[cur] = "connected" /\ srv' = "poll"
  BY DEF IndInv, Current, Serving, Reply
<1>2. TypeOK'
  BY <1>1 DEF IndInv, TypeOK, Reply, Outcomes, Down
<1>3. Waiting'
  BY <1>1 DEF IndInv, TypeOK, Waiting, Serving, Reply
<1>4. Current' /\ Handled'
  BY <1>1 DEF IndInv, TypeOK, Current, Handled, Serving, Reply
<1> QED BY <1>2, <1>3, <1>4 DEF IndInv

\* The end of the daemon, in order or not, empties the backlog.
LEMMA EndStep ==
  ASSUME IndInv,
         Signal \/ SignalKills \/ PollSignal \/ PollFails \/ EndLoop \/ CloseListener
  PROVE  IndInv'
<1> USE ServerAssumption DEF IndInv, TypeOK, Waiting, Current, Handled, Serving, Outcomes, Down
<1>1. CASE Signal        BY <1>1 DEF Signal
<1>2. CASE SignalKills   BY <1>2 DEF SignalKills
<1>3. CASE PollSignal    BY <1>3 DEF PollSignal
<1>4. CASE PollFails     BY <1>4 DEF PollFails
<1>5. CASE EndLoop       BY <1>5 DEF EndLoop
<1>6. CASE CloseListener BY <1>6 DEF CloseListener
<1> QED BY <1>1, <1>2, <1>3, <1>4, <1>5, <1>6

LEMMA Inductive == Spec => []IndInv
<1>1. IndInv /\ [Next]_vars => IndInv'
  <2> SUFFICES ASSUME IndInv, [Next]_vars PROVE IndInv'
    OBVIOUS
  <2>1. CASE UNCHANGED vars
    BY <2>1 DEF IndInv, TypeOK, Waiting, Current, Handled, Serving, vars
  <2>2. CASE Next
    BY <2>2, ConnectStep, AcceptStep, ClientStep, ReadStep, HandleStep, ReplyStep, EndStep
       DEF Next, Server
  <2> QED BY <2>1, <2>2
<1> QED BY <1>1, InitInd, PTL DEF Spec

\* The accept loop's state is well typed, and the backlog within its limit, for any clients.
THEOREM TypeCorrect == Spec => []TypeOK
<1>1. IndInv => TypeOK
  BY DEF IndInv
<1> QED BY <1>1, Inductive, PTL

\* For any number of clients: only requests that arrived whole (read_request_json) reach the
\* controller, and a client is told what became of its own request.
THEOREM WholeRequests == Spec => []OnlyWholeRequests
<1>1. IndInv => OnlyWholeRequests
  BY DEF IndInv, TypeOK, Handled, OnlyWholeRequests
<1> QED BY <1>1, Inductive, PTL

-------------------------------------------------------------------------------
(* The socket's path *)

States == {"off"} \cup Starting \cup {"serving"} \cup Leaving
          \cup {"refused", "failed", "broken", "gone", "crashed"}

\* While a daemon starts, no other one is on its way in or out.
Alone == \A d, e \in Daemons : pc[d] \in Starting /\ pc[e] \in Starting \cup Leaving => d = e

\* The path is the one of the daemon that serves, and nobody else has got past the probe.
Served == \A d \in Daemons : pc[d] = "serving" =>
  /\ path = d
  /\ \A e \in Daemons \ {d} :
       pc[e] \notin {"serving", "remove", "rebind", "listen"} \cup Leaving

\* What a starting daemon knows of the path.
Known == \A d \in Daemons : /\ pc[d] = "listen" => path = d
                            /\ pc[d] = "rebind" /\ "remove" \notin errs => path = NoOne

Orderly == ~raced => Alone /\ Known /\ ("probe" \notin errs => Served)

\* Nobody has left, broken or crashed.
AllStay == \A d \in Daemons : pc[d] \notin Leaving \cup {"broken", "gone", "crashed"}

\* A path is that of a daemon that serves or is about to; a free one has a daemon that is
\* about to bind it, unless none was started.
Claimed ==
  /\ path # NoOne => pc[path] \in {"listen", "serving"}
  /\ path = NoOne => (\A d \in Daemons : pc[d] = "off")
                     \/ (\E d \in Daemons : pc[d] \in {"bind", "rebind"})

SocketInv == SocketTypeOK /\ Orderly /\ (AllStay => Claimed)

LEMMA SocketInitInd == SocketInit => SocketInv
BY SocketAssumption DEF SocketInit, SocketInv, SocketTypeOK, Orderly, Alone, Served, Known,
                        AllStay, Claimed, Starting, Leaving

LEMMA SocketTypes == SocketTypeOK /\ [SocketNext]_socketVars => SocketTypeOK'
<1> SUFFICES ASSUME SocketTypeOK, [SocketNext]_socketVars PROVE SocketTypeOK'
  OBVIOUS
<1>1. CASE UNCHANGED socketVars
  BY <1>1 DEF SocketTypeOK, socketVars
<1>2. ASSUME NEW d \in Daemons, Start(d) \/ Step(d) \/ Leave(d) PROVE SocketTypeOK'
  <2>1. \E to \in States : pc' = [pc EXCEPT ![d] = to]
    BY <1>2 DEF Start, Step, Leave, Bind, Probe, Remove, Rebind, Listen, ListenFails, CloseFd,
                Unlink, Crash, Breaks, Goto, States, Starting, Leaving
  <2>2. path' \in Daemons \cup {NoOne}
    BY <1>2 DEF SocketTypeOK, Start, Step, Leave, Bind, Probe, Remove, Rebind, Listen,
                ListenFails, CloseFd, Unlink, Crash, Breaks
  <2>3. raced' \in BOOLEAN /\ errs' \subseteq {"probe", "remove"}
    BY <1>2 DEF SocketTypeOK, Start, Step, Leave, Bind, Probe, Remove, Rebind, Listen,
                ListenFails, CloseFd, Unlink, Crash
  <2> QED BY <2>1, <2>2, <2>3 DEF SocketTypeOK, States
<1> QED BY <1>1, <1>2 DEF SocketNext

LEMMA OrderlyStep == SocketTypeOK /\ Orderly /\ [SocketNext]_socketVars => Orderly'
<1> SUFFICES ASSUME SocketTypeOK, Orderly, [SocketNext]_socketVars, ~raced'
             PROVE  (Alone /\ Known /\ ("probe" \notin errs => Served))'
  BY DEF Orderly
<1>1. CASE UNCHANGED socketVars
  BY <1>1 DEF Orderly, Alone, Served, Known, socketVars
<1>2. ASSUME NEW d \in Daemons, Start(d) \/ Step(d) \/ Leave(d)
      PROVE  (Alone /\ Known /\ ("probe" \notin errs => Served))'
  <2>0. ~raced /\ Alone /\ Known /\ ("probe" \notin errs => Served)
    BY <1>2 DEF Orderly, Start, Step, Leave, SocketTypeOK
  <2> USE <2>0, SocketAssumption DEF SocketTypeOK, Alone, Served, Known, Starting, Leaving, Goto
  <2>1. CASE Start(d)   BY <2>1 DEF Start
  <2>2. CASE Leave(d)   BY <2>2 DEF Leave
  <2>3. CASE Bind(d) /\ UNCHANGED raced   BY <2>3 DEF Bind, Breaks
  <2>4. CASE Probe(d) /\ UNCHANGED raced
    <3>1. CASE pc' = [pc EXCEPT ![d] = "refused"] /\ UNCHANGED <<path, errs>>
      BY <2>4, <3>1 DEF Probe
    <3>2. CASE pc' = [pc EXCEPT ![d] = "remove"] /\ UNCHANGED path
      <4>1. "probe" \notin errs' => "probe" \notin errs /\ ~Answers
        BY <2>4, <3>2 DEF Probe
      <4> QED BY <2>4, <3>2, <4>1 DEF Probe, Answers
    <3> QED BY <2>4, <3>1, <3>2 DEF Probe
  <2>5. CASE Remove(d) /\ UNCHANGED raced BY <2>5 DEF Remove
  <2>6. CASE Rebind(d) /\ UNCHANGED raced BY <2>6 DEF Rebind, Breaks
  <2>7. CASE Listen(d) /\ UNCHANGED raced BY <2>7 DEF Listen
  <2>8. CASE ListenFails(d) /\ UNCHANGED raced BY <2>8 DEF ListenFails
  <2>9. CASE CloseFd(d) /\ UNCHANGED raced BY <2>9 DEF CloseFd
  <2>10. CASE Unlink(d) /\ UNCHANGED raced BY <2>10 DEF Unlink
  <2>11. CASE Crash(d) /\ UNCHANGED raced BY <2>11 DEF Crash
  <2> QED BY <1>2, <2>1, <2>2, <2>3, <2>4, <2>5, <2>6, <2>7, <2>8, <2>9, <2>10, <2>11 DEF Step
<1> QED BY <1>1, <1>2 DEF SocketNext

LEMMA ClaimedStep ==
  SocketTypeOK /\ (AllStay => Claimed) /\ [SocketNext]_socketVars => (AllStay => Claimed)'
<1> SUFFICES ASSUME SocketTypeOK, AllStay => Claimed, [SocketNext]_socketVars, AllStay'
             PROVE  Claimed'
  OBVIOUS
<1>1. CASE UNCHANGED socketVars
  BY <1>1 DEF AllStay, Claimed, socketVars
<1>2. ASSUME NEW d \in Daemons, Start(d) \/ Step(d) \/ Leave(d) PROVE Claimed'
  <2>0. AllStay /\ Claimed
    BY <1>2 DEF AllStay, SocketTypeOK, Start, Step, Leave, Bind, Probe, Remove, Rebind, Listen,
                ListenFails, CloseFd, Unlink, Crash, Breaks, Goto, Leaving, Starting
  <2> USE <2>0, SocketAssumption DEF SocketTypeOK, Claimed, Goto
  <2>1. CASE Start(d)  BY <2>1 DEF Start
  <2>2. CASE Bind(d)   BY <2>2 DEF Bind, Breaks, AllStay
  <2>3. CASE Probe(d)  BY <2>3 DEF Probe
  <2>4. CASE Remove(d) BY <2>4 DEF Remove
  <2>5. CASE Rebind(d) BY <2>5 DEF Rebind, Breaks, AllStay
  <2>6. CASE Listen(d) BY <2>6 DEF Listen
  <2>7. pc'[d] \notin Leaving \cup {"broken", "gone", "crashed"}
    BY DEF AllStay
  <2> QED BY <1>2, <2>1, <2>2, <2>3, <2>4, <2>5, <2>6, <2>7
          DEF Step, Leave, ListenFails, CloseFd, Unlink, Crash, Leaving
<1> QED BY <1>1, <1>2 DEF SocketNext

LEMMA SocketInductive == SocketSpec => []SocketInv
<1>1. SocketInv /\ [SocketNext]_socketVars => SocketInv'
  BY SocketTypes, OrderlyStep, ClaimedStep DEF SocketInv
<1> QED BY <1>1, SocketInitInd, PTL DEF SocketSpec

\* The owner of the path and where each daemon is are always well typed, for every set of
\* daemons.
THEOREM SocketTypeCorrect == SocketSpec => []SocketTypeOK
<1>1. SocketInv => SocketTypeOK
  BY DEF SocketInv
<1> QED BY <1>1, SocketInductive, PTL

\* For any number of daemons: those that start one at a time, and not during an exit, are the
\* ones clients reach, whatever crashed or failed before, unless bind_server_socket could not
\* make its probe of a daemon that served.
THEOREM OrderlyReached == SocketSpec => []OrderlyDaemonReached
<1>1. SocketInv => OrderlyDaemonReached
  BY DEF SocketInv, Orderly, Served, OrderlyDaemonReached
<1> QED BY <1>1, SocketInductive, PTL

\* For any number of daemons: starts that overlap, without an exit, a crash or a bind that breaks,
\* end with a path that answers, whichever probes and removals fail.
THEOREM RaceReachable == SocketSpec => []RaceEndsReachable
<1>1. SocketInv => RaceEndsReachable
  BY SocketAssumption
     DEF SocketInv, SocketTypeOK, AllStay, Claimed, RaceEndsReachable, Answers, Leaving
<1> QED BY <1>1, SocketInductive, PTL

\* For any number of daemons: an orderly start fails only on account of a daemon that serves;
\* a stale path that can be removed is always got past.
THEOREM StaleRecovered == SocketSpec => StaleSocketRecovered
<1> DEFINE Good == \A d \in Daemons :
      ~raced /\ "remove" \notin errs /\ pc[d] \in Starting /\ pc'[d] \in {"refused", "failed"}
        => \E e \in Daemons \ {d} : pc[e] = "serving"
<1>1. SocketInv /\ [SocketNext]_socketVars => [Good]_socketVars
  <2> SUFFICES ASSUME SocketInv, NEW a \in Daemons, Start(a) \/ Step(a) \/ Leave(a),
                      NEW d \in Daemons, ~raced, "remove" \notin errs, pc[d] \in Starting,
                      pc'[d] \in {"refused", "failed"}
               PROVE  \E e \in Daemons \ {d} : pc[e] = "serving"
    BY DEF SocketNext
  <2>1. d = a
    BY DEF SocketInv, SocketTypeOK, Start, Step, Leave, Bind, Probe, Remove, Rebind, Listen,
           ListenFails, CloseFd, Unlink, Crash, Breaks, Goto, Starting
  <2>2. Probe(d) /\ Accepts
    BY <2>1 DEF SocketInv, SocketTypeOK, Orderly, Known, Start, Step, Leave, Bind, Probe, Remove,
                Rebind, Listen, ListenFails, CloseFd, Unlink, Crash, Breaks, Goto
  <2>3. pc[d] = "probe" /\ path \in Daemons \ {d} /\ pc[path] \in {"serving", "close"}
    BY <2>2, SocketAssumption DEF SocketInv, SocketTypeOK, Accepts, Probe
  <2> QED BY <2>3 DEF SocketInv, Orderly, Alone, Starting, Leaving
<1> QED BY <1>1, SocketInductive, PTL DEF SocketSpec, StaleSocketRecovered
===============================================================================

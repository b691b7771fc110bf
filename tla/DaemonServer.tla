----------------------------- MODULE DaemonServer -----------------------------
(***************************************************************************)
(* The daemon's accept loop (run_daemon_ipc_server and read_request_json   *)
(* of daemon_ipc.cpp) and the clients on the other end of the socket       *)
(* (send_daemon_request).  One thread serves one connection at a time: it  *)
(* reads until the client shuts its side down, hands the request to the    *)
(* controller, answers and closes.  A client may stop half-way, vanish or  *)
(* send too much, and a signal may arrive at any moment.                   *)
(***************************************************************************)
EXTENDS Integers, Sequences

CONSTANTS
  Clients,  \* connections, each made once
  Backlog   \* the argument of listen

ASSUME ServerAssumption == Backlog \in Nat \ {0}

VARIABLES
  client,   \* each client: off, connected, or with the outcome it saw
  sent,     \* what each has sent: nothing, a part, too much, all of it, or all of
            \* something that is not a request
  queue,    \* connections waiting to be accepted
  srv,      \* the server: poll, read, handle, reply, closing, gone or killed
  cur,      \* the connection being served
  signal,   \* SIGINT or SIGTERM is pending on the signalfd
  done,     \* the loop's flag, set by the shutdown callback
  handled,  \* connections whose request reached the controller
  exposed   \* the session has threads that were created before the signals were blocked

vars == <<client, sent, queue, srv, cur, signal, done, handled, exposed>>

Nobody == "nobody"
Outcomes == {"answered", "rejected", "closed", "unreachable", "reset"}
Down == {"gone", "killed"}

TypeOK ==
  /\ client \in [Clients -> {"off", "connected"} \cup Outcomes]
  /\ sent \in [Clients -> {"nothing", "part", "excess", "request", "garbage"}]
  /\ queue \in Seq(Clients) /\ Len(queue) <= Backlog
  /\ srv \in {"poll", "read", "handle", "reply", "closing"} \cup Down
  /\ cur \in Clients \cup {Nobody}
  /\ signal \in BOOLEAN /\ done \in BOOLEAN
  /\ handled \subseteq Clients /\ exposed \in BOOLEAN

\* With --preset, daemon start has applied a preset before it blocks the signals.
Init ==
  /\ client = [c \in Clients |-> "off"]
  /\ sent = [c \in Clients |-> "nothing"]
  /\ queue = <<>> /\ srv = "poll" /\ cur = Nobody
  /\ signal = FALSE /\ done = FALSE /\ handled = {}
  /\ exposed \in BOOLEAN

-------------------------------------------------------------------------------
(* The clients *)

\* A full backlog makes connect wait.
Connect(c) ==
  /\ client[c] = "off" /\ srv \notin Down /\ Len(queue) < Backlog
  /\ client' = [client EXCEPT ![c] = "connected"]
  /\ queue' = Append(queue, c)
  /\ UNCHANGED <<sent, srv, cur, signal, done, handled, exposed>>

ConnectRefused(c) ==
  /\ client[c] = "off" /\ srv \in Down
  /\ client' = [client EXCEPT ![c] = "unreachable"]
  /\ UNCHANGED <<sent, queue, srv, cur, signal, done, handled, exposed>>

\* A client need not go on sending; what it sends last may be more than the limit, and a
\* client that ends early leaves something that does not parse.
Send(c, what) ==
  /\ client[c] = "connected"
  /\ \/ sent[c] = "nothing" /\ what \in {"part", "excess", "request", "garbage"}
     \/ sent[c] = "part" /\ what \in {"excess", "request", "garbage"}
  /\ sent' = [sent EXCEPT ![c] = what]
  /\ UNCHANGED <<client, queue, srv, cur, signal, done, handled, exposed>>

\* SIGINT or SIGTERM, with every thread blocking it.
Signal ==
  /\ ~signal /\ ~exposed /\ srv \notin Down
  /\ signal' = TRUE
  /\ UNCHANGED <<client, sent, queue, srv, cur, done, handled, exposed>>

\* A thread that does not block the signal gets it, and its default action ends the process.
SignalKills ==
  /\ exposed /\ srv \notin Down
  /\ srv' = "killed" /\ queue' = <<>> /\ cur' = Nobody
  /\ client' = [c \in Clients |-> IF client[c] = "connected" THEN "reset" ELSE client[c]]
  /\ UNCHANGED <<sent, signal, done, handled, exposed>>

-------------------------------------------------------------------------------
(* The server *)

\* A pending signal ends the loop before anything is accepted.
PollSignal ==
  /\ srv = "poll" /\ ~done /\ signal
  /\ done' = TRUE
  /\ UNCHANGED <<client, sent, queue, srv, cur, signal, handled, exposed>>

\* poll fails for good: the loop is left without done.
PollFails ==
  /\ srv = "poll" /\ ~done
  /\ srv' = "closing"
  /\ UNCHANGED <<client, sent, queue, cur, signal, done, handled, exposed>>

Accept ==
  /\ srv = "poll" /\ ~done /\ ~signal /\ queue # <<>>
  /\ cur' = Head(queue) /\ queue' = Tail(queue)
  /\ srv' = "read"
  /\ UNCHANGED <<client, sent, signal, done, handled, exposed>>

\* The request was not read: its client gets an error, the controller nothing.
Refuse == /\ srv' = "reply"
          /\ UNCHANGED <<client, sent, queue, cur, done, handled, exposed>>

\* Mutant: the read has no deadline.
ReadTimeout_Never == srv = "read" /\ FALSE /\ Refuse /\ UNCHANGED signal

\* The deadline passes while the client has not finished.
ReadTimeout ==
  /\ srv = "read" /\ sent[cur] \in {"nothing", "part"}
  /\ Refuse /\ UNCHANGED signal

\* Mutant: the signal is consumed where it is noticed.
ReadSignal_Consumed == srv = "read" /\ signal /\ signal' = FALSE /\ Refuse

\* A signal ends the read; it is left unread for the accept loop.
ReadSignal == srv = "read" /\ signal /\ Refuse /\ UNCHANGED signal

ReadBad ==
  /\ srv = "read" /\ ~signal /\ sent[cur] \in {"excess", "garbage"}
  /\ Refuse /\ UNCHANGED signal

\* Mutant: what has arrived so far is taken for the request.
ReadRequest_Part ==
  /\ srv = "read" /\ ~signal /\ sent[cur] \in {"part", "request"}
  /\ srv' = "handle"
  /\ UNCHANGED <<client, sent, queue, cur, signal, done, handled, exposed>>

ReadRequest ==
  /\ srv = "read" /\ ~signal /\ sent[cur] = "request"
  /\ srv' = "handle"
  /\ UNCHANGED <<client, sent, queue, cur, signal, done, handled, exposed>>

\* The controller handles the request; for shutdown it calls back and sets done.  A command
\* that ends the session, or replaces it, ends its threads; new ones block the signals.
Handle ==
  /\ srv = "handle"
  /\ handled' = handled \cup {cur}
  /\ done' \in {done, TRUE} /\ exposed' \in {exposed, FALSE}
  /\ srv' = "reply"
  /\ UNCHANGED <<client, sent, queue, cur, signal>>

Reply ==
  /\ srv = "reply"
  /\ client' = [client EXCEPT ![cur] = IF cur \in handled THEN "answered" ELSE "rejected"]
  /\ srv' = "poll" /\ cur' = Nobody
  /\ UNCHANGED <<sent, queue, signal, done, handled, exposed>>

EndLoop ==
  /\ srv = "poll" /\ done
  /\ srv' = "closing"
  /\ UNCHANGED <<client, sent, queue, cur, signal, done, handled, exposed>>

\* Closing the listening socket resets the connections nobody accepted.
CloseListener ==
  /\ srv = "closing"
  /\ srv' = "gone" /\ queue' = <<>>
  /\ client' = [c \in Clients |-> IF \E i \in DOMAIN queue : queue[i] = c THEN "closed"
                                  ELSE client[c]]
  /\ UNCHANGED <<sent, cur, signal, done, handled, exposed>>

-------------------------------------------------------------------------------
Server == \/ PollSignal \/ Accept \/ ReadTimeout \/ ReadSignal \/ ReadBad \/ ReadRequest
          \/ Handle \/ Reply \/ EndLoop \/ CloseListener

Next == \/ \E c \in Clients : Connect(c) \/ ConnectRefused(c)
        \/ \E c \in Clients, what \in {"part", "excess", "request", "garbage"} : Send(c, what)
        \/ Signal \/ SignalKills
        \/ PollFails
        \/ Server

Spec == Init /\ [][Next]_vars

\* The daemon's thread runs, and a deadline passes.  Nothing is assumed of the clients.
FairSpec == Spec /\ WF_vars(Server)

-------------------------------------------------------------------------------
(* Properties *)

\* Only a request that arrived whole reaches the controller, and its client is the one
\* that is told so: a stalled, cut off, oversized or malformed one never takes effect.
OnlyWholeRequests ==
  /\ \A c \in handled : sent[c] = "request"
  /\ \A c \in Clients : client[c] = "answered" => c \in handled
  /\ \A c \in Clients : client[c] \in {"rejected", "closed", "unreachable"} => c \notin handled

\* Whoever connects hears from the daemon, whatever the clients before it do.
EveryClientHears == \A c \in Clients : client[c] = "connected" ~> client[c] # "connected"

\* A signal that is blocked ends the daemon, also while a client keeps it reading.
SignalEnds == signal ~> srv = "gone"

\* A signal ends the daemon through the accept loop only, which shuts down in order.
SignalsAreHandled == srv # "killed"
===============================================================================

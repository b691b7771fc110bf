----------------------------- MODULE DaemonSocket -----------------------------
(***************************************************************************)
(* The life of the daemon's Unix socket (bind_server_socket and            *)
(* run_daemon_ipc_server of daemon_ipc.cpp) when several daemons start,    *)
(* serve, leave or crash on the same path.  Each daemon is one process:    *)
(* bind, on EADDRINUSE probe whoever bound the path with a connect, remove *)
(* a path nobody answers on, bind again, listen; on the way out close the  *)
(* descriptor and remove the path.  Every one of these is a system call of *)
(* its own, any of them may fail, and the path is all the daemons share.   *)
(* The names of this module are not those of DaemonServer: DaemonIpcProofs *)
(* extends both.                                                           *)
(***************************************************************************)

CONSTANTS
  Daemons,   \* daemon processes, each run once
  NoOne      \* nothing is bound to the path

ASSUME SocketAssumption == NoOne \notin Daemons

VARIABLES
  path,  \* whose socket daemon.sock is, NoOne if there is no such file
  pc,    \* where each daemon is
  raced, \* history: a start has overlapped with another start or with an exit
  errs   \* history: which calls have failed though the path was there: a probe of a daemon
         \* that serves, a removal

socketVars == <<path, pc, raced, errs>>

Starting == {"bind", "probe", "remove", "rebind", "listen"}
Leaving == {"close", "unlink"}

SocketTypeOK ==
  /\ path \in Daemons \cup {NoOne}
  /\ pc \in [Daemons -> {"off"} \cup Starting \cup {"serving"} \cup Leaving
                        \cup {"refused", "failed", "broken", "gone", "crashed"}]
  /\ raced \in BOOLEAN /\ errs \subseteq {"probe", "remove"}

SocketInit == /\ path = NoOne /\ pc = [d \in Daemons |-> "off"]
              /\ raced = FALSE /\ errs = {}

Goto(d, to) == pc' = [pc EXCEPT ![d] = to]

\* The path leads to a daemon that serves.
Answers == path # NoOne /\ pc[path] = "serving"

\* Only a socket that listens accepts a connection; it does until it is closed.
Accepts == path # NoOne /\ pc[path] \in {"serving", "close"}

Start(d) ==
  /\ pc[d] = "off"
  /\ raced' = (raced \/ \E e \in Daemons : pc[e] \in Starting \cup Leaving)
  /\ Goto(d, "bind") /\ UNCHANGED <<path, errs>>

\* No directory or socket, a path that is too long, or a bind that fails for another reason than
\* a socket that is there: the daemon gives up.
Breaks(d) == Goto(d, "broken") /\ UNCHANGED path

Bind(d) ==
  /\ pc[d] = "bind" /\ UNCHANGED errs
  /\ \/ path = NoOne /\ path' = d /\ Goto(d, "listen")
     \/ path # NoOne /\ Goto(d, "probe") /\ UNCHANGED path
     \/ Breaks(d)

\* Mutant: whoever has bound the path is believed to be gone.
Probe_Never(d) == pc[d] = "probe" /\ Goto(d, "remove") /\ UNCHANGED <<path, errs>>

\* Mutant: any socket file counts as a running daemon.
Probe_Always(d) == pc[d] = "probe" /\ Goto(d, "refused") /\ UNCHANGED <<path, errs>>

\* A probe whose socket cannot be created, or whose connect fails for whatever reason, takes the
\* daemon for dead.
Probe(d) ==
  /\ pc[d] = "probe" /\ UNCHANGED path
  /\ \/ Accepts /\ Goto(d, "refused") /\ UNCHANGED errs
     \/ Goto(d, "remove") /\ errs' = IF Answers THEN errs \cup {"probe"} ELSE errs

\* Mutant: the second bind is not tried.
Rebind_GivesUp(d) == pc[d] = "rebind" /\ Goto(d, "failed") /\ UNCHANGED <<path, errs>>

\* That the file could not be removed is left to the second bind to find out.
Remove(d) ==
  /\ pc[d] = "remove" /\ Goto(d, "rebind")
  /\ \/ path' = NoOne /\ UNCHANGED errs
     \/ path # NoOne /\ UNCHANGED path /\ errs' = errs \cup {"remove"}

Rebind(d) ==
  /\ pc[d] = "rebind" /\ UNCHANGED errs
  /\ \/ path = NoOne /\ path' = d /\ Goto(d, "listen")
     \/ path # NoOne /\ Goto(d, "failed") /\ UNCHANGED path
     \/ Breaks(d)

\* From here on the daemon answers; if listen fails it closes and removes.
Listen(d) ==
  /\ pc[d] = "listen"
  /\ Goto(d, "serving") /\ UNCHANGED <<path, errs>>

ListenFails(d) ==
  /\ pc[d] = "listen"
  /\ Goto(d, "close") /\ UNCHANGED <<path, errs>>

\* shutdown, SIGINT or SIGTERM, or a failing poll, sigprocmask or signalfd ends the service.
Leave(d) ==
  /\ pc[d] = "serving"
  /\ raced' = (raced \/ \E e \in Daemons : pc[e] \in Starting)
  /\ Goto(d, "close") /\ UNCHANGED <<path, errs>>

CloseFd(d) == pc[d] = "close" /\ Goto(d, "unlink") /\ UNCHANGED <<path, errs>>

Unlink(d) == pc[d] = "unlink" /\ path' = NoOne /\ Goto(d, "gone") /\ UNCHANGED errs

\* A crash leaves the path behind, and so does an exit whose removal fails (it throws).
Crash(d) ==
  /\ pc[d] \in Starting \cup {"serving"} \cup Leaving
  /\ Goto(d, "crashed") /\ UNCHANGED <<path, errs>>

Step(d) == /\ \/ Bind(d) \/ Probe(d) \/ Remove(d) \/ Rebind(d) \/ Listen(d) \/ ListenFails(d)
              \/ CloseFd(d) \/ Unlink(d) \/ Crash(d)
           /\ UNCHANGED raced

SocketNext == \E d \in Daemons : Start(d) \/ Step(d) \/ Leave(d)

SocketSpec == SocketInit /\ [][SocketNext]_socketVars

-------------------------------------------------------------------------------
(* Properties *)

\* Daemons that start one at a time, and not while another one leaves, behave: at most one
\* serves, and it is the one clients reach, whatever has crashed before and at which step, and
\* whatever has failed but the probe of a daemon that served.  Such a probe takes the path away
\* from it, and then two serve.
OrderlyDaemonReached ==
  ~raced /\ "probe" \notin errs =>
    \A d \in Daemons : pc[d] = "serving" =>
      path = d /\ \A e \in Daemons \ {d} : pc[e] # "serving"

\* A daemon that finds the path taken gives up only on account of another one that serves: a
\* path left behind by a crash, or by an exit, never keeps a daemon from starting, as long as it
\* can be removed.
StaleSocketRecovered ==
  [][\A d \in Daemons :
       ~raced /\ "remove" \notin errs /\ pc[d] \in Starting /\ pc'[d] \in {"refused", "failed"}
         => \E e \in Daemons \ {d} : pc[e] = "serving"]_socketVars

\* However starts overlap, and whichever probes and removals fail, they end with a daemon that
\* clients reach: when every daemon that was started has either found the path taken or serves,
\* the path answers.  A daemon that breaks is excepted: it may have removed a path before.
RaceEndsReachable ==
  /\ \A d \in Daemons : pc[d] \in {"off", "serving", "refused", "failed"}
  /\ \E d \in Daemons : pc[d] # "off"
  => Answers
===============================================================================

--------------------------- MODULE DaemonController ---------------------------
(***************************************************************************)
(* The daemon's command handler (daemon_controller.cpp) over the session   *)
(* backend's interface (daemon_backend.hpp).  A request is handled under   *)
(* mutex_, so the handlers never interleave with each other; the running   *)
(* session does change under them: its worker dies, its filters fail and   *)
(* recover, the default sink moves.  A request is therefore three steps:   *)
(*                                                                         *)
(*   idle --handler--> adopt --Adopt--> respond --Respond--> idle          *)
(*                                                                         *)
(* one for the decision and the backend calls, one for the snapshot that   *)
(* set_runtime_state_from_backend_locked takes of a session just started,  *)
(* one for the snapshot status_locked takes for the answer.  Between a     *)
(* stop_session and the start_session that follows it there is no session  *)
(* for the environment to change, so those calls share a step.             *)
(***************************************************************************)
EXTENDS Integers

CONSTANTS
  Presets,     \* presets that load and parse; path, origin and parsed form are one value
  Sinks,       \* sinks a session can be attached to
  NoSelector,  \* the empty sink selector: follow the default sink
  VolumeArgs,  \* what a volume argument reads as: a percentage, NaN or Garbage
  NaN,         \* std::stof accepts "nan"
  Garbage,     \* an argument std::stof does not consume entirely
  None         \* an empty optional, a null router_, an empty string

ASSUME ConstantsAssumption ==
  /\ NoSelector \notin Sinks
  /\ VolumeArgs \subseteq Int \cup {NaN, Garbage}
  /\ NaN \notin Int /\ Garbage \notin Int /\ NaN # Garbage

\* Volumes are percentages: 1.0F is 100, the accepted range 0.0F..1.5F is 0..150.
Unity == 100
MaxVolume == 150

Selectors == Sinks \cup {NoSelector}
Volumes == (VolumeArgs \ {Garbage}) \cup {Unity}
Commands == {"apply", "enable", "disable", "switch-sink", "bypass", "volume",
             "list-sinks", "status", "shutdown", "unknown"}

VARIABLES
  desired,      \* desired_: the remembered configuration, or None
  status,       \* status_: the stored part of the daemon's status
  initDegraded, \* init_error_degraded_
  session,      \* the backend's session: router_, its settings and worker_failed_
  pc,           \* how far the current request has got
  job,          \* the current request's command and outcome so far
  response,     \* the last DaemonResponse sent, or None
  phase         \* of the process: bootstrap, accept loop, leaving it, gone

vars == <<desired, status, initDegraded, session, pc, job, response, phase>>

-------------------------------------------------------------------------------
(* Types *)

Config == [preset : Presets, sink : Selectors, enabled : BOOLEAN,
           bypass : BOOLEAN, volume : Volumes]

Session == [preset : Presets, selector : Selectors, sink : Sinks, bypass : BOOLEAN,
            volume : Volumes, init_error : BOOLEAN, worker_failed : BOOLEAN]

Effective == [session_active : BOOLEAN, preset_origin : Presets \cup {None},
              sink_name : Sinks \cup {None}, bypass : BOOLEAN, volume : Volumes]

SessionStates == {"Disabled", "Enabling", "Enabled", "Disabling", "Degraded"}

\* What status_ stores.  last_error is which error it holds: none, the error of a
\* start_session, or a filter's init_error.
Stored == [daemon_state : {"Ready", "Stopping"}, session_state : SessionStates,
           effective : Effective, health : {"Ok", "Degraded"},
           last_error : {"none", "start", "init"}]

Report == [daemon_state : {"Ready", "Stopping"}, session_state : SessionStates,
           effective : Effective, health : {"Ok", "Degraded"},
           last_error : {"none", "start", "init"}, desired : Config \cup {None}]

\* An empty optional is neither a configuration nor a session.
ASSUME NoneAssumption == None \notin Config /\ None \notin Session

Job == [cmd : Commands, ok : BOOLEAN]

Response == [cmd : Commands, ok : BOOLEAN, status : Report]

TypeOK ==
  /\ desired \in Config \cup {None}
  /\ status \in Stored
  /\ initDegraded \in BOOLEAN
  /\ session \in Session \cup {None}
  /\ pc \in {"idle", "adopt", "respond"}
  /\ job \in Job
  /\ response \in Response \cup {None}
  /\ phase \in {"boot", "serving", "stopping", "stopped"}

-------------------------------------------------------------------------------
(* The backend as the controller sees it *)

\* The sessions a successful start_session can leave: a fresh router, not bypassed and
\* at unity volume, on the sink the selector names or, without one on some sink.
Started(p, sel) ==
  [preset : {p}, selector : {sel}, sink : IF sel = NoSelector THEN Sinks ELSE {sel},
   bypass : {FALSE}, volume : {Unity}, init_error : {FALSE}, worker_failed : {FALSE}]

NoEffective == [session_active |-> FALSE, preset_origin |-> None, sink_name |-> None,
                bypass |-> FALSE, volume |-> Unity]

session_active == session # None /\ ~session.worker_failed

\* snapshot(): what it shows of the session, a default snapshot if there is none or its
\* worker has failed.
snapshot ==
  IF session_active
  THEN [session_active |-> TRUE, preset_origin |-> session.preset,
        sink_name |-> session.sink, bypass |-> session.bypass, volume |-> session.volume]
  ELSE NoEffective

snapshot_init_error == session_active /\ session.init_error

\* Mutant: only the bypass is replayed.
replay_settings_NoVolume(s, d) == [s EXCEPT !.bypass = IF d.bypass THEN TRUE ELSE @]

\* The replay of the remembered bypass and volume into a session just started.
replay_settings(s, d) ==
  [s EXCEPT !.bypass = IF d.bypass THEN TRUE ELSE @,
            !.volume = IF d.volume # Unity THEN d.volume ELSE @]

-------------------------------------------------------------------------------
(* What the answer says *)

Enabled(d) == d # None /\ d.enabled

\* Mutant: the stored status is reported while enabled, without asking the backend.
status_locked_Stored ==
  [daemon_state |-> status.daemon_state, desired |-> desired, effective |-> status.effective,
   session_state |-> status.session_state, health |-> status.health,
   last_error |-> status.last_error]

status_locked ==
  LET live == Enabled(desired) IN
  [daemon_state  |-> status.daemon_state,
   desired       |-> desired,
   effective     |-> IF live THEN snapshot ELSE status.effective,
   session_state |-> IF live THEN IF session_active THEN "Enabled" ELSE "Degraded"
                     ELSE status.session_state,
   health        |-> IF live /\ (~session_active \/ snapshot_init_error) THEN "Degraded"
                     ELSE IF live /\ initDegraded THEN "Ok" ELSE status.health,
   last_error    |-> IF live /\ snapshot_init_error THEN "init"
                     ELSE IF live /\ session_active /\ initDegraded THEN "none"
                     ELSE status.last_error]

\* The handler is done; the answer is still to be built.
Answer(cmd, ok) == pc' = "respond" /\ job' = [cmd |-> cmd, ok |-> ok]

Reject(cmd) ==
  /\ Answer(cmd, FALSE)
  /\ UNCHANGED <<desired, status, initDegraded, session, response, phase>>

\* A session is up under configuration d: the requested one, or the one rolled back to.
Up(cmd, d, s, ok) ==
  /\ desired' = d
  /\ session' = replay_settings(s, d)
  /\ status' = [status EXCEPT !.session_state = "Enabling"]
  /\ pc' = "adopt" /\ job' = [cmd |-> cmd, ok |-> ok]
  /\ UNCHANGED <<initDegraded, response, phase>>

\* No session could be started.
Down(cmd, d) ==
  /\ desired' = d
  /\ session' = None
  /\ status' = [status EXCEPT !.effective = NoEffective, !.session_state = "Degraded",
                              !.health = "Degraded", !.last_error = "start"]
  /\ Answer(cmd, FALSE)
  /\ UNCHANGED <<initDegraded, response, phase>>

-------------------------------------------------------------------------------
(* The handlers *)

Accepting == pc = "idle" /\ phase = "serving"

\* apply: an unusable preset is refused before anything is touched; otherwise the old
\* session is stopped, the new one started, and on failure the old one started again.
\* Mutant: a new preset starts from a fresh configuration.
apply_candidate_Fresh(p, sel) ==
  [preset |-> p, sink |-> sel, enabled |-> TRUE, bypass |-> FALSE, volume |-> Unity]

apply_candidate(p, sel) ==
  [preset |-> p, sink |-> sel, enabled |-> TRUE,
   bypass |-> IF desired # None THEN desired.bypass ELSE FALSE,
   volume |-> IF desired # None THEN desired.volume ELSE Unity]

apply_locked(p, sel) ==
  LET candidate == apply_candidate(p, sel) IN
  \/ Reject("apply")
  \/ \E s \in Started(p, sel) : Up("apply", candidate, s, TRUE)
  \/ /\ Enabled(desired)
     /\ \E s \in Started(desired.preset, desired.sink) : Up("apply", desired, s, FALSE)
  \/ Down("apply", desired)

enable_locked ==
  \/ desired = None /\ Reject("enable")
  \/ /\ Enabled(desired) /\ status.session_state = "Enabled"
     /\ Answer("enable", TRUE)
     /\ UNCHANGED <<desired, status, initDegraded, session, response, phase>>
  \/ /\ desired # None
     /\ ~(desired.enabled /\ status.session_state = "Enabled")
     /\ \/ \E s \in Started(desired.preset, desired.sink) :
             Up("enable", [desired EXCEPT !.enabled = TRUE], s, TRUE)
        \/ Down("enable", [desired EXCEPT !.enabled = FALSE])

disable_locked ==
  /\ desired' = IF desired # None THEN [desired EXCEPT !.enabled = FALSE] ELSE None
  /\ session' = None
  /\ status' = [status EXCEPT !.effective = NoEffective, !.session_state = "Disabled",
                              !.health = "Ok", !.last_error = "none"]
  /\ Answer("disable", TRUE)
  /\ UNCHANGED <<initDegraded, response, phase>>

switch_sink_locked(sel) ==
  \/ (desired = None \/ sel = NoSelector) /\ Reject("switch-sink")
  \/ /\ desired # None /\ ~desired.enabled /\ sel # NoSelector
     /\ desired' = [desired EXCEPT !.sink = sel]
     /\ Answer("switch-sink", TRUE)
     /\ UNCHANGED <<status, initDegraded, session, response, phase>>
  \/ /\ Enabled(desired) /\ sel # NoSelector
     /\ \/ \E s \in Started(desired.preset, sel) :
             Up("switch-sink", [desired EXCEPT !.sink = sel], s, TRUE)
        \/ \E s \in Started(desired.preset, desired.sink) : Up("switch-sink", desired, s, FALSE)
        \/ Down("switch-sink", desired)

\* b is the argument read as on or off, None if it is neither.
bypass_locked(b) ==
  \/ (~Enabled(desired) \/ b = None) /\ Reject("bypass")
  \/ /\ Enabled(desired) /\ b # None
     /\ desired' = [desired EXCEPT !.bypass = b]
     /\ session' = IF session # None THEN [session EXCEPT !.bypass = b] ELSE None
     /\ status' = [status EXCEPT !.health = "Ok", !.last_error = "none"]
     /\ Answer("bypass", TRUE)
     /\ UNCHANGED <<initDegraded, response, phase>>

\* Comparisons with NaN are false, so NaN is not out of range.
out_of_range(v) == v # NaN /\ (v < 0 \/ v > MaxVolume)

volume_locked(v) ==
  \/ (~Enabled(desired) \/ v = Garbage \/ (v # Garbage /\ out_of_range(v))) /\ Reject("volume")
  \/ /\ Enabled(desired) /\ v # Garbage /\ ~out_of_range(v)
     /\ desired' = [desired EXCEPT !.volume = v]
     /\ session' = IF session # None THEN [session EXCEPT !.volume = v] ELSE None
     /\ Answer("volume", TRUE)
     /\ UNCHANGED <<status, initDegraded, response, phase>>

\* Listing sinks uses a router of its own and may fail; status always answers.
list_sinks_locked ==
  /\ \E ok \in BOOLEAN : Answer("list-sinks", ok)
  /\ UNCHANGED <<desired, status, initDegraded, session, response, phase>>

report_status ==
  /\ Answer("status", TRUE)
  /\ UNCHANGED <<desired, status, initDegraded, session, response, phase>>

\* The shutdown callback sets done: the accept loop ends with this answer.
shutdown_locked ==
  /\ desired' = IF desired # None THEN [desired EXCEPT !.enabled = FALSE] ELSE None
  /\ session' = None
  /\ status' = [status EXCEPT !.daemon_state = "Stopping", !.effective = NoEffective,
                              !.session_state = "Disabled"]
  /\ phase' = "stopping"
  /\ Answer("shutdown", TRUE)
  /\ UNCHANGED <<initDegraded, response>>

-------------------------------------------------------------------------------
(* The rest of a request *)

set_runtime_state_from_backend_locked ==
  [status EXCEPT
     !.effective = snapshot,
     !.session_state = IF session_active THEN "Enabled" ELSE "Disabled",
     !.health = IF snapshot_init_error THEN "Degraded" ELSE IF initDegraded THEN "Ok" ELSE @,
     !.last_error = IF snapshot_init_error THEN "init" ELSE IF initDegraded THEN "none" ELSE @]

\* The state of the session just started is stored; health and last_error then say
\* whether the request succeeded or was rolled back.
Adopt ==
  /\ pc = "adopt"
  /\ status' = [set_runtime_state_from_backend_locked EXCEPT
                  !.health = IF job.ok THEN "Ok" ELSE "Degraded",
                  !.last_error = IF job.ok THEN "none" ELSE "start"]
  /\ initDegraded' = snapshot_init_error
  /\ pc' = "respond"
  /\ UNCHANGED <<desired, session, job, response, phase>>

\* The answer is built and sent.  A failed bootstrap ends the process, as does a
\* shutdown; the backend's destructor stops the session.
Respond ==
  /\ pc = "respond"
  /\ response' = [cmd |-> job.cmd, ok |-> job.ok, status |-> status_locked]
  /\ pc' = "idle"
  /\ phase' = IF phase = "boot" THEN IF job.ok THEN "serving" ELSE "stopped"
              ELSE IF phase = "stopping" THEN "stopped" ELSE phase
  /\ session' = IF phase' = "stopped" THEN None ELSE session
  /\ UNCHANGED <<desired, status, initDegraded, job>>

-------------------------------------------------------------------------------
(* The process: handle_daemon_mode and the accept loop around the controller *)

\* daemon start without a preset goes straight to the accept loop.
BootIdle ==
  /\ phase = "boot" /\ pc = "idle"
  /\ phase' = "serving"
  /\ UNCHANGED <<desired, status, initDegraded, session, pc, job, response>>

\* With --preset or EQ_CLI_DEFAULT_PRESET the controller first handles an apply.
BootApply(p, sel) == phase = "boot" /\ pc = "idle" /\ apply_locked(p, sel)

\* SIGINT or SIGTERM between two requests.
SignalExit ==
  /\ Accepting
  /\ phase' = "stopped" /\ session' = None
  /\ UNCHANGED <<desired, status, initDegraded, pc, job, response>>

-------------------------------------------------------------------------------
(* The running session changes by itself *)

\* The worker's poll or its read of the wake descriptor failed.
WorkerFails ==
  /\ session_active
  /\ session' = [session EXCEPT !.worker_failed = TRUE]
  /\ UNCHANGED <<desired, status, initDegraded, pc, job, response, phase>>

\* A filter's initialisation fails on the worker, or leaves the failed state.
InitFails ==
  /\ session_active /\ ~session.init_error
  /\ session' = [session EXCEPT !.init_error = TRUE]
  /\ UNCHANGED <<desired, status, initDegraded, pc, job, response, phase>>

InitRecovers ==
  /\ session # None /\ session.init_error
  /\ session' = [session EXCEPT !.init_error = FALSE]
  /\ UNCHANGED <<desired, status, initDegraded, pc, job, response, phase>>

\* The router follows the default sink only without a sink selector.
SinkMoves(s) ==
  /\ session_active /\ session.selector = NoSelector /\ session.sink # s
  /\ session' = [session EXCEPT !.sink = s]
  /\ UNCHANGED <<desired, status, initDegraded, pc, job, response, phase>>

-------------------------------------------------------------------------------
Init ==
  /\ desired = None
  /\ status = [daemon_state |-> "Ready", session_state |-> "Disabled",
               effective |-> NoEffective, health |-> "Ok", last_error |-> "none"]
  /\ initDegraded = FALSE
  /\ session = None
  /\ pc = "idle"
  /\ job = [cmd |-> "status", ok |-> TRUE]
  /\ response = None
  /\ phase = "boot"

HandleRequest ==
  /\ Accepting
  /\ \/ \E p \in Presets, sel \in Selectors : apply_locked(p, sel)
     \/ enable_locked
     \/ disable_locked
     \/ \E sel \in Selectors : switch_sink_locked(sel)
     \/ \E b \in BOOLEAN \cup {None} : bypass_locked(b)
     \/ \E v \in VolumeArgs : volume_locked(v)
     \/ list_sinks_locked
     \/ report_status
     \/ shutdown_locked
     \/ Reject("unknown")

Environment == WorkerFails \/ InitFails \/ InitRecovers \/ \E s \in Sinks : SinkMoves(s)

Next ==
  \/ BootIdle
  \/ \E p \in Presets, sel \in Selectors : BootApply(p, sel)
  \/ HandleRequest
  \/ Adopt
  \/ Respond
  \/ SignalExit
  \/ Environment

Spec == Init /\ [][Next]_vars

-------------------------------------------------------------------------------
(* What the daemon promises *)

\* A running session is always the one the daemon remembers: enabled, with the remembered
\* preset, sink selector, bypass and volume, on the selected sink if one was selected,
\* through every start, rollback, sink switch and setting (apply_locked, enable_locked,
\* switch_sink_locked and the replay of bypass and volume after each start_session);
\* and no session outlives the process.
SessionFollowsDesired ==
  session # None =>
    /\ Enabled(desired)
    /\ session.preset = desired.preset
    /\ session.selector = desired.sink
    /\ session.bypass = desired.bypass
    /\ session.volume = desired.volume
    /\ desired.sink # NoSelector => session.sink = desired.sink
    /\ phase # "stopped"

\* Every answer is consistent in itself (status_locked): no transitional session state
\* leaks out, the session state says what effective says, an active session is reported
\* with the settings reported as desired, and a health of ok hides neither an error nor a
\* degraded session.
ReportsAreTruthful ==
  response # None =>
    LET r == response.status IN
    /\ r.session_state \in {"Disabled", "Enabled", "Degraded"}
    /\ r.session_state = "Enabled" <=> r.effective.session_active
    /\ r.session_state = "Disabled" => ~Enabled(r.desired)
    /\ r.effective.session_active =>
         /\ Enabled(r.desired)
         /\ r.effective.preset_origin = r.desired.preset
         /\ r.effective.bypass = r.desired.bypass
         /\ r.effective.volume = r.desired.volume
    /\ r.health = "Ok" => r.last_error = "none" /\ r.session_state # "Degraded"

\* What the handlers keep true of the stored status so that the answers are truthful: an
\* ok health stores no error, without an enabled configuration the stored session is
\* down, and only an enabled configuration is being adopted.
StoredConsistent ==
  /\ status.health = "Ok" => status.last_error = "none"
  /\ ~Enabled(desired) =>
       /\ status.effective = NoEffective
       /\ status.session_state \in {"Disabled", "Degraded"}
       /\ status.session_state = "Degraded" => status.health = "Degraded"
  /\ pc = "adopt" => Enabled(desired)

Handles == pc = "idle" /\ pc' # "idle"
Succeeds(cmds) == job'.ok /\ job'.cmd \in cmds

\* The remembered configuration changes only where a request asks for it and succeeds:
\* the preset by apply, the sink by apply or switch-sink, bypass and volume by their own
\* commands and by nothing else.  A failed or rolled-back request, disable, enable and
\* shutdown leave all four alone, and nothing is ever forgotten.
ConfigFollowsRequests ==
  [][Handles =>
       \/ desired = None /\ (desired' = None \/ Succeeds({"apply"}))
       \/ /\ desired # None /\ desired' # None
          /\ desired'.preset # desired.preset => Succeeds({"apply"})
          /\ desired'.sink # desired.sink => Succeeds({"apply", "switch-sink"})
          /\ desired'.bypass # desired.bypass => Succeeds({"bypass"})
          /\ desired'.volume # desired.volume => Succeeds({"volume"})]_vars

-------------------------------------------------------------------------------
(* What the documentation says, and the code does not keep *)

\* README: enable restarts from the remembered configuration.  An enable that succeeds
\* leaves a session whose worker runs.  Refuted: after a worker failure enable_locked
\* still sees the stored Enabled and returns at once.
EnableRestarts == [][Handles /\ Succeeds({"enable"}) => session_active']_vars
===============================================================================

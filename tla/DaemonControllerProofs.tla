------------------------ MODULE DaemonControllerProofs ------------------------
(***************************************************************************)
(* The invariants of DaemonController for every set of presets, sinks and  *)
(* volume arguments.  Up and Down, the two ways a handler ends a start of  *)
(* a session, get a lemma each; the handlers are then cases over them.     *)
(***************************************************************************)
EXTENDS DaemonController, TLAPS

\* A snapshot is well typed, with or without a session.
LEMMA SnapshotType == TypeOK => snapshot \in Effective /\ NoEffective \in Effective
<1> SUFFICES ASSUME TypeOK PROVE snapshot \in Effective /\ NoEffective \in Effective
    OBVIOUS
<1>1. NoEffective \in Effective
      BY DEF NoEffective, Effective, Volumes
<1>2. CASE session_active
  <2>1. session \in Session BY <1>2 DEF session_active, TypeOK
  <2> QED BY <1>1, <1>2, <2>1 DEF snapshot, Session, Effective
<1>3. CASE ~session_active
      BY <1>1, <1>3 DEF snapshot
<1> QED BY <1>1, <1>2, <1>3

\* An answer is well typed.
LEMMA ReportType == TypeOK => status_locked \in Report
<1> SUFFICES ASSUME TypeOK PROVE status_locked \in Report OBVIOUS
<1>1. snapshot \in Effective BY SnapshotType
<1>2. status \in Stored /\ desired \in Config \cup {None} BY DEF TypeOK
<1> QED BY <1>1, <1>2 DEF status_locked, Report, Stored, SessionStates

\* A session just started, with its settings replayed, follows the configuration it was
\* started for.
LEMMA ReplayFollows ==
  ASSUME NEW d \in Config, NEW s \in Started(d.preset, d.sink)
  PROVE  /\ replay_settings(s, d) \in Session
         /\ replay_settings(s, d).preset = d.preset
         /\ replay_settings(s, d).selector = d.sink
         /\ replay_settings(s, d).bypass = d.bypass
         /\ replay_settings(s, d).volume = d.volume
         /\ d.sink # NoSelector => replay_settings(s, d).sink = d.sink
<1> DEFINE r == replay_settings(s, d)
<1>1. /\ d.preset \in Presets /\ d.sink \in Selectors
      /\ d.bypass \in BOOLEAN /\ d.volume \in Volumes
      BY DEF Config
<1>2. d.sink = NoSelector \/ d.sink \in Sinks BY <1>1 DEF Selectors
<1>3. s.sink \in Sinks /\ (d.sink # NoSelector => s.sink = d.sink)
      BY <1>2 DEF Started
<1>4. /\ s \in Session /\ s.preset = d.preset /\ s.selector = d.sink
      /\ s.bypass = FALSE /\ s.volume = Unity
      BY <1>1, <1>3 DEF Started, Session, Volumes
<1>5. /\ r.preset = s.preset /\ r.selector = s.selector /\ r.sink = s.sink
      /\ r.bypass = IF d.bypass THEN TRUE ELSE s.bypass
      /\ r.volume = IF d.volume # Unity THEN d.volume ELSE s.volume
      BY <1>4 DEF replay_settings, Session
<1>6. r.bypass = d.bypass /\ r.volume = d.volume BY <1>1, <1>4, <1>5
<1>7. r \in Session BY <1>1, <1>4 DEF replay_settings, Session
<1> QED BY <1>3, <1>4, <1>5, <1>6, <1>7

-------------------------------------------------------------------------------
(* The inductive invariant *)

IndInv == TypeOK /\ SessionFollowsDesired /\ StoredConsistent /\ ReportsAreTruthful

\* A handler that ends with a session up keeps the invariant.
LEMMA UpStep ==
  ASSUME IndInv, NEW cmd \in Commands, NEW ok \in BOOLEAN, NEW d \in Config, d.enabled,
         NEW s \in Started(d.preset, d.sink), phase # "stopped", Up(cmd, d, s, ok)
  PROVE  IndInv'
<1> USE DEF IndInv
<1>1. /\ desired' = d /\ session' = replay_settings(s, d)
      /\ status' = [status EXCEPT !.session_state = "Enabling"]
      /\ pc' = "adopt" /\ job' = [cmd |-> cmd, ok |-> ok]
      /\ UNCHANGED <<initDegraded, response, phase>>
      BY DEF Up
<1>2. Enabled(desired') BY <1>1, NoneAssumption DEF Enabled
<1>3. TypeOK'
  <2>1. session' \in Session BY <1>1, ReplayFollows
  <2>2. status' \in Stored BY <1>1 DEF TypeOK, Stored, SessionStates
  <2>3. job' \in Job BY <1>1 DEF Job
  <2> QED BY <1>1, <2>1, <2>2, <2>3 DEF TypeOK
<1>4. SessionFollowsDesired'
  <2>1. phase' # "stopped" BY <1>1
  <2> QED BY <1>1, <1>2, <2>1, ReplayFollows DEF SessionFollowsDesired
<1>5. StoredConsistent'
  <2>1. status'.health = status.health /\ status'.last_error = status.last_error
        BY <1>1 DEF TypeOK, Stored
  <2> QED BY <1>2, <2>1 DEF StoredConsistent
<1>6. ReportsAreTruthful' BY <1>1 DEF ReportsAreTruthful
<1> QED BY <1>3, <1>4, <1>5, <1>6

\* A handler that ends without a session keeps the invariant: it stores the error.
LEMMA DownStep ==
  ASSUME IndInv, NEW cmd \in Commands, NEW d \in Config \cup {None}, Down(cmd, d)
  PROVE  IndInv'
<1> USE DEF IndInv
<1>1. /\ desired' = d /\ session' = None
      /\ status' = [status EXCEPT !.effective = NoEffective, !.session_state = "Degraded",
                                  !.health = "Degraded", !.last_error = "start"]
      /\ pc' = "respond" /\ job' = [cmd |-> cmd, ok |-> FALSE]
      /\ UNCHANGED <<initDegraded, response, phase>>
      BY DEF Down, Answer
<1>2. status' \in Stored BY <1>1, SnapshotType DEF TypeOK, Stored, SessionStates
<1>3. TypeOK'
  <2>1. job' \in Job BY <1>1 DEF Job
  <2> QED BY <1>1, <1>2, <2>1 DEF TypeOK
<1>4. SessionFollowsDesired' BY <1>1 DEF SessionFollowsDesired
<1>5. StoredConsistent'
  <2>1. /\ status'.health = "Degraded" /\ status'.session_state = "Degraded"
        /\ status'.effective = NoEffective
        BY <1>1 DEF TypeOK, Stored
  <2> QED BY <1>1, <2>1 DEF StoredConsistent
<1>6. ReportsAreTruthful' BY <1>1 DEF ReportsAreTruthful
<1> QED BY <1>3, <1>4, <1>5, <1>6

\* An answer that leaves configuration, status and session alone keeps the invariant.
LEMMA InertStep ==
  ASSUME IndInv, NEW cmd \in Commands, NEW ok \in BOOLEAN, Answer(cmd, ok),
         UNCHANGED <<desired, status, initDegraded, session, response, phase>>
  PROVE  IndInv'
<1> USE DEF IndInv
<1>1. TypeOK' BY DEF TypeOK, Answer, Job
<1>2. SessionFollowsDesired' BY DEF SessionFollowsDesired
<1>3. StoredConsistent' BY DEF StoredConsistent, Answer
<1>4. ReportsAreTruthful' BY DEF ReportsAreTruthful
<1> QED BY <1>1, <1>2, <1>3, <1>4

-------------------------------------------------------------------------------
(* The handlers *)

\* apply: refused, started, rolled back or down.
LEMMA ApplyStep ==
  ASSUME IndInv, NEW p \in Presets, NEW sel \in Selectors, phase # "stopped",
         apply_locked(p, sel)
  PROVE  IndInv'
<1> DEFINE candidate == apply_candidate(p, sel)
<1>0. "apply" \in Commands BY DEF Commands
<1>1. desired \in Config \cup {None} BY DEF IndInv, TypeOK
<1>2. candidate \in Config /\ candidate.enabled /\ candidate.preset = p /\ candidate.sink = sel
      BY <1>1 DEF apply_candidate, Config, Volumes
<1>3. CASE Reject("apply") BY <1>0, <1>3, InertStep DEF Reject
<1>4. CASE \E s \in Started(p, sel) : Up("apply", candidate, s, TRUE)
  <2>1. PICK s \in Started(p, sel) : Up("apply", candidate, s, TRUE) BY <1>4
  <2> HIDE DEF candidate
  <2> QED BY <1>0, <1>2, <2>1, UpStep
<1>5. CASE /\ Enabled(desired)
           /\ \E s \in Started(desired.preset, desired.sink) : Up("apply", desired, s, FALSE)
  <2>1. PICK s \in Started(desired.preset, desired.sink) : Up("apply", desired, s, FALSE)
        BY <1>5
  <2>2. desired \in Config /\ desired.enabled BY <1>1, <1>5 DEF Enabled
  <2> QED BY <1>0, <2>1, <2>2, UpStep
<1>6. CASE Down("apply", desired) BY <1>0, <1>1, <1>6, DownStep
<1> QED BY <1>3, <1>4, <1>5, <1>6 DEF apply_locked

\* enable: refused, already enabled, started or down.
LEMMA EnableStep ==
  ASSUME IndInv, phase # "stopped", enable_locked PROVE IndInv'
<1>0. "enable" \in Commands BY DEF Commands
<1>1. desired \in Config \cup {None} BY DEF IndInv, TypeOK
<1>2. CASE Reject("enable") BY <1>0, <1>2, InertStep DEF Reject
<1>3. CASE /\ Answer("enable", TRUE)
           /\ UNCHANGED <<desired, status, initDegraded, session, response, phase>>
      BY <1>0, <1>3, InertStep
<1>4. CASE /\ desired # None
           /\ \E s \in Started(desired.preset, desired.sink) :
                Up("enable", [desired EXCEPT !.enabled = TRUE], s, TRUE)
  <2> DEFINE d == [desired EXCEPT !.enabled = TRUE]
  <2>1. PICK s \in Started(desired.preset, desired.sink) : Up("enable", d, s, TRUE)
        BY <1>4
  <2>2. d \in Config /\ d.enabled /\ d.preset = desired.preset /\ d.sink = desired.sink
        BY <1>1, <1>4 DEF Config
  <2> HIDE DEF d
  <2> QED BY <1>0, <2>1, <2>2, UpStep
<1>5. CASE desired # None /\ Down("enable", [desired EXCEPT !.enabled = FALSE])
  <2>1. [desired EXCEPT !.enabled = FALSE] \in Config BY <1>1, <1>5 DEF Config
  <2> QED BY <1>0, <1>5, <2>1, DownStep
<1> QED BY <1>2, <1>3, <1>4, <1>5 DEF enable_locked

\* disable and shutdown: the session is stopped and the stored status cleared.
LEMMA DisableStep ==
  ASSUME IndInv, disable_locked \/ shutdown_locked PROVE IndInv'
<1> USE DEF IndInv
<1>1. /\ desired' = IF desired # None THEN [desired EXCEPT !.enabled = FALSE] ELSE None
      /\ session' = None /\ pc' = "respond"
      /\ job' \in Job
      /\ phase' \in {"boot", "serving", "stopping", "stopped"}
      /\ UNCHANGED <<initDegraded, response>>
  <2>1. CASE disable_locked
    <3>1. job' = [cmd |-> "disable", ok |-> TRUE] /\ phase' = phase
          BY <2>1 DEF disable_locked, Answer
    <3>2. job' \in Job BY <3>1 DEF Job, Commands
    <3> QED BY <2>1, <3>1, <3>2 DEF disable_locked, Answer, TypeOK
  <2>2. CASE shutdown_locked
    <3>1. job' = [cmd |-> "shutdown", ok |-> TRUE] /\ phase' = "stopping"
          BY <2>2 DEF shutdown_locked, Answer
    <3>2. job' \in Job BY <3>1 DEF Job, Commands
    <3> QED BY <2>2, <3>1, <3>2 DEF shutdown_locked, Answer
  <2> QED BY <2>1, <2>2
<1>2. desired' \in Config \cup {None} /\ ~Enabled(desired')
      BY <1>1 DEF TypeOK, Config, Enabled
<1>3. /\ status' \in Stored /\ status'.effective = NoEffective
      /\ status'.session_state = "Disabled"
      /\ status'.health = "Ok" => status'.last_error = "none"
  <2>1. CASE disable_locked
        BY <2>1, SnapshotType DEF disable_locked, TypeOK, Stored, SessionStates
  <2>2. CASE shutdown_locked
        BY <2>2, SnapshotType DEF shutdown_locked, TypeOK, Stored, SessionStates, StoredConsistent
  <2> QED BY <2>1, <2>2
<1>4. TypeOK' BY <1>1, <1>2, <1>3 DEF TypeOK
<1>5. SessionFollowsDesired' BY <1>1 DEF SessionFollowsDesired
<1>6. StoredConsistent' BY <1>1, <1>3 DEF StoredConsistent
<1>7. ReportsAreTruthful' BY <1>1 DEF ReportsAreTruthful
<1> QED BY <1>4, <1>5, <1>6, <1>7

\* switch-sink: refused, remembered for later, started, rolled back or down.
LEMMA SwitchSinkStep ==
  ASSUME IndInv, NEW sel \in Selectors, phase # "stopped", switch_sink_locked(sel)
  PROVE  IndInv'
<1> DEFINE d == [desired EXCEPT !.sink = sel]
<1>0. "switch-sink" \in Commands BY DEF Commands
<1>1. desired \in Config \cup {None} BY DEF IndInv, TypeOK
<1>2. desired # None =>
        d \in Config /\ d.sink = sel /\ d.preset = desired.preset /\ d.enabled = desired.enabled
      BY <1>1 DEF Config
<1>3. CASE Reject("switch-sink") BY <1>0, <1>3, InertStep DEF Reject
<1>4. CASE /\ desired # None /\ ~desired.enabled
           /\ desired' = d
           /\ Answer("switch-sink", TRUE)
           /\ UNCHANGED <<status, initDegraded, session, response, phase>>
  <2> USE DEF IndInv
  <2>1. ~Enabled(desired) /\ ~Enabled(desired') BY <1>2, <1>4 DEF Enabled
  <2>2. session = None BY <2>1 DEF SessionFollowsDesired
  <2>3. job' = [cmd |-> "switch-sink", ok |-> TRUE] /\ pc' = "respond" BY <1>4 DEF Answer
  <2>4. TypeOK'
    <3>1. job' \in Job BY <1>0, <2>3 DEF Job
    <3> QED BY <1>2, <1>4, <2>3, <3>1 DEF TypeOK
  <2>5. SessionFollowsDesired' BY <1>4, <2>2 DEF SessionFollowsDesired
  <2>6. StoredConsistent' BY <1>4, <2>1, <2>3 DEF StoredConsistent
  <2>7. ReportsAreTruthful' BY <1>4 DEF ReportsAreTruthful
  <2> QED BY <2>4, <2>5, <2>6, <2>7
<1>5. CASE /\ Enabled(desired)
           /\ \E s \in Started(desired.preset, sel) : Up("switch-sink", d, s, TRUE)
  <2>1. PICK s \in Started(desired.preset, sel) : Up("switch-sink", d, s, TRUE) BY <1>5
  <2>2. d \in Config /\ d.enabled /\ d.sink = sel /\ d.preset = desired.preset
        BY <1>2, <1>5 DEF Enabled
  <2> HIDE DEF d
  <2> QED BY <1>0, <2>1, <2>2, UpStep
<1>6. CASE /\ Enabled(desired)
           /\ \E s \in Started(desired.preset, desired.sink) : Up("switch-sink", desired, s, FALSE)
  <2>1. PICK s \in Started(desired.preset, desired.sink) : Up("switch-sink", desired, s, FALSE)
        BY <1>6
  <2>2. desired \in Config /\ desired.enabled BY <1>1, <1>6 DEF Enabled
  <2> QED BY <1>0, <2>1, <2>2, UpStep
<1>7. CASE Down("switch-sink", desired) BY <1>0, <1>1, <1>7, DownStep
<1> QED BY <1>3, <1>4, <1>5, <1>6, <1>7 DEF switch_sink_locked

\* bypass sets the running session and the configuration together.
LEMMA BypassStep ==
  ASSUME IndInv, NEW b \in BOOLEAN \cup {None}, bypass_locked(b)
  PROVE  IndInv'
<1>0. "bypass" \in Commands BY DEF Commands
<1>1. CASE Reject("bypass") BY <1>0, <1>1, InertStep DEF Reject
<1>2. CASE /\ Enabled(desired) /\ b # None
           /\ desired' = [desired EXCEPT !.bypass = b]
           /\ session' = IF session # None THEN [session EXCEPT !.bypass = b] ELSE None
           /\ status' = [status EXCEPT !.health = "Ok", !.last_error = "none"]
           /\ Answer("bypass", TRUE)
           /\ UNCHANGED <<initDegraded, response, phase>>
  <2> USE DEF IndInv
  <2>1. b \in BOOLEAN BY <1>2
  <2>2. desired \in Config /\ desired.enabled BY <1>2 DEF Enabled, TypeOK
  <2>3. /\ desired' \in Config /\ desired'.enabled /\ desired'.bypass = b
        /\ desired'.preset = desired.preset /\ desired'.sink = desired.sink
        /\ desired'.volume = desired.volume
        BY <1>2, <2>1, <2>2 DEF Config
  <2>4. Enabled(desired') BY <2>3, NoneAssumption DEF Enabled
  <2>5. session' # None =>
          /\ session # None /\ session' \in Session /\ session'.bypass = b
          /\ session'.preset = session.preset /\ session'.selector = session.selector
          /\ session'.sink = session.sink /\ session'.volume = session.volume
        BY <1>2, <2>1 DEF TypeOK, Session
  <2>6. /\ status' \in Stored /\ status'.last_error = "none"
        BY <1>2 DEF TypeOK, Stored
  <2>7. job' = [cmd |-> "bypass", ok |-> TRUE] /\ pc' = "respond" BY <1>2 DEF Answer
  <2>8. TypeOK'
    <3>1. job' \in Job BY <1>0, <2>7 DEF Job
    <3> QED BY <1>2, <2>3, <2>5, <2>6, <2>7, <3>1 DEF TypeOK
  <2>9. SessionFollowsDesired'
        BY <1>2, <2>3, <2>4, <2>5 DEF SessionFollowsDesired
  <2>10. StoredConsistent' BY <2>4, <2>6 DEF StoredConsistent
  <2>11. ReportsAreTruthful' BY <1>2 DEF ReportsAreTruthful
  <2> QED BY <2>8, <2>9, <2>10, <2>11
<1> QED BY <1>1, <1>2 DEF bypass_locked

\* So does volume, with whatever number it accepts.
LEMMA VolumeStep ==
  ASSUME IndInv, NEW v \in VolumeArgs, volume_locked(v)
  PROVE  IndInv'
<1>0. "volume" \in Commands BY DEF Commands
<1>1. CASE Reject("volume") BY <1>0, <1>1, InertStep DEF Reject
<1>2. CASE /\ Enabled(desired) /\ v # Garbage
           /\ desired' = [desired EXCEPT !.volume = v]
           /\ session' = IF session # None THEN [session EXCEPT !.volume = v] ELSE None
           /\ Answer("volume", TRUE)
           /\ UNCHANGED <<status, initDegraded, response, phase>>
  <2> USE DEF IndInv
  <2>1. v \in Volumes BY <1>2 DEF Volumes
  <2>2. desired \in Config /\ desired.enabled BY <1>2 DEF Enabled, TypeOK
  <2>3. /\ desired' \in Config /\ desired'.enabled /\ desired'.volume = v
        /\ desired'.preset = desired.preset /\ desired'.sink = desired.sink
        /\ desired'.bypass = desired.bypass
        BY <1>2, <2>1, <2>2 DEF Config
  <2>4. Enabled(desired') BY <2>3, NoneAssumption DEF Enabled
  <2>5. session' # None =>
          /\ session # None /\ session' \in Session /\ session'.volume = v
          /\ session'.preset = session.preset /\ session'.selector = session.selector
          /\ session'.sink = session.sink /\ session'.bypass = session.bypass
        BY <1>2, <2>1 DEF TypeOK, Session
  <2>6. job' = [cmd |-> "volume", ok |-> TRUE] /\ pc' = "respond" BY <1>2 DEF Answer
  <2>7. TypeOK'
    <3>1. job' \in Job BY <1>0, <2>6 DEF Job
    <3> QED BY <1>2, <2>3, <2>5, <2>6, <3>1 DEF TypeOK
  <2>8. SessionFollowsDesired'
        BY <1>2, <2>3, <2>4, <2>5 DEF SessionFollowsDesired
  <2>9. StoredConsistent' BY <1>2, <2>4 DEF StoredConsistent
  <2>10. ReportsAreTruthful' BY <1>2 DEF ReportsAreTruthful
  <2> QED BY <2>7, <2>8, <2>9, <2>10
<1> QED BY <1>1, <1>2 DEF volume_locked

-------------------------------------------------------------------------------
(* The rest of a request, and the session by itself *)

\* The state of the session is stored only under an enabled configuration.
LEMMA AdoptStep == ASSUME IndInv, Adopt PROVE IndInv'
<1> USE DEF IndInv
<1>1. /\ Enabled(desired) /\ pc' = "respond"
      /\ UNCHANGED <<desired, session, job, response, phase>>
      BY DEF Adopt, StoredConsistent
<1>2. snapshot \in Effective BY SnapshotType
<1>3. set_runtime_state_from_backend_locked \in Stored
      BY <1>2 DEF set_runtime_state_from_backend_locked, TypeOK, Stored, SessionStates
<1>4. /\ status' \in Stored
      /\ status'.health = (IF job.ok THEN "Ok" ELSE "Degraded")
      /\ status'.last_error = (IF job.ok THEN "none" ELSE "start")
      BY <1>3 DEF Adopt, Stored
<1>5. snapshot_init_error \in BOOLEAN
      BY DEF snapshot_init_error, session_active, TypeOK, Session
<1>6. TypeOK' BY <1>1, <1>4, <1>5 DEF TypeOK, Adopt
<1>7. SessionFollowsDesired' BY <1>1 DEF SessionFollowsDesired
<1>8. StoredConsistent' BY <1>1, <1>4 DEF StoredConsistent
<1>9. ReportsAreTruthful' BY <1>1 DEF ReportsAreTruthful
<1> QED BY <1>6, <1>7, <1>8, <1>9

\* What status_locked says of an enabled configuration comes from the backend; without
\* one, from a stored status that is down.
LEMMA StatusTruthful ==
  ASSUME IndInv
  PROVE  /\ status_locked.session_state \in {"Disabled", "Enabled", "Degraded"}
         /\ status_locked.session_state = "Enabled" <=> status_locked.effective.session_active
         /\ status_locked.session_state = "Disabled" => ~Enabled(desired)
         /\ status_locked.desired = desired
         /\ status_locked.effective.session_active =>
              /\ Enabled(desired)
              /\ status_locked.effective.preset_origin = desired.preset
              /\ status_locked.effective.bypass = desired.bypass
              /\ status_locked.effective.volume = desired.volume
         /\ status_locked.health = "Ok" =>
              status_locked.last_error = "none" /\ status_locked.session_state # "Degraded"
<1> USE DEF IndInv
<1>1. CASE Enabled(desired)
  <2>1. CASE session_active
    <3>1. /\ snapshot.session_active /\ snapshot.preset_origin = desired.preset
          /\ snapshot.bypass = desired.bypass /\ snapshot.volume = desired.volume
          BY <2>1 DEF snapshot, session_active, SessionFollowsDesired
    <3>2. status_locked.session_state = "Enabled" /\ status_locked.effective = snapshot
          BY <1>1, <2>1 DEF status_locked
    <3>3. status_locked.health = "Ok" => status_locked.last_error = "none"
          BY <1>1, <2>1 DEF status_locked, StoredConsistent
    <3> QED BY <1>1, <3>1, <3>2, <3>3 DEF status_locked
  <2>2. CASE ~session_active
    <3>1. /\ status_locked.session_state = "Degraded" /\ status_locked.health = "Degraded"
          /\ status_locked.effective = NoEffective
          BY <1>1, <2>2 DEF status_locked, snapshot
    <3> QED BY <1>1, <3>1 DEF status_locked, NoEffective
  <2> QED BY <2>1, <2>2
<1>2. CASE ~Enabled(desired)
  <2>1. /\ status_locked.session_state = status.session_state
        /\ status_locked.effective = status.effective
        /\ status_locked.health = status.health
        /\ status_locked.last_error = status.last_error
        /\ status_locked.desired = desired
        BY <1>2 DEF status_locked
  <2> QED BY <1>2, <2>1 DEF StoredConsistent, NoEffective
<1> QED BY <1>1, <1>2

\* The answer is built from the status and the session as they are.
LEMMA RespondStep == ASSUME IndInv, Respond PROVE IndInv'
<1> USE DEF IndInv
<1>1. /\ response' = [cmd |-> job.cmd, ok |-> job.ok, status |-> status_locked]
      /\ pc' = "idle" /\ session' = IF phase' = "stopped" THEN None ELSE session
      /\ phase' = IF phase = "boot" THEN IF job.ok THEN "serving" ELSE "stopped"
                  ELSE IF phase = "stopping" THEN "stopped" ELSE phase
      /\ UNCHANGED <<desired, status, initDegraded, job>>
      BY DEF Respond
<1>2. phase' \in {"boot", "serving", "stopping", "stopped"} BY <1>1 DEF TypeOK
<1>3. response' \in Response
      BY <1>1, ReportType DEF TypeOK, Job, Response
<1>4. TypeOK' BY <1>1, <1>2, <1>3 DEF TypeOK
<1>5. SessionFollowsDesired' BY <1>1 DEF SessionFollowsDesired
<1>6. StoredConsistent' BY <1>1 DEF StoredConsistent
<1>7. ReportsAreTruthful'
  <2>1. response'.status = status_locked BY <1>1
  <2> QED BY <2>1, StatusTruthful DEF ReportsAreTruthful
<1> QED BY <1>4, <1>5, <1>6, <1>7

\* The worker, the filters and the default sink change only what no setting names.
LEMMA EnvironmentStep == ASSUME IndInv, Environment PROVE IndInv'
<1> USE DEF IndInv
<1>1. UNCHANGED <<desired, status, initDegraded, pc, job, response, phase>>
      BY DEF Environment, WorkerFails, InitFails, InitRecovers, SinkMoves
<1>2. session \in Session /\ session # None
      BY DEF Environment, WorkerFails, InitFails, InitRecovers, SinkMoves, session_active, TypeOK
<1>3. /\ session' \in Session /\ session'.preset = session.preset
      /\ session'.selector = session.selector /\ session'.bypass = session.bypass
      /\ session'.volume = session.volume
      /\ session'.sink = session.sink \/ session.selector = NoSelector
  <2>1. CASE WorkerFails BY <1>2, <2>1 DEF WorkerFails, Session
  <2>2. CASE InitFails BY <1>2, <2>2 DEF InitFails, Session
  <2>3. CASE InitRecovers BY <1>2, <2>3 DEF InitRecovers, Session
  <2>4. CASE \E s \in Sinks : SinkMoves(s) BY <1>2, <2>4 DEF SinkMoves, Session
  <2> QED BY <2>1, <2>2, <2>3, <2>4 DEF Environment
<1>4. TypeOK' BY <1>1, <1>3 DEF TypeOK
<1>5. SessionFollowsDesired' BY <1>1, <1>2, <1>3 DEF SessionFollowsDesired
<1>6. StoredConsistent' BY <1>1 DEF StoredConsistent
<1>7. ReportsAreTruthful' BY <1>1 DEF ReportsAreTruthful
<1> QED BY <1>4, <1>5, <1>6, <1>7

\* The process leaves boot or ends; a session does not survive its end.
LEMMA ProcessStep == ASSUME IndInv, BootIdle \/ SignalExit PROVE IndInv'
<1> USE DEF IndInv
<1>1. /\ UNCHANGED <<desired, status, initDegraded, pc, job, response>>
      /\ \/ phase' = "serving" /\ session' = session
         \/ phase' = "stopped" /\ session' = None
      BY DEF BootIdle, SignalExit
<1>2. TypeOK' BY <1>1 DEF TypeOK
<1>3. SessionFollowsDesired' BY <1>1 DEF SessionFollowsDesired
<1>4. StoredConsistent' BY <1>1 DEF StoredConsistent
<1>5. ReportsAreTruthful' BY <1>1 DEF ReportsAreTruthful
<1> QED BY <1>2, <1>3, <1>4, <1>5

-------------------------------------------------------------------------------
(* The theorems *)

\* The daemon starts in a state of the invariant.
LEMMA InitInv == Init => IndInv
<1> SUFFICES ASSUME Init PROVE IndInv OBVIOUS
<1>1. NoEffective \in Effective BY DEF NoEffective, Effective, Volumes
<1>2. TypeOK BY <1>1 DEF Init, TypeOK, Stored, SessionStates, Job, Commands
<1>3. SessionFollowsDesired BY DEF Init, SessionFollowsDesired
<1>4. StoredConsistent BY DEF Init, StoredConsistent
<1>5. ReportsAreTruthful BY DEF Init, ReportsAreTruthful
<1> QED BY <1>2, <1>3, <1>4, <1>5 DEF IndInv

\* Every step keeps the invariant.
LEMMA NextInv == IndInv /\ [Next]_vars => IndInv'
<1> SUFFICES ASSUME IndInv, [Next]_vars PROVE IndInv' OBVIOUS
<1>1. CASE BootIdle \/ SignalExit BY <1>1, ProcessStep
<1>2. CASE \E p \in Presets, sel \in Selectors : BootApply(p, sel)
      BY <1>2, ApplyStep DEF BootApply
<1>3. CASE HandleRequest
  <2>1. phase # "stopped" BY <1>3 DEF HandleRequest, Accepting
  <2>2. CASE \E p \in Presets, sel \in Selectors : apply_locked(p, sel)
        BY <2>1, <2>2, ApplyStep
  <2>3. CASE enable_locked BY <2>1, <2>3, EnableStep
  <2>4. CASE disable_locked \/ shutdown_locked BY <2>4, DisableStep
  <2>5. CASE \E sel \in Selectors : switch_sink_locked(sel) BY <2>1, <2>5, SwitchSinkStep
  <2>6. CASE \E b \in BOOLEAN \cup {None} : bypass_locked(b) BY <2>6, BypassStep
  <2>7. CASE \E v \in VolumeArgs : volume_locked(v) BY <2>7, VolumeStep
  <2>8. CASE list_sinks_locked BY <2>8, InertStep DEF list_sinks_locked, Commands
  <2>9. CASE report_status BY <2>9, InertStep DEF report_status, Commands
  <2>10. CASE Reject("unknown") BY <2>10, InertStep DEF Reject, Commands
  <2> QED BY <1>3, <2>2, <2>3, <2>4, <2>5, <2>6, <2>7, <2>8, <2>9, <2>10 DEF HandleRequest
<1>4. CASE Adopt BY <1>4, AdoptStep
<1>5. CASE Respond BY <1>5, RespondStep
<1>6. CASE Environment BY <1>6, EnvironmentStep
<1>7. CASE UNCHANGED vars
      BY <1>7 DEF vars, IndInv, TypeOK, SessionFollowsDesired, StoredConsistent,
                  ReportsAreTruthful, Enabled
<1> QED BY <1>1, <1>2, <1>3, <1>4, <1>5, <1>6, <1>7 DEF Next

\* The inductive invariant holds in every reachable state.
THEOREM Invariance == Spec => []IndInv
BY InitInv, NextInv, PTL DEF Spec

\* Every variable of the controller keeps its type.
THEOREM TypeCorrect == Spec => []TypeOK
<1>1. IndInv => TypeOK BY DEF IndInv
<1> QED BY <1>1, Invariance, PTL

\* A running session is always the remembered, enabled configuration.
THEOREM SessionFollows == Spec => []SessionFollowsDesired
<1>1. IndInv => SessionFollowsDesired BY DEF IndInv
<1> QED BY <1>1, Invariance, PTL

\* Every answer the daemon sends is truthful.
THEOREM Truthful == Spec => []ReportsAreTruthful
<1>1. IndInv => ReportsAreTruthful BY DEF IndInv
<1> QED BY <1>1, Invariance, PTL

-------------------------------------------------------------------------------
(* The remembered configuration *)

ConfigStep ==
  Handles =>
    \/ desired = None /\ (desired' = None \/ Succeeds({"apply"}))
    \/ /\ desired # None /\ desired' # None
       /\ desired'.preset # desired.preset => Succeeds({"apply"})
       /\ desired'.sink # desired.sink => Succeeds({"apply", "switch-sink"})
       /\ desired'.bypass # desired.bypass => Succeeds({"bypass"})
       /\ desired'.volume # desired.volume => Succeeds({"volume"})

\* apply sets preset and sink, and only if it succeeds; bypass and volume carry over.
LEMMA ApplyConfig ==
  ASSUME TypeOK, NEW p \in Presets, NEW sel \in Selectors, apply_locked(p, sel)
  PROVE  ConfigStep
<1>1. desired \in Config \cup {None} BY DEF TypeOK
<1>2. CASE desired' = desired BY <1>2 DEF ConfigStep
<1>3. CASE desired' # desired
  <2> DEFINE c == apply_candidate(p, sel)
  <2>1. desired' = c /\ job' = [cmd |-> "apply", ok |-> TRUE]
        BY <1>3 DEF apply_locked, Reject, Up, Down
  <2>2. Succeeds({"apply"}) /\ Succeeds({"apply", "switch-sink"}) BY <2>1 DEF Succeeds
  <2>3. c \in Config BY <1>1 DEF apply_candidate, Config, Volumes
  <2>4. c # None BY <2>3, NoneAssumption
  <2>5. desired # None => c.bypass = desired.bypass /\ c.volume = desired.volume
        BY DEF apply_candidate
  <2> HIDE DEF c
  <2> QED BY <2>1, <2>2, <2>4, <2>5 DEF ConfigStep
<1> QED BY <1>2, <1>3

\* The other handlers change the field they are named for, or enabled.
LEMMA HandlerConfig ==
  ASSUME TypeOK, HandleRequest, ~(\E p \in Presets, sel \in Selectors : apply_locked(p, sel))
  PROVE  ConfigStep
<1>1. desired \in Config \cup {None} BY DEF TypeOK
<1>2. CASE desired' = desired BY <1>2 DEF ConfigStep
<1>3. CASE desired # None /\ \E e \in BOOLEAN : desired' = [desired EXCEPT !.enabled = e]
  <2>1. PICK e \in BOOLEAN : desired' = [desired EXCEPT !.enabled = e] BY <1>3
  <2>2. desired' \in Config BY <1>1, <1>3, <2>1 DEF Config
  <2>3. /\ desired'.preset = desired.preset /\ desired'.sink = desired.sink
        /\ desired'.bypass = desired.bypass /\ desired'.volume = desired.volume
        BY <1>1, <1>3, <2>1 DEF Config
  <2> QED BY <1>3, <2>2, <2>3, NoneAssumption DEF ConfigStep
<1>4. CASE desired # None /\ Succeeds({"switch-sink"})
           /\ \E sel \in Selectors : desired' = [desired EXCEPT !.sink = sel]
  <2>1. PICK sel \in Selectors : desired' = [desired EXCEPT !.sink = sel] BY <1>4
  <2>2. desired' \in Config BY <1>1, <1>4, <2>1 DEF Config
  <2>3. /\ desired'.preset = desired.preset
        /\ desired'.bypass = desired.bypass /\ desired'.volume = desired.volume
        BY <1>1, <1>4, <2>1 DEF Config
  <2>4. Succeeds({"apply", "switch-sink"}) BY <1>4 DEF Succeeds
  <2> QED BY <1>4, <2>2, <2>3, <2>4, NoneAssumption DEF ConfigStep
<1>5. CASE desired # None /\ Succeeds({"bypass"})
           /\ \E b \in BOOLEAN : desired' = [desired EXCEPT !.bypass = b]
  <2>1. PICK b \in BOOLEAN : desired' = [desired EXCEPT !.bypass = b] BY <1>5
  <2>2. desired' \in Config BY <1>1, <1>5, <2>1 DEF Config
  <2>3. /\ desired'.preset = desired.preset /\ desired'.sink = desired.sink
        /\ desired'.volume = desired.volume
        BY <1>1, <1>5, <2>1 DEF Config
  <2> QED BY <1>5, <2>2, <2>3, NoneAssumption DEF ConfigStep
<1>6. CASE desired # None /\ Succeeds({"volume"})
           /\ \E v \in Volumes : desired' = [desired EXCEPT !.volume = v]
  <2>1. PICK v \in Volumes : desired' = [desired EXCEPT !.volume = v] BY <1>6
  <2>2. desired' \in Config BY <1>1, <1>6, <2>1 DEF Config
  <2>3. /\ desired'.preset = desired.preset /\ desired'.sink = desired.sink
        /\ desired'.bypass = desired.bypass
        BY <1>1, <1>6, <2>1 DEF Config
  <2> QED BY <1>6, <2>2, <2>3, NoneAssumption DEF ConfigStep
<1>7. CASE enable_locked
  <2>1. desired' = desired \/ (desired # None /\ \E e \in BOOLEAN : desired' = [desired EXCEPT !.enabled = e])
        BY <1>7 DEF enable_locked, Reject, Up, Down
  <2> QED BY <1>2, <1>3, <2>1
<1>8. CASE disable_locked \/ shutdown_locked
  <2>1. desired' = desired \/ (desired # None /\ \E e \in BOOLEAN : desired' = [desired EXCEPT !.enabled = e])
        BY <1>8 DEF disable_locked, shutdown_locked
  <2> QED BY <1>2, <1>3, <2>1
<1>9. CASE \E sel \in Selectors : switch_sink_locked(sel)
  <2>1. PICK sel \in Selectors : switch_sink_locked(sel) BY <1>9
  <2>2. \/ desired' = desired
        \/ /\ desired # None /\ desired' = [desired EXCEPT !.sink = sel]
           /\ job' = [cmd |-> "switch-sink", ok |-> TRUE]
        BY <2>1 DEF switch_sink_locked, Reject, Up, Down, Answer, Enabled
  <2>3. job' = [cmd |-> "switch-sink", ok |-> TRUE] => Succeeds({"switch-sink"})
        BY DEF Succeeds
  <2> QED BY <1>2, <1>4, <2>2, <2>3
<1>10. CASE \E b \in BOOLEAN \cup {None} : bypass_locked(b)
  <2>1. PICK b \in BOOLEAN \cup {None} : bypass_locked(b) BY <1>10
  <2>2. \/ desired' = desired
        \/ /\ desired # None /\ b \in BOOLEAN /\ desired' = [desired EXCEPT !.bypass = b]
           /\ job' = [cmd |-> "bypass", ok |-> TRUE]
        BY <2>1 DEF bypass_locked, Reject, Answer, Enabled
  <2>3. job' = [cmd |-> "bypass", ok |-> TRUE] => Succeeds({"bypass"})
        BY DEF Succeeds
  <2> QED BY <1>2, <1>5, <2>2, <2>3
<1>11. CASE \E v \in VolumeArgs : volume_locked(v)
  <2>1. PICK v \in VolumeArgs : volume_locked(v) BY <1>11
  <2>2. \/ desired' = desired
        \/ /\ desired # None /\ v \in Volumes /\ desired' = [desired EXCEPT !.volume = v]
           /\ job' = [cmd |-> "volume", ok |-> TRUE]
        BY <2>1 DEF volume_locked, Reject, Answer, Enabled, Volumes
  <2>3. job' = [cmd |-> "volume", ok |-> TRUE] => Succeeds({"volume"})
        BY DEF Succeeds
  <2> QED BY <1>2, <1>6, <2>2, <2>3
<1>12. CASE list_sinks_locked \/ report_status \/ Reject("unknown")
  <2>1. desired' = desired BY <1>12 DEF list_sinks_locked, report_status, Reject
  <2> QED BY <1>2, <2>1
<1> QED BY <1>7, <1>8, <1>9, <1>10, <1>11, <1>12 DEF HandleRequest

\* The remembered configuration changes only where a request asks for it and succeeds.
THEOREM ConfigFollows == Spec => ConfigFollowsRequests
<1>1. TypeOK /\ [Next]_vars => [ConfigStep]_vars
  <2> SUFFICES ASSUME TypeOK, Next PROVE ConfigStep OBVIOUS
  <2>1. CASE \E p \in Presets, sel \in Selectors : apply_locked(p, sel) BY <2>1, ApplyConfig
  <2>2. CASE HandleRequest BY <2>1, <2>2, HandlerConfig
  <2>3. CASE BootIdle \/ SignalExit \/ Adopt \/ Respond \/ Environment
    <3>1. desired' = desired
          BY <2>3 DEF BootIdle, SignalExit, Adopt, Respond, Environment, WorkerFails,
                      InitFails, InitRecovers, SinkMoves
    <3> QED BY <3>1 DEF ConfigStep
  <2> QED BY <2>1, <2>2, <2>3 DEF Next, BootApply
<1> QED BY <1>1, TypeCorrect, PTL DEF Spec, ConfigFollowsRequests, ConfigStep
===============================================================================

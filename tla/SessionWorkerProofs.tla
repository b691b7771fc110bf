------------------------- MODULE SessionWorkerProofs -------------------------
(***************************************************************************)
(* The session backend for any number of calls, tasks and faults.  The     *)
(* invariant follows the controller's thread: at each of its steps it says *)
(* which router and which worker there are, and that no stop is left over  *)
(* from an earlier session.  From it follow the safety properties and that *)
(* the backend implements Session.                                         *)
(***************************************************************************)
EXTENDS SessionWorker, TLAPS

Starting == {"router_start", "adopt", "drain", "spawn"}
Running == {"top", "timeout", "poll", "run", "task"}

\* The router at each step of the controller's thread.
RouterAt ==
  /\ ctl \in {"idle", "write", "join", "router_stop"} => router # "starting"
  /\ ctl = "router_start" => router # "up"
  /\ ctl = "adopt" => router = "starting"
  /\ ctl \in {"drain", "spawn"} => router = "up"
  /\ ctl \in Starting => goal = "start"

\* A worker exists exactly while an adopted router waits for its end.
WorkerAt ==
  /\ ctl \in Starting \cup {"router_stop"} => wk = "none"
  /\ ctl \in {"idle", "write", "join"} => (router = "up" <=> wk # "none")

\* Between calls no stop is pending for a session that is up, nor for one about to begin.
NoStopLeft ==
  /\ router = "up" /\ ctl \in {"idle", "drain", "spawn"} => ~stop_requested
  /\ router = "up" /\ ctl \in {"idle", "spawn"} => stop_fd = 0

\* A worker that runs has not failed; one that ended between calls has.
Failure ==
  /\ wk \in Running => ~worker_failed
  /\ ctl \in {"drain", "spawn"} => ~worker_failed
  /\ ctl = "idle" /\ wk = "exited" => worker_failed

IndInv == TypeOK /\ RouterAt /\ WorkerAt /\ NoStopLeft /\ Failure /\ NoLostWakeup

-------------------------------------------------------------------------------
(* Types *)

Flags == /\ stop_requested \in BOOLEAN /\ worker_failed \in BOOLEAN
         /\ has_stop_fd \in BOOLEAN /\ has_wake_fd \in BOOLEAN

Others ==
  /\ ctl \in {"idle", "write", "join", "router_stop"} \cup Starting
  /\ goal \in {"start", "stop"} /\ router \in {"none", "starting", "up"}
  /\ stop_fd \in Nat /\ wake_fd \in Nat /\ due \in Nat /\ delayed \in Nat
  /\ prod \in {"idle", "pushed"}
  /\ wk \in {"none", "exited"} \cup Running
  /\ timeout \in {"zero", "finite", "infinite"}
  /\ calls \in 0..MaxCalls /\ pushes \in 0..MaxTasks /\ faults \in 0..MaxFaults

LEMMA Types == TypeOK <=> Flags /\ Others
<1>1. ASSUME Others, Flags PROVE TypeOK
  BY <1>1 DEF TypeOK, Flags, Others, Starting, Running
<1>2. ASSUME TypeOK PROVE Flags
  BY <1>2, Zenon DEF TypeOK, Flags
<1>3. ASSUME TypeOK PROVE Others
  BY <1>3 DEF TypeOK, Others, Starting, Running
<1> QED BY <1>1, <1>2, <1>3

LEMMA InitInd == Init => IndInv
<1> SUFFICES ASSUME Init PROVE IndInv
  OBVIOUS
<1>1. Flags
  BY Zenon DEF Init, Flags
<1>2. Others
  BY BoundsAssumption DEF Init, Others, Starting, Running
<1>3. RouterAt /\ WorkerAt /\ NoStopLeft /\ Failure /\ NoLostWakeup
  BY DEF Init, RouterAt, WorkerAt, NoStopLeft, Failure, NoLostWakeup, Starting, Running
<1> QED BY <1>1, <1>2, <1>3, Types DEF IndInv

LEMMA FlagsStep == Flags /\ [Next]_vars => Flags'
BY Zenon DEF Flags, vars, ctlVars, Next, Call, Controller, StopWrite, Join, RouterStop, RouterStart,
             RouterStartFails, RouterStarted, AdoptRouter, Drain, Spawn, Push, Wake, ComesDue,
             worker_loop, WkTop, WkTimeout, PollTimedOut, PollStop, PollWake, RunTask, TaskDone,
             RunDone, PollInterrupted, PollFails

LEMMA OthersStep == Others /\ [Next]_vars => Others'
<1> SUFFICES ASSUME Others, [Next]_vars PROVE Others'
  OBVIOUS
<1> USE BoundsAssumption DEF Others, Starting, Running, taskVars
<1>1. ASSUME NEW g \in {"start", "stop"}, Call(g) PROVE Others'
  BY <1>1 DEF Call
<1>2. CASE Controller
  BY <1>2 DEF Controller, StopWrite, Join, RouterStop, RouterStart, RouterStartFails,
              RouterStarted, AdoptRouter, Drain, Spawn, RouterGone
<1>3. CASE Wake \/ ComesDue \/ \E delay \in BOOLEAN : Push(delay)
  BY <1>3 DEF Push, Wake, ComesDue, ctlVars
<1>4. CASE worker_loop \/ PollInterrupted \/ PollFails
  BY <1>4 DEF worker_loop, WkTop, WkTimeout, next_task_timeout, PollTimedOut, PollStop, PollWake,
              RunTask, TaskDone, RunDone, PollInterrupted, PollFails, ctlVars
<1>5. CASE UNCHANGED vars
  BY <1>5 DEF vars
<1> QED BY <1>1, <1>2, <1>3, <1>4, <1>5 DEF Next

-------------------------------------------------------------------------------
(* The controller's thread *)

\* stop_session: the stop that is written ends the worker that is joined, and then the router.
LEMMA StopStep == ASSUME IndInv, StopWrite \/ Join \/ RouterStop
                  PROVE RouterAt' /\ WorkerAt' /\ NoStopLeft' /\ Failure' /\ NoLostWakeup'
<1> USE DEF IndInv, RouterAt, WorkerAt, NoStopLeft, Failure, NoLostWakeup, Starting, Running
<1>0. Others
  BY Types
<1>1. CASE StopWrite
  BY <1>0, <1>1 DEF StopWrite, taskVars, Others
<1>2. CASE Join
  BY <1>0, <1>2 DEF Join, taskVars, Others
<1>3. CASE RouterStop
  BY <1>0, <1>3 DEF RouterStop, RouterGone, Others
<1> QED BY <1>1, <1>2, <1>3

\* start_session: what an earlier session left is cleared before the worker begins.
LEMMA StartStep == ASSUME IndInv, RouterStart \/ RouterStartFails \/ RouterStarted \/ AdoptRouter
                                  \/ Drain \/ Spawn
                   PROVE RouterAt' /\ WorkerAt' /\ NoStopLeft' /\ Failure' /\ NoLostWakeup'
<1> USE DEF IndInv, RouterAt, WorkerAt, NoStopLeft, Failure, NoLostWakeup, Starting, Running
<1>0. Others
  BY Types
<1>1. CASE RouterStart
  BY <1>0, <1>1 DEF RouterStart, taskVars, Others
<1>2. CASE RouterStartFails
  BY <1>0, <1>2 DEF RouterStartFails, RouterGone, Others
<1>3. CASE RouterStarted
  BY <1>0, <1>3 DEF RouterStarted, taskVars, Others
<1>4. CASE AdoptRouter
  BY <1>0, <1>4 DEF AdoptRouter, taskVars, Others
<1>5. CASE Drain
  BY <1>0, <1>5 DEF Drain, taskVars, Others
<1>6. CASE Spawn
  BY <1>0, <1>6 DEF Spawn, taskVars, Others
<1> QED BY <1>1, <1>2, <1>3, <1>4, <1>5, <1>6

-------------------------------------------------------------------------------
(* The other threads *)

\* schedule_task and the clock only touch the queue and the wake-up.
LEMMA TaskStep == ASSUME IndInv, Wake \/ ComesDue \/ \E delay \in BOOLEAN : Push(delay)
                  PROVE RouterAt' /\ WorkerAt' /\ NoStopLeft' /\ Failure' /\ NoLostWakeup'
<1>0. Others
  BY Types DEF IndInv
<1>1. RouterAt' /\ WorkerAt' /\ NoStopLeft' /\ Failure'
  BY DEF IndInv, RouterAt, WorkerAt, NoStopLeft, Failure, Push, Wake, ComesDue, ctlVars
<1>2. NoLostWakeup'
  <2>1. CASE Wake
    BY <1>0, <2>1 DEF NoLostWakeup, Others, Wake, ctlVars
  <2>2. CASE ComesDue
    BY <1>0, <2>2 DEF IndInv, NoLostWakeup, Others, ComesDue, ctlVars
  <2>3. CASE \E delay \in BOOLEAN : Push(delay)
    BY <2>3 DEF NoLostWakeup, Push
  <2> QED BY <2>1, <2>2, <2>3
<1> QED BY <1>1, <1>2

\* The worker ends by itself only for a stop or a failure, and sleeps without a timeout only
\* on an empty queue.
LEMMA WorkerStep == ASSUME IndInv, worker_loop \/ PollInterrupted \/ PollFails
                    PROVE RouterAt' /\ WorkerAt' /\ NoStopLeft' /\ Failure' /\ NoLostWakeup'
<1> USE DEF IndInv, RouterAt, WorkerAt, NoStopLeft, Failure, NoLostWakeup, Starting, Running,
            ctlVars, taskVars
<1>0. Others
  BY Types
<1>1. CASE WkTop
  BY <1>0, <1>1 DEF WkTop, Others
<1>2. CASE WkTimeout
  BY <1>0, <1>2 DEF WkTimeout, next_task_timeout, Others
<1>3. CASE PollStop
  BY <1>0, <1>3 DEF PollStop, Others
<1>4. CASE PollTimedOut \/ PollWake \/ PollInterrupted
  BY <1>0, <1>4 DEF PollTimedOut, PollWake, PollInterrupted, Others
<1>5. CASE PollFails
  BY <1>0, <1>5 DEF PollFails, Others
<1>6. CASE RunTask \/ TaskDone \/ RunDone
  BY <1>0, <1>6 DEF RunTask, TaskDone, RunDone, Others
<1> QED BY <1>1, <1>2, <1>3, <1>4, <1>5, <1>6 DEF worker_loop

LEMMA Step == IndInv /\ [Next]_vars => IndInv'
<1> SUFFICES ASSUME IndInv, [Next]_vars PROVE IndInv'
  OBVIOUS
<1>1. TypeOK'
  <2>1. Flags /\ Others
    BY Types DEF IndInv
  <2>2. Flags' /\ Others'
    BY <2>1, FlagsStep, OthersStep
  <2>3. (Flags /\ Others => TypeOK)'
    BY Types, PTL
  <2> QED BY <2>2, <2>3
<1>2. ASSUME NEW g \in {"start", "stop"}, Call(g)
      PROVE RouterAt' /\ WorkerAt' /\ NoStopLeft' /\ Failure' /\ NoLostWakeup'
  BY <1>2 DEF IndInv, RouterAt, WorkerAt, NoStopLeft, Failure, NoLostWakeup, Call, taskVars,
              Starting
<1>3. CASE UNCHANGED vars
  BY <1>3, <1>1 DEF IndInv, RouterAt, WorkerAt, NoStopLeft, Failure, NoLostWakeup, vars
<1> QED BY <1>1, <1>2, <1>3, StopStep, StartStep, TaskStep, WorkerStep
           DEF Next, Controller, IndInv

-------------------------------------------------------------------------------
\* The invariant holds of every behaviour, whatever the number of calls, tasks and faults.
THEOREM Invariance == Spec => []IndInv
BY InitInd, Step, PTL DEF Spec

\* The backend's state is well typed.
THEOREM TypeCorrect == Spec => []TypeOK
<1>1. IndInv => TypeOK
  BY DEF IndInv
<1> QED BY <1>1, Invariance, PTL

\* A session that is reported active has a worker: stop_session's signal never reaches the
\* worker of a later session.
THEOREM NoZombie == Spec => []NoZombieSession
<1>1. IndInv => NoZombieSession
  BY DEF IndInv, WorkerAt, Failure, NoZombieSession
<1> QED BY <1>1, Invariance, PTL

\* stop_session joins the worker before the router goes away.
THEOREM RouterOutlives == Spec => []RouterOutlivesWorker
<1>1. IndInv => RouterOutlivesWorker
  BY Types DEF IndInv, Others, WorkerAt, RouterOutlivesWorker
<1> QED BY <1>1, Invariance, PTL

\* schedule_task pushes before it writes wake_fd_, and the worker computes its timeout before
\* it polls; no task is lost in between.
THEOREM WakeupsArrive == Spec => []NoLostWakeup
<1>1. IndInv => NoLostWakeup
  BY DEF IndInv
<1> QED BY <1>1, Invariance, PTL

-------------------------------------------------------------------------------
(* The refinement.  What Session sees of the backend. *)

CallOf == IF ctl = "idle" THEN "none" ELSE goal
Work == due + delayed

LEMMA InitRefines == Init => S!Init
BY DEF Init, S!Init, Phase

\* The steps of the controller's thread.
LEMMA ControllerRefines ==
  ASSUME IndInv, IndInv', Controller PROVE S!Next \/ UNCHANGED <<Phase, CallOf, Work>>
<1> USE DEF IndInv, RouterAt, WorkerAt, Starting, Running, CallOf, Work
<1>0. Others /\ goal # "none"
  BY Types DEF Others
<1>1. CASE StopWrite
  BY <1>1 DEF StopWrite, Phase, taskVars
<1>2. CASE Join
  BY <1>0, <1>2 DEF Join, Phase, taskVars, S!Next, S!End
<1>3. CASE RouterStop
  <2>1. CallOf = goal /\ Phase \in {"off", "ending"}
    BY <1>0, <1>3 DEF RouterStop, Phase, Others
  <2>2. Phase' = "off" /\ Work' = 0 /\ CallOf' = IF goal = "stop" THEN "none" ELSE goal
    BY <1>0, <1>3 DEF RouterStop, RouterGone, Phase, Others
  <2> QED BY <1>0, <2>1, <2>2 DEF S!Next, S!Gone
<1>4. CASE RouterStart
  BY <1>0, <1>4 DEF RouterStart, Phase, taskVars, S!Next, S!Start
<1>5. CASE RouterStartFails
  BY <1>0, <1>5 DEF RouterStartFails, RouterGone, Phase, S!Next, S!StartFails
<1>6. CASE RouterStarted \/ AdoptRouter \/ Drain
  BY <1>6 DEF RouterStarted, AdoptRouter, Drain, Phase, taskVars
<1>7. CASE Spawn
  BY <1>0, <1>7 DEF Spawn, Phase, taskVars, S!Next, S!ComeUp
<1> QED BY <1>1, <1>2, <1>3, <1>4, <1>5, <1>6, <1>7 DEF Controller

\* The worker's steps.
LEMMA WorkerRefines ==
  ASSUME IndInv, worker_loop \/ PollInterrupted \/ PollFails
  PROVE S!Next \/ UNCHANGED <<Phase, CallOf, Work>>
<1> USE DEF IndInv, RouterAt, WorkerAt, NoStopLeft, Failure, Starting, Running, CallOf, Work,
            ctlVars, taskVars
<1>0. Others /\ goal # "none"
  BY Types DEF Others
<1>1. CASE WkTop
  BY <1>0, <1>1 DEF WkTop, Phase, Others, S!Next, S!End
<1>2. CASE PollStop
  BY <1>0, <1>2 DEF PollStop, Phase, Others, S!Next, S!End
<1>3. CASE PollFails
  BY <1>0, <1>3 DEF PollFails, Phase, S!Next, S!Fail
<1>4. CASE RunTask
  BY <1>0, <1>4 DEF RunTask, Phase, Others, S!Next, S!Run
<1>5. CASE WkTimeout \/ PollTimedOut \/ PollWake \/ PollInterrupted \/ TaskDone \/ RunDone
  BY <1>5 DEF WkTimeout, PollTimedOut, PollWake, PollInterrupted, TaskDone, RunDone, Phase
<1> QED BY <1>1, <1>2, <1>3, <1>4, <1>5 DEF worker_loop

\* Every step is one of Session's or changes nothing that Session sees.
LEMMA StepRefines == ASSUME IndInv, IndInv', [Next]_vars PROVE [S!Next]_(S!vars)
<1> USE DEF S!vars, CallOf, Work
<1>0. Others
  BY Types DEF IndInv
<1>1. ASSUME NEW g \in {"start", "stop"}, Call(g) PROVE S!Next
  BY <1>0, <1>1 DEF IndInv, RouterAt, WorkerAt, Call, Phase, taskVars, Starting, S!Next, S!Begin
<1>2. CASE \E delay \in BOOLEAN : Push(delay)
  BY <1>0, <1>2 DEF Push, Phase, Others, ctlVars, S!Next, S!Schedule
<1>3. CASE Wake
  BY <1>3 DEF Wake, Phase, ctlVars
<1>4. CASE ComesDue
  BY <1>0, <1>4 DEF ComesDue, Phase, Others, ctlVars
<1>5. CASE UNCHANGED vars
  BY <1>5 DEF vars, Phase
<1> QED BY <1>1, <1>2, <1>3, <1>4, <1>5, ControllerRefines, WorkerRefines DEF Next

\* RealSessionBackend, with its threads, descriptors and queue, keeps the promise of Session.
THEOREM Implements == Spec => BehavesAsSession
<1>1. IndInv /\ IndInv' /\ [Next]_vars => [S!Next]_(S!vars)
  BY StepRefines
<1> QED BY <1>1, InitRefines, Invariance, PTL DEF Spec, BehavesAsSession, S!Spec
=============================================================================

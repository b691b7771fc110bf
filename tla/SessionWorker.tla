---------------------------- MODULE SessionWorker ----------------------------
(***************************************************************************)
(* RealSessionBackend (daemon_backend.cpp): the controller's thread starts *)
(* and stops sessions, the worker thread of a session sleeps in poll and   *)
(* runs the tasks that PipeWire's threads schedule on the router           *)
(* (schedule_task, next_task_timeout, run_due_tasks of                     *)
(* pipewire_router.cpp).  Two event descriptors wake the worker: stop_fd_, *)
(* which lives as long as the backend, and the router's wake_fd_.          *)
(***************************************************************************)
EXTENDS Integers

CONSTANTS
  MaxCalls,   \* bound on calls of start_session and stop_session
  MaxTasks,   \* bound on tasks scheduled
  MaxFaults   \* bound on interrupted and failing system calls

ASSUME BoundsAssumption == MaxCalls \in Nat /\ MaxTasks \in Nat /\ MaxFaults \in Nat

VARIABLES
  ctl,             \* the controller's thread: idle, or where in stop_session or start_session
  goal,            \* what it was called for: start or stop
  router,          \* router_: none, starting (its threads run already) or up
  stop_requested,  \* stop_requested_
  worker_failed,   \* worker_failed_
  stop_fd,         \* the counter of stop_fd_
  wake_fd,         \* the counter of the router's wake_fd_
  due, delayed,    \* scheduled_tasks_: tasks whose time has come, and tasks whose has not
  prod,            \* a thread inside schedule_task: idle, or pushed but wake_fd not written
  wk,              \* the worker thread: none, where in worker_loop, or exited
  timeout,         \* the timeout the worker polls with
  calls, pushes, faults,
  has_stop_fd,     \* the constructor got a descriptor: stop_fd_ is not -1
  has_wake_fd      \* and so did the router's

vars == <<ctl, goal, router, stop_requested, worker_failed, stop_fd, wake_fd, due, delayed,
          prod, wk, timeout, calls, pushes, faults, has_stop_fd, has_wake_fd>>

ctlVars == <<ctl, goal, router, stop_requested, calls, has_stop_fd, has_wake_fd>>
taskVars == <<due, delayed, prod, pushes>>

TypeOK ==
  /\ ctl \in {"idle", "write", "join", "router_stop", "router_start", "adopt", "drain", "spawn"}
  /\ goal \in {"start", "stop"}
  /\ router \in {"none", "starting", "up"}
  /\ stop_requested \in BOOLEAN /\ worker_failed \in BOOLEAN
  /\ stop_fd \in Nat /\ wake_fd \in Nat /\ due \in Nat /\ delayed \in Nat
  /\ prod \in {"idle", "pushed"}
  /\ wk \in {"none", "top", "timeout", "poll", "run", "task", "exited"}
  /\ timeout \in {"zero", "finite", "infinite"}
  /\ calls \in 0..MaxCalls /\ pushes \in 0..MaxTasks /\ faults \in 0..MaxFaults
  /\ has_stop_fd \in BOOLEAN /\ has_wake_fd \in BOOLEAN

Init ==
  /\ ctl = "idle" /\ goal = "stop" /\ router = "none"
  /\ stop_requested = FALSE /\ worker_failed = FALSE
  /\ stop_fd = 0 /\ wake_fd = 0 /\ due = 0 /\ delayed = 0
  /\ prod = "idle" /\ wk = "none" /\ timeout = "infinite"
  /\ calls = 0 /\ pushes = 0 /\ faults = 0
  /\ has_stop_fd \in BOOLEAN /\ has_wake_fd = TRUE

-------------------------------------------------------------------------------
(* start_session and stop_session, on the controller's thread *)

\* start_session begins with a stop_session.
Call(g) ==
  /\ ctl = "idle" /\ calls < MaxCalls
  /\ ctl' = "write" /\ goal' = g /\ calls' = calls + 1
  /\ stop_requested' = TRUE
  /\ UNCHANGED <<router, worker_failed, stop_fd, wake_fd, taskVars, wk, timeout, faults,
                 has_stop_fd, has_wake_fd>>

\* Mutant: the flag alone is to stop the worker.
StopWrite_FlagOnly ==
  /\ ctl = "write" /\ ctl' = "join"
  /\ UNCHANGED <<goal, router, stop_requested, calls, worker_failed, stop_fd, wake_fd,
                 taskVars, wk, timeout, faults,
                 has_stop_fd, has_wake_fd>>

StopWrite ==
  /\ ctl = "write" /\ ctl' = "join"
  /\ stop_fd' = IF has_stop_fd THEN stop_fd + 1 ELSE stop_fd
  /\ UNCHANGED <<goal, router, stop_requested, calls, worker_failed, wake_fd, taskVars, wk,
                 timeout, faults,
                 has_stop_fd, has_wake_fd>>

\* Mutant: the worker is left to end by itself.
Join_Detach ==
  /\ ctl = "join" /\ ctl' = "router_stop"
  /\ UNCHANGED <<goal, router, stop_requested, calls, worker_failed, stop_fd, wake_fd,
                 taskVars, wk, timeout, faults,
                 has_stop_fd, has_wake_fd>>

Join ==
  /\ ctl = "join" /\ wk \in {"none", "exited"}
  /\ ctl' = "router_stop" /\ wk' = "none"
  /\ UNCHANGED <<goal, router, stop_requested, calls, worker_failed, stop_fd, wake_fd,
                 taskVars, timeout, faults,
                 has_stop_fd, has_wake_fd>>

\* Mutant: the tasks of a session are left for the next.
RouterGone_Keeps == /\ prod = "idle"
                    /\ router' = "none" /\ UNCHANGED <<due, delayed>>

\* A router that goes away ends its threads first, and takes its tasks with it.
RouterGone == /\ prod = "idle"
              /\ router' = "none" /\ due' = 0 /\ delayed' = 0

RouterStop ==
  /\ ctl = "router_stop" /\ RouterGone
  /\ ctl' = IF goal = "start" THEN "router_start" ELSE "idle"
  /\ UNCHANGED <<goal, stop_requested, calls, worker_failed, stop_fd, wake_fd, prod, pushes,
                 wk, timeout, faults,
                 has_stop_fd, has_wake_fd>>

\* A new router has its own wake descriptor, or only warns that there is none; start creates
\* the threads that schedule tasks.
RouterStart ==
  /\ ctl = "router_start" /\ router = "none"
  /\ router' = "starting" /\ wake_fd' = 0
  /\ \/ has_wake_fd' = TRUE /\ UNCHANGED faults
     \/ faults < MaxFaults /\ faults' = faults + 1 /\ has_wake_fd' = FALSE
  /\ UNCHANGED <<ctl, goal, stop_requested, calls, worker_failed, stop_fd, taskVars, wk,
                 timeout, has_stop_fd>>

RouterStartFails ==
  /\ ctl = "router_start" /\ router = "starting" /\ RouterGone
  /\ ctl' = "idle"
  /\ UNCHANGED <<goal, stop_requested, calls, worker_failed, stop_fd, wake_fd, prod, pushes,
                 wk, timeout, faults,
                 has_stop_fd, has_wake_fd>>

RouterStarted ==
  /\ ctl = "router_start" /\ router = "starting"
  /\ ctl' = "adopt"
  /\ UNCHANGED <<goal, router, stop_requested, calls, worker_failed, stop_fd, wake_fd,
                 taskVars, wk, timeout, faults,
                 has_stop_fd, has_wake_fd>>

AdoptRouter ==
  /\ ctl = "adopt" /\ ctl' = "drain"
  /\ router' = "up" /\ stop_requested' = FALSE /\ worker_failed' = FALSE
  /\ UNCHANGED <<goal, calls, stop_fd, wake_fd, taskVars, wk, timeout, faults,
                 has_stop_fd, has_wake_fd>>

\* Mutant: the stop descriptor is not drained.
Drain_Nothing ==
  /\ ctl = "drain" /\ ctl' = "spawn"
  /\ UNCHANGED <<goal, router, stop_requested, calls, worker_failed, stop_fd, wake_fd,
                 taskVars, wk, timeout, faults,
                 has_stop_fd, has_wake_fd>>

Drain ==
  /\ ctl = "drain" /\ ctl' = "spawn"
  /\ stop_fd' = 0
  /\ UNCHANGED <<goal, router, stop_requested, calls, worker_failed, wake_fd, taskVars, wk,
                 timeout, faults,
                 has_stop_fd, has_wake_fd>>

Spawn ==
  /\ ctl = "spawn" /\ ctl' = "idle"
  /\ wk' = "top"
  /\ UNCHANGED <<goal, router, stop_requested, calls, worker_failed, stop_fd, wake_fd,
                 taskVars, timeout, faults,
                 has_stop_fd, has_wake_fd>>

-------------------------------------------------------------------------------
(* schedule_task, on PipeWire's threads or on the worker inside a task *)

Push(delay) ==
  /\ router # "none" /\ prod = "idle" /\ pushes < MaxTasks
  /\ prod' = "pushed" /\ pushes' = pushes + 1
  /\ IF delay THEN delayed' = delayed + 1 /\ due' = due
              ELSE due' = due + 1 /\ delayed' = delayed
  /\ UNCHANGED <<ctlVars, worker_failed, stop_fd, wake_fd, wk, timeout, faults>>

\* Mutant: a delayed task is thought not to need a wake-up.
Wake_DueOnly ==
  /\ prod = "pushed" /\ prod' = "idle"
  /\ wake_fd' = IF due > 0 THEN wake_fd + 1 ELSE wake_fd
  /\ UNCHANGED <<ctlVars, worker_failed, stop_fd, due, delayed, pushes, wk, timeout, faults>>

Wake ==
  /\ prod = "pushed" /\ prod' = "idle"
  /\ wake_fd' = IF has_wake_fd THEN wake_fd + 1 ELSE wake_fd
  /\ UNCHANGED <<ctlVars, worker_failed, stop_fd, due, delayed, pushes, wk, timeout, faults>>

\* Time passes.
ComesDue ==
  /\ delayed > 0
  /\ delayed' = delayed - 1 /\ due' = due + 1
  /\ UNCHANGED <<ctlVars, worker_failed, stop_fd, wake_fd, prod, pushes, wk, timeout, faults>>

-------------------------------------------------------------------------------
(* worker_loop *)

WkTop ==
  /\ wk = "top"
  /\ wk' = IF stop_requested \/ router = "none" THEN "exited" ELSE "timeout"
  /\ UNCHANGED <<ctlVars, worker_failed, stop_fd, wake_fd, taskVars, timeout, faults>>

next_task_timeout ==
  IF due > 0 THEN "zero" ELSE IF delayed > 0 THEN "finite" ELSE "infinite"

WkTimeout ==
  /\ wk = "timeout"
  /\ wk' = "poll" /\ timeout' = next_task_timeout
  /\ UNCHANGED <<ctlVars, worker_failed, stop_fd, wake_fd, taskVars, faults>>

\* Mutant: a timeout only goes round the loop again.
PollTimedOut_Again ==
  /\ wk = "poll" /\ timeout # "infinite" /\ stop_fd = 0 /\ wake_fd = 0
  /\ wk' = "top"
  /\ UNCHANGED <<ctlVars, worker_failed, stop_fd, wake_fd, taskVars, timeout, faults>>

\* The timeout is truncated to milliseconds, so it may pass before the task is due.
PollTimedOut ==
  /\ wk = "poll" /\ timeout # "infinite" /\ stop_fd = 0 /\ wake_fd = 0
  /\ wk' = "run"
  /\ UNCHANGED <<ctlVars, worker_failed, stop_fd, wake_fd, taskVars, timeout, faults>>

PollStop ==
  /\ wk = "poll" /\ stop_fd > 0
  /\ stop_fd' = 0 /\ wk' = "exited"
  /\ UNCHANGED <<ctlVars, worker_failed, wake_fd, taskVars, timeout, faults>>

PollWake ==
  /\ wk = "poll" /\ stop_fd = 0 /\ wake_fd > 0
  /\ wake_fd' = 0 /\ wk' = "run"
  /\ UNCHANGED <<ctlVars, worker_failed, stop_fd, taskVars, timeout, faults>>

\* poll is interrupted, or it or the read of wake_fd fails.
PollInterrupted ==
  /\ wk = "poll" /\ faults < MaxFaults
  /\ faults' = faults + 1 /\ wk' = "top"
  /\ UNCHANGED <<ctlVars, worker_failed, stop_fd, wake_fd, taskVars, timeout>>

PollFails ==
  /\ wk = "poll" /\ faults < MaxFaults
  /\ faults' = faults + 1 /\ wk' = "exited" /\ worker_failed' = TRUE
  /\ UNCHANGED <<ctlVars, stop_fd, wake_fd, taskVars, timeout>>

\* Mutant: the queue is not checked for being empty.
RunTask_Unchecked ==
  /\ wk = "run"
  /\ due' = due - 1 /\ wk' = "task"
  /\ UNCHANGED <<ctlVars, worker_failed, stop_fd, wake_fd, delayed, prod, pushes, timeout, faults>>

\* run_due_tasks: one task at a time, called without the lock.
RunTask ==
  /\ wk = "run" /\ due > 0
  /\ due' = due - 1 /\ wk' = "task"
  /\ UNCHANGED <<ctlVars, worker_failed, stop_fd, wake_fd, delayed, prod, pushes, timeout, faults>>

TaskDone ==
  /\ wk = "task" /\ wk' = "run"
  /\ UNCHANGED <<ctlVars, worker_failed, stop_fd, wake_fd, taskVars, timeout, faults>>

RunDone ==
  /\ wk = "run" /\ due = 0
  /\ wk' = "top"
  /\ UNCHANGED <<ctlVars, worker_failed, stop_fd, wake_fd, taskVars, timeout, faults>>

-------------------------------------------------------------------------------
Controller == \/ StopWrite \/ Join \/ RouterStop \/ RouterStart \/ RouterStartFails
              \/ RouterStarted \/ AdoptRouter \/ Drain \/ Spawn

worker_loop == \/ WkTop \/ WkTimeout \/ PollTimedOut \/ PollStop \/ PollWake
               \/ RunTask \/ TaskDone \/ RunDone

Next == \/ \E g \in {"start", "stop"} : Call(g)
        \/ Controller
        \/ \E delay \in BOOLEAN : Push(delay)
        \/ Wake
        \/ ComesDue
        \/ worker_loop
        \/ PollInterrupted
        \/ PollFails

Spec == Init /\ [][Next]_vars

\* Threads that can run do run, system calls and tasks return, time passes.
FairSpec == /\ Spec /\ WF_vars(Controller) /\ WF_vars(worker_loop)
            /\ WF_vars(Wake) /\ WF_vars(ComesDue)

-------------------------------------------------------------------------------
(* Properties *)

\* Between calls a session that is reported active has a worker: the only way a worker
\* ends by itself is a failure that snapshot() reports.  In particular a stop that was
\* signalled for an earlier session, or when there was none, does not end a later one.
NoZombieSession ==
  ctl = "idle" /\ router = "up" /\ ~worker_failed => wk \notin {"none", "exited"}

\* The worker only ever touches a router that is there: stop_session joins it before the
\* router is stopped and destroyed.
RouterOutlivesWorker == wk \notin {"none", "exited"} => router = "up"

\* The worker never sleeps for good on a task: if it polls without a timeout while tasks
\* are queued, a wake-up is there or on its way.  Without a wake descriptor it would.
NoLostWakeup ==
  has_wake_fd /\ wk = "poll" /\ timeout = "infinite" /\ due + delayed > 0 =>
    wake_fd > 0 \/ prod = "pushed"

\* start_session and stop_session return: the worker they wait for always wakes up.  Without
\* a stop descriptor nothing wakes it.
CallsReturn == (ctl # "idle" /\ has_stop_fd) ~> ctl = "idle"

\* A task whose time has come is run, unless its session ends or its worker fails.
TasksRun == (router = "up" /\ has_wake_fd /\ due > 0) ~> (due = 0 \/ worker_failed \/ router # "up")

(* The refinement mapping to Session *)

Phase ==
  CASE router = "none" -> "off"
    [] router # "none" /\ wk = "none" ->
         IF ctl \in {"router_start", "adopt", "drain", "spawn"} THEN "starting" ELSE "ending"
    [] router # "none" /\ wk = "exited" -> IF worker_failed THEN "failed" ELSE "ending"
    [] OTHER -> "on"

S == INSTANCE Session WITH phase <- Phase, call <- IF ctl = "idle" THEN "none" ELSE goal,
                           work <- due + delayed

\* The backend with its threads and descriptors is a Session: no order of their steps starts
\* or ends a session without a call, runs a task of another session or outside of one.
BehavesAsSession == S!Spec
===============================================================================

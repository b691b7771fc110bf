------------------------------- MODULE Session -------------------------------
(***************************************************************************)
(* What RealSessionBackend promises the controller, without its threads    *)
(* and descriptors: a session is off, starting, on, failed or ending; only *)
(* a call of start_session or stop_session starts or ends one, only a      *)
(* failure ends it by itself, a task only runs while the session is on,    *)
(* and none outlives the session it was scheduled in.                      *)
(***************************************************************************)
EXTENDS Integers

VARIABLES
  phase,  \* off, starting, on, failed, ending
  call,   \* none, start or stop: the call under way
  work    \* tasks scheduled and not begun

vars == <<phase, call, work>>

Init == phase = "off" /\ call = "none" /\ work = 0

Begin(c) == call = "none" /\ call' = c /\ UNCHANGED <<phase, work>>

\* A session ends by a call, or fails by itself.
End == call # "none" /\ phase \in {"on", "failed"} /\ phase' = "ending" /\ UNCHANGED <<call, work>>
Fail == phase = "on" /\ phase' = "failed" /\ UNCHANGED <<call, work>>

\* The old session, if there is one, is gone; a call of stop_session returns.
Gone ==
  /\ call # "none" /\ phase \in {"off", "ending"}
  /\ phase' = "off" /\ work' = 0
  /\ call' = IF call = "stop" THEN "none" ELSE call

Start == call = "start" /\ phase = "off" /\ phase' = "starting" /\ UNCHANGED <<call, work>>

\* start_session returns.
StartFails == phase = "starting" /\ phase' = "off" /\ call' = "none" /\ work' = 0
ComeUp == phase = "starting" /\ phase' = "on" /\ call' = "none" /\ UNCHANGED work

Schedule == phase # "off" /\ work' = work + 1 /\ UNCHANGED <<phase, call>>
Run == phase = "on" /\ work > 0 /\ work' = work - 1 /\ UNCHANGED <<phase, call>>

Next == \/ \E c \in {"start", "stop"} : Begin(c)
        \/ End \/ Fail \/ Gone \/ Start \/ StartFails \/ ComeUp \/ Schedule \/ Run

Spec == Init /\ [][Next]_vars
===============================================================================

SPECIFICATION FairSpec
CONSTANTS
  MaxCalls = 4
  MaxTasks = 3
  MaxFaults = 2
INVARIANT TypeOK
INVARIANT NoZombieSession
INVARIANT RouterOutlivesWorker
INVARIANT NoLostWakeup
PROPERTY CallsReturn
PROPERTY TasksRun
PROPERTY BehavesAsSession
\* A session with nothing to do sleeps in poll.
CHECK_DEADLOCK FALSE

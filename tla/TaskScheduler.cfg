\* Every order of three tasks, a clock of 4 ticks, stop at any point.
CONSTANTS
    receive = receive
    heartbeat = heartbeat
    unrated = unrated
    Tasks = {receive, heartbeat, unrated}
    Rate <- MCRate
    MaxTime = 4
    Never = 1000
SPECIFICATION FairSpec
INVARIANTS TypeOK OnSchedule NeverOversleeps
PROPERTIES ImplementsPeriodicTasks CatchesUp StopReturns
\* The clock stops at its bound, and the program may have ended.
CHECK_DEADLOCK FALSE

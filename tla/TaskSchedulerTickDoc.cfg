\* The scheduler is started when the FPGA clock has run for a while.
CONSTANTS
    receive = receive
    heartbeat = heartbeat
    unrated = unrated
    Tasks = {receive, heartbeat, unrated}
    Rate <- MCRate
    MaxTime = 6
    Never = 1000
SPECIFICATION Spec
INVARIANTS TickTakesItsRate
CHECK_DEADLOCK FALSE

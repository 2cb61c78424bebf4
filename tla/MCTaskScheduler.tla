--------------------------- MODULE MCTaskScheduler ---------------------------
(***************************************************************************)
(* TaskScheduler with two periodic tasks of different rates, and one        *)
(* without a rate.                                                         *)
(***************************************************************************)
EXTENDS TaskScheduler, TLC

CONSTANTS receive, heartbeat, unrated

MCRate == (receive :> 1) @@ (heartbeat :> 2) @@ (unrated :> 0)
-----------------------------------------------------------------------------
\* MotorManager.hpp: "20ms per tick (ProcessHeartbeatTask) * 250 = 5s timeout":
\* from the start of the scheduler on there are no more ticks than rates in the
\* time that has passed (and the one at its beginning, and one of jitter).
TickTakesItsRate ==
    thread # "None" =>
       runs[heartbeat] * Rate[heartbeat] <= (now - startedAt) + 2 * Rate[heartbeat]
=============================================================================

---------------------------- MODULE PeriodicTasks ----------------------------
(***************************************************************************)
(* What a periodic scheduler promises: run number k of a task, counted from *)
(* zero, belongs to the instant k * Rate, and takes place after it. The     *)
(* first run may take place at any time.                                   *)
(***************************************************************************)
EXTENDS Naturals

CONSTANTS Tasks, Rate

VARIABLES
    time,   \* the clock
    runs    \* how often each task has run

Init == time \in Nat /\ runs = [t \in Tasks |-> 0]

TimePasses == time' > time /\ UNCHANGED runs

RunTask(t) ==
    /\ runs[t] = 0 \/ runs[t] * Rate[t] < time
    /\ runs' = [runs EXCEPT ![t] = @ + 1]
    /\ UNCHANGED time

Next == TimePasses \/ \E t \in Tasks : RunTask(t)

Spec == Init /\ [][Next]_<<time, runs>>
=============================================================================

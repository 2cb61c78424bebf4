---------------------------- MODULE TaskScheduler ----------------------------
(***************************************************************************)
(* The scheduler thread. Each pass of TaskScheduler::run reads the clock,   *)
(* runs every task that is due, once, in the order of scheduleTask, and     *)
(* sleeps on a HAL notifier until the earliest of the next due times. Due   *)
(* times count from zero on the FPGA clock, which starts with the roboRIO. *)
(* A task takes any time, and may throw.                                   *)
(***************************************************************************)
EXTENDS Naturals, Sequences, Functions

CONSTANTS
    Tasks,
    Rate,      \* mTaskRateMs of each task, in ticks of the clock
    MaxTime,   \* bound on the clock
    Never      \* the largest uint64_t

ASSUME SchedulerAssumption ==
    /\ Rate \in [Tasks -> Nat]
    /\ MaxTime \in Nat
    /\ Never \in Nat
    /\ MaxTime < Never

VARIABLES
    now,                \* HAL_GetFPGATime
    taskList,
    threadActive,
    thread,             \* where run is: see ThreadPoints
    position,           \* in taskList, of the task the pass looks at
    timeNow,
    nextWakeTime,
    timeNextUpdateuS,
    timeLastUpdateuS,
    notifierActive,     \* the HAL notifier wakes its waiter at the alarm only
    alarm,
    stopper,            \* where stop is, since the last start
    \* history, read by properties only
    runs,               \* how often a task's run has returned
    startedAt           \* the time of the start, if no stop came before it

ThreadPoints == {"None", "Top", "Pass", "Asleep", "Ended"}

schedule == <<timeNextUpdateuS, timeLastUpdateuS, runs>>
pass     == <<position, timeNow, nextWakeTime>>
control  == <<taskList, threadActive, notifierActive, stopper, startedAt>>
vars == <<now, thread, alarm, schedule, pass, control>>

TypeOK ==
    /\ now \in 0..MaxTime
    /\ taskList \in Seq(Tasks)
    /\ threadActive \in BOOLEAN
    /\ thread \in ThreadPoints
    /\ position \in 1..(Len(taskList) + 1)
    /\ timeNow \in 0..now
    /\ nextWakeTime \in Nat
    /\ timeNextUpdateuS \in [Tasks -> Nat]
    /\ \A t \in Tasks : timeNextUpdateuS[t] <= now + Rate[t]
    /\ timeLastUpdateuS \in [Tasks -> Nat]
    /\ notifierActive \in BOOLEAN
    /\ alarm \in Nat
    /\ stopper \in {"NotCalled", "NotifierStopped", "Joining", "Joined"}
    /\ runs \in [Tasks -> Nat]
    /\ startedAt \in 0..now

Init ==
    /\ now = 0
    /\ taskList = <<>>
    /\ threadActive = FALSE
    /\ thread = "None"
    /\ position = 1
    /\ timeNow = 0
    /\ nextWakeTime = Never
    /\ timeNextUpdateuS = [t \in Tasks |-> 0]
    /\ timeLastUpdateuS = [t \in Tasks |-> 0]
    /\ notifierActive = TRUE
    /\ alarm = Never
    /\ stopper = "NotCalled"
    /\ runs = [t \in Tasks |-> 0]
    /\ startedAt = 0
-----------------------------------------------------------------------------
(* Robot::RobotInit, on the main thread.                                   *)

\* A task is registered once, and before the thread is started.
scheduleTask(t) ==
    /\ thread = "None" /\ stopper = "NotCalled"
    /\ t \notin Range(taskList)
    /\ taskList' = Append(taskList, t)
    /\ UNCHANGED <<now, threadActive, thread, pass, schedule, notifierActive, alarm,
                   stopper, startedAt>>

\* mThread.joinable(): a thread was started and has not been joined, though it
\* may have ended.
joinable == thread # "None"

\* start and stop are called one after the other, never during each other.
\* After stop start begins a new thread, on a notifier that stays stopped.
start ==
    /\ ~joinable
    /\ stopper \in {"NotCalled", "Joined"}
    /\ threadActive' = TRUE
    /\ thread' = "Top"
    /\ stopper' = "NotCalled"
    /\ startedAt' = IF stopper = "NotCalled" THEN now ELSE startedAt
    /\ UNCHANGED <<now, taskList, pass, schedule, notifierActive, alarm>>
-----------------------------------------------------------------------------
(* TaskScheduler::run, on the scheduler thread.                            *)

PassBegin ==
    /\ thread = "Top" /\ threadActive
    /\ timeNow' = now
    /\ nextWakeTime' = Never
    /\ position' = 1
    /\ thread' = "Pass"
    /\ UNCHANGED <<now, schedule, control, alarm>>

RunAlways(t) == TRUE
Due(t) == timeNextUpdateuS[t] < timeNow \/ timeNextUpdateuS[t] = 0

LaterOf(a, b) == IF a < b THEN b ELSE a
EarlierOf(a, b) == IF a < b THEN a ELSE b

FromNow(t) == timeNow
ScheduledTime(t) == timeNextUpdateuS[t]

\* The pass is at a task that has a rate.
AtTask(t) ==
    /\ thread = "Pass"
    /\ position <= Len(taskList)
    /\ t = taskList[position]
    /\ Rate[t] > 0

\* A task without a rate is skipped.
SkipTask ==
    /\ thread = "Pass"
    /\ position <= Len(taskList)
    /\ Rate[taskList[position]] = 0
    /\ position' = position + 1
    /\ UNCHANGED <<now, thread, timeNow, nextWakeTime, schedule, control, alarm>>

\* A due task runs and returns; its next time is one rate after the scheduled
\* time of this run, not after the time it ran at.
RunTask(t) ==
    /\ AtTask(t) /\ Due(t)
    /\ timeLastUpdateuS' = [timeLastUpdateuS EXCEPT ![t] = ScheduledTime(t)]
    /\ timeNextUpdateuS' = [timeNextUpdateuS EXCEPT ![t] = ScheduledTime(t) + Rate[t]]
    /\ runs' = [runs EXCEPT ![t] = @ + 1]
    /\ nextWakeTime' = EarlierOf(timeNextUpdateuS'[t], nextWakeTime)
    /\ position' = position + 1
    /\ UNCHANGED <<now, thread, timeNow, control, alarm>>

PassOver(t) ==
    /\ AtTask(t) /\ ~Due(t)
    /\ nextWakeTime' = EarlierOf(timeNextUpdateuS[t], nextWakeTime)
    /\ position' = position + 1
    /\ UNCHANGED <<now, thread, timeNow, schedule, control, alarm>>

\* An exception is caught outside the loop over the tasks: the pass is given
\* up, and the next one begins at once.
TaskThrows(t) ==
    /\ AtTask(t) /\ Due(t)
    /\ thread' = "Top"
    /\ UNCHANGED <<now, pass, schedule, control, alarm>>

PassEnd ==
    /\ thread = "Pass"
    /\ position > Len(taskList)
    /\ alarm' = nextWakeTime
    /\ thread' = "Asleep"
    /\ UNCHANGED <<now, pass, schedule, control>>

\* HAL_WaitForNotifierAlarm returns at the alarm, which may have passed
\* already, or because the notifier was stopped.
Wake ==
    /\ thread = "Asleep"
    /\ alarm <= now \/ ~notifierActive
    /\ thread' = "Top"
    /\ UNCHANGED <<now, pass, schedule, control, alarm>>

RunReturns ==
    /\ thread = "Top" /\ ~threadActive
    /\ thread' = "Ended"
    /\ UNCHANGED <<now, pass, schedule, control, alarm>>
-----------------------------------------------------------------------------
(* TaskScheduler::stop, on the thread that destroys the singleton.         *)

LeaveNotifier == notifierActive
\* HAL_StopNotifier and HAL_CleanNotifier: waiting returns at once from now on.
StoppedNotifier == FALSE

StopNotifier ==
    /\ stopper \in {"NotCalled", "Joined"}
    /\ stopper' = "NotifierStopped"
    /\ notifierActive' = StoppedNotifier
    /\ UNCHANGED <<now, taskList, threadActive, thread, pass, schedule, alarm, startedAt>>

StopThread ==
    /\ stopper = "NotifierStopped"
    /\ stopper' = "Joining"
    /\ threadActive' = FALSE
    /\ UNCHANGED <<now, taskList, thread, pass, schedule, notifierActive, alarm, startedAt>>

Join ==
    /\ stopper = "Joining"
    /\ joinable => thread = "Ended"
    /\ thread' = "None"
    /\ stopper' = "Joined"
    /\ UNCHANGED <<now, taskList, threadActive, pass, schedule, notifierActive, alarm, startedAt>>
-----------------------------------------------------------------------------
Tick ==
    /\ now < MaxTime
    /\ now' = now + 1
    /\ UNCHANGED <<thread, alarm, schedule, pass, control>>

LookAtTask == \E t \in Tasks : RunTask(t) \/ PassOver(t)
RunThrows == \E t \in Tasks : TaskThrows(t)
ThreadStep == PassBegin \/ LookAtTask \/ SkipTask \/ RunThrows \/ PassEnd \/ Wake \/ RunReturns
StopStep == StopThread \/ Join
Next ==
    \/ \E t \in Tasks : scheduleTask(t)
    \/ start \/ ThreadStep \/ StopNotifier \/ StopStep \/ Tick

Spec == Init /\ [][Next]_vars

\* Both threads are real-time threads that keep running; every task returns or
\* throws. Nobody has to call stop, and the clock may stand at its bound.
FairSpec == Spec /\ WF_vars(ThreadStep) /\ WF_vars(StopStep)
-----------------------------------------------------------------------------
\* The schedule does not drift: however late a task ran, or how often it threw,
\* its next due time is its number of runs times its rate.
OnSchedule ==
    \A t \in Tasks :
       /\ timeNextUpdateuS[t] = runs[t] * Rate[t]
       /\ runs[t] > 0 => timeLastUpdateuS[t] + Rate[t] = timeNextUpdateuS[t]

\* The thread never sleeps beyond the next due time of a task it serves, in
\* the pass it has just finished or because of an alarm it set earlier.
NeverOversleeps ==
    thread = "Asleep" =>
       \A t \in Range(taskList) : Rate[t] > 0 => alarm <= timeNextUpdateuS[t]

\* TaskScheduler implements PeriodicTasks.
Periodic == INSTANCE PeriodicTasks WITH time <- now
ImplementsPeriodicTasks == Periodic!Spec
-----------------------------------------------------------------------------
\* The task is listed no later than t.
ListedUpTo(u, t) ==
    \E i \in 1..Len(taskList) : \E j \in i..Len(taskList) : taskList[i] = u /\ taskList[j] = t
ThrowsUpTo(t) == \E u \in Tasks : ListedUpTo(u, t) /\ TaskThrows(u)

\* While the scheduler is not stopped, a listed task is run for every due time
\* that passes, also when passes took longer than its rate, unless it or a task
\* listed before it keeps throwing. Tasks listed after it cannot starve it.
CatchesUp ==
    \A t \in Tasks : \A k \in 0..MaxTime :
       /\ <>[](threadActive /\ t \in Range(taskList) /\ Rate[t] > 0)
       /\ <>[][~ThrowsUpTo(t)]_vars
       => ((k * Rate[t] < now) ~> (runs[t] > k))

\* stop always returns, wherever the scheduler thread is when it is called, and
\* also when no task is listed, which leaves the alarm at the end of time.
StopReturns == (stopper # "NotCalled") ~> (stopper = "Joined")
=============================================================================

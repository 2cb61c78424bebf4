------------------------- MODULE TaskSchedulerProofs -------------------------
(***************************************************************************)
(* The scheduler keeps its schedule, never oversleeps and implements       *)
(* PeriodicTasks, for every set of tasks and every rate; it runs a task    *)
(* that is due, and it can be stopped.                                     *)
(***************************************************************************)
EXTENDS TaskScheduler, TLAPS

\* The pass has looked at the tasks before its position, and will wake for
\* each of them.
PassWakes ==
    thread = "Pass" =>
       \A i \in 1..(position - 1) :
          Rate[taskList[i]] > 0 => nextWakeTime <= timeNextUpdateuS[taskList[i]]

\* The same of a finished pass, by position in the list.
AlarmWakes ==
    thread = "Asleep" =>
       \A i \in 1..Len(taskList) :
          Rate[taskList[i]] > 0 => alarm <= timeNextUpdateuS[taskList[i]]

IInv == TypeOK /\ OnSchedule /\ PassWakes /\ AlarmWakes
-----------------------------------------------------------------------------
\* The multiplication that a run of a task needs.
LEMMA NextSlot ==
    ASSUME NEW r \in Nat, NEW k \in Nat
    PROVE  /\ k * r \in Nat
           /\ (k + 1) * r = k * r + r
           /\ (k * r = 0 /\ r > 0) => k = 0
OBVIOUS

\* Nothing is scheduled when the program starts.
LEMMA SchedulerInit == Init => IInv
<1> SUFFICES ASSUME Init PROVE IInv
  OBVIOUS
<1>1. TypeOK
  <2>1. taskList \in Seq(Tasks) /\ Len(taskList) = 0
    BY DEF Init
  <2>2. \A t \in Tasks : timeNextUpdateuS[t] <= now + Rate[t]
    BY SchedulerAssumption DEF Init
  <2>3. /\ timeNextUpdateuS \in [Tasks -> Nat]
        /\ timeLastUpdateuS \in [Tasks -> Nat]
        /\ runs \in [Tasks -> Nat]
    BY DEF Init
  <2>4. /\ now \in 0..MaxTime /\ timeNow \in 0..now /\ startedAt \in 0..now
        /\ nextWakeTime \in Nat /\ alarm \in Nat
        /\ position \in 1..(Len(taskList) + 1)
    BY <2>1, SchedulerAssumption DEF Init
  <2>5. QED
    BY <2>1, <2>2, <2>3, <2>4 DEF Init, TypeOK, ThreadPoints
<1>2. OnSchedule
  BY SchedulerAssumption DEF Init, OnSchedule
<1>3. QED
  BY <1>1, <1>2 DEF Init, IInv, PassWakes, AlarmWakes

\* A due task is one that PeriodicTasks may run.
LEMMA DueInItsSlot ==
    ASSUME IInv, NEW t \in Tasks, RunTask(t)
    PROVE  /\ runs[t] = 0 \/ runs[t] * Rate[t] < now
           /\ runs' = [runs EXCEPT ![t] = @ + 1]
           /\ now' = now
<1>1. runs[t] * Rate[t] < timeNow \/ runs[t] * Rate[t] = 0
  BY DEF IInv, OnSchedule, RunTask, Due
<1>2. /\ Rate[t] \in Nat /\ Rate[t] > 0 /\ runs[t] \in Nat
      /\ timeNow \in Nat /\ now \in Nat /\ timeNow <= now
  <2>1. now \in 0..MaxTime /\ timeNow \in 0..now /\ runs \in [Tasks -> Nat]
    BY DEF IInv, TypeOK
  <2>2. Rate[t] > 0
    BY DEF RunTask, AtTask
  <2>3. QED
    BY <2>1, <2>2, SchedulerAssumption
<1>3. runs[t] * Rate[t] = 0 => runs[t] = 0
  BY <1>2, NextSlot
<1>4. runs[t] * Rate[t] \in Nat
  BY <1>2, NextSlot
<1>5. QED
  BY <1>1, <1>2, <1>3, <1>4 DEF RunTask

\* Running a task moves it on by one slot.
LEMMA RunTaskInductive ==
    ASSUME IInv, NEW t \in Tasks, RunTask(t)
    PROVE  IInv'
<1> USE SchedulerAssumption
<1>1. /\ TypeOK /\ OnSchedule /\ PassWakes
      /\ Rate[t] \in Nat /\ Rate[t] > 0 /\ runs[t] \in Nat
  BY DEF IInv, TypeOK, RunTask, AtTask
<1>2. UNCHANGED <<now, taskList, threadActive, thread, timeNow, notifierActive, alarm,
                  stopper, startedAt>>
  BY DEF RunTask, control
<1>3. /\ thread = "Pass" /\ position \in 1..Len(taskList)
      /\ t = taskList[position] /\ position' = position + 1
  BY <1>1 DEF RunTask, AtTask, TypeOK
<1>4. /\ timeLastUpdateuS' = [timeLastUpdateuS EXCEPT ![t] = timeNextUpdateuS[t]]
      /\ timeNextUpdateuS' = [timeNextUpdateuS EXCEPT ![t] = timeNextUpdateuS[t] + Rate[t]]
      /\ runs' = [runs EXCEPT ![t] = runs[t] + 1]
  BY DEF RunTask, ScheduledTime
<1>5. timeNextUpdateuS'[t] = timeNextUpdateuS[t] + Rate[t]
  BY <1>1, <1>4 DEF TypeOK
<1>6. /\ nextWakeTime' \in Nat
      /\ nextWakeTime' <= nextWakeTime
      /\ nextWakeTime' <= timeNextUpdateuS'[t]
  BY <1>1, <1>5 DEF RunTask, EarlierOf, TypeOK
<1>7. timeNextUpdateuS[t] <= now
  BY <1>1 DEF TypeOK, RunTask, Due
<1>8. TypeOK'
  <2>1. /\ timeNextUpdateuS' \in [Tasks -> Nat]
        /\ timeLastUpdateuS' \in [Tasks -> Nat]
        /\ runs' \in [Tasks -> Nat]
    BY <1>1, <1>4 DEF TypeOK
  <2>2. \A u \in Tasks : timeNextUpdateuS'[u] <= now + Rate[u]
    <3>1. timeNextUpdateuS[t] \in Nat /\ now \in Nat
      BY <1>1 DEF TypeOK
    <3>2. timeNextUpdateuS'[t] <= now + Rate[t]
      BY <1>1, <1>5, <1>7, <3>1
    <3>3. QED
      BY <1>1, <1>4, <3>2 DEF TypeOK
  <2>3. position' \in 1..(Len(taskList) + 1)
    BY <1>1, <1>3 DEF TypeOK
  <2>4. QED
    BY <1>1, <1>2, <1>6, <2>1, <2>2, <2>3 DEF TypeOK
<1>9. OnSchedule'
  <2> SUFFICES ASSUME NEW u \in Tasks
               PROVE  /\ timeNextUpdateuS'[u] = runs'[u] * Rate[u]
                      /\ runs'[u] > 0 => timeLastUpdateuS'[u] + Rate[u] = timeNextUpdateuS'[u]
    BY DEF OnSchedule
  <2>1. CASE u = t
    <3>1. (runs[t] + 1) * Rate[t] = runs[t] * Rate[t] + Rate[t]
      BY <1>1, NextSlot
    <3>2. timeNextUpdateuS'[t] = runs[t] * Rate[t] + Rate[t]
      BY <1>1, <1>5 DEF OnSchedule
    <3>3. runs'[t] = runs[t] + 1 /\ timeLastUpdateuS'[t] = timeNextUpdateuS[t]
      BY <1>1, <1>4 DEF TypeOK
    <3>4. QED
      BY <2>1, <3>1, <3>2, <3>3, <1>5
  <2>2. CASE u # t
    <3>1. /\ runs'[u] = runs[u]
          /\ timeNextUpdateuS'[u] = timeNextUpdateuS[u]
          /\ timeLastUpdateuS'[u] = timeLastUpdateuS[u]
      BY <1>1, <1>4, <2>2 DEF TypeOK
    <3>2. QED
      BY <1>1, <3>1 DEF OnSchedule
  <2>3. QED
    BY <2>1, <2>2
<1>10. PassWakes'
  <2> SUFFICES ASSUME NEW i \in 1..position, Rate[taskList[i]] > 0
               PROVE  nextWakeTime' <= timeNextUpdateuS'[taskList[i]]
    <3>1. position \in Nat /\ position' - 1 = position
      BY <1>3
    <3>2. QED
      BY <1>2, <1>3, <3>1 DEF PassWakes
  <2>1. taskList[i] \in Tasks /\ i \in Nat /\ position \in Nat
    <3>1. taskList \in Seq(Tasks)
      BY <1>1 DEF TypeOK
    <3>2. i \in 1..Len(taskList)
      BY <1>3, <3>1
    <3>3. QED
      BY <1>3, <3>1, <3>2
  <2>2. CASE taskList[i] = t
    BY <1>6, <2>2
  <2>3. CASE taskList[i] # t
    <3>1. i \in 1..(position - 1)
      BY <1>3, <2>1, <2>3
    <3>2. nextWakeTime <= timeNextUpdateuS[taskList[i]]
      BY <1>1, <1>3, <3>1 DEF PassWakes
    <3>3. timeNextUpdateuS'[taskList[i]] = timeNextUpdateuS[taskList[i]]
      BY <1>1, <1>4, <2>1, <2>3 DEF TypeOK
    <3>4. timeNextUpdateuS[taskList[i]] \in Nat
      BY <1>1, <2>1 DEF TypeOK
    <3>5. nextWakeTime \in Nat
      BY <1>1 DEF TypeOK
    <3>6. QED
      BY <1>6, <3>2, <3>3, <3>4, <3>5
  <2>4. QED
    BY <2>2, <2>3
<1>11. AlarmWakes'
  BY <1>2, <1>3 DEF AlarmWakes
<1>12. QED
  BY <1>8, <1>9, <1>10, <1>11 DEF IInv

\* A task that is not due only brings the wake-up forward.
LEMMA PassOverInductive ==
    ASSUME IInv, NEW t \in Tasks, PassOver(t)
    PROVE  IInv'
<1>1. TypeOK /\ OnSchedule /\ PassWakes
  BY DEF IInv
<1>2. UNCHANGED <<now, taskList, threadActive, thread, timeNow, notifierActive, alarm,
                  stopper, startedAt, timeNextUpdateuS, timeLastUpdateuS, runs>>
  BY DEF PassOver, control, schedule
<1>3. /\ thread = "Pass" /\ position \in 1..Len(taskList)
      /\ t = taskList[position] /\ position' = position + 1
  BY <1>1 DEF PassOver, AtTask, TypeOK
<1>4. /\ nextWakeTime' \in Nat
      /\ nextWakeTime' <= nextWakeTime
      /\ nextWakeTime' <= timeNextUpdateuS[t]
  BY <1>1 DEF PassOver, EarlierOf, TypeOK
<1>5. TypeOK'
  <2>1. position' \in 1..(Len(taskList) + 1)
    BY <1>1, <1>3 DEF TypeOK
  <2>2. QED
    BY <1>1, <1>2, <1>4, <2>1 DEF TypeOK
<1>6. OnSchedule' /\ AlarmWakes'
  BY <1>1, <1>2, <1>3 DEF OnSchedule, AlarmWakes
<1>7. PassWakes'
  <2> SUFFICES ASSUME NEW i \in 1..position, Rate[taskList[i]] > 0
               PROVE  nextWakeTime' <= timeNextUpdateuS[taskList[i]]
    <3>1. position \in Nat /\ position' - 1 = position
      BY <1>3
    <3>2. QED
      BY <1>2, <1>3, <3>1 DEF PassWakes
  <2>1. /\ timeNextUpdateuS[taskList[i]] \in Nat /\ nextWakeTime \in Nat
        /\ i \in Nat /\ position \in Nat
    BY <1>1, <1>3 DEF TypeOK
  <2>2. CASE i = position
    BY <1>3, <1>4, <2>2
  <2>3. CASE i # position
    <3>1. i \in 1..(position - 1)
      BY <2>1, <2>3
    <3>2. QED
      BY <1>1, <1>3, <1>4, <2>1, <3>1 DEF PassWakes
  <2>4. QED
    BY <2>2, <2>3
<1>8. QED
  BY <1>5, <1>6, <1>7 DEF IInv

\* No step breaks the invariant.
LEMMA SchedulerInductive == Spec => []IInv
<1>1. IInv /\ [Next]_vars => IInv'
  <2> SUFFICES ASSUME IInv, [Next]_vars PROVE IInv'
    OBVIOUS
  <2> USE SchedulerAssumption
          DEF IInv, TypeOK, ThreadPoints, OnSchedule, PassWakes, AlarmWakes, schedule, pass,
              control
  <2>1. ASSUME NEW t \in Tasks, scheduleTask(t) PROVE IInv'
    BY <2>1 DEF scheduleTask
  <2>2. CASE start
    BY <2>2 DEF start, joinable
  <2>3. CASE PassBegin
    BY <2>3 DEF PassBegin
  <2>4. CASE LookAtTask
    BY <2>4, RunTaskInductive, PassOverInductive DEF LookAtTask
  <2>5. CASE SkipTask
    <3>1. /\ thread = "Pass" /\ thread' = thread
          /\ position \in 1..Len(taskList) /\ position' = position + 1
          /\ ~(Rate[taskList[position]] > 0)
      BY <2>5 DEF SkipTask
    <3>2. PassWakes'
      <4> SUFFICES ASSUME NEW i \in 1..position, Rate[taskList[i]] > 0
                   PROVE  nextWakeTime <= timeNextUpdateuS[taskList[i]]
        <5>1. position \in Nat /\ position' - 1 = position
          BY <3>1
        <5>2. QED
          BY <2>5, <3>1, <5>1 DEF SkipTask
      <4>1. i \in 1..(position - 1)
        <5>1. i # position
          BY <3>1
        <5>2. position \in Nat
          BY <3>1
        <5>3. QED
          BY <5>1, <5>2
      <4>2. QED
        BY <2>5, <4>1 DEF SkipTask
    <3>3. position' \in 1..(Len(taskList) + 1)
      BY <3>1
    <3>4. TypeOK' /\ OnSchedule' /\ AlarmWakes'
      BY <2>5, <3>1, <3>3 DEF SkipTask
    <3>5. QED
      BY <3>2, <3>4
  <2>6. CASE RunThrows
    BY <2>6 DEF RunThrows, TaskThrows
  <2>7. CASE PassEnd
    BY <2>7 DEF PassEnd
  <2>8. CASE Wake
    BY <2>8 DEF Wake
  <2>9. CASE RunReturns
    BY <2>9 DEF RunReturns
  <2>10. CASE StopNotifier
    BY <2>10 DEF StopNotifier, StoppedNotifier
  <2>11. CASE StopThread
    BY <2>11 DEF StopThread
  <2>12. CASE Join
    BY <2>12 DEF Join, joinable
  <2>13. CASE Tick
    BY <2>13 DEF Tick
  <2>14. CASE UNCHANGED vars
    BY <2>14 DEF vars
  <2>15. QED
    BY <2>1, <2>2, <2>3, <2>4, <2>5, <2>6, <2>7, <2>8, <2>9, <2>10, <2>11, <2>12, <2>13, <2>14
    DEF Next, ThreadStep, StopStep
<1>2. QED
  BY <1>1, SchedulerInit, PTL DEF Spec
-----------------------------------------------------------------------------
\* Every variable keeps its type, and no task gets more than one rate ahead of
\* the clock.
THEOREM SchedulerTypeInvariant == Spec => []TypeOK
<1>1. IInv => TypeOK
  BY DEF IInv
<1>2. QED
  BY <1>1, SchedulerInductive, PTL

\* The schedule of a task does not drift, however late it runs.
THEOREM SchedulesDoNotDrift == Spec => []OnSchedule
<1>1. IInv => OnSchedule
  BY DEF IInv
<1>2. QED
  BY <1>1, SchedulerInductive, PTL

\* The thread sleeps no longer than until the next task is due.
THEOREM SchedulerNeverOversleeps == Spec => []NeverOversleeps
<1>1. IInv => NeverOversleeps
  <2> SUFFICES ASSUME IInv, thread = "Asleep", NEW t \in Range(taskList), Rate[t] > 0
               PROVE  alarm <= timeNextUpdateuS[t]
    BY DEF NeverOversleeps
  <2>1. taskList \in Seq(Tasks)
    BY DEF IInv, TypeOK
  <2>2. PICK i \in 1..Len(taskList) : taskList[i] = t
    BY <2>1 DEF Range
  <2>3. QED
    BY <2>2 DEF IInv, AlarmWakes
<1>2. QED
  BY <1>1, SchedulerInductive, PTL

\* The scheduler runs tasks when PeriodicTasks may: no run before its instant.
THEOREM SchedulerImplementsPeriodicTasks == Spec => ImplementsPeriodicTasks
<1>1. Init => Periodic!Init
  BY DEF Init, Periodic!Init
<1>2. IInv /\ [Next]_vars => [Periodic!Next]_<<now, runs>>
  <2> SUFFICES ASSUME IInv, [Next]_vars, ~UNCHANGED <<now, runs>>
               PROVE  Periodic!Next
    OBVIOUS
  <2>1. CASE Tick
    <3>1. now' > now /\ runs' = runs
      BY <2>1 DEF Tick, schedule, IInv, TypeOK
    <3>2. QED
      BY <3>1 DEF Periodic!Next, Periodic!TimePasses
  <2>2. ASSUME NEW t \in Tasks, RunTask(t) PROVE Periodic!Next
    BY <2>2, DueInItsSlot DEF Periodic!Next, Periodic!RunTask
  <2>3. QED
    BY <2>1, <2>2 DEF Next, scheduleTask, start, ThreadStep, PassBegin, LookAtTask, PassOver,
       SkipTask, RunThrows, TaskThrows, PassEnd, Wake, RunReturns, StopNotifier, StopStep,
       StopThread, Join, joinable, vars, schedule
<1>3. QED
  BY <1>1, <1>2, SchedulerInductive, PTL DEF Spec, ImplementsPeriodicTasks, Periodic!Spec
-----------------------------------------------------------------------------
(* Stopping.                                                               *)

\* How far stop has come says what it has switched off, and no thread is left
\* when it has joined.
StopInv ==
    /\ stopper # "NotCalled" => ~notifierActive
    /\ stopper \in {"Joining", "Joined"} => ~threadActive
    /\ stopper = "Joined" => thread = "None"
    /\ threadActive => thread \in {"Top", "Pass", "Asleep"}

\* No step breaks it.
LEMMA StopInductive == Spec => [](TypeOK /\ StopInv)
<1>1. Init => StopInv
  BY DEF Init, StopInv
<1>2. TypeOK /\ StopInv /\ [Next]_vars => StopInv'
  <2> SUFFICES ASSUME TypeOK, StopInv, [Next]_vars PROVE StopInv'
    OBVIOUS
  <2> USE DEF StopInv, schedule, pass, control
  <2>1. ASSUME NEW t \in Tasks, scheduleTask(t) PROVE StopInv'
    BY <2>1 DEF scheduleTask
  <2>2. CASE start
    BY <2>2 DEF start, joinable
  <2>3. CASE PassBegin \/ LookAtTask \/ SkipTask \/ RunThrows \/ PassEnd \/ Wake
    <3>1. /\ thread \in {"Top", "Pass", "Asleep"} /\ thread' \in {"Top", "Pass", "Asleep"}
          /\ UNCHANGED control
      BY <2>3 DEF PassBegin, LookAtTask, RunTask, PassOver, SkipTask, RunThrows, TaskThrows,
         AtTask, PassEnd, Wake
    <3>2. QED
      BY <3>1
  <2>4. CASE RunReturns
    BY <2>4 DEF RunReturns
  <2>5. CASE StopNotifier
    BY <2>5 DEF StopNotifier, StoppedNotifier
  <2>6. CASE StopStep
    BY <2>6 DEF StopStep, StopThread, Join, joinable
  <2>7. CASE Tick \/ UNCHANGED vars
    BY <2>7 DEF Tick, vars
  <2>8. QED
    BY <2>1, <2>2, <2>3, <2>4, <2>5, <2>6, <2>7 DEF Next, ThreadStep
<1>3. QED
  BY <1>1, <1>2, SchedulerTypeInvariant, PTL DEF Spec

\* Once stop has returned there is no scheduler thread that could take a step,
\* so that no task runs while the objects it uses are destroyed: only another
\* start brings one about.
QuietOnceJoined ==
    [][stopper = "Joined" => start \/ UNCHANGED <<thread, alarm, schedule, pass>>]_vars

\* stop returns only when the thread has left run, or when none was started,
\* wherever the thread was when the notifier and the loop were stopped.
THEOREM NoRunAfterStop == Spec => QuietOnceJoined
<1>1. StopInv /\ [Next]_vars =>
        [stopper = "Joined" => start \/ UNCHANGED <<thread, alarm, schedule, pass>>]_vars
  BY DEF StopInv, Next, scheduleTask, ThreadStep, PassBegin,
     LookAtTask, RunTask, PassOver, SkipTask, RunThrows, TaskThrows, AtTask, PassEnd, Wake,
     RunReturns, StopNotifier, StopStep, StopThread, Join, joinable, Tick, vars, schedule,
     pass, control
<1>2. QED
  BY <1>1, StopInductive, PTL DEF Spec, QuietOnceJoined
-----------------------------------------------------------------------------
(* What happens in the end. The fairness of FairSpec is taken in the form   *)
(* it has once the enabling conditions are written out.                    *)

ThreadCanRun ==
    \/ thread \in {"Top", "Pass"}
    \/ thread = "Asleep" /\ (alarm <= now \/ ~notifierActive)
StopCanRun ==
    \/ stopper = "NotifierStopped"
    \/ stopper = "Joining" /\ thread \in {"None", "Ended"}
ThreadRuns == []<>~ThreadCanRun \/ []<><<ThreadStep>>_vars
StopRuns == []<>~StopCanRun \/ []<><<StopStep>>_vars

\* A pass looks at finitely many tasks, each of which returns or throws.
PassesEnd == []<>(thread # "Pass")

CanRunIsEnabled ==
    /\ ThreadCanRun => ENABLED <<ThreadStep>>_vars
    /\ StopCanRun => ENABLED <<StopStep>>_vars

\* The fairness of FairSpec gives the first two.
LEMMA FairnessRunsThreads ==
    WF_vars(ThreadStep) /\ WF_vars(StopStep) /\ []CanRunIsEnabled => ThreadRuns /\ StopRuns
<1>1. CanRunIsEnabled => (ThreadCanRun => ENABLED <<ThreadStep>>_vars)
  BY DEF CanRunIsEnabled
<1>2. CanRunIsEnabled => (StopCanRun => ENABLED <<StopStep>>_vars)
  BY DEF CanRunIsEnabled
<1>3. QED
  BY <1>1, <1>2, PTL DEF ThreadRuns, StopRuns

\* stop returns: a stopped notifier lets the sleeping thread go at once, and a
\* thread that may not go on ends at the top of its loop.
THEOREM StopReturnsInTheEnd == Spec /\ ThreadRuns /\ StopRuns /\ PassesEnd => StopReturns
<1> DEFINE Called == stopper = "NotifierStopped"
           Joining == stopper = "Joining"
           Joined == stopper = "Joined"
           Gone == thread \in {"None", "Ended"}
           InPass == thread = "Pass"
           AtTop == thread = "Top"
           Sleeps == thread = "Asleep"
<1> USE DEF StopInv, Next, scheduleTask, start, ThreadStep, PassBegin,
     LookAtTask, RunTask, PassOver, SkipTask, RunThrows, TaskThrows, AtTask, PassEnd, Wake,
     RunReturns, StopNotifier, StopStep, StopThread, Join, joinable, Tick, vars, schedule,
     pass, control
<1>1. /\ TypeOK /\ stopper # "NotCalled" => Called \/ Joining \/ Joined
      /\ ~(Called /\ Joining)
  BY DEF TypeOK
<1>2. /\ TypeOK => Gone \/ InPass \/ AtTop \/ Sleeps
      /\ thread # "Pass" => ~InPass
  BY DEF TypeOK, ThreadPoints
<1>3. Called /\ [Next]_vars => Called' \/ Joining'
  OBVIOUS
<1>4. Called => StopCanRun
  BY DEF StopCanRun
<1>5. <<StopStep>>_vars => (Called /\ Joining') \/ (Joining /\ Joined')
  OBVIOUS
<1>6. Joining /\ [Next]_vars => Joining' \/ Joined'
  OBVIOUS
<1>7. /\ StopInv /\ Joining /\ [Next]_vars /\ ~InPass => ~InPass'
      /\ StopInv /\ Joining /\ [Next]_vars /\ AtTop => AtTop' \/ Gone'
      /\ StopInv /\ Joining /\ [Next]_vars /\ Sleeps => Sleeps' \/ AtTop'
      /\ StopInv /\ Joining /\ [Next]_vars /\ Gone => Gone'
  OBVIOUS
<1>8. /\ AtTop => ThreadCanRun
      /\ StopInv /\ Joining /\ Sleeps => ThreadCanRun
      /\ Joining /\ Gone => StopCanRun
  BY DEF ThreadCanRun, StopCanRun
<1>9. /\ StopInv /\ Joining /\ <<ThreadStep>>_vars /\ AtTop => Gone'
      /\ <<ThreadStep>>_vars /\ Sleeps => AtTop'
  OBVIOUS
<1>10. Spec => [](TypeOK /\ StopInv)
  BY StopInductive
<1> HIDE DEF StopInv, Next, vars, ThreadStep, StopStep
<1>11. Spec /\ StopRuns => (Called ~> Joining)
  BY <1>1, <1>3, <1>4, <1>5, PTL DEF Spec, StopRuns
<1>12. Spec /\ PassesEnd => (Joining ~> Joined \/ (Joining /\ ~InPass))
  BY <1>2, <1>6, PTL DEF Spec, PassesEnd
<1>13. Spec /\ ThreadRuns => ((Joining /\ ~InPass) ~> Joined \/ (Joining /\ Gone))
  BY <1>2, <1>6, <1>7, <1>8, <1>9, <1>10, PTL DEF Spec, ThreadRuns
<1>14. Spec /\ StopRuns => ((Joining /\ Gone) ~> Joined)
  BY <1>1, <1>5, <1>6, <1>7, <1>8, <1>10, PTL DEF Spec, StopRuns
<1>15. QED
  BY <1>1, <1>10, <1>11, <1>12, <1>13, <1>14, PTL DEF StopReturns

\* The next run of a task that is due comes: with every pass that begins late
\* enough, unless it or a task listed before it throws.
NextRunComes ==
    \A t \in Tasks : \A k \in Nat :
       /\ <>[](threadActive /\ t \in Range(taskList) /\ Rate[t] > 0)
       /\ <>[][~ThrowsUpTo(t)]_vars
       => ((runs[t] = k /\ k * Rate[t] < now) ~> (runs[t] > k))

\* The pass is on its way to the task, and will find it due.
OnItsWay(t, k) ==
    /\ thread = "Pass"
    /\ k * Rate[t] < timeNow
    /\ \E p \in position..Len(taskList) : taskList[p] = t

\* Such a pass comes nearer to the task or runs it: the tasks before it do not
\* end the pass, and it is not passed over.
LEMMA PassGoesOn ==
    ASSUME IInv, [Next]_vars, NEW t \in Tasks, NEW k \in Nat, Rate[t] > 0, runs[t] = k,
           OnItsWay(t, k), [~ThrowsUpTo(t)]_vars
    PROVE  OnItsWay(t, k)' \/ runs'[t] = k + 1
<1> USE SchedulerAssumption
<1>1. PICK p \in position..Len(taskList) : taskList[p] = t
  BY DEF OnItsWay
<1>2. /\ TypeOK /\ OnSchedule /\ thread = "Pass" /\ k * Rate[t] < timeNow
      /\ taskList \in Seq(Tasks) /\ position \in Nat /\ position > 0
      /\ p \in 1..Len(taskList) /\ position <= p
  <2>1. /\ TypeOK /\ OnSchedule /\ thread = "Pass" /\ k * Rate[t] < timeNow
        /\ taskList \in Seq(Tasks) /\ position \in 1..(Len(taskList) + 1)
    BY DEF IInv, TypeOK, OnItsWay
  <2>2. Len(taskList) \in Nat
    BY <2>1
  <2>3. QED
    BY <1>1, <2>1, <2>2
<1>3. Due(t)
  BY <1>2 DEF Due, OnSchedule
<1>4. ASSUME position' = position \/ (position' = position + 1 /\ position # p),
             UNCHANGED <<thread, timeNow, taskList>>
      PROVE  OnItsWay(t, k)'
  <2>1. p \in position'..Len(taskList)
    BY <1>2, <1>4
  <2>2. QED
    BY <1>1, <1>2, <1>4, <2>1 DEF OnItsWay
<1>5. ASSUME NEW u \in Tasks, RunTask(u) PROVE OnItsWay(t, k)' \/ runs'[t] = k + 1
  <2>1. CASE u = t
    BY <1>2, <1>5, <2>1 DEF RunTask, TypeOK
  <2>2. CASE u # t
    BY <1>1, <1>2, <1>4, <1>5, <2>2 DEF RunTask, AtTask, control
  <2>3. QED
    BY <2>1, <2>2
<1>6. ASSUME NEW u \in Tasks, PassOver(u) PROVE OnItsWay(t, k)'
  <2>1. u # t
    BY <1>3, <1>6 DEF PassOver
  <2>2. QED
    BY <1>1, <1>2, <1>4, <1>6, <2>1 DEF PassOver, AtTask, control
<1>7. CASE SkipTask
  BY <1>1, <1>2, <1>4, <1>7 DEF SkipTask, control
<1>8. ASSUME NEW u \in Tasks, TaskThrows(u) PROVE UNCHANGED vars
  <2>1. ListedUpTo(u, t)
    <3>1. position \in 1..Len(taskList) /\ p \in position..Len(taskList)
      BY <1>2
    <3>2. taskList[position] = u /\ taskList[p] = t
      BY <1>1, <1>8 DEF TaskThrows, AtTask
    <3>3. QED
      BY <3>1, <3>2 DEF ListedUpTo
  <2>2. ThrowsUpTo(t)
    BY <1>8, <2>1 DEF ThrowsUpTo
  <2>3. QED
    BY <2>2
<1>9. ~PassEnd
  BY <1>2 DEF PassEnd
<1>10. CASE UNCHANGED vars
  BY <1>4, <1>10 DEF vars, pass, control
<1>11. CASE StopNotifier \/ StopStep \/ Tick
  BY <1>2, <1>4, <1>11 DEF StopNotifier, StopStep, StopThread, Join, joinable, Tick, pass, control
<1>12. QED
  BY <1>2, <1>5, <1>6, <1>7, <1>8, <1>9, <1>10, <1>11
  DEF Next, scheduleTask, start, joinable, ThreadStep, PassBegin, LookAtTask, RunThrows, Wake,
      RunReturns

\* A task that is due is run: a thread that sleeps was to wake for it, the pass
\* it then begins reads a clock that is late enough, and reaches the task.
THEOREM DueTaskRuns == Spec /\ ThreadRuns /\ PassesEnd => NextRunComes
<1> SUFFICES ASSUME NEW t \in Tasks, NEW k \in Nat
             PROVE  Spec /\ ThreadRuns /\ PassesEnd =>
                      (/\ <>[](threadActive /\ t \in Range(taskList) /\ Rate[t] > 0)
                       /\ <>[][~ThrowsUpTo(t)]_vars
                       => ((runs[t] = k /\ k * Rate[t] < now) ~> (runs[t] > k)))
  BY DEF NextRunComes
<1> DEFINE Served == threadActive /\ t \in Range(taskList) /\ Rate[t] > 0
           Late == runs[t] = k /\ k * Rate[t] < now
           Ran == runs[t] > k
           Coming == OnItsWay(t, k)
           InPass == thread = "Pass"
           AtTop == thread = "Top"
           Sleeps == thread = "Asleep"
<1>1. IInv /\ Late /\ [Next]_vars => Late' \/ Ran'
  <2> SUFFICES ASSUME IInv, Late, [Next]_vars PROVE Late' \/ Ran'
    OBVIOUS
  <2>1. /\ now \in Nat /\ runs \in [Tasks -> Nat] /\ Rate[t] \in Nat /\ k * Rate[t] \in Nat
    BY SchedulerAssumption, NextSlot DEF IInv, TypeOK
  <2>2. ASSUME NEW u \in Tasks, RunTask(u) PROVE Late' \/ Ran'
    BY <2>1, <2>2 DEF RunTask
  <2>3. CASE Tick
    BY <2>1, <2>3 DEF Tick, schedule
  <2>4. CASE UNCHANGED <<runs, now>>
    BY <2>4
  <2>5. QED
    BY <2>2, <2>3, <2>4 DEF Next, scheduleTask, start, ThreadStep, PassBegin, LookAtTask, PassOver,
       SkipTask, RunThrows, TaskThrows, PassEnd, Wake, RunReturns, StopNotifier, StopStep,
       StopThread, Join, joinable, vars, schedule
<1>2. /\ StopInv /\ Served => AtTop \/ InPass \/ Sleeps
      /\ thread # "Pass" => ~InPass
  BY DEF StopInv
<1>3. IInv /\ Late /\ Served /\ AtTop /\ [Next]_vars => AtTop' \/ Coming'
  <2> SUFFICES ASSUME IInv, Late, Served, AtTop, [Next]_vars, ~AtTop' PROVE Coming'
    OBVIOUS
  <2>1. PassBegin
    BY DEF Next, scheduleTask, start, ThreadStep, LookAtTask, RunTask, PassOver, AtTask,
       SkipTask, RunThrows, TaskThrows, PassEnd, Wake, RunReturns, StopNotifier, StopStep,
       StopThread, Join, joinable, Tick, vars, control
  <2>2. taskList \in Seq(Tasks)
    BY DEF IInv, TypeOK
  <2>3. PICK p \in 1..Len(taskList) : taskList[p] = t
    BY <2>2 DEF Range
  <2>4. QED
    BY <2>1, <2>3 DEF PassBegin, OnItsWay, control
<1>4. /\ AtTop => ThreadCanRun
      /\ AtTop /\ <<ThreadStep>>_vars => ~AtTop'
  BY DEF ThreadCanRun, ThreadStep, PassBegin, LookAtTask, RunTask, PassOver, AtTask, SkipTask,
     RunThrows, TaskThrows, PassEnd, Wake, RunReturns
<1>5. IInv /\ Late /\ Served /\ Sleeps => ThreadCanRun
  <2> SUFFICES ASSUME IInv, Late, Served, Sleeps PROVE alarm <= now
    BY DEF ThreadCanRun
  <2>1. taskList \in Seq(Tasks) /\ alarm \in Nat /\ now \in Nat /\ k * Rate[t] \in Nat
    BY SchedulerAssumption, NextSlot DEF IInv, TypeOK
  <2>2. PICK p \in 1..Len(taskList) : taskList[p] = t
    BY <2>1 DEF Range
  <2>3. alarm <= timeNextUpdateuS[t] /\ timeNextUpdateuS[t] = k * Rate[t]
    BY <2>2 DEF IInv, AlarmWakes, OnSchedule
  <2>4. QED
    BY <2>1, <2>3
<1>6. /\ Sleeps /\ [Next]_vars => Sleeps' \/ AtTop'
      /\ Sleeps /\ <<ThreadStep>>_vars => AtTop'
      /\ Coming => InPass
  BY DEF Next, scheduleTask, start, ThreadStep, PassBegin, LookAtTask, RunTask, PassOver, AtTask,
     SkipTask, RunThrows, TaskThrows, PassEnd, Wake, RunReturns, StopNotifier, StopStep,
     StopThread, Join, joinable, Tick, vars, control, OnItsWay
<1>7. IInv /\ Late /\ Served /\ Coming /\ [Next]_vars /\ [~ThrowsUpTo(t)]_vars => Coming' \/ Ran'
  BY PassGoesOn
<1>8. Spec => [](IInv /\ StopInv)
  BY SchedulerInductive, StopInductive, PTL
<1> HIDE DEF Coming
<1>9. QED
  BY <1>1, <1>2, <1>3, <1>4, <1>5, <1>6, <1>7, <1>8, PTL DEF Spec, ThreadRuns, PassesEnd
=============================================================================

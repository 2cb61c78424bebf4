------------------------ MODULE ControlHandoffProofs ------------------------
(***************************************************************************)
(* What ControlHandoff's properties rest on, for every timeout,            *)
(* publication period, set of groups and number of datagrams in flight:    *)
(* first safety, then what happens in the end when the threads go on.      *)
(***************************************************************************)
EXTENDS ControlHandoff, TLAPS

\* The counter runs down exactly as the silence runs up.
CountdownInv == mLastConnectionTime + silence = ConnectionTimeout

\* Failover commands on their way to the motors: in the map, and in the hands
\* of ApplyMotorValuesTask.
WaitingCommands == IF recvMsgMap[MotorControl].from = "Failover" THEN 1 ELSE 0
TakenCommands == IF taken.from = "Failover" THEN 1 ELSE 0

\* Why two stale commands are the most there can be: only a robot in failover
\* publishes; while failover is active nothing is stale; and afterwards a
\* stale command is in the map, in the task's hands or has been applied.
StaleInv ==
    /\ mainPc = "Publish" => failoverActive
    /\ failoverActive => staleApplied = 0
    /\ ~failoverActive => staleApplied + WaitingCommands + TakenCommands <= 2

\* The task holds a message only between getMessage and the motors' Set.
TakenInv == schedPc # "Taken" => taken = NoMessage

IInv == TypeOK /\ FailoverConsistent /\ CountdownInv /\ StaleInv /\ TakenInv
-----------------------------------------------------------------------------
\* What publishMessages' counter gives modulo the period stays in range.
LEMMA LoopCounterRange ==
    ASSUME NEW n \in 0..(ConfigPeriod - 1)
    PROVE  (n + 1) % ConfigPeriod \in 0..(ConfigPeriod - 1)
  BY HandoffAssumption

\* The motor commands are one of the groups.
LEMMA MotorControlIsGroup == MotorControl \in Groups
  BY HandoffAssumption DEF Groups

\* The program starts in a well-typed state.
LEMMA TypeInvariant_Init == Init => TypeOK
<1> SUFFICES ASSUME Init PROVE TypeOK
  OBVIOUS
<1>1. recvMsgMap \in [Groups -> Messages \cup {NoMessage}]
  BY DEF Init
<1>2. loopCounter \in 0..(ConfigPeriod - 1) /\ mLastConnectionTime \in 0..ConnectionTimeout
      /\ silence \in 0..ConnectionTimeout
  BY HandoffAssumption DEF Init
<1>3. socket \in Seq(Datagrams)
  BY DEF Init
<1>4. QED
  BY <1>1, <1>2, <1>3 DEF Init, TypeOK, ControlMode, Drive

\* The type invariant holds initially and after every step of either thread.
THEOREM TypeInvariant == Spec => []TypeOK
<1>1. Init => TypeOK
  BY TypeInvariant_Init
<1>2. TypeOK /\ [Next]_vars => TypeOK'
  <2> SUFFICES ASSUME TypeOK, [Next]_vars PROVE TypeOK'
    OBVIOUS
  <2> USE HandoffAssumption DEF TypeOK, mainVars, schedVars, connVars, TakenFromMap
  <2>1. CASE LoopFunc
    BY <2>1 DEF LoopFunc
  <2>2. CASE ModePeriodic
    BY <2>2 DEF ModePeriodic, SubsystemRun, Drive
  <2>3. CASE RobotPeriodicExternal
    BY <2>3 DEF RobotPeriodicExternal, SubsystemReset, Drive
  <2>4. CASE RobotPeriodicFailover
    <3>1. loopCounter' \in 0..(ConfigPeriod - 1)
      BY <2>4, LoopCounterRange DEF RobotPeriodicFailover
    <3>2. toPlace' \subseteq Groups
      BY <2>4 DEF RobotPeriodicFailover, PublishedGroups, Groups
    <3>3. QED
      BY <2>4, <3>1, <3>2 DEF RobotPeriodicFailover
  <2>5. CASE placeFailoverMessage
    BY <2>5 DEF placeFailoverMessage, Messages, Source, Drive
  <2>6. CASE PublishDone
    BY <2>6 DEF PublishDone
  <2>7. CASE ReceiveMessagesTask
    BY <2>7 DEF ReceiveMessagesTask
  <2>8. CASE ApplyMotorValues
    <3>1. recvMsgMap' \in [Groups -> Messages \cup {NoMessage}]
      BY <2>8 DEF ApplyMotorValues
    <3>2. taken' \in Messages \cup {NoMessage}
      BY <2>8, MotorControlIsGroup DEF ApplyMotorValues
    <3>3. QED
      BY <2>8, <3>1, <3>2 DEF ApplyMotorValues
  <2>9. CASE processHeartbeat
    BY <2>9 DEF processHeartbeat, CountedDown
  <2>10. CASE StoreReceived
    <3>1. Head(socket) \in Datagrams /\ socket' \in Seq(Datagrams)
      BY <2>10 DEF StoreReceived
    <3>2. recvMsgMap' \in [Groups -> Messages \cup {NoMessage}]
      BY <2>10, <3>1 DEF StoreReceived, Datagrams, Messages, Source
    <3>3. QED
      BY <2>10, <3>1, <3>2 DEF StoreReceived
  <2>11. CASE externalControlMsgReceived
    BY <2>11 DEF externalControlMsgReceived
  <2>12. CASE PumpEnd
    BY <2>12 DEF PumpEnd
  <2>13. CASE DisableMasters
    BY <2>13 DEF DisableMasters, ZeroedWhenDisabled, Messages, NoMessage, Drive
  <2>14. CASE \E g \in OtherTaskGroups : ConsumeOther(g)
    BY <2>14 DEF ConsumeOther, OtherTaskGroups
  <2>18. CASE SetMotors
    BY <2>18 DEF SetMotors
  <2>15. CASE Arrive
    <3>1. socket' \in Seq(Datagrams)
      <4>1. PICK g \in Groups, eagain \in BOOLEAN :
               \E m \in Message("External", g) :
                 socket' = Append(socket,
                             [group |-> g, drive |-> m.drive, sizeIsEAGAIN |-> eagain])
        BY <2>15 DEF Arrive
      <4>2. PICK d \in Drive :
               socket' = Append(socket,
                             [group |-> g, drive |-> d, sizeIsEAGAIN |-> eagain])
        BY <4>1 DEF Message, Drive
      <4>3. [group |-> g, drive |-> d, sizeIsEAGAIN |-> eagain] \in Datagrams
        BY DEF Datagrams
      <4>4. QED
        BY <4>2, <4>3
    <3>2. QED
      BY <2>15, <3>1 DEF Arrive
  <2>16. CASE UNCHANGED vars
    BY <2>16 DEF vars
  <2>17. QED
    BY <2>1, <2>2, <2>3, <2>4, <2>5, <2>6, <2>7, <2>8, <2>9, <2>10, <2>11, <2>12,
       <2>13, <2>14, <2>15, <2>16, <2>18 DEF Next, Main, Scheduler, WithinTask
<1>3. QED
  BY <1>1, <1>2, PTL DEF Spec

-----------------------------------------------------------------------------
\* The three hand-over invariants are inductive together with the types.
LEMMA HandoffInductive == Spec => []IInv
<1>1. Init => IInv
  <2> SUFFICES ASSUME Init PROVE FailoverConsistent /\ CountdownInv /\ StaleInv /\ TakenInv
    BY TypeInvariant_Init DEF IInv
  <2>1. recvMsgMap[MotorControl] = NoMessage
    BY MotorControlIsGroup DEF Init
  <2>2. QED
    BY <2>1, HandoffAssumption DEF Init, FailoverConsistent, CountdownInv, StaleInv, TakenInv,
       WaitingCommands, TakenCommands, NoMessage
<1>2. IInv /\ TypeOK' /\ [Next]_vars => IInv'
  <2> SUFFICES ASSUME IInv, TypeOK', [Next]_vars
               PROVE  FailoverConsistent' /\ CountdownInv' /\ StaleInv' /\ TakenInv'
    BY DEF IInv
  <2>a. TypeOK /\ FailoverConsistent /\ CountdownInv /\ StaleInv /\ TakenInv
    BY DEF IInv
  <2>b. MotorControl \in Groups
    BY MotorControlIsGroup
  <2>c. staleApplied \in Nat
    BY <2>a DEF TypeOK
  <2> USE <2>a, <2>b, <2>c, HandoffAssumption
      DEF FailoverConsistent, CountdownInv, StaleInv, TakenInv, WaitingCommands, TakenCommands,
          mainVars, schedVars, connVars, TakenFromMap
  <2>1. CASE LoopFunc
    BY <2>1 DEF LoopFunc
  <2>2. CASE ModePeriodic
    BY <2>2 DEF ModePeriodic, SubsystemRun
  <2>3. CASE RobotPeriodicExternal
    BY <2>3 DEF RobotPeriodicExternal, SubsystemReset
  <2>4. CASE RobotPeriodicFailover
    BY <2>4 DEF RobotPeriodicFailover
  <2>5. CASE placeFailoverMessage
    BY <2>5 DEF placeFailoverMessage
  <2>6. CASE PublishDone
    BY <2>6 DEF PublishDone
  <2>7. CASE ReceiveMessagesTask
    BY <2>7 DEF ReceiveMessagesTask
  <2>8. CASE ApplyMotorValues
    <3>1. recvMsgMap'[MotorControl] = NoMessage
      BY <2>8 DEF ApplyMotorValues, TypeOK
    <3>2. QED
      BY <2>8, <3>1 DEF ApplyMotorValues, NoMessage
  <2>9. CASE processHeartbeat
    BY <2>9 DEF processHeartbeat, CountedDown, TypeOK
  <2>10. CASE StoreReceived
    <3>1. WaitingCommands' <= WaitingCommands
      BY <2>10 DEF StoreReceived, TypeOK
    <3>2. QED
      BY <2>10, <3>1 DEF StoreReceived
  <2>11. CASE externalControlMsgReceived
    BY <2>11 DEF externalControlMsgReceived
  <2>12. CASE PumpEnd
    BY <2>12 DEF PumpEnd
  <2>13. CASE DisableMasters
    BY <2>13 DEF DisableMasters, ZeroedWhenDisabled
  <2>14. CASE \E g \in OtherTaskGroups : ConsumeOther(g)
    BY <2>14 DEF ConsumeOther, OtherTaskGroups, NoMessage, TypeOK
  <2>18. CASE SetMotors
    <3>1. TakenCommands' = 0 /\ UNCHANGED WaitingCommands
      BY <2>18 DEF SetMotors, NoMessage
    <3>2. QED
      BY <2>18, <3>1 DEF SetMotors
  <2>15. CASE Arrive
    BY <2>15 DEF Arrive
  <2>16. CASE UNCHANGED vars
    BY <2>16 DEF vars
  <2>17. QED
    BY <2>1, <2>2, <2>3, <2>4, <2>5, <2>6, <2>7, <2>8, <2>9, <2>10, <2>11, <2>12,
       <2>13, <2>14, <2>15, <2>16, <2>18 DEF Next, Main, Scheduler, WithinTask
<1>3. QED
  BY <1>1, <1>2, TypeInvariant, PTL DEF Spec

\* The joystick exists exactly while failover is active, and a robot that is
\* not in failover holds no failover drive command.
THEOREM FailoverIsConsistent == Spec => []FailoverConsistent
<1>1. IInv => FailoverConsistent
  BY DEF IInv
<1>2. QED
  BY <1>1, HandoffInductive, PTL

\* After failover is reset at most two of its commands still reach the
\* motors, until failover is activated again.
THEOREM TwoStaleCommandsAtMost == Spec => []AtMostTwoStaleCommands
<1>1. IInv => AtMostTwoStaleCommands
  BY DEF IInv, StaleInv, WaitingCommands, TakenCommands, TypeOK, AtMostTwoStaleCommands
<1>2. QED
  BY <1>1, HandoffInductive, PTL

\* The connection is up for exactly ConnectionTimeout heartbeats.
THEOREM ConnectionCountsExactly == Spec => []ConnectedExactly
<1>1. IInv => ConnectedExactly
  BY HandoffAssumption DEF IInv, CountdownInv, TypeOK, ConnectedExactly, isExternalControl
<1>2. QED
  BY <1>1, HandoffInductive, PTL
-----------------------------------------------------------------------------
\* The connection to the external controller, as an object on a lease.
connection == [c \in IF isExternalControl THEN {"External"} ELSE {} |-> mLastConnectionTime]
Lease == INSTANCE HeartbeatLease WITH
    Ids <- {"External"},
    MaxTicks <- ConnectionTimeout,
    left <- connection

\* ExternalControlManager holds the connection as the registries hold their
\* devices: it is renewed in full, by a stored datagram of any group, or loses
\* one tick to a heartbeat, and the heartbeat that ends it takes it away. No
\* other step of the two threads changes it.
THEOREM ConnectionHeldOnLease == Spec => Lease!Spec
<1>1. Init => Lease!Init
  BY DEF Init, Lease!Init, connection, isExternalControl
<1>2. TypeOK /\ [Next]_vars => [Lease!Next]_connection
  <2> SUFFICES ASSUME TypeOK, [Next]_vars
               PROVE  Lease!Next \/ connection' = connection
    OBVIOUS
  <2>1. CASE externalControlMsgReceived
    <3>1. isExternalControl' /\ mLastConnectionTime' = ConnectionTimeout
      BY <2>1, HandoffAssumption DEF externalControlMsgReceived, isExternalControl
    <3>2. Lease!Renew({"External"})
      BY <3>1 DEF Lease!Renew, connection
    <3>3. QED
      BY <3>2 DEF Lease!Next
  <2>2. CASE processHeartbeat
    <3>1. mLastConnectionTime \in Nat
      BY DEF TypeOK
    <3>2. CASE mLastConnectionTime <= 1
      <4>1. mLastConnectionTime' = 0
        BY <2>2, <3>1, <3>2 DEF processHeartbeat, CountedDown
      <4>2. connection' = [c \in {} |-> mLastConnectionTime - 1]
        BY <4>1 DEF connection, isExternalControl
      <4>3. {c \in DOMAIN connection : connection[c] > 1} = {}
        BY <3>1, <3>2 DEF connection
      <4>4. Lease!Heartbeat
        BY <4>2, <4>3 DEF Lease!Heartbeat
      <4>5. QED
        BY <4>4 DEF Lease!Next
    <3>3. CASE mLastConnectionTime > 1
      <4>1. connection = [c \in {"External"} |-> mLastConnectionTime]
        BY <3>1, <3>3 DEF connection, isExternalControl
      <4>2. connection' = [c \in {"External"} |-> mLastConnectionTime - 1]
        BY <2>2, <3>1, <3>3 DEF processHeartbeat, CountedDown, connection, isExternalControl
      <4>3. Lease!Heartbeat
        BY <3>3, <4>1, <4>2 DEF Lease!Heartbeat
      <4>4. QED
        BY <4>3 DEF Lease!Next
    <3>4. QED
      BY <3>1, <3>2, <3>3
  <2>3. CASE UNCHANGED mLastConnectionTime
    BY <2>3 DEF connection, isExternalControl
  <2>4. externalControlMsgReceived \/ processHeartbeat \/ UNCHANGED mLastConnectionTime
    BY DEF Next, Main, Scheduler, WithinTask, LoopFunc, ModePeriodic, RobotPeriodicExternal,
       RobotPeriodicFailover, placeFailoverMessage, PublishDone, ReceiveMessagesTask,
       StoreReceived, PumpEnd, ApplyMotorValues, SetMotors, DisableMasters, ConsumeOther, Arrive,
       mainVars, schedVars, connVars, vars
  <2>5. QED
    BY <2>1, <2>2, <2>3, <2>4
<1>3. QED
  BY <1>1, <1>2, TypeInvariant, PTL DEF Spec, Lease!Spec
-----------------------------------------------------------------------------
(* Liveness. What Fairness comes to, with the conditions written out under *)
(* which the actions are enabled.                                          *)

\* The main thread goes on for ever; its loop begins again and again.
MainRuns == []<><<Main>>_vars
LoopRuns == []<><<LoopFunc>>_vars

\* A task is run again and again when the scheduler thread keeps coming to the
\* point between two tasks; the other Apply tasks find a message again and again.
TasksRun ==
    /\ []<>(schedPc = "Idle") => []<><<ApplyMotorValues>>_vars
    /\ \A g \in OtherTaskGroups :
          []<>(schedPc = "Idle" /\ recvMsgMap[g] # NoMessage) => []<><<ConsumeOther(g)>>_vars

\* The enabling conditions: a main thread that is never stuck, and tasks that
\* can always begin when the scheduler thread is between two of them.
AlwaysEnabled ==
    /\ ENABLED <<Main>>_vars
    /\ schedPc = "Idle" => ENABLED <<ApplyMotorValues>>_vars
    /\ \A g \in OtherTaskGroups :
          schedPc = "Idle" /\ recvMsgMap[g] # NoMessage => ENABLED <<ConsumeOther(g)>>_vars

\* Fairness gives what the theorems below ask for.
LEMMA FairnessRunsTasks ==
    Fairness /\ []AlwaysEnabled =>
       MainRuns /\ ([]<>(schedPc = "Idle") => []<><<ApplyMotorValues>>_vars)
<1>1. AlwaysEnabled => ENABLED <<Main>>_vars
  BY DEF AlwaysEnabled
<1>2. AlwaysEnabled => (schedPc = "Idle" => ENABLED <<ApplyMotorValues>>_vars)
  BY DEF AlwaysEnabled
<1>3. QED
  BY <1>1, <1>2, PTL DEF Fairness, MainRuns

\* So does the last conjunct of Fairness, for each of the other Apply tasks.
LEMMA FairnessRunsOtherTasks ==
    ASSUME NEW g \in OtherTaskGroups
    PROVE  SF_vars(ConsumeOther(g)) /\ []AlwaysEnabled =>
             ([]<>(schedPc = "Idle" /\ recvMsgMap[g] # NoMessage) => []<><<ConsumeOther(g)>>_vars)
<1>1. AlwaysEnabled =>
        (schedPc = "Idle" /\ recvMsgMap[g] # NoMessage => ENABLED <<ConsumeOther(g)>>_vars)
  BY DEF AlwaysEnabled
<1>2. QED
  BY <1>1, PTL

\* A robot that stays disabled gets its motors stopped. Once ApplyMotorValues
\* has begun, its last block is the only way back to the point between two tasks,
\* and it zeroes the motors, whatever the block before it has applied.
THEOREM DisabledRobotStops == Spec /\ TasksRun => DisabledStopsMotors
<1> DEFINE Disabled == controlMode = "DISABLED"
           Stopped == motors.drive = "Stop" \/ controlMode # "DISABLED"
           Idle == schedPc = "Idle"
           Taken == schedPc = "Taken"
           Applied == schedPc = "Applied"
<1>1. TasksRun => ([]<>Idle => []<><<ApplyMotorValues>>_vars)
  BY PTL DEF TasksRun
<1>2. <<ApplyMotorValues>>_vars => Taken'
  BY DEF ApplyMotorValues
<1>7. Taken /\ [Next]_vars => Taken' \/ Applied'
  BY DEF Next, Main, Scheduler, WithinTask, LoopFunc, ModePeriodic, RobotPeriodicExternal,
     RobotPeriodicFailover, placeFailoverMessage, PublishDone, ReceiveMessagesTask,
     StoreReceived, externalControlMsgReceived, PumpEnd, ApplyMotorValues, SetMotors,
     DisableMasters, ConsumeOther, processHeartbeat, Arrive, mainVars, schedVars, connVars, vars
<1>3. TypeOK /\ Applied /\ [Next]_vars => Applied' \/ Stopped'
  <2> SUFFICES ASSUME TypeOK, Applied, [Next]_vars, ~Applied' PROVE Stopped'
    OBVIOUS
  <2>1. DisableMasters
    BY DEF Next, Main, Scheduler, WithinTask, LoopFunc, ModePeriodic, RobotPeriodicExternal,
       RobotPeriodicFailover, placeFailoverMessage, PublishDone, ReceiveMessagesTask,
       StoreReceived, externalControlMsgReceived, PumpEnd, ApplyMotorValues, SetMotors,
       ConsumeOther, processHeartbeat, Arrive, mainVars, schedVars, connVars, vars
  <2>2. motors \in [from : Source \cup {"None"}, drive : Drive]
    BY DEF TypeOK, Messages, NoMessage, Drive
  <2>3. QED
    BY <2>1, <2>2 DEF DisableMasters, ZeroedWhenDisabled
<1>4. Idle => ~Applied /\ ~Taken
  OBVIOUS
<1>5. ~Disabled => Stopped
  OBVIOUS
<1>6. QED
  BY <1>1, <1>2, <1>3, <1>4, <1>5, <1>7, TypeInvariant, PTL DEF Spec, DisabledStopsMotors

\* What the main thread does to the failover flag: its steps lead from each
\* point of the loop to the next, and steps of others keep the point.
LEMMA MainThreadGoesRound ==
    ASSUME [Next]_vars
    PROVE  /\ mainPc = "LoopFunc" => mainPc' \in {"LoopFunc", "Periodic"}
           /\ mainPc = "Periodic" => mainPc' \in {"Periodic", "RobotPeriodic"}
           /\ mainPc = "RobotPeriodic" => (mainPc' = "RobotPeriodic" /\ UNCHANGED failoverActive)
                                            \/ RobotPeriodicExternal \/ RobotPeriodicFailover
           /\ mainPc # "RobotPeriodic" => UNCHANGED failoverActive
           /\ Main => mainPc = "Publish" \/ mainPc' # mainPc
BY DEF Next, Main, Scheduler, WithinTask, LoopFunc, ModePeriodic, RobotPeriodicExternal,
   RobotPeriodicFailover, placeFailoverMessage, PublishDone, ReceiveMessagesTask,
   StoreReceived, externalControlMsgReceived, PumpEnd, ApplyMotorValues, SetMotors, DisableMasters,
   ConsumeOther, processHeartbeat, Arrive, mainVars, schedVars, connVars, vars

\* A connection that stays lost leaves the robot to failover for good.
LossLeadsToFailover == <>[]~isExternalControl => <>[]failoverActive

\* Failover takes over for good once the connection stays lost, wherever the
\* main loop is at that moment: RobotPeriodic reads the connection anew.
THEOREM FailoverTakesOver == Spec /\ MainRuns => LossLeadsToFailover
<1> DEFINE At(pc) == mainPc = pc /\ ~failoverActive
<1>1. IInv => failoverActive \/ At("LoopFunc") \/ At("Periodic") \/ At("RobotPeriodic")
  BY DEF IInv, TypeOK, StaleInv
<1>2. failoverActive /\ ~isExternalControl /\ [Next]_vars => failoverActive'
  BY MainThreadGoesRound DEF RobotPeriodicExternal, RobotPeriodicFailover
<1>3. At("LoopFunc") /\ [Next]_vars => At("LoopFunc")' \/ At("Periodic")'
  BY MainThreadGoesRound
<1>4. At("Periodic") /\ [Next]_vars => At("Periodic")' \/ At("RobotPeriodic")'
  BY MainThreadGoesRound
<1>5. At("RobotPeriodic") /\ ~isExternalControl /\ [Next]_vars =>
        At("RobotPeriodic")' \/ failoverActive'
  BY MainThreadGoesRound DEF RobotPeriodicExternal, RobotPeriodicFailover
<1>6. /\ At("LoopFunc") /\ [Next]_vars /\ <<Main>>_vars => ~At("LoopFunc")'
      /\ At("Periodic") /\ [Next]_vars /\ <<Main>>_vars => ~At("Periodic")'
      /\ At("RobotPeriodic") /\ [Next]_vars /\ <<Main>>_vars => ~At("RobotPeriodic")'
  BY MainThreadGoesRound
<1> HIDE DEF At
<1>7. QED
  BY <1>1, <1>2, <1>3, <1>4, <1>5, <1>6, HandoffInductive, PTL
     DEF Spec, MainRuns, LossLeadsToFailover

\* Outside failover no failover message is placed: a group without one stays
\* without one.
LEMMA NoneIsPlaced ==
    ASSUME IInv, ~failoverActive, [Next]_vars, NEW g \in Groups,
           recvMsgMap[g].from # "Failover"
    PROVE  recvMsgMap'[g].from # "Failover"
<1> USE DEF mainVars, schedVars, connVars, TakenFromMap
<1>1. mainPc # "Publish" /\ recvMsgMap \in [Groups -> Messages \cup {NoMessage}]
  BY DEF IInv, StaleInv, TypeOK
<1>2. CASE StoreReceived
  BY <1>1, <1>2 DEF StoreReceived
<1>3. CASE ApplyMotorValues \/ \E h \in OtherTaskGroups : ConsumeOther(h)
  <2>1. recvMsgMap'[g] \in {recvMsgMap[g], NoMessage}
    BY <1>1, <1>3 DEF ApplyMotorValues, ConsumeOther
  <2>2. QED
    BY <2>1 DEF NoMessage
<1>4. CASE UNCHANGED recvMsgMap
  BY <1>4
<1>5. StoreReceived \/ ApplyMotorValues \/ (\E h \in OtherTaskGroups : ConsumeOther(h))
        \/ UNCHANGED recvMsgMap
  BY <1>1 DEF Next, Main, Scheduler, WithinTask, LoopFunc, ModePeriodic, RobotPeriodicExternal,
     RobotPeriodicFailover, placeFailoverMessage, PublishDone, ReceiveMessagesTask,
     externalControlMsgReceived, PumpEnd, SetMotors, DisableMasters, processHeartbeat, Arrive,
     vars
<1>6. QED
  BY <1>2, <1>3, <1>4, <1>5

\* ConnectionLeadsToHandBack, group by group.
GroupsHandedBack ==
    \A g \in Groups :
       (<>[]isExternalControl /\ []<>(schedPc = "Idle")) =>
          <>[](/\ ~failoverActive
               /\ taken.from # "Failover"
               /\ recvMsgMap[g].from # "Failover")

\* When the external controller stays connected, the next RobotPeriodic resets
\* failover, nothing activates it or places one of its messages any more, and
\* each group's Apply task takes out the one that may be left; the motors' task
\* applies the one that it has got.
THEOREM ControlIsHandedBack == Spec /\ LoopRuns /\ TasksRun => GroupsHandedBack
<1> SUFFICES ASSUME NEW g \in Groups
             PROVE  Spec /\ LoopRuns /\ TasksRun =>
                      ((<>[]isExternalControl /\ []<>(schedPc = "Idle")) =>
                         <>[](/\ ~failoverActive
                              /\ taken.from # "Failover"
                              /\ recvMsgMap[g].from # "Failover"))
  BY DEF GroupsHandedBack
<1> DEFINE Idle == schedPc = "Idle"
           Free(h) == recvMsgMap[h].from # "Failover"
           EmptyHanded == taken.from # "Failover"
           Begun == mainPc = "Periodic"
           Deciding == mainPc = "RobotPeriodic"
           Waiting == mainPc = "LoopFunc"
           Full(h) == schedPc = "Idle" /\ recvMsgMap[h] # NoMessage
<1>1. <<LoopFunc>>_vars => Waiting /\ Begun'
  BY DEF LoopFunc
<1>2. Begun /\ [Next]_vars => Begun' \/ Deciding'
  BY MainThreadGoesRound
<1>3. Deciding /\ isExternalControl /\ [Next]_vars => Deciding' \/ (~failoverActive)'
  BY MainThreadGoesRound DEF RobotPeriodicExternal, RobotPeriodicFailover
<1>4. ~failoverActive /\ isExternalControl /\ [Next]_vars => (~failoverActive)'
  BY MainThreadGoesRound DEF RobotPeriodicExternal, RobotPeriodicFailover
<1>5. Waiting => ~Begun /\ ~Deciding
  OBVIOUS
<1>6. Spec /\ LoopRuns /\ <>[]isExternalControl => <>[]~failoverActive
  BY <1>1, <1>2, <1>3, <1>4, <1>5, PTL DEF Spec, LoopRuns
<1>7. ASSUME NEW h \in Groups
      PROVE  IInv /\ ~failoverActive /\ Free(h) /\ [Next]_vars => Free(h)'
  BY NoneIsPlaced
<1>8. Spec /\ TasksRun /\ []<>Idle => []<>Free(MotorControl)
  <2>1. TypeOK /\ <<ApplyMotorValues>>_vars => Free(MotorControl)'
    BY MotorControlIsGroup DEF TypeOK, ApplyMotorValues, TakenFromMap, NoMessage
  <2>2. QED
    BY <2>1, TypeInvariant, PTL DEF TasksRun
<1>9. Spec /\ TasksRun /\ []<>Idle => []<>Free(g)
  <2>1. CASE g = MotorControl
    <3>1. TypeOK /\ <<ApplyMotorValues>>_vars => Free(g)'
      BY <2>1 DEF TypeOK, ApplyMotorValues, TakenFromMap, NoMessage
    <3>2. QED
      BY <3>1, TypeInvariant, PTL DEF TasksRun
  <2>2. CASE g # MotorControl
    <3>1. g \in OtherTaskGroups
      BY <2>2 DEF OtherTaskGroups
    <3>2. TasksRun => ([]<>Full(g) => []<><<ConsumeOther(g)>>_vars)
      BY <3>1 DEF TasksRun
    <3>3. TypeOK /\ <<ConsumeOther(g)>>_vars => Free(g)'
      BY DEF TypeOK, ConsumeOther, TakenFromMap, NoMessage
    <3>4. Idle /\ ~Free(g) => Full(g)
      BY DEF NoMessage
    <3> HIDE DEF Free, Full
    <3>5. QED
      BY <3>2, <3>3, <3>4, TypeInvariant, PTL
  <2>3. QED
    BY <2>1, <2>2
<1>10. IInv /\ Idle => EmptyHanded
  BY DEF IInv, TakenInv, NoMessage
<1>11. EmptyHanded /\ Free(MotorControl) /\ [Next]_vars => EmptyHanded'
  BY DEF Next, Main, Scheduler, WithinTask, LoopFunc, ModePeriodic, RobotPeriodicExternal,
     RobotPeriodicFailover, placeFailoverMessage, PublishDone, ReceiveMessagesTask,
     StoreReceived, externalControlMsgReceived, PumpEnd, ApplyMotorValues, SetMotors,
     DisableMasters, ConsumeOther, processHeartbeat, Arrive, mainVars, schedVars, connVars,
     vars, NoMessage
<1>12. IInv /\ ~failoverActive /\ Free(MotorControl) /\ [Next]_vars => Free(MotorControl)'
  BY <1>7, MotorControlIsGroup
<1>13. IInv /\ ~failoverActive /\ Free(g) /\ [Next]_vars => Free(g)'
  BY <1>7
<1> HIDE DEF Free
<1>14. Spec /\ LoopRuns /\ TasksRun =>
        ((<>[]isExternalControl /\ []<>Idle) => <>[](/\ ~failoverActive
                                                     /\ EmptyHanded
                                                     /\ Free(g)))
  BY <1>6, <1>8, <1>9, <1>10, <1>11, <1>12, <1>13, HandoffInductive, PTL DEF Spec
<1>15. QED
  BY <1>14 DEF Free
=============================================================================

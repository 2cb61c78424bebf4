--------------------------- MODULE ControlHandoff ---------------------------
(***************************************************************************)
(* Who drives the robot: the hand-over of control between the external     *)
(* controller (ROS, over UDP) and the on-board failover code.              *)
(*                                                                         *)
(* Two threads share NetworkManager::recvMsgMap and the connection counter *)
(* of ExternalControlManager:                                              *)
(*   - the main thread runs IterativeRobotBase::LoopFunc every 20 ms: mode *)
(*     init, mode periodic (the failover drive code in teleop), then       *)
(*     Robot::RobotPeriodic, which activates, publishes or resets failover;*)
(*   - the scheduler thread runs the tasks one after the other: it drains  *)
(*     the socket into the map, consumes the map into the motors, and      *)
(*     counts the connection down.                                         *)
(* A step is an interval in which a thread touches shared state once.      *)
(***************************************************************************)
EXTENDS Naturals, Sequences, FiniteSets

CONSTANTS
    ConnectionTimeout,  \* externalControlMsgReceived's 50, in heartbeats
    ConfigPeriod,       \* publishMessages' 25, in calls
    LoopGroups,         \* groups publishMessages places on every call
    ConfigGroups,       \* groups it places on every ConfigPeriod-th call
    OtherGroups,        \* groups only the external controller sends
    MaxInFlight         \* bound: external messages waiting in the socket

MotorControl == "motorcontrol"
Groups == LoopGroups \cup ConfigGroups \cup OtherGroups

ASSUME HandoffAssumption ==
    /\ ConnectionTimeout \in Nat \ {0}
    /\ ConfigPeriod \in Nat \ {0}
    /\ MotorControl \in LoopGroups
    /\ MaxInFlight \in Nat

VARIABLES
    \* main thread
    mainPc,          \* "LoopFunc" -> "Periodic" -> "RobotPeriodic" -> "Publish"
    toPlace,         \* groups the running publishMessages has still to place
    failoverActive,  \* Robot::failoverActive
    joystick,        \* SwerveDrivetrainFailover::mJoystick is allocated
    driveOutput,     \* what the failover drive motors are commanded
    loopCounter,     \* publishMessages' mLoopCounter, modulo ConfigPeriod
    \* shared
    controlMode,         \* RobotControlModeHelper::mControlMode
    recvMsgMap,          \* NetworkManager::recvMsgMap, NoMessage when absent
    mLastConnectionTime, \* ExternalControlManager::mLastConnectionTime
    \* scheduler thread and its surroundings
    schedPc,         \* where the scheduler thread is between two tasks
    taken,           \* the message ApplyMotorValuesTask has got and not yet applied
    socket,          \* messages the UDP socket holds, oldest first
    motors,          \* the last command the motors were given
    \* history, read by properties only
    silence,         \* heartbeats since the last externalControlMsgReceived
    staleApplied     \* failover commands applied since failover was reset, up to 3

mainVars  == <<mainPc, toPlace, failoverActive, joystick, driveOutput, loopCounter>>
schedVars == <<schedPc, taken, motors>>
connVars  == <<mLastConnectionTime, silence>>
vars == <<mainVars, schedVars, connVars, controlMode, recvMsgMap, socket, staleApplied>>

ControlMode == {"DISABLED", "TELEOP", "AUTONOMOUS", "TEST"}
Drive  == {"Stop", "Move"}
Source == {"External", "Failover"}
\* A message in the map. Only motor commands carry a drive level.
Message(src, g) == [from : {src}, drive : IF g = MotorControl THEN Drive ELSE {"Stop"}]
Messages == [from : Source, drive : Drive]
NoMessage == [from |-> "None", drive |-> "Stop"]
\* A datagram: sizeIsEAGAIN says that its length in bytes equals EAGAIN (11).
Datagrams == [group : Groups, drive : Drive, sizeIsEAGAIN : BOOLEAN]

ConnectedOneTickShort == mLastConnectionTime > 1
isExternalControl == mLastConnectionTime > 0

TypeOK ==
    /\ mainPc \in {"LoopFunc", "Periodic", "RobotPeriodic", "Publish"}
    /\ toPlace \subseteq Groups
    /\ failoverActive \in BOOLEAN
    /\ joystick \in BOOLEAN
    /\ driveOutput \in Drive
    /\ loopCounter \in 0..(ConfigPeriod - 1)
    /\ controlMode \in ControlMode
    /\ recvMsgMap \in [Groups -> Messages \cup {NoMessage}]
    /\ mLastConnectionTime \in 0..ConnectionTimeout
    /\ schedPc \in {"Idle", "Recv", "Received", "Taken", "Applied"}
    /\ taken \in Messages \cup {NoMessage}
    /\ socket \in Seq(Datagrams)
    /\ motors \in Messages \cup {NoMessage}
    /\ silence \in 0..ConnectionTimeout
    /\ staleApplied \in Nat

Init ==
    /\ mainPc = "LoopFunc"
    /\ toPlace = {}
    /\ failoverActive = FALSE
    /\ joystick = FALSE
    /\ driveOutput = "Stop"
    /\ loopCounter = 0
    /\ controlMode = "DISABLED"
    /\ recvMsgMap = [g \in Groups |-> NoMessage]
    /\ mLastConnectionTime = 0
    /\ schedPc = "Idle"
    /\ taken = NoMessage
    /\ socket = <<>>
    /\ motors = NoMessage
    /\ silence = ConnectionTimeout
    /\ staleApplied = 0
-----------------------------------------------------------------------------
(* The main thread.                                                        *)

\* LoopFunc reads the control word; on a change of mode it calls the mode's
\* Init, which stores the control mode. The failover Init hooks are empty, so
\* storing the mode on every pass has the same effect.
LoopFunc ==
    /\ mainPc = "LoopFunc"
    /\ \E mode \in ControlMode : controlMode' = mode
    /\ mainPc' = "Periodic"
    /\ UNCHANGED <<toPlace, failoverActive, joystick, driveOutput, loopCounter,
                   schedVars, connVars, recvMsgMap, socket, staleApplied>>

\* SwerveDrivetrainFailover::run: the axes decide when there is a connected
\* joystick (any level may result, a disconnected one stops), else stop.
SubsystemRun ==
    IF joystick THEN driveOutput' \in Drive ELSE driveOutput' = "Stop"

\* The mode's Periodic. Only TeleopFailoverPeriodic does anything.
ModePeriodic ==
    /\ mainPc = "Periodic"
    /\ IF controlMode = "TELEOP" /\ ~isExternalControl
         THEN SubsystemRun
         ELSE UNCHANGED driveOutput
    /\ mainPc' = "RobotPeriodic"
    /\ UNCHANGED <<toPlace, failoverActive, joystick, loopCounter, schedVars,
                   connVars, controlMode, recvMsgMap, socket, staleApplied>>

ResetKeepsDriveOutput == joystick' = FALSE /\ UNCHANGED driveOutput

\* SubsystemReset of the four failover subsystems.
SubsystemReset ==
    /\ joystick' = FALSE
    /\ driveOutput' = "Stop"

\* RobotPeriodic while the external controller is connected.
RobotPeriodicExternal ==
    /\ mainPc = "RobotPeriodic"
    /\ isExternalControl
    /\ IF failoverActive THEN SubsystemReset ELSE UNCHANGED <<joystick, driveOutput>>
    /\ failoverActive' = FALSE
    /\ mainPc' = "LoopFunc"
    /\ UNCHANGED <<toPlace, loopCounter, schedVars, connVars, controlMode,
                   recvMsgMap, socket, staleApplied>>

\* The groups that one call of publishMessages places.
PublishedGroups == LoopGroups \cup (IF loopCounter = 0 THEN ConfigGroups ELSE {})

\* RobotPeriodic without external control: activate failover if it is not
\* active, then enter publishMessages.
RobotPeriodicFailover ==
    /\ mainPc = "RobotPeriodic"
    /\ ~isExternalControl
    /\ failoverActive' = TRUE
    /\ joystick' = TRUE
    /\ toPlace' = PublishedGroups
    /\ loopCounter' = (loopCounter + 1) % ConfigPeriod
    /\ staleApplied' = 0
    /\ mainPc' = "Publish"
    /\ UNCHANGED <<driveOutput, schedVars, connVars, controlMode, recvMsgMap, socket>>

\* placeFailoverMessage takes the network lock once per group, so the
\* scheduler thread may run between two groups.
placeFailoverMessage ==
    /\ mainPc = "Publish"
    /\ \E g \in toPlace :
         /\ recvMsgMap' = [recvMsgMap EXCEPT ![g] =
               [from |-> "Failover",
                drive |-> IF g = MotorControl THEN driveOutput ELSE "Stop"]]
         /\ toPlace' = toPlace \ {g}
    /\ UNCHANGED <<mainPc, failoverActive, joystick, driveOutput, loopCounter,
                   schedVars, connVars, controlMode, socket, staleApplied>>

\* The subsystems' periodic hooks touch nothing modelled here.
PublishDone ==
    /\ mainPc = "Publish"
    /\ toPlace = {}
    /\ mainPc' = "LoopFunc"
    /\ UNCHANGED <<toPlace, failoverActive, joystick, driveOutput, loopCounter, schedVars,
                   connVars, controlMode, recvMsgMap, socket, staleApplied>>
-----------------------------------------------------------------------------
(* The scheduler thread.                                                   *)

ReceiveMessagesTask ==
    /\ schedPc = "Idle"
    /\ schedPc' = "Recv"
    /\ UNCHANGED <<mainVars, taken, motors, connVars, controlMode, recvMsgMap, socket,
                   staleApplied>>

\* receiveMessagePump: recv returned a datagram; store it under the lock.
StoreReceived ==
    /\ schedPc = "Recv"
    /\ socket # <<>>
    /\ ~Head(socket).sizeIsEAGAIN
    /\ recvMsgMap' = [recvMsgMap EXCEPT ![Head(socket).group] =
                        [from |-> "External", drive |-> Head(socket).drive]]
    /\ socket' = Tail(socket)
    /\ schedPc' = "Received"
    /\ UNCHANGED <<mainVars, taken, motors, connVars, controlMode, staleApplied>>

\* After the lock is released: the connection counter is set.
externalControlMsgReceived ==
    /\ schedPc = "Received"
    /\ mLastConnectionTime' = ConnectionTimeout
    /\ silence' = 0
    /\ schedPc' = "Recv"
    /\ UNCHANGED <<mainVars, taken, motors, controlMode, recvMsgMap, socket, staleApplied>>

\* The loop ends when nothing is left, and also on a datagram whose length is
\* EAGAIN, because the length is what the loop compares with EAGAIN.
PumpEnd ==
    /\ schedPc = "Recv"
    /\ \/ /\ socket = <<>>
          /\ UNCHANGED socket
       \/ /\ socket # <<>>
          /\ Head(socket).sizeIsEAGAIN
          /\ socket' = Tail(socket)
    /\ schedPc' = "Idle"
    /\ UNCHANGED <<mainVars, taken, motors, connVars, controlMode, recvMsgMap, staleApplied>>

KeepInMap(g) == recvMsgMap
\* getMessage hands a message out once.
TakenFromMap(g) == [recvMsgMap EXCEPT ![g] = NoMessage]

\* ApplyMotorValuesTask::run begins: getMessage empties the entry under the
\* network lock, and gives the lock up before anything is applied.
ApplyMotorValues ==
    /\ schedPc = "Idle"
    /\ taken' = recvMsgMap[MotorControl]
    /\ recvMsgMap' = TakenFromMap(MotorControl)
    /\ schedPc' = "Taken"
    /\ UNCHANGED <<mainVars, motors, connVars, controlMode, socket, staleApplied>>

\* The commands that were got, if any, are applied. The main thread may have
\* placed the next ones and reset failover since they were taken.
SetMotors ==
    /\ schedPc = "Taken"
    /\ motors' = IF taken = NoMessage THEN motors ELSE taken
    /\ staleApplied' = IF taken.from = "Failover" /\ ~failoverActive /\ staleApplied < 3
                         THEN staleApplied + 1
                         ELSE staleApplied
    /\ taken' = NoMessage
    /\ schedPc' = "Applied"
    /\ UNCHANGED <<mainVars, connVars, controlMode, recvMsgMap, socket>>

NeverZeroed == motors
\* The last block of ApplyMotorValuesTask::run: in disabled mode every master
\* motor is set to zero.
ZeroedWhenDisabled ==
    IF controlMode = "DISABLED" THEN [motors EXCEPT !.drive = "Stop"] ELSE motors

DisableMasters ==
    /\ schedPc = "Applied"
    /\ motors' = ZeroedWhenDisabled
    /\ schedPc' = "Idle"
    /\ UNCHANGED <<mainVars, taken, connVars, controlMode, recvMsgMap, socket, staleApplied>>

\* Any other Apply task takes its group out of the map.
ConsumeOther(g) ==
    /\ schedPc = "Idle"
    /\ recvMsgMap[g] # NoMessage
    /\ recvMsgMap' = TakenFromMap(g)
    /\ UNCHANGED <<mainVars, schedVars, connVars, controlMode, socket, staleApplied>>

CountedPastZero == mLastConnectionTime - 1
NeverCounted == mLastConnectionTime
CountedDown ==
    IF mLastConnectionTime > 0 THEN mLastConnectionTime - 1 ELSE mLastConnectionTime

\* ExternalControlManager::processHeartbeat, run by ProcessHeartbeatTask.
processHeartbeat ==
    /\ schedPc = "Idle"
    /\ mLastConnectionTime' = CountedDown
    /\ silence' = IF silence < ConnectionTimeout THEN silence + 1 ELSE silence
    /\ UNCHANGED <<mainVars, schedVars, controlMode, recvMsgMap, socket, staleApplied>>
-----------------------------------------------------------------------------
(* The external controller. A datagram that UDP loses is one that does not *)
(* arrive; arrivals come in any order and may repeat.                      *)
Arrive ==
    /\ Len(socket) < MaxInFlight
    /\ \E g \in Groups, eagain \in BOOLEAN :
         \E m \in Message("External", g) :
            socket' = Append(socket,
                        [group |-> g, drive |-> m.drive, sizeIsEAGAIN |-> eagain])
    /\ UNCHANGED <<mainVars, schedVars, connVars, controlMode, recvMsgMap, staleApplied>>
-----------------------------------------------------------------------------
Main ==
    \/ LoopFunc \/ ModePeriodic \/ RobotPeriodicExternal \/ RobotPeriodicFailover
    \/ placeFailoverMessage \/ PublishDone
\* Steps inside a task that has begun.
WithinTask ==
    \/ StoreReceived \/ externalControlMsgReceived \/ PumpEnd \/ SetMotors \/ DisableMasters
OtherTaskGroups == Groups \ {MotorControl}
Scheduler ==
    \/ ReceiveMessagesTask \/ ApplyMotorValues \/ processHeartbeat \/ WithinTask
    \/ \E g \in OtherTaskGroups : ConsumeOther(g)
Next == Main \/ Scheduler \/ Arrive

Spec == Init /\ [][Next]_vars

\* The main loop is called back every period, a task that has begun goes on,
\* and a task that keeps coming due is run (strong fairness: between two tasks
\* each is enabled again, and TaskScheduler runs every task that is due). The
\* external controller owes nothing.
Fairness ==
    /\ WF_vars(Main)
    /\ WF_vars(WithinTask)
    /\ SF_vars(ReceiveMessagesTask)
    /\ SF_vars(ApplyMotorValues)
    /\ SF_vars(processHeartbeat)
    /\ \A g \in OtherTaskGroups : SF_vars(ConsumeOther(g))
FairSpec == Spec /\ Fairness
-----------------------------------------------------------------------------
(* Safety.                                                                 *)

\* The failover subsystems are in the state the hand-over flag says: the
\* joystick exists exactly while failover is active (RobotFailoverInit and
\* Reset alternate, so none leaks), and a robot that is not in failover holds
\* no failover drive command, so the first one published after a takeover is
\* a stop. RobotPeriodic and TeleopPeriodic each read the connection anew.
FailoverConsistent ==
    /\ joystick <=> failoverActive
    /\ ~failoverActive => driveOutput = "Stop"

\* Between Reset and the next activation the motors receive at most two
\* failover commands: one that ApplyMotorValuesTask had got from the map and
\* not yet applied when failover was reset, and one that publishMessages had
\* placed behind its back and left in the map.
AtMostTwoStaleCommands == staleApplied <= 2

\* The external controller counts as connected until ConnectionTimeout
\* heartbeats have passed since its last datagram, and no longer.
ConnectedExactly == isExternalControl <=> silence < ConnectionTimeout

-----------------------------------------------------------------------------
(* Liveness.                                                               *)

\* When datagrams stop coming, failover takes over and stays.
SilenceLeadsToFailover == <>[](socket = <<>>) => <>[]failoverActive

\* When the external controller stays connected and does not keep the pump
\* busy for ever, control is handed back for good: failover is reset, no
\* failover message is left for an Apply task and the motors' task holds none.
ConnectionLeadsToHandBack ==
    (<>[]isExternalControl /\ []<>(schedPc = "Idle")) =>
        <>[](/\ ~failoverActive
             /\ taken.from # "Failover"
             /\ \A g \in Groups : recvMsgMap[g].from # "Failover")

\* A robot that stays disabled gets its motors stopped, whoever commands
\* them, unless the pump is kept busy for ever.
DisabledStopsMotors ==
    []<>(schedPc = "Idle") =>
        (controlMode = "DISABLED" ~> (motors.drive = "Stop" \/ controlMode # "DISABLED"))

-----------------------------------------------------------------------------
(* What the comments say.                                                  *)

\* ProcessHeartbeatTask's THREAD_RATE_MS.
HeartbeatRateMs == 20

\* The comment in externalControlMsgReceived: the connection is given up
\* after 500 ms without a message.
GivenUpAfter500ms == silence * HeartbeatRateMs > 500 => ~isExternalControl
=============================================================================

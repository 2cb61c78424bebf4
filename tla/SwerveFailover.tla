--------------------------- MODULE SwerveFailover ---------------------------
(***************************************************************************)
(* The swerve drive when failover takes over. Its set-points live in the   *)
(* messages that publishMessages places in the message map every loop; the *)
(* scheduler thread applies them to motor objects, which exist only while  *)
(* they are commanded and configured (HeartbeatLease, which MotorRegistry  *)
(* implements). Failover starts from the angles of the steering motors it  *)
(* finds, and measures them again in every loop.                           *)
(*                                                                         *)
(* A step is an interval in which a thread touches shared state once. A    *)
(* wheel stands for its two motors, which come and go together, as every   *)
(* failover message lists both. Angles are degrees in the drive code and   *)
(* sensor units, 4096 to the turn and not wrapped, in the motors.          *)
(***************************************************************************)
EXTENDS Integers, FiniteSets

CONSTANTS
    Wheels,             \* the swerve modules
    Positions,          \* sensor positions a steering motor may be in or be sent to
    Headings,           \* directions that the joystick's axes may ask of a wheel
    MaxHeartbeatTicks   \* the lease of a motor object

STEERING_GEAR_RATIO == 1
degrees_to_native_units_steering_angle(d) == (d * STEERING_GEAR_RATIO * 4096) \div 360
degrees(position) == (position * 360) \div 4096

\* Rotation2d: the angle in (-180, 180].
Wrapped(d) == ((d + 179) % 360) - 179

\* Exact: a whole number of degrees that is a whole number of sensor units,
\* as the code converts in floating point.
Exact(d) == /\ degrees_to_native_units_steering_angle(d) \in Positions
            /\ degrees(degrees_to_native_units_steering_angle(d)) = d

ASSUME SwerveAssumption ==
    /\ Positions \subseteq Int
    /\ 0 \in Positions
    /\ Headings \subseteq -180..180
    /\ 0 \in Headings
    /\ \A h \in Headings : Exact(h) /\ Exact(Wrapped(h + 180))
    /\ MaxHeartbeatTicks \in Nat \ {0}

VARIABLES
    \* the main thread
    mainPc,
    failoverActive,     \* and the joystick exists
    steering,           \* output values of the steering motors' control messages
    drive,              \* those of the drive motors: -1, 0 or 1
    mSteeringAngles,    \* the angles measured last
    headings,           \* the headings SwerveDriveKinematics remembers
    \* shared with the scheduler thread
    isExternal,         \* isExternalControl()
    motorcontrol,       \* the message map's entries of the two groups
    motorconfig,
    \* the scheduler thread and the motors
    configured,         \* wheels with a configuration in MotorConfigManager
    left,               \* the leases of the motor objects
    command,            \* what each wheel was told last
    taken,              \* the control message the task has got and not yet applied
    position,           \* where each wheel is
    \* history, read by properties only
    takeover            \* where the wheels were when failover was activated

subsystem == <<steering, drive, mSteeringAngles, headings>>
map       == <<motorcontrol, motorconfig>>
motors    == <<configured, left, command, taken>>
vars == <<mainPc, failoverActive, subsystem, isExternal, map, motors, position, takeover>>

Registry == INSTANCE HeartbeatLease WITH Ids <- Wheels, MaxTicks <- MaxHeartbeatTicks

Drive == {-1, 0, 1}
\* A control message in the map or taken from it, or a wheel's part of it: the steering, as
\* ControlHandoff follows the drive. It is current when failover has placed it
\* since it was last activated.
Control(S) == [from : {"None", "External", "Failover"}, steering : S, current : BOOLEAN]
NoMessage == [from |-> "None", steering |-> [w \in Wheels |-> 0], current |-> FALSE]
Free == [from |-> "None", steering |-> 0, current |-> FALSE]
\* The history while failover is not active or the driver has moved the stick.
NoTakeover == [positions |-> [w \in Wheels |-> 0], seen |-> {}, stick |-> "Moved"]

TypeOK ==
    /\ mainPc \in {"ModePeriodic", "RobotPeriodic", "Publish", "SubsystemPeriodic"}
    /\ failoverActive \in BOOLEAN
    /\ steering \in [Wheels -> Positions]
    /\ drive \in [Wheels -> Drive]
    /\ mSteeringAngles \in [Wheels -> {degrees(p) : p \in Positions}]
    /\ headings \in [Wheels -> Headings]
    /\ isExternal \in BOOLEAN
    /\ motorcontrol \in Control([Wheels -> Positions])
    /\ motorconfig \in BOOLEAN
    /\ configured \subseteq Wheels
    /\ DOMAIN left \subseteq Wheels /\ left \in [DOMAIN left -> 1..MaxHeartbeatTicks]
    /\ command \in [Wheels -> Control(Positions)]
    /\ taken \in Control([Wheels -> Positions])
    /\ position \in [Wheels -> Positions]
    /\ takeover \in [positions : [Wheels -> Positions], seen : SUBSET Wheels,
                     stick : {"Unread", "Centred", "Moved"}]

\* Failover is not active at first, but nothing external has been heard.
Init ==
    /\ mainPc = "ModePeriodic"
    /\ failoverActive = FALSE
    /\ steering = [w \in Wheels |-> 0]
    /\ drive = [w \in Wheels |-> 0]
    /\ mSteeringAngles = [w \in Wheels |-> 0]
    /\ headings = [w \in Wheels |-> 0]
    /\ isExternal = FALSE
    /\ motorcontrol = NoMessage
    /\ motorconfig = FALSE
    /\ configured = {}
    /\ Registry!Init
    /\ command = [w \in Wheels |-> Free]
    /\ taken = NoMessage
    /\ position \in [Wheels -> Positions]
    /\ takeover = NoTakeover
-----------------------------------------------------------------------------
(* The main thread.                                                        *)

Distance(d) == IF Wrapped(d) < 0 THEN -Wrapped(d) ELSE Wrapped(d)
\* SwerveModuleState::Optimize: a heading more than 90 degrees away is
\* reached backwards. At 90 degrees rounding decides.
Optimize(heading, current, reversed) ==
    IF reversed THEN Distance(heading - current) >= 90 ELSE Distance(heading - current) <= 90
Unwrapped(heading, reversed) == IF reversed THEN heading + 180 ELSE heading
Angle(heading, reversed) == IF reversed THEN Wrapped(heading + 180) ELSE heading
Speed(moved, reversed) == IF ~moved THEN 0 ELSE IF reversed THEN -1 ELSE 1

\* run with a connected joystick. Centred axes ask for no speed and for the
\* headings that the kinematics remember from the last time they were moved.
DriveByJoystick ==
    \E moved \in BOOLEAN, wanted \in [Wheels -> Headings], reversed \in SUBSET Wheels :
       /\ ~moved => wanted = headings
       /\ \A w \in Wheels : Optimize(wanted[w], mSteeringAngles[w], w \in reversed)
       /\ headings' = wanted
       /\ steering' = [w \in Wheels |->
             degrees_to_native_units_steering_angle(Angle(wanted[w], w \in reversed))]
       /\ drive' = [w \in Wheels |-> Speed(moved, w \in reversed)]
       /\ takeover' = IF moved \/ takeover = NoTakeover THEN NoTakeover
                                                        ELSE [takeover EXCEPT !.stick = "Centred"]

\* run without a joystick, or with one that is not connected.
StopDriving ==
    /\ drive' = [w \in Wheels |-> 0]
    /\ UNCHANGED <<steering, headings, takeover>>

\* TeleopPeriodic runs the subsystem when nothing external is connected; the
\* other modes' hooks do nothing.
ModePeriodic ==
    /\ mainPc = "ModePeriodic"
    /\ mainPc' = "RobotPeriodic"
    /\ \/ ~isExternal /\ failoverActive /\ DriveByJoystick
       \/ ~isExternal /\ StopDriving
       \/ UNCHANGED <<steering, drive, headings, takeover>>
    /\ UNCHANGED <<failoverActive, mSteeringAngles, isExternal, map, motors, position>>

\* What a thread reads of a wheel: onMotor does nothing without an object.
OnMotor(w, measured, otherwise) == IF w \in DOMAIN left THEN measured ELSE otherwise

KeepDrive == drive
uninit == [w \in Wheels |-> 0]

\* RobotPeriodic while something external is connected.
RobotPeriodicExternal ==
    /\ mainPc = "RobotPeriodic"
    /\ isExternal
    /\ mainPc' = "ModePeriodic"
    /\ failoverActive' = FALSE
    /\ IF failoverActive
         THEN /\ drive' = uninit
              /\ motorcontrol' = [motorcontrol EXCEPT !.current = FALSE]
              /\ taken' = [taken EXCEPT !.current = FALSE]
              /\ command' = [w \in Wheels |-> [command[w] EXCEPT !.current = FALSE]]
              /\ takeover' = NoTakeover
         ELSE UNCHANGED <<drive, motorcontrol, taken, command, takeover>>
    /\ UNCHANGED <<steering, mSteeringAngles, headings, isExternal, motorconfig, configured,
                   left, position>>

SetPointsKept(w) == steering[w]
\* The set-points that init starts from, zero for a motor without an object.
current_angles(w) == OnMotor(w, position[w], 0)

init ==
    /\ steering' = [w \in Wheels |-> current_angles(w)]
    /\ mSteeringAngles' = [w \in Wheels |-> degrees(current_angles(w))]
    /\ takeover' = [positions |-> position, seen |-> DOMAIN left, stick |-> "Unread"]

\* RobotPeriodic without external control.
RobotPeriodicFailover ==
    /\ mainPc = "RobotPeriodic"
    /\ ~isExternal
    /\ mainPc' = "Publish"
    /\ failoverActive' = TRUE
    /\ IF failoverActive
         THEN UNCHANGED <<steering, mSteeringAngles, takeover>>
         ELSE init
    /\ UNCHANGED <<drive, headings, isExternal, map, motors, position>>

\* publishMessages. The configuration is placed at every 25th call.
publishMessages(withConfig) ==
    /\ mainPc = "Publish"
    /\ mainPc' = "SubsystemPeriodic"
    /\ motorcontrol' = [from |-> "Failover", steering |-> steering, current |-> TRUE]
    /\ motorconfig' = (motorconfig \/ withConfig)
    /\ UNCHANGED <<failoverActive, subsystem, isExternal, motors, position, takeover>>

NotMeasured(w) == mSteeringAngles[w]
Measured(w) == OnMotor(w, degrees(position[w]), mSteeringAngles[w])
SubsystemPeriodic ==
    /\ mainPc = "SubsystemPeriodic"
    /\ mainPc' = "ModePeriodic"
    /\ mSteeringAngles' = [w \in Wheels |-> Measured(w)]
    /\ UNCHANGED <<failoverActive, steering, drive, headings, isExternal, map, motors,
                   position, takeover>>
-----------------------------------------------------------------------------
(* The scheduler thread.                                                   *)

\* Between two tasks: the receive pump, which hears the external controller,
\* and the heartbeat are tasks of this thread too.
Idle == taken.from = "None"

\* ApplyMotorConfigTask takes the configuration out of the map and stores it,
\* where only this thread reads it.
ApplyMotorConfig ==
    /\ Idle
    /\ motorconfig
    /\ motorconfig' = FALSE
    /\ configured' = Wheels
    /\ UNCHANGED <<mainPc, failoverActive, subsystem, isExternal, motorcontrol, left, command,
                   taken, position, takeover>>

\* ApplyMotorValuesTask begins: getMessage takes the commands out of the map.
ApplyMotorValues ==
    /\ Idle
    /\ motorcontrol.from # "None"
    /\ taken' = motorcontrol
    /\ motorcontrol' = NoMessage
    /\ UNCHANGED <<mainPc, failoverActive, subsystem, isExternal, motorconfig, configured, left,
                   command, position, takeover>>

\* It goes on without the network lock: each configured wheel is given its
\* command; in disabled mode all are then set to zero output.
SetMotors ==
    /\ ~Idle
    /\ taken' = NoMessage
    /\ Registry!Renew(configured)
    /\ \E disabled \in BOOLEAN :
         command' = [w \in Wheels |->
            IF disabled THEN Free
            ELSE IF w \in configured
              THEN [taken EXCEPT !.steering = @[w]]
            ELSE command[w]]
    /\ UNCHANGED <<mainPc, failoverActive, subsystem, isExternal, map, configured, position,
                   takeover>>

\* A run of ApplyMotorValuesTask without a message still zeroes, in disabled mode.
DisableMasters ==
    /\ Idle
    /\ command' = [w \in Wheels |-> Free]
    /\ UNCHANGED <<mainPc, failoverActive, subsystem, isExternal, map, configured, left, taken,
                   position, takeover>>

\* The heartbeat deletes the motors whose lease it ends, with their configurations.
processHeartbeat ==
    /\ Idle
    /\ Registry!Heartbeat
    /\ configured' = configured \ (DOMAIN left \ DOMAIN left')
    /\ command' = [w \in Wheels |-> IF w \in DOMAIN left' THEN command[w] ELSE Free]
    /\ UNCHANGED <<mainPc, failoverActive, subsystem, isExternal, map, taken, position, takeover>>
-----------------------------------------------------------------------------
(* The rest of the world.                                                  *)

\* The external controller is heard: commands or a configuration.
ExternalMessage ==
    /\ Idle
    /\ isExternal' = TRUE
    /\ \/ motorcontrol' = [NoMessage EXCEPT !.from = "External"] /\ UNCHANGED motorconfig
       \/ motorconfig' = TRUE /\ UNCHANGED motorcontrol
    /\ UNCHANGED <<mainPc, failoverActive, subsystem, motors, position, takeover>>

\* The connection counter has run out.
ConnectionLost ==
    /\ Idle
    /\ isExternal
    /\ isExternal' = FALSE
    /\ UNCHANGED <<mainPc, failoverActive, subsystem, map, motors, position, takeover>>

\* A wheel turns: to its set-point under failover, anywhere else.
Turn(w) ==
    /\ \E p \in Positions :
         /\ command[w].from = "Failover" => p = command[w].steering
         /\ position' = [position EXCEPT ![w] = p]
    /\ UNCHANGED <<mainPc, failoverActive, subsystem, isExternal, map, motors, takeover>>
-----------------------------------------------------------------------------
Main == ModePeriodic \/ RobotPeriodicExternal \/ RobotPeriodicFailover \/ SubsystemPeriodic
          \/ \E withConfig \in BOOLEAN : publishMessages(withConfig)
Next ==
    \/ Main
    \/ ApplyMotorConfig \/ ApplyMotorValues \/ SetMotors \/ DisableMasters \/ processHeartbeat
    \/ ExternalMessage \/ ConnectionLost
    \/ \E w \in Wheels : Turn(w)

Spec == Init /\ [][Next]_vars

\* The main loop is called back every period and places the configuration at
\* every 25th call; the scheduler thread runs its tasks again and again, and goes on
\* with one it has begun.
FairSpec == /\ Spec
            /\ WF_vars(Main) /\ SF_vars(publishMessages(TRUE))
            /\ SF_vars(ApplyMotorConfig) /\ SF_vars(ApplyMotorValues)
            /\ WF_vars(SetMotors)
-----------------------------------------------------------------------------
\* Until the joystick is read for the first time, the messages that failover
\* places tell a wheel that had a motor object when it took over to stay where
\* it was, whatever the set-points were left at by the time before.
HeldAtTakeover ==
    \A w \in takeover.seen :
       (takeover.stick = "Unread" /\ command[w].current) =>
          command[w].steering = takeover.positions[w]

\* A set-point that drives, drives along the heading asked: forwards when the
\* steering set-point is that heading, backwards when it is the opposite one,
\* also after failover was reset, took over and started from other angles.
PushesAsAsked ==
    \A w \in Wheels : drive[w] # 0 =>
       Wrapped(degrees(steering[w]) - headings[w] + (IF drive[w] = 1 THEN 0 ELSE 180)) = 0

\* The comment "prevent the wheels from turning back to 0": as long as the
\* driver has not moved the stick, no wheel is sent away from where it was.
NotTurnedBack ==
    \A w \in Wheels :
       (takeover.stick # "Moved" /\ command[w].current) =>
          command[w].steering = takeover.positions[w]

\* Step: a heartbeat that deletes a motor.
Deletes == processHeartbeat /\ DOMAIN left' # DOMAIN left

\* Without any external controller failover gets its motors by itself: its
\* configuration makes its commands accepted, they create the objects, and the
\* angles it drives by are measured again and again.
FailoverGetsItsMotors ==
    \A w \in Wheels :
       (<>[]failoverActive /\ <>[][~Deletes]_vars) =>
          /\ <>[](w \in DOMAIN left)
          /\ []<>(mSteeringAngles[w] = degrees(position[w]))
=============================================================================

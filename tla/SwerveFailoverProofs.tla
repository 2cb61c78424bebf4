------------------------ MODULE SwerveFailoverProofs ------------------------
(***************************************************************************)
(* SwerveFailover's properties for any wheels, positions, headings and     *)
(* lease. What failover holds and which way it pushes rest on what its     *)
(* deactivation leaves behind: no drive set-point, and no message that a   *)
(* later activation would take for its own. That it gets its motors rests  *)
(* on its own configuration messages alone.                                *)
(***************************************************************************)
EXTENDS SwerveFailover, TLAPS

\* Deactivation leaves no drive set-point.
StoppedWhenReset == failoverActive \/ \A w \in Wheels : drive[w] = 0

\* Only what was placed since the activation is current.
CurrentWhileActive ==
    failoverActive \/ /\ ~motorcontrol.current
                      /\ ~taken.current
                      /\ \A w \in Wheels : ~command[w].current

\* Until the joystick is read, set-points and current messages hold the wheels
\* that were seen at the activation.
Holding ==
    takeover.stick = "Unread" =>
       \A w \in takeover.seen :
          /\ steering[w] = takeover.positions[w]
          /\ motorcontrol.current => motorcontrol.steering[w] = takeover.positions[w]
          /\ taken.current => taken.steering[w] = takeover.positions[w]
          /\ command[w].current => command[w].steering = takeover.positions[w]

\* Messages are placed while failover is active.
ActiveToPublish == mainPc = "Publish" => failoverActive

IInv == TypeOK /\ PushesAsAsked /\ StoppedWhenReset /\ CurrentWhileActive /\ Holding
           /\ ActiveToPublish
-----------------------------------------------------------------------------
\* The arithmetic of turning round: an angle and its opposite.
LEMMA Opposite == \A h \in -180..180 : Wrapped(Wrapped(h + 180) - h + 180) = 0
BY DEF Wrapped

LEMMA Straight == Wrapped(0) = 0
BY DEF Wrapped

\* A steering set-point and the drive that goes with it push along the heading.
LEMMA PushAlongHeading ==
    ASSUME NEW h \in Headings, NEW reversed \in BOOLEAN
    PROVE  LET s == degrees_to_native_units_steering_angle(Angle(h, reversed)) IN
             /\ s \in Positions
             /\ Wrapped(degrees(s) - h + (IF reversed THEN 180 ELSE 0)) = 0
<1>1. h \in -180..180 /\ Exact(h) /\ Exact(Wrapped(h + 180))
  BY SwerveAssumption
<1>2. CASE reversed
  <2>1. Angle(h, reversed) = Wrapped(h + 180)
    BY <1>2 DEF Angle
  <2>2. QED
    BY <1>1, <1>2, <2>1, Opposite DEF Exact
<1>3. CASE ~reversed
  <2>1. Angle(h, reversed) = h /\ h - h + 0 = 0
    BY <1>1, <1>3 DEF Angle
  <2>2. QED
    BY <1>1, <1>3, <2>1, Straight DEF Exact
<1>4. QED
  BY <1>2, <1>3

LEMMA AngleOfZero == degrees(0) = 0
BY DEF degrees

\* At first failover is inactive and nothing drives.
LEMMA SwerveInit == Init => IInv
<1> SUFFICES ASSUME Init PROVE IInv
  OBVIOUS
<1>1. left \in [DOMAIN left -> 1..MaxHeartbeatTicks] /\ DOMAIN left \subseteq Wheels
  BY DEF Init, Registry!Init
<1>2. mSteeringAngles \in [Wheels -> {degrees(p) : p \in Positions}]
  BY AngleOfZero, SwerveAssumption DEF Init
<1>3. motorcontrol \in Control([Wheels -> Positions]) /\ taken \in Control([Wheels -> Positions])
  BY SwerveAssumption DEF Init, NoMessage, Control
<1>4. command \in [Wheels -> Control(Positions)]
  BY SwerveAssumption DEF Init, Free, Control
<1>5. takeover \in [positions : [Wheels -> Positions], seen : SUBSET Wheels,
                    stick : {"Unread", "Centred", "Moved"}]
  BY SwerveAssumption DEF Init, NoTakeover
<1>6. TypeOK
  BY <1>1, <1>2, <1>3, <1>4, <1>5, SwerveAssumption DEF Init, TypeOK, Drive
<1>7. PushesAsAsked /\ StoppedWhenReset /\ CurrentWhileActive /\ ActiveToPublish
  BY DEF Init, PushesAsAsked, StoppedWhenReset, CurrentWhileActive, ActiveToPublish,
     NoMessage, Free
<1>8. Holding
  BY DEF Init, Holding, NoTakeover
<1>9. QED
  BY <1>6, <1>7, <1>8 DEF IInv
-----------------------------------------------------------------------------
(* The steps that move set-points.                                         *)

\* Reading the joystick replaces set-points and headings together.
LEMMA ModeKeeps == IInv /\ ModePeriodic => IInv'
<1> SUFFICES ASSUME IInv, ModePeriodic PROVE IInv'
  OBVIOUS
<1>1. UNCHANGED <<failoverActive, mSteeringAngles, isExternal, map, motors, position>>
  BY DEF ModePeriodic
<1>2. mainPc' = "RobotPeriodic"
  BY DEF ModePeriodic
<1>3. TypeOK
  BY DEF IInv
<1>4. CASE failoverActive /\ DriveByJoystick
  <2>1. PICK moved \in BOOLEAN, wanted \in [Wheels -> Headings], reversed \in SUBSET Wheels :
          /\ headings' = wanted
          /\ steering' = [w \in Wheels |->
                degrees_to_native_units_steering_angle(Angle(wanted[w], w \in reversed))]
          /\ drive' = [w \in Wheels |-> Speed(moved, w \in reversed)]
          /\ takeover' = IF moved \/ takeover = NoTakeover THEN NoTakeover
                                                   ELSE [takeover EXCEPT !.stick = "Centred"]
    BY <1>4 DEF DriveByJoystick
  <2>2. \A w \in Wheels :
          /\ steering'[w] \in Positions
          /\ Wrapped(degrees(steering'[w]) - wanted[w] + (IF w \in reversed THEN 180 ELSE 0)) = 0
    <3> SUFFICES ASSUME NEW w \in Wheels
                 PROVE  /\ steering'[w] \in Positions
                        /\ Wrapped(degrees(steering'[w]) - wanted[w]
                                     + (IF w \in reversed THEN 180 ELSE 0)) = 0
      OBVIOUS
    <3>1. wanted[w] \in Headings /\ (w \in reversed) \in BOOLEAN
      OBVIOUS
    <3>2. steering'[w] = degrees_to_native_units_steering_angle(Angle(wanted[w], w \in reversed))
      BY <2>1
    <3>3. QED
      BY <3>1, <3>2, PushAlongHeading
  <2>3. steering' \in [Wheels -> Positions]
    BY <2>1, <2>2
  <2>4. drive' \in [Wheels -> Drive]
    BY <2>1 DEF Speed, Drive
  <2>5. takeover' \in [positions : [Wheels -> Positions], seen : SUBSET Wheels,
                       stick : {"Unread", "Centred", "Moved"}]
    BY <1>3, <2>1, SwerveAssumption DEF TypeOK, NoTakeover
  <2>6. TypeOK'
    BY <1>1, <1>2, <1>3, <2>1, <2>3, <2>4, <2>5 DEF TypeOK, map, motors
  <2>7. PushesAsAsked'
    <3> SUFFICES ASSUME NEW w \in Wheels, drive'[w] # 0
                 PROVE  Wrapped(degrees(steering'[w]) - headings'[w]
                                  + (IF drive'[w] = 1 THEN 0 ELSE 180)) = 0
      BY DEF PushesAsAsked
    <3>1. drive'[w] = IF w \in reversed THEN -1 ELSE 1
      BY <2>1 DEF Speed
    <3>2. QED
      BY <2>1, <2>2, <3>1
  <2>8. takeover'.stick # "Unread"
    BY <1>3, <2>1 DEF TypeOK, NoTakeover
  <2>9. QED
    BY <1>1, <1>2, <1>4, <2>6, <2>7, <2>8
       DEF IInv, StoppedWhenReset, CurrentWhileActive, Holding, ActiveToPublish, map, motors
<1>5. CASE StopDriving \/ UNCHANGED <<steering, drive, headings, takeover>>
  <2>1. UNCHANGED <<steering, headings, takeover>>
    BY <1>5 DEF StopDriving
  <2>2. drive' \in [Wheels -> Drive] /\ \A w \in Wheels : drive'[w] \in {0, drive[w]}
    BY <1>3, <1>5 DEF StopDriving, TypeOK, Drive
  <2>3. TypeOK'
    BY <1>1, <1>2, <1>3, <2>1, <2>2 DEF TypeOK, map, motors
  <2>4. PushesAsAsked' /\ StoppedWhenReset'
    BY <1>1, <2>1, <2>2 DEF IInv, PushesAsAsked, StoppedWhenReset
  <2>5. QED
    BY <1>1, <1>2, <2>1, <2>3, <2>4
       DEF IInv, CurrentWhileActive, Holding, ActiveToPublish, map, motors
<1>6. QED
  BY <1>4, <1>5 DEF ModePeriodic

\* Deactivating failover stops the drive and disowns what it placed.
LEMMA ResetKeeps == IInv /\ RobotPeriodicExternal => IInv'
<1> SUFFICES ASSUME IInv, RobotPeriodicExternal PROVE IInv'
  OBVIOUS
<1>1. UNCHANGED <<steering, mSteeringAngles, headings, isExternal, motorconfig, configured,
                  left, position>> /\ mainPc' = "ModePeriodic" /\ failoverActive' = FALSE
  BY DEF RobotPeriodicExternal
<1>2. TypeOK
  BY DEF IInv
<1>3. CASE failoverActive
  <2>1. /\ drive' = [w \in Wheels |-> 0]
        /\ motorcontrol' = [motorcontrol EXCEPT !.current = FALSE]
        /\ taken' = [taken EXCEPT !.current = FALSE]
        /\ command' = [w \in Wheels |-> [command[w] EXCEPT !.current = FALSE]]
        /\ takeover' = NoTakeover
    BY <1>3 DEF RobotPeriodicExternal, uninit
  <2>2. /\ motorcontrol' \in Control([Wheels -> Positions]) /\ ~motorcontrol'.current
        /\ taken' \in Control([Wheels -> Positions]) /\ ~taken'.current
    BY <1>2, <2>1 DEF TypeOK, Control
  <2>3. command' \in [Wheels -> Control(Positions)] /\ \A w \in Wheels : ~command'[w].current
    BY <1>2, <2>1 DEF TypeOK, Control
  <2>4. takeover' \in [positions : [Wheels -> Positions], seen : SUBSET Wheels,
                       stick : {"Unread", "Centred", "Moved"}] /\ takeover'.stick = "Moved"
    BY <2>1, SwerveAssumption DEF NoTakeover
  <2>5. drive' \in [Wheels -> Drive] /\ \A w \in Wheels : drive'[w] = 0
    BY <2>1 DEF Drive
  <2>6. TypeOK'
    BY <1>1, <1>2, <2>2, <2>3, <2>4, <2>5 DEF TypeOK
  <2>7. QED
    BY <1>1, <2>2, <2>3, <2>4, <2>5, <2>6
       DEF IInv, PushesAsAsked, StoppedWhenReset, CurrentWhileActive, Holding, ActiveToPublish
<1>4. CASE ~failoverActive
  <2>1. UNCHANGED <<drive, motorcontrol, taken, command, takeover>>
    BY <1>4 DEF RobotPeriodicExternal
  <2>2. TypeOK'
    BY <1>1, <1>2, <2>1 DEF TypeOK
  <2>3. QED
    BY <1>1, <1>4, <2>1, <2>2
       DEF IInv, PushesAsAsked, StoppedWhenReset, CurrentWhileActive, Holding, ActiveToPublish
<1>5. QED
  BY <1>3, <1>4

\* Activating failover starts from the angles of the motors it sees; nothing
\* drives then, and nothing current is on its way.
LEMMA TakeoverKeeps == IInv /\ RobotPeriodicFailover => IInv'
<1> SUFFICES ASSUME IInv, RobotPeriodicFailover PROVE IInv'
  OBVIOUS
<1>1. UNCHANGED <<drive, headings, isExternal, map, motors, position>>
      /\ mainPc' = "Publish" /\ failoverActive' = TRUE
  BY DEF RobotPeriodicFailover
<1>2. TypeOK
  BY DEF IInv
<1>3. CASE failoverActive
  <2>1. UNCHANGED <<steering, mSteeringAngles, takeover>>
    BY <1>3 DEF RobotPeriodicFailover
  <2>2. TypeOK'
    BY <1>1, <1>2, <2>1 DEF TypeOK, map, motors
  <2>3. QED
    BY <1>1, <2>1, <2>2
       DEF IInv, PushesAsAsked, StoppedWhenReset, CurrentWhileActive, Holding, ActiveToPublish,
           map, motors
<1>4. CASE ~failoverActive
  <2>1. /\ steering' = [w \in Wheels |-> current_angles(w)]
        /\ mSteeringAngles' = [w \in Wheels |-> degrees(current_angles(w))]
        /\ takeover' = [positions |-> position, seen |-> DOMAIN left, stick |-> "Unread"]
    BY <1>4 DEF RobotPeriodicFailover, init
  <2>2. \A w \in Wheels : current_angles(w) \in Positions
    BY <1>2, SwerveAssumption DEF current_angles, OnMotor, TypeOK
  <2>3. \A w \in DOMAIN left : w \in Wheels /\ steering'[w] = position[w]
    BY <1>2, <2>1 DEF current_angles, OnMotor, TypeOK
  <2>4. steering' \in [Wheels -> Positions]
        /\ mSteeringAngles' \in [Wheels -> {degrees(p) : p \in Positions}]
    BY <2>1, <2>2
  <2>5. takeover' \in [positions : [Wheels -> Positions], seen : SUBSET Wheels,
                       stick : {"Unread", "Centred", "Moved"}]
    BY <1>2, <2>1 DEF TypeOK
  <2>6. TypeOK'
    BY <1>1, <1>2, <2>4, <2>5 DEF TypeOK, map, motors
  <2>7. \A w \in Wheels : drive'[w] = 0 /\ ~command'[w].current
    BY <1>1, <1>4 DEF IInv, StoppedWhenReset, CurrentWhileActive, motors
  <2>8. ~motorcontrol'.current /\ ~taken'.current
    BY <1>1, <1>4 DEF IInv, CurrentWhileActive, map, motors
  <2>9. Holding'
    <3>1. takeover'.seen = DOMAIN left /\ takeover'.positions = position
      BY <2>1
    <3>2. QED
      BY <2>3, <2>7, <2>8, <3>1 DEF Holding
  <2>10. QED
    BY <1>1, <2>6, <2>7, <2>8, <2>9
       DEF IInv, PushesAsAsked, StoppedWhenReset, CurrentWhileActive, ActiveToPublish
<1>5. QED
  BY <1>3, <1>4
-----------------------------------------------------------------------------
(* The steps that hand the set-points on.                                  *)

\* The message that is placed holds what the set-points hold.
LEMMA PublishKeeps ==
    ASSUME IInv, NEW withConfig \in BOOLEAN, publishMessages(withConfig)
    PROVE  IInv'
<1>1. UNCHANGED <<failoverActive, subsystem, isExternal, motors, position, takeover>>
      /\ mainPc' = "SubsystemPeriodic" /\ failoverActive
  BY DEF publishMessages, IInv, ActiveToPublish
<1>2. motorcontrol' = [from |-> "Failover", steering |-> steering, current |-> TRUE]
  BY DEF publishMessages
<1>3. motorcontrol' \in Control([Wheels -> Positions]) /\ motorconfig' \in BOOLEAN
  BY <1>2 DEF publishMessages, IInv, TypeOK, Control
<1>4. TypeOK'
  BY <1>1, <1>3 DEF IInv, TypeOK, subsystem, motors
<1>5. QED
  BY <1>1, <1>2, <1>4
     DEF IInv, PushesAsAsked, StoppedWhenReset, CurrentWhileActive, Holding, ActiveToPublish,
         subsystem, motors

\* What is taken out of the map is what was in it.
LEMMA TakeKeeps == IInv /\ ApplyMotorValues => IInv'
<1> SUFFICES ASSUME IInv, ApplyMotorValues PROVE IInv'
  OBVIOUS
<1>1. UNCHANGED <<mainPc, failoverActive, subsystem, isExternal, motorconfig, configured, left,
                  command, position, takeover>>
      /\ taken' = motorcontrol /\ motorcontrol' = NoMessage
  BY DEF ApplyMotorValues
<1>2. motorcontrol' \in Control([Wheels -> Positions]) /\ ~motorcontrol'.current
  BY <1>1, SwerveAssumption DEF NoMessage, Control
<1>3. TypeOK'
  BY <1>1, <1>2 DEF IInv, TypeOK, subsystem
<1>4. QED
  BY <1>1, <1>2, <1>3 DEF IInv, PushesAsAsked, StoppedWhenReset, CurrentWhileActive, Holding,
     ActiveToPublish, subsystem

\* A command that is applied holds what its message holds.
LEMMA SetKeeps == IInv /\ SetMotors => IInv'
<1> SUFFICES ASSUME IInv, SetMotors PROVE IInv'
  OBVIOUS
<1>1. UNCHANGED <<mainPc, failoverActive, subsystem, isExternal, map, configured, position,
                  takeover>> /\ taken' = NoMessage
  BY DEF SetMotors
<1>2. TypeOK
  BY DEF IInv
<1>3. PICK disabled \in BOOLEAN :
        command' = [w \in Wheels |->
            IF disabled THEN Free
            ELSE IF w \in configured
              THEN [taken EXCEPT !.steering = @[w]]
            ELSE command[w]]
  BY DEF SetMotors
<1>4. \A w \in Wheels : [taken EXCEPT !.steering = @[w]] =
         [from |-> taken.from, steering |-> taken.steering[w],
          current |-> taken.current]
  BY <1>2 DEF TypeOK, Control
<1>5. \A w \in Wheels : \/ command'[w] = Free
                        \/ command'[w] = [from |-> taken.from,
                             steering |-> taken.steering[w],
                             current |-> taken.current]
                        \/ command'[w] = command[w]
  BY <1>3, <1>4
<1>6. Free \in Control(Positions) /\ ~Free.current
  BY SwerveAssumption DEF Free, Control
<1>7. \A w \in Wheels : [from |-> taken.from, steering |-> taken.steering[w],
                         current |-> taken.current] \in Control(Positions)
  BY <1>2 DEF TypeOK, Control
<1>8. command' \in [Wheels -> Control(Positions)]
  <2>1. \A w \in Wheels : command'[w] \in Control(Positions)
    BY <1>2, <1>5, <1>6, <1>7 DEF TypeOK
  <2>2. QED
    BY <1>3, <2>1
<1>9. taken' \in Control([Wheels -> Positions]) /\ ~taken'.current
  BY <1>1, SwerveAssumption DEF NoMessage, Control
<1>10. left' \in [DOMAIN left' -> 1..MaxHeartbeatTicks] /\ DOMAIN left' \subseteq Wheels
  BY <1>2, SwerveAssumption DEF SetMotors, Registry!Renew, TypeOK
<1>11. TypeOK'
  BY <1>1, <1>2, <1>8, <1>9, <1>10 DEF TypeOK, subsystem, map
<1>12. \A w \in Wheels : command'[w].current =>
          \/ taken.current /\ command'[w].steering = taken.steering[w]
          \/ command'[w] = command[w]
  <2> SUFFICES ASSUME NEW w \in Wheels, command'[w].current, command'[w] # command[w]
               PROVE  taken.current /\ command'[w].steering = taken.steering[w]
    OBVIOUS
  <2>1. command'[w] = [from |-> taken.from, steering |-> taken.steering[w],
                       current |-> taken.current]
    BY <1>5, <1>6
  <2>2. QED
    BY <2>1
<1>13. CurrentWhileActive'
  <2>1. CASE failoverActive
    BY <1>1, <2>1 DEF CurrentWhileActive
  <2>2. CASE ~failoverActive
    BY <1>1, <1>9, <1>12, <2>2 DEF IInv, CurrentWhileActive, map
  <2>3. QED
    BY <2>1, <2>2
<1>14. Holding'
  <2> SUFFICES ASSUME takeover.stick = "Unread", NEW w \in takeover.seen, command'[w].current
               PROVE  command'[w].steering = takeover.positions[w]
    BY <1>1, <1>9 DEF IInv, Holding, subsystem, map
  <2>1. w \in Wheels
    BY <1>2 DEF TypeOK
  <2>2. QED
    BY <1>12, <2>1 DEF IInv, Holding
<1>15. QED
  BY <1>1, <1>11, <1>13, <1>14
     DEF IInv, PushesAsAsked, StoppedWhenReset, ActiveToPublish, subsystem

\* A heartbeat leaves fewer wheels commanded.
LEMMA HeartbeatKeeps == IInv /\ processHeartbeat => IInv'
<1> SUFFICES ASSUME IInv, processHeartbeat PROVE IInv'
  OBVIOUS
<1>1. UNCHANGED <<mainPc, failoverActive, subsystem, isExternal, map, taken, position, takeover>>
      /\ configured' \subseteq configured
  BY DEF processHeartbeat
<1>2. TypeOK
  BY DEF IInv
<1>3. left' \in [DOMAIN left' -> 1..MaxHeartbeatTicks] /\ DOMAIN left' \subseteq Wheels
  <2>1. \A w \in DOMAIN left : left[w] > 1 => left[w] - 1 \in 1..MaxHeartbeatTicks
    BY <1>2, SwerveAssumption DEF TypeOK
  <2>2. QED
    BY <1>2, <2>1 DEF processHeartbeat, Registry!Heartbeat, TypeOK
<1>4. command' = [w \in Wheels |-> IF w \in DOMAIN left' THEN command[w] ELSE Free]
  BY DEF processHeartbeat
<1>5. Free \in Control(Positions) /\ ~Free.current
  BY SwerveAssumption DEF Free, Control
<1>6. command' \in [Wheels -> Control(Positions)]
      /\ \A w \in Wheels : command'[w] \in {command[w], Free}
  BY <1>2, <1>4, <1>5 DEF TypeOK
<1>7. TypeOK'
  BY <1>1, <1>2, <1>3, <1>6 DEF TypeOK, subsystem, map
<1>8. CurrentWhileActive'
  BY <1>1, <1>5, <1>6 DEF IInv, CurrentWhileActive, map
<1>9. Holding'
  <2> SUFFICES ASSUME takeover.stick = "Unread", NEW w \in takeover.seen, command'[w].current
               PROVE  command'[w].steering = takeover.positions[w]
    BY <1>1 DEF IInv, Holding, subsystem, map
  <2>1. w \in Wheels
    BY <1>2 DEF TypeOK
  <2>2. QED
    BY <1>5, <1>6, <2>1 DEF IInv, Holding
<1>10. QED
  BY <1>1, <1>7, <1>8, <1>9
     DEF IInv, PushesAsAsked, StoppedWhenReset, ActiveToPublish, subsystem
-----------------------------------------------------------------------------
\* Every step keeps the invariant.
LEMMA SwerveInductive == IInv /\ [Next]_vars => IInv'
<1> SUFFICES ASSUME IInv, [Next]_vars PROVE IInv'
  OBVIOUS
<1>1. CASE Main
  <2>1. CASE SubsystemPeriodic
    <3>1. UNCHANGED <<failoverActive, steering, drive, headings, isExternal, map, motors,
                      position, takeover>> /\ mainPc' = "ModePeriodic"
      BY <2>1 DEF SubsystemPeriodic
    <3>2. mSteeringAngles' \in [Wheels -> {degrees(p) : p \in Positions}]
      <4>1. \A w \in Wheels : Measured(w) \in {degrees(p) : p \in Positions}
        BY DEF Measured, OnMotor, IInv, TypeOK
      <4>2. QED
        BY <2>1, <4>1 DEF SubsystemPeriodic
    <3>3. TypeOK'
      BY <3>1, <3>2 DEF IInv, TypeOK, map, motors
    <3>4. QED
      BY <3>1, <3>3 DEF IInv, PushesAsAsked, StoppedWhenReset, CurrentWhileActive, Holding,
         ActiveToPublish, map, motors
  <2>2. QED
    BY <1>1, <2>1, ModeKeeps, ResetKeeps, TakeoverKeeps, PublishKeeps DEF Main
<1>2. CASE ApplyMotorConfig
  <2>1. TypeOK'
    BY <1>2 DEF ApplyMotorConfig, IInv, TypeOK, subsystem
  <2>2. QED
    BY <1>2, <2>1 DEF ApplyMotorConfig, IInv, PushesAsAsked, StoppedWhenReset,
       CurrentWhileActive, Holding, ActiveToPublish, subsystem
<1>3. CASE ApplyMotorValues
  BY <1>3, TakeKeeps
<1>11. CASE SetMotors
  BY <1>11, SetKeeps
<1>4. CASE processHeartbeat
  BY <1>4, HeartbeatKeeps
<1>5. CASE ExternalMessage
  <2>1. UNCHANGED <<mainPc, failoverActive, subsystem, motors, position, takeover>>
        /\ isExternal' = TRUE /\ motorconfig' \in BOOLEAN
    BY <1>5 DEF ExternalMessage, IInv, TypeOK
  <2>2. motorcontrol' = motorcontrol \/ motorcontrol' = [NoMessage EXCEPT !.from = "External"]
    BY <1>5 DEF ExternalMessage
  <2>3. [NoMessage EXCEPT !.from = "External"] \in Control([Wheels -> Positions])
        /\ ~[NoMessage EXCEPT !.from = "External"].current
    BY SwerveAssumption DEF NoMessage, Control
  <2>4. TypeOK'
    BY <2>1, <2>2, <2>3 DEF IInv, TypeOK, subsystem, motors
  <2>5. CurrentWhileActive' /\ Holding'
    BY <2>1, <2>2, <2>3 DEF IInv, CurrentWhileActive, Holding, subsystem, motors
  <2>6. QED
    BY <2>1, <2>4, <2>5 DEF IInv, PushesAsAsked, StoppedWhenReset, ActiveToPublish, subsystem
<1>6. CASE ConnectionLost
  <2>1. TypeOK'
    BY <1>6 DEF ConnectionLost, IInv, TypeOK, subsystem, map, motors
  <2>2. QED
    BY <1>6, <2>1 DEF ConnectionLost, IInv, PushesAsAsked, StoppedWhenReset,
       CurrentWhileActive, Holding, ActiveToPublish, subsystem, map, motors
<1>7. ASSUME NEW w \in Wheels, Turn(w) PROVE IInv'
  <2>1. UNCHANGED <<mainPc, failoverActive, subsystem, isExternal, map, motors, takeover>>
        /\ position' \in [Wheels -> Positions]
    BY <1>7 DEF Turn, IInv, TypeOK
  <2>2. TypeOK'
    BY <2>1 DEF IInv, TypeOK, subsystem, map, motors
  <2>3. QED
    BY <2>1, <2>2 DEF IInv, PushesAsAsked, StoppedWhenReset, CurrentWhileActive, Holding,
       ActiveToPublish, subsystem, map, motors
<1>8. CASE UNCHANGED vars
  <2>1. TypeOK'
    BY <1>8 DEF vars, IInv, TypeOK, subsystem, map, motors
  <2>2. QED
    BY <1>8, <2>1 DEF vars, IInv, PushesAsAsked, StoppedWhenReset, CurrentWhileActive,
       Holding, ActiveToPublish, subsystem, map, motors
<1>9. CASE DisableMasters
  <2>1. Free \in Control(Positions) /\ ~Free.current
    BY SwerveAssumption DEF Free, Control
  <2>2. command' \in [Wheels -> Control(Positions)] /\ \A w \in Wheels : ~command'[w].current
    BY <1>9, <2>1 DEF DisableMasters
  <2>3. UNCHANGED <<mainPc, failoverActive, subsystem, isExternal, map, configured, left,
                    taken, position, takeover>>
    BY <1>9 DEF DisableMasters
  <2>4. TypeOK'
    BY <2>2, <2>3 DEF IInv, TypeOK, subsystem, map
  <2>5. Holding'
    BY <2>2, <2>3 DEF IInv, TypeOK, Holding, subsystem, map
  <2>6. QED
    BY <2>2, <2>3, <2>4, <2>5 DEF IInv, PushesAsAsked, StoppedWhenReset, CurrentWhileActive,
       ActiveToPublish, subsystem, map
<1>10. QED
  BY <1>1, <1>2, <1>3, <1>4, <1>5, <1>6, <1>7, <1>8, <1>9, <1>11 DEF Next

\* The invariant holds in every reachable state.
THEOREM SwerveInvariant == Spec => []IInv
BY SwerveInit, SwerveInductive, PTL DEF Spec

\* Types: set-points and positions are sensor positions, leases have not ended.
THEOREM SwerveTypeInvariant == Spec => []TypeOK
<1>1. IInv => TypeOK
  BY DEF IInv
<1>2. QED
  BY <1>1, SwerveInvariant, PTL

\* Until the joystick is read, what failover has a wheel do that it saw at its
\* activation is to stay where it was then.
THEOREM WheelsHeldAtTakeover == Spec => []HeldAtTakeover
<1>1. IInv => HeldAtTakeover
  BY DEF IInv, Holding, HeldAtTakeover
<1>2. QED
  BY <1>1, SwerveInvariant, PTL

\* A drive set-point pushes a wheel along the heading asked, also when
\* failover was reset and started again from other angles.
THEOREM WheelsPushAsAsked == Spec => []PushesAsAsked
<1>1. IInv => PushesAsAsked
  BY DEF IInv
<1>2. QED
  BY <1>1, SwerveInvariant, PTL
-----------------------------------------------------------------------------
(* What happens in the end. The fairness of FairSpec is taken in the form   *)
(* it has once the enabling conditions are written out.                    *)

\* The main loop goes on, and a publication places the configuration again and
\* again; so does a task whose message is in the map, between two tasks, again
\* and again; and a task that has taken a message applies it.
MainRuns == []<><<Main>>_vars
ConfigPlaced == []<>(mainPc = "Publish") => []<><<publishMessages(TRUE)>>_vars
TasksRun ==
    /\ []<>(Idle /\ motorconfig) => []<><<ApplyMotorConfig>>_vars
    /\ []<>(Idle /\ motorcontrol.from # "None") => []<><<ApplyMotorValues>>_vars
    /\ []<>Idle

AlwaysEnabled ==
    /\ ENABLED <<Main>>_vars
    /\ mainPc = "Publish" => ENABLED <<publishMessages(TRUE)>>_vars
    /\ Idle /\ motorconfig => ENABLED <<ApplyMotorConfig>>_vars
    /\ Idle /\ motorcontrol.from # "None" => ENABLED <<ApplyMotorValues>>_vars
    /\ ~Idle => ENABLED <<SetMotors>>_vars

\* The fairness of FairSpec gives all of them.
LEMMA FairnessRunsThreads ==
    FairSpec /\ []AlwaysEnabled => MainRuns /\ ConfigPlaced /\ TasksRun
<1>1. AlwaysEnabled => ENABLED <<Main>>_vars
  BY DEF AlwaysEnabled
<1>2. AlwaysEnabled => (mainPc = "Publish" => ENABLED <<publishMessages(TRUE)>>_vars)
  BY DEF AlwaysEnabled
<1>3. AlwaysEnabled => (Idle /\ motorconfig => ENABLED <<ApplyMotorConfig>>_vars)
  BY DEF AlwaysEnabled
<1>4. AlwaysEnabled =>
        (Idle /\ motorcontrol.from # "None" => ENABLED <<ApplyMotorValues>>_vars)
  BY DEF AlwaysEnabled
<1>5. AlwaysEnabled => (~Idle => ENABLED <<SetMotors>>_vars)
  BY DEF AlwaysEnabled
<1>6. <<SetMotors>>_vars => Idle'
  BY DEF SetMotors, Idle, NoMessage
<1>7. QED
  BY <1>1, <1>2, <1>3, <1>4, <1>5, <1>6, PTL DEF FairSpec, MainRuns, ConfigPlaced, TasksRun

\* Where the main thread goes while failover stays active; no other step moves it.
LEMMA MainGoesRound ==
    ASSUME Main, failoverActive'
    PROVE  \/ mainPc = "ModePeriodic" /\ mainPc' = "RobotPeriodic"
           \/ mainPc = "RobotPeriodic" /\ mainPc' = "Publish"
           \/ mainPc = "Publish" /\ mainPc' = "SubsystemPeriodic"
           \/ mainPc = "SubsystemPeriodic" /\ SubsystemPeriodic /\ mainPc' = "ModePeriodic"
BY DEF Main, ModePeriodic, RobotPeriodicExternal, RobotPeriodicFailover, publishMessages,
   SubsystemPeriodic

LEMMA OnlyMainMoves ==
    ASSUME [Next]_vars, mainPc' # mainPc
    PROVE  Main
BY DEF Next, ApplyMotorConfig, ApplyMotorValues, SetMotors, DisableMasters, processHeartbeat,
   ExternalMessage, ConnectionLost, Turn, vars

\* Without a deletion a wheel keeps its configuration and its motor objects.
LEMMA NothingDeleted ==
    ASSUME TypeOK, [Next]_vars, [~Deletes]_vars, NEW w \in Wheels
    PROVE  /\ w \in configured => w \in configured'
           /\ w \in DOMAIN left => w \in DOMAIN left'
<1>1. CASE processHeartbeat
  <2>1. UNCHANGED vars \/ DOMAIN left' = DOMAIN left
    BY <1>1 DEF Deletes
  <2>2. DOMAIN left' = DOMAIN left
    BY <2>1 DEF vars, motors
  <2>3. QED
    BY <1>1, <2>2 DEF processHeartbeat
<1>2. CASE SetMotors
  BY <1>2 DEF SetMotors, Registry!Renew
<1>3. CASE ApplyMotorConfig
  BY <1>3 DEF ApplyMotorConfig
<1>4. QED
  BY <1>1, <1>2, <1>3 DEF Next, Main, ModePeriodic, RobotPeriodicExternal,
     RobotPeriodicFailover, publishMessages, SubsystemPeriodic, ApplyMotorValues,
     DisableMasters, ExternalMessage, ConnectionLost, Turn, motors, vars

\* Failover gets its motors by itself: its configuration arrives and stays, the
\* commands after it create the motors, and every loop measures them.
THEOREM FailoverDrivesByItself ==
    Spec /\ MainRuns /\ ConfigPlaced /\ TasksRun => FailoverGetsItsMotors
<1> SUFFICES ASSUME NEW w \in Wheels
             PROVE  Spec /\ MainRuns /\ ConfigPlaced /\ TasksRun =>
                      ((<>[]failoverActive /\ <>[][~Deletes]_vars) =>
                         /\ <>[](w \in DOMAIN left)
                         /\ []<>(mSteeringAngles[w] = degrees(position[w])))
  BY DEF FailoverGetsItsMotors
<1> DEFINE At(pc) == mainPc = pc
           Known == w \in configured
           There == w \in DOMAIN left
           Commanded == motorcontrol.from # "None"
           Seen == mSteeringAngles[w] = degrees(position[w])
<1>1. TypeOK =>
        At("ModePeriodic") \/ At("RobotPeriodic") \/ At("Publish") \/ At("SubsystemPeriodic")
  BY DEF TypeOK
<1>2. TypeOK /\ [Next]_vars /\ failoverActive' =>
        /\ At("ModePeriodic") => At("ModePeriodic")' \/ At("RobotPeriodic")'
        /\ At("RobotPeriodic") => At("RobotPeriodic")' \/ At("Publish")'
        /\ At("Publish") => At("Publish")' \/ At("SubsystemPeriodic")'
        /\ At("SubsystemPeriodic") /\ There =>
             At("SubsystemPeriodic")' \/ (At("ModePeriodic")' /\ Seen')
        /\ At("SubsystemPeriodic") => At("SubsystemPeriodic")' \/ At("ModePeriodic")'
  <2> SUFFICES ASSUME TypeOK, [Next]_vars, failoverActive', mainPc' # mainPc
               PROVE  /\ At("ModePeriodic") => At("RobotPeriodic")'
                      /\ At("RobotPeriodic") => At("Publish")'
                      /\ At("Publish") => At("SubsystemPeriodic")'
                      /\ At("SubsystemPeriodic") => At("ModePeriodic")' /\ SubsystemPeriodic
    BY DEF SubsystemPeriodic, Measured, OnMotor, TypeOK
  <2>1. Main
    BY OnlyMainMoves
  <2>2. QED
    BY <2>1, MainGoesRound
<1>3. TypeOK /\ [Next]_vars /\ <<Main>>_vars /\ failoverActive' =>
        /\ At("ModePeriodic") => ~At("ModePeriodic")'
        /\ At("RobotPeriodic") => ~At("RobotPeriodic")'
        /\ At("Publish") => ~At("Publish")'
        /\ At("SubsystemPeriodic") => ~At("SubsystemPeriodic")'
  <2> SUFFICES ASSUME TypeOK, [Next]_vars, Main, failoverActive' PROVE mainPc' # mainPc
    OBVIOUS
  <2>1. QED
    BY MainGoesRound
<1>4. <<publishMessages(TRUE)>>_vars => motorconfig' /\ Commanded'
  <2> SUFFICES ASSUME publishMessages(TRUE) PROVE motorconfig' /\ Commanded'
    OBVIOUS
  <2>1. motorconfig' = TRUE
    BY Zenon DEF publishMessages
  <2>2. Commanded'
    BY DEF publishMessages
  <2>3. QED
    BY <2>1, <2>2, Zenon
<1>5. <<ApplyMotorConfig>>_vars => Known'
  BY DEF ApplyMotorConfig
<1>6. TypeOK /\ Known /\ ~Idle /\ [Next]_vars => (~Idle)' \/ There'
  <2> SUFFICES ASSUME TypeOK, Known, ~Idle, [Next]_vars PROVE (~Idle)' \/ There'
    OBVIOUS
  <2>1. CASE SetMotors
    BY <2>1 DEF SetMotors, Registry!Renew
  <2>2. CASE RobotPeriodicExternal
    BY <2>2 DEF RobotPeriodicExternal, Idle, TypeOK, Control
  <2>3. CASE UNCHANGED taken
    BY <2>3 DEF Idle
  <2>4. QED
    BY <2>1, <2>2, <2>3 DEF Next, Main, ModePeriodic, RobotPeriodicFailover, publishMessages,
       SubsystemPeriodic, ApplyMotorConfig, ApplyMotorValues, DisableMasters, processHeartbeat,
       ExternalMessage, ConnectionLost, Turn, motors, vars
<1>11. TypeOK /\ ~Idle /\ [Next]_vars => (Commanded => Commanded') /\ (motorconfig => motorconfig')
  <2> SUFFICES ASSUME TypeOK, ~Idle, [Next]_vars
               PROVE  (Commanded => Commanded') /\ (motorconfig => motorconfig')
    OBVIOUS
  <2>1. CASE \E withConfig \in BOOLEAN : publishMessages(withConfig)
    <3>1. PICK withConfig \in BOOLEAN : publishMessages(withConfig)
      BY <2>1
    <3>2. motorconfig' = (motorconfig \/ withConfig)
      BY <3>1, Zenon DEF publishMessages
    <3>3. Commanded'
      BY <3>1 DEF publishMessages
    <3>4. QED
      BY <3>2, <3>3, Zenon
  <2>2. CASE RobotPeriodicExternal
    BY <2>2 DEF RobotPeriodicExternal, TypeOK, Control
  <2>3. CASE UNCHANGED map
    BY <2>3 DEF map
  <2>4. QED
    BY <2>1, <2>2, <2>3 DEF Next, Main, ModePeriodic, RobotPeriodicFailover, SubsystemPeriodic,
       ApplyMotorConfig, ApplyMotorValues, SetMotors, DisableMasters, processHeartbeat,
       ExternalMessage, ConnectionLost, Turn, map, vars
<1>12. <<ApplyMotorValues>>_vars => (~Idle)'
  BY DEF ApplyMotorValues, Idle
<1>7. TypeOK /\ [Next]_vars /\ [~Deletes]_vars => (Known => Known') /\ (There => There')
  BY NothingDeleted
<1>8. Spec /\ MainRuns /\ <>[]failoverActive => []<>At("Publish")
  BY <1>1, <1>2, <1>3, SwerveTypeInvariant, PTL DEF Spec, MainRuns
<1>9. Spec /\ MainRuns /\ <>[]failoverActive /\ <>[]There => []<>Seen
  BY <1>1, <1>2, <1>3, SwerveTypeInvariant, PTL DEF Spec, MainRuns
<1>10. QED
  BY <1>4, <1>5, <1>6, <1>7, <1>8, <1>9, <1>11, <1>12, SwerveTypeInvariant, PTL
  DEF Spec, ConfigPlaced, TasksRun
-----------------------------------------------------------------------------
(* How far the stick turns a wheel.                                        *)

\* A heading and its opposite lie a half turn apart: when one is a quarter turn
\* or more from an angle, the other is within a quarter turn of it.
LEMMA NearerHeading ==
    \A h \in -180..180 : \A c \in Int :
       /\ Wrapped(h + 180) \in -180..180
       /\ Distance(h - c) \in Nat
       /\ Distance(h - c) >= 90 => Distance(Wrapped(h + 180) - c) \in 0..90
<1> SUFFICES ASSUME NEW h \in -180..180, NEW c \in Int
             PROVE  /\ Wrapped(h + 180) \in -180..180
                    /\ Distance(h - c) \in Nat
                    /\ Distance(h - c) >= 90 => Distance(Wrapped(h + 180) - c) \in 0..90
  OBVIOUS
<1>1. Wrapped(h + 180) = h + 180 \/ Wrapped(h + 180) = h - 180
  BY DEF Wrapped
<1>2. ASSUME NEW x \in Int, Distance(x) >= 90
      PROVE  Distance(x + 180) \in 0..90 /\ Distance(x - 180) \in 0..90
  BY <1>2 DEF Distance, Wrapped
<1>3. /\ h - c \in Int
      /\ Wrapped(h + 180) - c = (h - c) + 180 \/ Wrapped(h + 180) - c = (h - c) - 180
  BY <1>1
<1>4. Wrapped(h + 180) \in -180..180
  BY DEF Wrapped
<1>5. Distance(h - c) \in Nat
  BY DEF Distance, Wrapped
<1>6. QED
  BY <1>2, <1>3, <1>4, <1>5

\* A set-point within a quarter turn of the measured angle, in degrees, that
\* lies within half a turn of zero, in sensor units.
QuarterTurn(setPoint, measured) ==
    Distance(degrees(setPoint) - measured) \in 0..90 /\ setPoint \in -2048..2048

\* What the stick makes of a heading, at a wheel that was measured at an angle.
LEMMA StickSetPoint ==
    ASSUME NEW h \in Headings, NEW c \in Int, NEW back \in BOOLEAN, Optimize(h, c, back)
    PROVE  QuarterTurn(degrees_to_native_units_steering_angle(Angle(h, back)), c)
<1>1. h \in -180..180 /\ Exact(h) /\ Exact(Wrapped(h + 180))
  BY SwerveAssumption
<1>2. ASSUME NEW a, a \in -180..180
      PROVE  degrees_to_native_units_steering_angle(a) \in -2048..2048
  BY <1>2 DEF degrees_to_native_units_steering_angle, STEERING_GEAR_RATIO
<1>3. CASE back
  <2>1. Angle(h, back) = Wrapped(h + 180) /\ Distance(h - c) >= 90
    BY <1>3 DEF Angle, Optimize
  <2>2. Wrapped(h + 180) \in -180..180 /\ Distance(Wrapped(h + 180) - c) \in 0..90
    BY <1>1, <2>1, NearerHeading
  <2>3. degrees(degrees_to_native_units_steering_angle(Wrapped(h + 180))) = Wrapped(h + 180)
    BY <1>1 DEF Exact
  <2>4. degrees_to_native_units_steering_angle(Wrapped(h + 180)) \in -2048..2048
    BY <1>2, <2>2
  <2>5. QED
    BY <2>1, <2>2, <2>3, <2>4 DEF QuarterTurn
<1>4. CASE ~back
  <2>1. Angle(h, back) = h /\ Distance(h - c) <= 90
    BY <1>4 DEF Angle, Optimize
  <2>2. Distance(h - c) \in 0..90
    <3>1. Distance(h - c) \in Nat
      BY <1>1, NearerHeading
    <3>2. QED
      BY <2>1, <3>1
  <2>3. degrees(degrees_to_native_units_steering_angle(h)) = h
    BY <1>1 DEF Exact
  <2>4. degrees_to_native_units_steering_angle(h) \in -2048..2048
    BY <1>1, <1>2
  <2>5. QED
    BY <2>1, <2>2, <2>3, <2>4 DEF QuarterTurn
<1>5. QED
  BY <1>3, <1>4

\* In degrees the stick never turns a wheel by more than a quarter turn from
\* the angle measured last. In sensor units the set-point lies within half a
\* turn of zero, whichever turn the wheel is in.
StickTurnsAQuarter ==
    [][mainPc = "ModePeriodic" /\ steering' # steering =>
         \A w \in Wheels : QuarterTurn(steering'[w], mSteeringAngles[w])]_vars

\* What run computes from the joystick, through the kinematics and Optimize.
THEOREM StickTurnsWheelsAQuarter == Spec => StickTurnsAQuarter
<1>1. ASSUME TypeOK, [Next]_vars, mainPc = "ModePeriodic", steering' # steering,
             NEW w \in Wheels
      PROVE  QuarterTurn(steering'[w], mSteeringAngles[w])
  <2>1. DriveByJoystick
    BY <1>1 DEF Next, Main, ModePeriodic, StopDriving, RobotPeriodicExternal,
       RobotPeriodicFailover, publishMessages, SubsystemPeriodic, ApplyMotorConfig,
       ApplyMotorValues, SetMotors, DisableMasters, processHeartbeat, ExternalMessage,
       ConnectionLost, Turn,
       vars, subsystem
  <2>2. PICK wanted \in [Wheels -> Headings], reversed \in SUBSET Wheels :
          /\ Optimize(wanted[w], mSteeringAngles[w], w \in reversed)
          /\ steering' = [v \in Wheels |->
                degrees_to_native_units_steering_angle(Angle(wanted[v], v \in reversed))]
    BY <2>1 DEF DriveByJoystick
  <2>3. /\ wanted[w] \in Headings /\ (w \in reversed) \in BOOLEAN
        /\ mSteeringAngles[w] \in Int
    BY <1>1, SwerveAssumption DEF TypeOK, degrees
  <2>4. steering'[w] = degrees_to_native_units_steering_angle(Angle(wanted[w], w \in reversed))
    BY <2>2
  <2>5. Optimize(wanted[w], mSteeringAngles[w], w \in reversed)
    BY <2>2
  <2>6. QED
    BY <2>3, <2>4, <2>5, StickSetPoint
<1>2. TypeOK /\ [Next]_vars =>
        [mainPc = "ModePeriodic" /\ steering' # steering =>
           \A w \in Wheels : QuarterTurn(steering'[w], mSteeringAngles[w])]_vars
  BY <1>1
<1>3. QED
  BY <1>2, SwerveTypeInvariant, PTL DEF Spec, StickTurnsAQuarter
=============================================================================

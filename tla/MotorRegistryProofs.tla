------------------------- MODULE MotorRegistryProofs -------------------------
(***************************************************************************)
(* MotorRegistry's properties for every set of motors, followers,          *)
(* settings and heartbeat limit: safety, and that a motor gets its         *)
(* configuration.                                                          *)
(***************************************************************************)
EXTENDS MotorRegistry, FiniteSetTheorems, TLAPS

\* The age of a motor is what its heartbeat has lost.
AgeInv ==
    /\ DOMAIN age = DOMAIN mRegisteredMotorList
    /\ \A id \in DOMAIN mRegisteredMotorList :
         mRegisteredMotorHeartbeatList[id] + age[id] = MaxHeartbeatTicks

\* A running ApplyMotorConfigTask finds the message of every listed motor stored.
ConfigStored == task = "Config" => todo \subseteq DOMAIN mMotorMsgs

IInv ==
    /\ TypeOK /\ RegistriesAgree /\ ConfigurationKnown /\ FollowersFollow
    /\ HardwareAsConfigured /\ AgeInv /\ ConfigStored
-----------------------------------------------------------------------------
\* The program starts with no motor and no configuration.
LEMMA RegistryInit == Init => IInv
<1> SUFFICES ASSUME Init PROVE IInv
  OBVIOUS
<1>1. \A S : IsMap(EmptyMap, S)
  BY DEF IsMap, EmptyMap
<1>2. TypeOK
  BY <1>1 DEF Init, TypeOK
<1>3. DOMAIN EmptyMap = {}
  BY DEF EmptyMap
<1>4. RegistriesAgree /\ ConfigurationKnown
  BY <1>3 DEF Init, RegistriesAgree, ConfigurationKnown
<1>5. FollowersFollow /\ HardwareAsConfigured /\ AgeInv
  BY <1>3 DEF Init, FollowersFollow, HardwareAsConfigured, AgeInv
<1>6. ConfigStored
  BY DEF Init, ConfigStored
<1>7. QED
  BY <1>2, <1>4, <1>5, <1>6 DEF IInv

\* A command creates a motor or renews its heartbeat.
LEMMA CommandMotorInductive ==
    ASSUME IInv, NEW id \in MotorIds, CommandMotor(id)
    PROVE  IInv'
<1> USE RegistryAssumption DEF IInv
<1>1. CASE UNCHANGED <<registry, writeFailed>>
  <2>1. TypeOK'
    BY <1>1 DEF CommandMotor, TypeOK, registry, configs
  <2>2. QED
    BY <1>1, <2>1 DEF CommandMotor, registry, configs, RegistriesAgree, ConfigurationKnown,
       FollowersFollow, HardwareAsConfigured, AgeInv, ConfigStored, motorExists
<1>2. CASE ~UNCHANGED <<registry, writeFailed>>
  <2>1. CommandAccepted(id)
    BY <1>2 DEF CommandMotor
  <2>2. PICK type \in MotorType \cup {Invalid}, output \in Output \cup {"NaN"} :
        \E motor \in ObjectFor(id, type) :
          registerMotor(id, type,
            IF id \in Followers
              THEN IF motorExists(MasterOf[id]) THEN [motor EXCEPT !.mode = "Follower"]
                                                ELSE motor
            ELSE IF output \in Output THEN [motor EXCEPT !.mode = "Set", !.output = output]
            ELSE motor)
    BY <2>1 DEF CommandMotor
  <2>3. PICK motor \in ObjectFor(id, type) :
          registerMotor(id, type,
            IF id \in Followers
              THEN IF motorExists(MasterOf[id]) THEN [motor EXCEPT !.mode = "Follower"]
                                                ELSE motor
            ELSE IF output \in Output THEN [motor EXCEPT !.mode = "Set", !.output = output]
            ELSE motor)
    BY <2>2
  <2> DEFINE new ==
            IF id \in Followers
              THEN IF motorExists(MasterOf[id]) THEN [motor EXCEPT !.mode = "Follower"]
                                                ELSE motor
            ELSE IF output \in Output THEN [motor EXCEPT !.mode = "Set", !.output = output]
            ELSE motor
  <2>4. motorExists(id) \/ type \in MotorType
    BY <1>2, <2>3 DEF registerMotor
  <2>5. /\ motor \in Motor
        /\ motorExists(id) => motor = mRegisteredMotorList[id]
        /\ ~motorExists(id) => motor.type = type
    BY <2>4 DEF TypeOK, IsMap, ObjectFor, motorExists, Motor, Output
  <2>6. /\ new \in Motor
        /\ new.type = motor.type
        /\ new.setting = motor.setting
        /\ id \in Followers => new.mode = "Follower"
    BY <2>1, <2>5 DEF Motor, CommandAccepted
  <2> HIDE DEF new
  <2>7. /\ mRegisteredMotorList' = Put(mRegisteredMotorList, id, new)
        /\ mRegisteredMotorTypeList' =
             IF motorExists(id) THEN mRegisteredMotorTypeList
                                ELSE Put(mRegisteredMotorTypeList, id, type)
        /\ mRegisteredMotorHeartbeatList' =
             Put(mRegisteredMotorHeartbeatList, id, MaxHeartbeatTicks)
        /\ age' = Put(age, id, 0)
        /\ writeFailed' = IF motorExists(id) THEN writeFailed ELSE writeFailed \ {id}
    BY <2>3, <2>4 DEF registerMotor, new
  <2>8. /\ IsMap(mRegisteredMotorList, Motor)'
        /\ DOMAIN mRegisteredMotorList' = DOMAIN mRegisteredMotorList \cup {id}
        /\ mRegisteredMotorList'[id] = new
        /\ \A i \in DOMAIN mRegisteredMotorList :
             i # id => mRegisteredMotorList'[i] = mRegisteredMotorList[i]
    BY <2>6, <2>7 DEF TypeOK, IsMap, Put
  <2>9. /\ IsMap(mRegisteredMotorTypeList, MotorType)'
        /\ DOMAIN mRegisteredMotorTypeList' = DOMAIN mRegisteredMotorTypeList \cup {id}
        /\ mRegisteredMotorTypeList'[id] = new.type
        /\ \A i \in DOMAIN mRegisteredMotorTypeList :
             i # id => mRegisteredMotorTypeList'[i] = mRegisteredMotorTypeList[i]
    BY <2>4, <2>5, <2>6, <2>7 DEF TypeOK, IsMap, Put, RegistriesAgree, motorExists
  <2>10. /\ IsMap(mRegisteredMotorHeartbeatList, 1..MaxHeartbeatTicks)'
         /\ DOMAIN mRegisteredMotorHeartbeatList' =
              DOMAIN mRegisteredMotorHeartbeatList \cup {id}
         /\ mRegisteredMotorHeartbeatList'[id] = MaxHeartbeatTicks
         /\ \A i \in DOMAIN mRegisteredMotorHeartbeatList :
              i # id => mRegisteredMotorHeartbeatList'[i] = mRegisteredMotorHeartbeatList[i]
    BY <2>7 DEF TypeOK, IsMap, Put
  <2>11. /\ IsMap(age, 0..MaxHeartbeatTicks)'
         /\ DOMAIN age' = DOMAIN age \cup {id}
         /\ age'[id] = 0
         /\ \A i \in DOMAIN age : i # id => age'[i] = age[i]
    BY <2>7 DEF TypeOK, IsMap, Put
  <2>12. TypeOK'
    BY <2>7, <2>8, <2>9, <2>10, <2>11 DEF TypeOK, CommandMotor, configs
  <2>13. RegistriesAgree' /\ AgeInv'
    BY <2>8, <2>9, <2>10, <2>11 DEF RegistriesAgree, AgeInv
  <2>14. ConfigurationKnown' /\ ConfigStored'
    BY <2>1, <2>8 DEF ConfigurationKnown, ConfigStored, CommandMotor, CommandAccepted, configs
  <2>15. FollowersFollow'
    BY <2>6, <2>8 DEF FollowersFollow
  <2>16. HardwareAsConfigured'
    <3>1. mPrevMotorMsgs' = mPrevMotorMsgs
      BY DEF CommandMotor, configs
    <3>2. motorExists(id) => new.setting = mRegisteredMotorList[id].setting /\ writeFailed' = writeFailed
      BY <2>5, <2>6, <2>7
    <3>3. ~motorExists(id) => id \notin DOMAIN mPrevMotorMsgs
      BY DEF ConfigurationKnown, motorExists
    <3>4. \A i \in MotorIds : i # id => (i \in writeFailed' <=> i \in writeFailed)
      BY <2>7
    <3>5. DOMAIN mPrevMotorMsgs \subseteq DOMAIN mRegisteredMotorList
          /\ DOMAIN mPrevMotorMsgs \subseteq MotorIds
      BY DEF TypeOK, IsMap, ConfigurationKnown
    <3>6. SUFFICES ASSUME NEW i \in DOMAIN mPrevMotorMsgs, i \notin writeFailed',
                          mPrevMotorMsgs[i] # DefaultSetting
                   PROVE  mRegisteredMotorList'[i].setting = mPrevMotorMsgs[i]
      BY <3>1 DEF HardwareAsConfigured
    <3>7. CASE i = id
      BY <3>2, <3>3, <3>5, <3>6, <3>7, <2>8 DEF HardwareAsConfigured, motorExists
    <3>8. CASE i # id
      BY <3>4, <3>5, <3>6, <3>8, <2>8 DEF HardwareAsConfigured
    <3>9. QED
      BY <3>7, <3>8
  <2>17. QED
    BY <2>12, <2>13, <2>14, <2>15, <2>16
<1>3. QED
  BY <1>1, <1>2

\* Zeroing the masters changes no follower and no setting.
LEMMA DisableMastersInductive ==
    ASSUME IInv, DisableMasters
    PROVE  IInv'
<1> USE DEF IInv, DisableMasters, configs
<1>1. /\ IsMap(mRegisteredMotorList, Motor)'
      /\ DOMAIN mRegisteredMotorList' = DOMAIN mRegisteredMotorList
      /\ \A id \in DOMAIN mRegisteredMotorList :
           /\ mRegisteredMotorList'[id].type = mRegisteredMotorList[id].type
           /\ mRegisteredMotorList'[id].setting = mRegisteredMotorList[id].setting
           /\ mRegisteredMotorList[id].mode = "Follower" =>
                mRegisteredMotorList'[id].mode = "Follower"
  BY DEF TypeOK, IsMap, Motor, Output
<1>2. TypeOK'
  BY <1>1 DEF TypeOK, IsMap
<1>3. RegistriesAgree' /\ ConfigurationKnown' /\ AgeInv' /\ ConfigStored'
  BY <1>1 DEF RegistriesAgree, ConfigurationKnown, AgeInv, ConfigStored
<1>4. FollowersFollow'
  BY <1>1 DEF FollowersFollow
<1>5. HardwareAsConfigured'
  BY <1>1 DEF HardwareAsConfigured
<1>6. QED
  BY <1>2, <1>3, <1>4, <1>5

\* A motor is configured completely, or by difference to what it holds.
LEMMA ConfigureMotorInductive ==
    ASSUME IInv, NEW id \in MotorIds, ConfigureMotor(id)
    PROVE  IInv'
<1>1. /\ TypeOK /\ RegistriesAgree /\ ConfigurationKnown /\ FollowersFollow
      /\ HardwareAsConfigured /\ AgeInv /\ ConfigStored
  BY DEF IInv
<1>2. id \in DOMAIN mMotorMsgs /\ mMotorMsgs[id] \in Settings
  BY <1>1 DEF ConfigStored, ConfigureMotor, TypeOK, IsMap
<1>3. /\ UNCHANGED <<mRegisteredMotorTypeList, mRegisteredMotorHeartbeatList, age,
                     mMotorMsgs, disabled, task, listed>>
      /\ todo' = todo \ {id}
  BY DEF ConfigureMotor
<1>4. /\ IsMap(mRegisteredMotorList, Motor)'
      /\ DOMAIN mRegisteredMotorList' = DOMAIN mRegisteredMotorList
      /\ \A i \in DOMAIN mRegisteredMotorList :
           /\ mRegisteredMotorList'[i].type = mRegisteredMotorList[i].type
           /\ mRegisteredMotorList'[i].mode = mRegisteredMotorList[i].mode
           /\ i # id => mRegisteredMotorList'[i] = mRegisteredMotorList[i]
  BY <1>1, <1>2 DEF ConfigureMotor, Compare, updateFunction, fullUpdate,
     runPhoenixFunctionWithRetry, TypeOK, IsMap, Motor,
     motorExists
<1>5. /\ writeFailed' \subseteq MotorIds
      /\ \A i \in MotorIds \ {id} : i \in writeFailed' <=> i \in writeFailed
  BY <1>1 DEF ConfigureMotor, Compare, updateFunction, fullUpdate,
     runPhoenixFunctionWithRetry, TypeOK
<1>6. /\ IsMap(mPrevMotorMsgs, Settings)'
      /\ DOMAIN mPrevMotorMsgs' =
           DOMAIN mPrevMotorMsgs \cup (IF motorExists(id) THEN {id} ELSE {})
      /\ motorExists(id) => mPrevMotorMsgs'[id] = mMotorMsgs[id]
      /\ \A i \in DOMAIN mPrevMotorMsgs \ {id} : mPrevMotorMsgs'[i] = mPrevMotorMsgs[i]
  BY <1>1, <1>2 DEF ConfigureMotor, TypeOK, IsMap, setPrevMotorConfigMsg, Put
<1>7. TypeOK'
  BY <1>1, <1>3, <1>4, <1>5, <1>6 DEF TypeOK, IsMap
<1>8. RegistriesAgree' /\ AgeInv' /\ FollowersFollow' /\ ConfigStored'
  BY <1>1, <1>3, <1>4 DEF RegistriesAgree, AgeInv, FollowersFollow, ConfigStored
<1>9. ConfigurationKnown'
  BY <1>1, <1>3, <1>4, <1>6 DEF ConfigurationKnown, motorExists
<1>10. HardwareAsConfigured'
  <2>1. DOMAIN mPrevMotorMsgs \subseteq DOMAIN mRegisteredMotorList
        /\ DOMAIN mRegisteredMotorList \subseteq MotorIds
    BY <1>1 DEF ConfigurationKnown, TypeOK, IsMap
  <2>2. SUFFICES ASSUME NEW i \in DOMAIN mPrevMotorMsgs', i \notin writeFailed',
                        mPrevMotorMsgs'[i] # DefaultSetting
                 PROVE  mRegisteredMotorList'[i].setting = mPrevMotorMsgs'[i]
    BY DEF HardwareAsConfigured
  <2>3. CASE i # id
    <3>1. /\ i \in DOMAIN mPrevMotorMsgs /\ i \notin writeFailed
          /\ mPrevMotorMsgs[i] # DefaultSetting
      BY <1>5, <1>6, <2>1, <2>2, <2>3
    <3>2. mRegisteredMotorList[i].setting = mPrevMotorMsgs[i]
      BY <1>1, <2>1, <3>1 DEF HardwareAsConfigured
    <3>3. QED
      BY <1>4, <1>6, <2>1, <2>3, <3>1, <3>2
  <2>4. CASE i = id /\ (~ByDifference \/ ReportModified(id))
    <3>1. motorExists(id)
      BY <1>6, <2>1, <2>2, <2>4 DEF motorExists
    <3>2. mRegisteredMotorList' = [mRegisteredMotorList EXCEPT ![id].setting = mMotorMsgs[id]]
      BY <2>2, <2>4, <3>1 DEF ConfigureMotor, Compare, updateFunction, fullUpdate,
     runPhoenixFunctionWithRetry
    <3>3. mRegisteredMotorList'[id].setting = mMotorMsgs[id]
      BY <1>1, <3>1, <3>2 DEF TypeOK, IsMap, Motor, motorExists
    <3>4. QED
      BY <1>6, <2>4, <3>1, <3>3
  <2>5. CASE i = id /\ ByDifference /\ ~ReportModified(id)
    <3>1. motorExists(id)
      BY <1>6, <2>1, <2>2, <2>5 DEF motorExists
    <3>2. UNCHANGED <<mRegisteredMotorList, writeFailed>>
      BY <2>5, <3>1 DEF ConfigureMotor, Compare
    <3>3. /\ id \in DOMAIN mPrevMotorMsgs /\ mMotorMsgs[id] = mPrevMotorMsgs[id]
          /\ mPrevMotorMsgs[id] # DefaultSetting
      BY <1>6, <2>2, <2>5, <3>1 DEF ReportModified, PrevOrDefault
    <3>4. mRegisteredMotorList[id].setting = mPrevMotorMsgs[id]
      BY <1>1, <2>1, <2>2, <2>5, <3>2, <3>3 DEF HardwareAsConfigured
    <3>5. QED
      BY <1>6, <2>5, <3>1, <3>2, <3>3, <3>4
  <2>6. QED
    BY <2>3, <2>4, <2>5
<1>11. QED
  BY <1>7, <1>8, <1>9, <1>10 DEF IInv

\* Deleting the motors whose heartbeat ran out erases them from every map.
LEMMA HeartbeatInductive ==
    ASSUME IInv, processHeartbeat
    PROVE  IInv'
<1>1. /\ TypeOK /\ RegistriesAgree /\ ConfigurationKnown /\ FollowersFollow
      /\ HardwareAsConfigured /\ AgeInv
  BY DEF IInv
<1> DEFINE Left == DOMAIN mRegisteredMotorList \ Expired
<1>2. /\ IsMap(mRegisteredMotorList, Motor)'
      /\ mRegisteredMotorList' = [id \in Left |-> mRegisteredMotorList[id]]
  BY <1>1 DEF processHeartbeat, Restrict, TypeOK, IsMap
<1>3. /\ IsMap(mRegisteredMotorTypeList, MotorType)'
      /\ mRegisteredMotorTypeList' = [id \in Left |-> mRegisteredMotorTypeList[id]]
  BY <1>1 DEF processHeartbeat, Restrict, TypeOK, IsMap, RegistriesAgree, ForgetTypes
<1>4. /\ IsMap(mRegisteredMotorHeartbeatList, 1..MaxHeartbeatTicks)'
      /\ mRegisteredMotorHeartbeatList' =
           [id \in Left |-> mRegisteredMotorHeartbeatList[id] - 1]
  <2>1. mRegisteredMotorHeartbeatList' =
           [id \in Left |-> mRegisteredMotorHeartbeatList[id] - 1]
    BY <1>1 DEF processHeartbeat, RegistriesAgree, CountedDown
  <2>2. \A id \in Left : mRegisteredMotorHeartbeatList[id] - 1 \in 1..MaxHeartbeatTicks
    BY <1>1, RegistryAssumption DEF TypeOK, IsMap, RegistriesAgree, Expired
  <2>3. QED
    BY <1>1, <2>1, <2>2 DEF TypeOK, IsMap
<1>5. /\ IsMap(age, 0..MaxHeartbeatTicks)'
      /\ age' = [id \in Left |-> age[id] + 1]
  <2>1. age' = [id \in Left |-> age[id] + 1]
    <3>1. \A id \in Left : age[id] < MaxHeartbeatTicks
      BY <1>1, RegistryAssumption DEF TypeOK, IsMap, RegistriesAgree, AgeInv
    <3>2. QED
      BY <1>1, <3>1 DEF processHeartbeat, AgeInv
  <2>2. \A id \in Left : age[id] + 1 \in 0..MaxHeartbeatTicks
    BY <1>1, RegistryAssumption DEF TypeOK, IsMap, RegistriesAgree, Expired, AgeInv
  <2>3. QED
    BY <1>1, <2>1, <2>2 DEF TypeOK, IsMap
<1>6. /\ IsMap(mMotorMsgs, Settings)'
      /\ DOMAIN mMotorMsgs' = DOMAIN mMotorMsgs \ Expired
  BY <1>1 DEF processHeartbeat, Restrict, TypeOK, IsMap
<1>7. /\ IsMap(mPrevMotorMsgs, Settings)'
      /\ mPrevMotorMsgs' = [id \in DOMAIN mPrevMotorMsgs \ Expired |-> mPrevMotorMsgs[id]]
  BY <1>1 DEF processHeartbeat, Restrict, TypeOK, IsMap, ForgetPrevious
<1>8. UNCHANGED <<disabled, task, todo, listed, writeFailed>> /\ task = "Idle"
  BY DEF processHeartbeat, thread
<1>9. TypeOK'
  BY <1>1, <1>2, <1>3, <1>4, <1>5, <1>6, <1>7, <1>8 DEF TypeOK
<1>10. RegistriesAgree'
  BY <1>1, <1>2, <1>3, <1>4 DEF RegistriesAgree
<1>11. ConfigurationKnown'
  BY <1>1, <1>2, <1>6, <1>7 DEF ConfigurationKnown
<1>12. FollowersFollow'
  BY <1>1, <1>2 DEF FollowersFollow
<1>13. HardwareAsConfigured'
  BY <1>1, <1>2, <1>7, <1>8 DEF HardwareAsConfigured
<1>14. AgeInv'
  BY <1>1, <1>2, <1>4, <1>5, RegistryAssumption DEF AgeInv, TypeOK, IsMap, RegistriesAgree
<1>15. ConfigStored'
  BY <1>8 DEF ConfigStored
<1>16. QED
  BY <1>9, <1>10, <1>11, <1>12, <1>13, <1>14, <1>15 DEF IInv

\* No step of the scheduler thread or of the main thread breaks the invariant.
LEMMA RegistryInductive == Spec => []IInv
<1>1. IInv /\ [Next]_vars => IInv'
  <2> SUFFICES ASSUME IInv, [Next]_vars PROVE IInv'
    OBVIOUS
  <2> USE DEF IInv, TypeOK, IsMap, RegistriesAgree, ConfigurationKnown, FollowersFollow,
          HardwareAsConfigured, AgeInv, ConfigStored, registry, configs, thread
  <2>1. CASE ValuesBegin
    BY <2>1 DEF ValuesBegin
  <2>2. CASE ConfigBegin
    <3>1. listed' \in Nat /\ todo' \subseteq MotorIds
      BY <2>2, RegistryAssumption, FS_Subset, FS_CardinalityType DEF ConfigBegin
    <3>2. /\ IsMap(mMotorMsgs, Settings)'
          /\ DOMAIN mMotorMsgs' = DOMAIN mMotorMsgs \cup todo'
      BY <2>2, <3>1 DEF ConfigBegin
    <3>3. QED
      BY <2>2, <3>1, <3>2 DEF ConfigBegin
  <2>3. CASE processHeartbeat
    BY <2>3, HeartbeatInductive
  <2>4. CASE CommandAMotor
    BY <2>4, CommandMotorInductive DEF CommandAMotor
  <2>5. CASE DisableMasters
    BY <2>5, DisableMastersInductive
  <2>6. CASE ConfigureAMotor
    BY <2>6, ConfigureMotorInductive DEF ConfigureAMotor
  <2>7. CASE ConfigEnd
    BY <2>7 DEF ConfigEnd
  <2>8. CASE SetControlMode
    BY <2>8 DEF SetControlMode
  <2>9. CASE UNCHANGED vars
    BY <2>9 DEF vars
  <2>10. QED
    BY <2>1, <2>2, <2>3, <2>4, <2>5, <2>6, <2>7, <2>8, <2>9 DEF Next, WithinTask
<1>2. QED
  BY <1>1, RegistryInit, PTL DEF Spec
-----------------------------------------------------------------------------
\* Every variable keeps its type.
THEOREM RegistryTypeInvariant == Spec => []TypeOK
<1>1. IInv => TypeOK
  BY DEF IInv
<1>2. QED
  BY <1>1, RegistryInductive, PTL

\* MotorManager's maps list the same motors with the types of their objects.
THEOREM RegistriesAlwaysAgree == Spec => []RegistriesAgree
<1>1. IInv => RegistriesAgree
  BY DEF IInv
<1>2. QED
  BY <1>1, RegistryInductive, PTL

\* Objects exist only with a known configuration, and applied messages only
\* with an object.
THEOREM ConfigurationAlwaysKnown == Spec => []ConfigurationKnown
<1>1. IInv => ConfigurationKnown
  BY DEF IInv
<1>2. QED
  BY <1>1, RegistryInductive, PTL

\* Configuring by difference leaves every motor as its last message says,
\* unless a write to it failed.
THEOREM DifferencesSuffice == Spec => []HardwareAsConfigured
<1>1. IInv => HardwareAsConfigured
  BY DEF IInv
<1>2. QED
  BY <1>1, RegistryInductive, PTL

\* A follower that exists is in Follower mode.
THEOREM FollowersAlwaysFollow == Spec => []FollowersFollow
<1>1. IInv => FollowersFollow
  BY DEF IInv
<1>2. QED
  BY <1>1, RegistryInductive, PTL

\* Motors are deleted by the tick that completes MaxHeartbeatTicks ticks
\* without a command, and by nothing else.
THEOREM MotorsDeletedOnTime == Spec => DeletedOnTime
<1> DEFINE OnTime == \A id \in MotorIds :
             motorExists(id) /\ ~motorExists(id)' => age[id] = MaxHeartbeatTicks - 1
<1>1. IInv /\ [Next]_vars => [OnTime]_vars
  <2> SUFFICES ASSUME IInv, Next, NEW id \in MotorIds, motorExists(id), ~motorExists(id)'
               PROVE  age[id] = MaxHeartbeatTicks - 1
    BY DEF vars
  <2>1. processHeartbeat
    <3> USE DEF motorExists, registry, configs, thread
    <3>1. ~ValuesBegin /\ ~ConfigBegin /\ ~ConfigEnd /\ ~SetControlMode
      BY DEF ValuesBegin, ConfigBegin, ConfigEnd, SetControlMode
    <3>2. ~DisableMasters
      BY DEF DisableMasters
    <3>3. ~CommandAMotor
      <4>1. SUFFICES ASSUME NEW i \in MotorIds, CommandMotor(i) PROVE FALSE
        BY DEF CommandAMotor
      <4>2. \A type, motor : registerMotor(i, type, motor) =>
              DOMAIN mRegisteredMotorList \subseteq DOMAIN mRegisteredMotorList'
        BY DEF registerMotor, Put
      <4>3. DOMAIN mRegisteredMotorList \subseteq DOMAIN mRegisteredMotorList'
        BY <4>1, <4>2 DEF CommandMotor
      <4>4. QED
        BY <4>3
    <3>4. ~ConfigureAMotor
      BY DEF ConfigureAMotor, ConfigureMotor, Compare, updateFunction, fullUpdate,
     runPhoenixFunctionWithRetry
    <3>5. QED
      BY <3>1, <3>2, <3>3, <3>4 DEF Next, WithinTask
  <2>2. id \in DOMAIN mRegisteredMotorList /\ id \in Expired
    BY <2>1 DEF processHeartbeat, Restrict, motorExists
  <2>3. mRegisteredMotorHeartbeatList[id] = 1
    BY <2>2, RegistryAssumption DEF Expired, IInv, TypeOK, IsMap
  <2>4. QED
    BY <2>2, <2>3, RegistryAssumption DEF IInv, AgeInv, TypeOK, IsMap
<1>2. QED
  BY <1>1, RegistryInductive, PTL DEF Spec, DeletedOnTime
-----------------------------------------------------------------------------
(* The motors are held on leases.                                          *)

\* The program starts without leases.
LEMMA LeaseInit == Init => Lease!Init
BY DEF Init, EmptyMap, Lease!Init, leases

\* A command renews the lease of its motor, a heartbeat takes a tick from
\* every lease, and nothing else, a configuration included, touches one.
LEMMA LeaseNext == IInv /\ IInv' /\ [Next]_vars => [Lease!Next]_leases
<1> SUFFICES ASSUME IInv, IInv', [Next]_vars
             PROVE  Lease!Next \/ leases' = leases
  OBVIOUS
<1>1. leases = mRegisteredMotorHeartbeatList
  <2>1. mRegisteredMotorHeartbeatList \in [DOMAIN mRegisteredMotorList -> 1..MaxHeartbeatTicks]
    BY DEF IInv, TypeOK, RegistriesAgree, IsMap
  <2>2. QED
    BY <2>1 DEF leases
<1>2. leases' = mRegisteredMotorHeartbeatList'
  <2>1. mRegisteredMotorHeartbeatList' \in [DOMAIN mRegisteredMotorList' -> 1..MaxHeartbeatTicks]
    BY DEF IInv, TypeOK, RegistriesAgree, IsMap
  <2>2. QED
    BY <2>1 DEF leases
<1>3. ASSUME NEW id \in MotorIds, CommandMotor(id)
      PROVE  Lease!Next \/ leases' = leases
  <2>1. \/ UNCHANGED mRegisteredMotorHeartbeatList
        \/ mRegisteredMotorHeartbeatList' = Put(mRegisteredMotorHeartbeatList, id, MaxHeartbeatTicks)
    BY <1>3 DEF CommandMotor, registerMotor, registry
  <2>2. CASE mRegisteredMotorHeartbeatList' =
               Put(mRegisteredMotorHeartbeatList, id, MaxHeartbeatTicks)
    <3>1. Lease!Renew({id})
      BY <1>1, <1>2, <2>2 DEF Lease!Renew, Put
    <3>2. QED
      BY <3>1 DEF Lease!Next
  <2>3. QED
    BY <1>1, <1>2, <2>1, <2>2
<1>4. CASE ValuesBegin \/ ConfigBegin \/ ConfigEnd \/ SetControlMode
  BY <1>1, <1>2, <1>4 DEF ValuesBegin, ConfigBegin, ConfigEnd, SetControlMode, registry
<1>5. CASE CommandAMotor
  BY <1>3, <1>5 DEF CommandAMotor
<1>6. CASE DisableMasters \/ ConfigureAMotor
  BY <1>1, <1>2, <1>6 DEF DisableMasters, ConfigureAMotor, ConfigureMotor
<1>7. CASE processHeartbeat
  <2>1. mRegisteredMotorHeartbeatList \in
          [DOMAIN mRegisteredMotorHeartbeatList -> 1..MaxHeartbeatTicks]
    BY DEF IInv, TypeOK, IsMap
  <2>2. DOMAIN mRegisteredMotorHeartbeatList \ Expired =
          {i \in DOMAIN mRegisteredMotorHeartbeatList : mRegisteredMotorHeartbeatList[i] > 1}
    BY <2>1, RegistryAssumption DEF Expired
  <2>3. Lease!Heartbeat
    BY <1>1, <1>2, <1>7, <2>2 DEF processHeartbeat, CountedDown, Lease!Heartbeat
  <2>4. QED
    BY <2>3 DEF Lease!Next
<1>8. CASE UNCHANGED vars
  BY <1>1, <1>2, <1>8 DEF vars, registry
<1>9. QED
  BY <1>4, <1>5, <1>6, <1>7, <1>8 DEF Next, WithinTask

\* The motor objects implement heartbeat leases.
THEOREM MotorsHeldOnLeases == Spec => ImplementsHeartbeatLease
BY LeaseInit, LeaseNext, RegistryInductive, PTL DEF Spec, ImplementsHeartbeatLease, Lease!Spec
-----------------------------------------------------------------------------
(* Liveness, as far as no countdown is part of it.                         *)

\* The tasks return: what WF_vars(WithinTask) comes to, as a task has a step
\* for each of the finitely many motors that its message lists.
TasksReturn == []<>(task = "Idle")

\* A motor that keeps existing gets the value that keeps being asked for: the
\* task that handles a message with it does not return before it has recorded
\* it, by a complete update or by difference; only a heartbeat that deletes
\* the motor forgets the record, only another value replaces it; and a motor
\* holds what is recorded (HardwareAsConfigured).
THEOREM ConfiguredInTheEnd == Spec /\ TasksReturn => ConfiguredEventually
<1> SUFFICES ASSUME NEW id \in MotorIds, NEW setting \in Settings \ {DefaultSetting}
             PROVE  Spec /\ TasksReturn =>
                      ((/\ <>[]motorExists(id)
                        /\ <>[](AskedFor(id, setting) /\ id \notin writeFailed)
                        /\ []<><<ConfigBegin /\ id \in todo'>>_vars)
                       => <>[]HasSetting(id, setting))
  BY DEF ConfiguredEventually
<1> DEFINE Exists == motorExists(id)
           Asked == AskedFor(id, setting) /\ id \notin writeFailed
           Recorded == id \in DOMAIN mPrevMotorMsgs /\ mPrevMotorMsgs[id] = setting
           Begun == task = "Config" /\ id \in todo
           Idle == task = "Idle"
<1>1. <<ConfigBegin /\ id \in todo'>>_vars => Begun'
  BY DEF ConfigBegin
<1>2. Begun /\ Exists /\ Asked /\ [Next]_vars => Begun' \/ Recorded'
  <2> SUFFICES ASSUME Begun, Exists, Asked, [Next]_vars, ~Begun' PROVE Recorded'
    OBVIOUS
  <2>1. ConfigureAMotor
    BY DEF Next, WithinTask, ValuesBegin, ConfigBegin, processHeartbeat, CommandAMotor,
       CommandMotor, DisableMasters, ConfigEnd, SetControlMode, thread, vars
  <2>2. PICK i \in MotorIds : ConfigureMotor(i)
    BY <2>1 DEF ConfigureAMotor
  <2>3. i = id
    BY <2>2 DEF ConfigureMotor
  <2>4. QED
    BY <2>2, <2>3 DEF ConfigureMotor, setPrevMotorConfigMsg, Put, AskedFor
<1>3. Idle => ~Begun
  OBVIOUS
<1>4. IInv /\ Recorded /\ Asked /\ Exists' /\ [Next]_vars => Recorded'
  <2> SUFFICES ASSUME IInv, Recorded, Asked, Exists', [Next]_vars PROVE Recorded'
    OBVIOUS
  <2>1. CASE processHeartbeat
    <3>1. id \notin Expired
      BY <2>1 DEF processHeartbeat, motorExists, Restrict
    <3>2. QED
      BY <2>1, <3>1 DEF processHeartbeat, ForgetPrevious, Restrict
  <2>2. CASE ConfigureAMotor
    BY <2>2 DEF ConfigureAMotor, ConfigureMotor, setPrevMotorConfigMsg, Put, AskedFor
  <2>3. CASE UNCHANGED mPrevMotorMsgs
    BY <2>3
  <2>4. QED
    BY <2>1, <2>2, <2>3 DEF Next, WithinTask, ValuesBegin, ConfigBegin, CommandAMotor,
       CommandMotor, DisableMasters, ConfigEnd, SetControlMode, configs, vars
<1>5. IInv /\ Recorded /\ Asked /\ Exists => HasSetting(id, setting)
  BY DEF IInv, HardwareAsConfigured, HasSetting, motorExists
<1> HIDE DEF Exists, Asked, Recorded
<1>6. Spec /\ TasksReturn =>
        ((<>[]Exists /\ <>[]Asked /\ []<><<ConfigBegin /\ id \in todo'>>_vars)
           => <>[]HasSetting(id, setting))
  BY <1>1, <1>2, <1>3, <1>4, <1>5, RegistryInductive, PTL DEF Spec, TasksReturn
<1>7. QED
  BY <1>6 DEF Exists, Asked

\* What a step may do to the heartbeat of a follower whose master is gone.
OrphansOnlyAge ==
    [][\A id \in Followers :
         (~motorExists(MasterOf[id]) /\ motorExists(id)') =>
            /\ motorExists(id)
            /\ mRegisteredMotorHeartbeatList'[id] <= mRegisteredMotorHeartbeatList[id]
            /\ processHeartbeat =>
                 mRegisteredMotorHeartbeatList'[id] < mRegisteredMotorHeartbeatList[id]]_vars

\* Why a follower does not outlive its master: without the master no command
\* creates the follower or renews its heartbeat, however often it is
\* commanded, and every heartbeat takes a tick from it. What is left to
\* FollowerGoesWithMaster is that a countdown comes to its end.
THEOREM OrphanedFollowersAge == Spec => OrphansOnlyAge
<1> DEFINE Ages(id) ==
             (~motorExists(MasterOf[id]) /\ motorExists(id)') =>
                /\ motorExists(id)
                /\ mRegisteredMotorHeartbeatList'[id] <= mRegisteredMotorHeartbeatList[id]
                /\ processHeartbeat =>
                     mRegisteredMotorHeartbeatList'[id] < mRegisteredMotorHeartbeatList[id]
<1>1. IInv /\ [Next]_vars => [\A id \in Followers : Ages(id)]_vars
  <2> SUFFICES ASSUME IInv, Next, NEW id \in Followers,
                      ~motorExists(MasterOf[id]), motorExists(id)'
               PROVE  /\ motorExists(id)
                      /\ mRegisteredMotorHeartbeatList'[id] <= mRegisteredMotorHeartbeatList[id]
                      /\ processHeartbeat =>
                           mRegisteredMotorHeartbeatList'[id] < mRegisteredMotorHeartbeatList[id]
    OBVIOUS
  <2>1. /\ DOMAIN mRegisteredMotorHeartbeatList = DOMAIN mRegisteredMotorList
        /\ \A i \in DOMAIN mRegisteredMotorList : mRegisteredMotorHeartbeatList[i] \in Nat
    BY DEF IInv, TypeOK, IsMap, RegistriesAgree
  <2>2. CASE processHeartbeat
    BY <2>1, <2>2 DEF processHeartbeat, CountedDown, Restrict, motorExists
  <2>3. CASE ~processHeartbeat
    <3>1. /\ id \in DOMAIN mRegisteredMotorList
          /\ mRegisteredMotorHeartbeatList'[id] = mRegisteredMotorHeartbeatList[id]
      <4>1. ASSUME NEW i \in MotorIds, CommandMotor(i)
            PROVE  /\ id \in DOMAIN mRegisteredMotorList
                   /\ mRegisteredMotorHeartbeatList'[id] = mRegisteredMotorHeartbeatList[id]
        <5>1. CASE CommandAccepted(i)
          <6>1. i # id
            BY <5>1 DEF CommandAccepted
          <6>2. PICK type, motor : registerMotor(i, type, motor)
            BY <4>1, <5>1 DEF CommandMotor
          <6>3. QED
            BY <2>1, <6>1, <6>2 DEF registerMotor, Put, registry, motorExists
        <5>2. CASE ~CommandAccepted(i)
          BY <4>1, <5>2 DEF CommandMotor, registry, motorExists
        <5>3. QED
          BY <5>1, <5>2
      <4>2. CASE DisableMasters
        BY <4>2 DEF DisableMasters, motorExists
      <4>3. ASSUME NEW i \in MotorIds, ConfigureMotor(i)
            PROVE  /\ id \in DOMAIN mRegisteredMotorList
                   /\ mRegisteredMotorHeartbeatList'[id] = mRegisteredMotorHeartbeatList[id]
        <5>1. DOMAIN mRegisteredMotorList' = DOMAIN mRegisteredMotorList
          BY <4>3 DEF ConfigureMotor, Compare, updateFunction, fullUpdate,
             runPhoenixFunctionWithRetry
        <5>2. QED
          BY <4>3, <5>1 DEF ConfigureMotor, motorExists
      <4>4. CASE ValuesBegin \/ ConfigBegin \/ ConfigEnd \/ SetControlMode
        BY <4>4 DEF ValuesBegin, ConfigBegin, ConfigEnd, SetControlMode, registry, motorExists
      <4>5. QED
        BY <2>3, <4>1, <4>2, <4>3, <4>4 DEF Next, WithinTask, CommandAMotor, ConfigureAMotor
    <3>2. QED
      BY <2>1, <2>3, <3>1 DEF motorExists
  <2>4. QED
    BY <2>2, <2>3
<1>2. QED
  BY <1>1, RegistryInductive, PTL DEF Spec, OrphansOnlyAge
=============================================================================

---------------------------- MODULE MotorRegistry ----------------------------
(***************************************************************************)
(* The life of a motor object on the roboRIO. MotorManager creates one when *)
(* a motor control message names a motor whose configuration is known,     *)
(* ApplyMotorConfigTask configures it, completely at first and by          *)
(* difference to the previous message afterwards, and processHeartbeat     *)
(* deletes it when no command has named it for MaxHeartbeatTicks ticks.    *)
(*                                                                         *)
(* The tasks run one after the other on the scheduler thread; the main     *)
(* thread changes the control mode at any time. A task handles a message   *)
(* motor by motor, one step each, in the order the message lists them      *)
(* (any order). What a message says of a motor is chosen when its turn     *)
(* comes, except that all of a configuration message is stored at once.    *)
(***************************************************************************)
EXTENDS Naturals, FiniteSets, Functions

CONSTANTS
    MotorIds,          \* the motors that messages may name
    Followers,         \* motors commanded in Follower mode
    MasterOf,          \* the master that a follower's command names
    Settings,          \* values of a field that fullUpdate and a diff write
    DefaultSetting,    \* its protobuf default, the same as an absent field
    MaxHeartbeatTicks  \* kMaxHeartbeatTicks (250)

ASSUME RegistryAssumption ==
    /\ IsFiniteSet(MotorIds)
    /\ Followers \subseteq MotorIds
    /\ MasterOf \in [Followers -> MotorIds \ Followers]
    /\ DefaultSetting \in Settings
    /\ MaxHeartbeatTicks \in Nat \ {0}

VARIABLES
    \* MotorManager: three maps by motor id. The object in the first stands for
    \* the motor controller: its type, control mode, output, setting.
    mRegisteredMotorList,
    mRegisteredMotorTypeList,
    mRegisteredMotorHeartbeatList,
    \* MotorConfigManager: the last configuration received, the last applied.
    mMotorMsgs,
    mPrevMotorMsgs,
    \* RobotControlModeHelper: the robot is in disabled mode
    disabled,
    \* the scheduler thread: the task it runs, the motors not yet handled
    task,
    todo,
    listed,    \* how many motors the configuration message being applied lists
    \* history, read by properties only
    age,          \* heartbeats since a command kept the motor alive, up to the maximum
    writeFailed   \* motors with a setting that every retry failed to write

registry == <<mRegisteredMotorList, mRegisteredMotorTypeList, mRegisteredMotorHeartbeatList, age>>
configs  == <<mMotorMsgs, mPrevMotorMsgs>>
thread   == <<task, todo, listed>>
vars == <<registry, configs, disabled, thread, writeFailed>>

MotorType == {"TALON_FX", "TALON_SRX"}
Invalid   == "INVALID"
Output    == {"Zero", "Move"}
Motor == [type : MotorType, mode : {"Set", "Follower"}, output : Output, setting : Settings]

\* A std::map by motor id: a function on a subset of the ids.
IsMap(map, S) == DOMAIN map \subseteq MotorIds /\ map \in [DOMAIN map -> S]
EmptyMap == [id \in {} |-> DefaultSetting]
\* map[id] = v
Put(map, id, v) == [i \in DOMAIN map \cup {id} |-> IF i = id THEN v ELSE map[i]]
motorExists(id) == id \in DOMAIN mRegisteredMotorList

TypeOK ==
    /\ IsMap(mRegisteredMotorList, Motor)
    /\ IsMap(mRegisteredMotorTypeList, MotorType)
    /\ IsMap(mRegisteredMotorHeartbeatList, 1..MaxHeartbeatTicks)
    /\ IsMap(mMotorMsgs, Settings)
    /\ IsMap(mPrevMotorMsgs, Settings)
    /\ disabled \in BOOLEAN
    /\ task \in {"Idle", "Values", "Config"}
    /\ todo \subseteq MotorIds
    /\ listed \in Nat
    /\ IsMap(age, 0..MaxHeartbeatTicks)
    /\ writeFailed \subseteq MotorIds

Init ==
    /\ mRegisteredMotorList = EmptyMap
    /\ mRegisteredMotorTypeList = EmptyMap
    /\ mRegisteredMotorHeartbeatList = EmptyMap
    /\ mMotorMsgs = EmptyMap
    /\ mPrevMotorMsgs = EmptyMap
    /\ disabled = TRUE
    /\ task = "Idle"
    /\ todo = {}
    /\ listed = 0
    /\ age = EmptyMap
    /\ writeFailed = {}
-----------------------------------------------------------------------------
(* ApplyMotorValuesTask.                                                   *)

\* run: a control message is there (todo lists its motors) or none is.
ValuesBegin ==
    /\ task = "Idle"
    /\ task' = "Values"
    /\ todo' \in SUBSET MotorIds
    /\ UNCHANGED <<registry, configs, disabled, listed, writeFailed>>

\* registerMotor: renew the heartbeat, after creating a missing motor. A type
\* it cannot create is refused; an existing motor keeps its type. Nothing is
\* known of the setting of a controller that had no object, nor of the
\* output: a new object starts in the neutral Set mode.
registerMotor(id, type, motor) ==
    IF motorExists(id) \/ type \in MotorType
      THEN /\ mRegisteredMotorList' = Put(mRegisteredMotorList, id, motor)
           /\ mRegisteredMotorTypeList' =
                IF motorExists(id) THEN mRegisteredMotorTypeList
                                   ELSE Put(mRegisteredMotorTypeList, id, type)
           /\ mRegisteredMotorHeartbeatList' =
                Put(mRegisteredMotorHeartbeatList, id, MaxHeartbeatTicks)
           /\ age' = Put(age, id, 0)
           /\ writeFailed' = IF motorExists(id) THEN writeFailed ELSE writeFailed \ {id}
      ELSE UNCHANGED <<registry, writeFailed>>

\* The object registerMotor works on: the one in the map or a new one.
ObjectFor(id, type) ==
    IF motorExists(id)
      THEN {mRegisteredMotorList[id]}
      ELSE {[type |-> type, mode |-> "Set", output |-> "Zero", setting |-> s] : s \in Settings}

AnyCommandAccepted(id) == id \in DOMAIN mMotorMsgs
\* A motor without configuration is left alone, and so is a follower whose
\* master has no object.
CommandAccepted(id) ==
    /\ id \in DOMAIN mMotorMsgs
    /\ id \in Followers => motorExists(MasterOf[id])

\* One motor of the message. "NaN" stands for an infinite or NaN output, which
\* Set is not called with; Follow is called once, when not yet following.
CommandMotor(id) ==
    /\ task = "Values"
    /\ id \in todo
    /\ todo' = todo \ {id}
    /\ IF CommandAccepted(id)
         THEN \E type \in MotorType \cup {Invalid}, output \in Output \cup {"NaN"} :
              \E motor \in ObjectFor(id, type) :
                registerMotor(id, type,
                  IF id \in Followers
                    THEN IF motorExists(MasterOf[id]) THEN [motor EXCEPT !.mode = "Follower"]
                                                      ELSE motor
                  ELSE IF output \in Output THEN [motor EXCEPT !.mode = "Set", !.output = output]
                  ELSE motor)
         ELSE UNCHANGED <<registry, writeFailed>>
    /\ UNCHANGED <<configs, disabled, task, listed>>

\* The end of run: in disabled mode every motor that does not follow is zeroed.
DisableMasters ==
    /\ task = "Values"
    /\ todo = {}
    /\ task' = "Idle"
    /\ mRegisteredMotorList' =
         [id \in DOMAIN mRegisteredMotorList |->
            IF disabled /\ mRegisteredMotorList[id].mode # "Follower"
              THEN [mRegisteredMotorList[id] EXCEPT !.mode = "Set", !.output = "Zero"]
              ELSE mRegisteredMotorList[id]]
    /\ UNCHANGED <<mRegisteredMotorTypeList, mRegisteredMotorHeartbeatList, age, configs,
                   disabled, todo, listed, writeFailed>>
-----------------------------------------------------------------------------
(* ApplyMotorConfigTask.                                                   *)

\* run: setMotorsConfigMsg stores the configuration of every listed motor.
ConfigBegin ==
    /\ task = "Idle"
    /\ task' = "Config"
    /\ todo' \in SUBSET MotorIds
    /\ listed' = Cardinality(todo')
    /\ \E msg \in [todo' -> Settings] :
         mMotorMsgs' = [id \in DOMAIN mMotorMsgs \cup todo' |->
                          IF id \in todo' THEN msg[id] ELSE mMotorMsgs[id]]
    /\ UNCHANGED <<registry, mPrevMotorMsgs, disabled, writeFailed>>

PrevOrSame(id) == IF id \in DOMAIN mPrevMotorMsgs THEN mPrevMotorMsgs[id] ELSE mMotorMsgs[id]
\* operator[] on the map of previous messages inserts a default.
PrevOrDefault(id) == IF id \in DOMAIN mPrevMotorMsgs THEN mPrevMotorMsgs[id] ELSE DefaultSetting

\* The differencer calls the update functions of the fields that are new or
\* have another value. A field that went back to its default is absent from
\* the new message, and ReportDeleted does nothing.
ReportModified(id) ==
    mMotorMsgs[id] # PrevOrDefault(id) /\ mMotorMsgs[id] # DefaultSetting

\* runPhoenixFunctionWithRetry gives up after its last attempt.
runPhoenixFunctionWithRetry(id) ==
    \/ /\ mRegisteredMotorList' = [mRegisteredMotorList EXCEPT ![id].setting = mMotorMsgs[id]]
       /\ writeFailed' = writeFailed \ {id}
    \/ /\ UNCHANGED mRegisteredMotorList
       /\ writeFailed' = writeFailed \cup {id}

\* The update function registered for the field.
updateFunction(id) == runPhoenixFunctionWithRetry(id)

\* Writes every field.
fullUpdate(id) == runPhoenixFunctionWithRetry(id)

\* mDiff.Compare, with the update functions it calls.
Compare(id) ==
    IF ReportModified(id) THEN updateFunction(id)
                          ELSE UNCHANGED <<mRegisteredMotorList, writeFailed>>

\* Only the sizes of the message and of the map of previous messages decide.
ByDifference == listed = Cardinality(DOMAIN mPrevMotorMsgs)

setPrevMotorConfigMsg(id) == Put(mPrevMotorMsgs, id, mMotorMsgs[id])

\* One motor of the message, when it has an object. The message becomes
\* the previous one whether the write succeeded or not.
ConfigureMotor(id) ==
    /\ task = "Config"
    /\ id \in todo
    /\ todo' = todo \ {id}
    /\ IF motorExists(id)
         THEN /\ IF ByDifference THEN Compare(id) ELSE fullUpdate(id)
              /\ mPrevMotorMsgs' = setPrevMotorConfigMsg(id)
         ELSE UNCHANGED <<mRegisteredMotorList, mPrevMotorMsgs, writeFailed>>
    /\ UNCHANGED <<mRegisteredMotorTypeList, mRegisteredMotorHeartbeatList, age,
                   mMotorMsgs, disabled, task, listed>>

ConfigEnd ==
    /\ task = "Config"
    /\ todo = {}
    /\ task' = "Idle"
    /\ listed' = 0
    /\ UNCHANGED <<registry, configs, disabled, todo, writeFailed>>
-----------------------------------------------------------------------------
KeepTypes(ids) == mRegisteredMotorTypeList
\* MotorManager::deleteMotor forgets the type with the object.
ForgetTypes(ids) == Restrict(mRegisteredMotorTypeList, DOMAIN mRegisteredMotorTypeList \ ids)

KeepPrevious(ids) == mPrevMotorMsgs
\* MotorConfigManager::deleteMotor forgets both messages.
ForgetPrevious(ids) == Restrict(mPrevMotorMsgs, DOMAIN mPrevMotorMsgs \ ids)

ExpiredEarly == {id \in DOMAIN mRegisteredMotorHeartbeatList :
                   mRegisteredMotorHeartbeatList[id] <= 2}
ExpiredLate == {id \in DOMAIN mRegisteredMotorHeartbeatList :
                  mRegisteredMotorHeartbeatList[id] < 1}
\* Motors whose counter this tick brings to zero.
Expired == {id \in DOMAIN mRegisteredMotorHeartbeatList :
              mRegisteredMotorHeartbeatList[id] <= 1}

Uncounted(id) == mRegisteredMotorHeartbeatList[id]
CountedDown(id) == mRegisteredMotorHeartbeatList[id] - 1

\* MotorManager::processHeartbeat, one loop under motorLock, with deleteMotor.
processHeartbeat ==
    /\ task = "Idle"
    /\ LET alive(map) == Restrict(map, DOMAIN map \ Expired) IN
         /\ mRegisteredMotorList' = alive(mRegisteredMotorList)
         /\ mRegisteredMotorTypeList' = ForgetTypes(Expired)
         /\ mRegisteredMotorHeartbeatList' =
              [id \in DOMAIN mRegisteredMotorHeartbeatList \ Expired |-> CountedDown(id)]
         /\ age' = [id \in DOMAIN age \ Expired |->
                      IF age[id] < MaxHeartbeatTicks THEN age[id] + 1 ELSE age[id]]
         /\ mMotorMsgs' = alive(mMotorMsgs)
    /\ mPrevMotorMsgs' = ForgetPrevious(Expired)
    /\ UNCHANGED <<disabled, thread, writeFailed>>

\* The main thread enters or leaves disabled mode.
SetControlMode ==
    /\ disabled' = ~disabled
    /\ UNCHANGED <<registry, configs, thread, writeFailed>>
-----------------------------------------------------------------------------
CommandAMotor == \E id \in MotorIds : CommandMotor(id)
ConfigureAMotor == \E id \in MotorIds : ConfigureMotor(id)
\* Steps inside a task that has begun.
WithinTask == CommandAMotor \/ DisableMasters \/ ConfigureAMotor \/ ConfigEnd
Next == ValuesBegin \/ ConfigBegin \/ processHeartbeat \/ WithinTask \/ SetControlMode

Spec == Init /\ [][Next]_vars

\* A task that has begun goes on, and ProcessHeartbeatTask, which keeps coming
\* due, is run. Nobody has to send anything.
FairSpec == Spec /\ WF_vars(WithinTask) /\ SF_vars(processHeartbeat)
-----------------------------------------------------------------------------
\* MotorManager's three maps always list the same motors, and the type in the
\* type map, by which the config and send tasks downcast the object, is the
\* type it was created with, also after a motor was deleted and created again
\* with another type.
RegistriesAgree ==
    /\ DOMAIN mRegisteredMotorTypeList = DOMAIN mRegisteredMotorList
    /\ DOMAIN mRegisteredMotorHeartbeatList = DOMAIN mRegisteredMotorList
    /\ \A id \in DOMAIN mRegisteredMotorList :
         mRegisteredMotorTypeList[id] = mRegisteredMotorList[id].type

\* A motor object exists only while its configuration is known, and a message
\* counts as applied only while the object it was applied to exists.
ConfigurationKnown ==
    /\ DOMAIN mPrevMotorMsgs \subseteq DOMAIN mRegisteredMotorList
    /\ DOMAIN mRegisteredMotorList \subseteq DOMAIN mMotorMsgs

\* Whatever mixture of complete and differential updates a motor saw, under
\* whatever sets of motors the messages listed, it holds every value that the
\* message recorded as applied gives it: unless all retries of a write failed,
\* and except that a value which goes back to its default is not written by a
\* differential update.
HardwareAsConfigured ==
    \A id \in (DOMAIN mPrevMotorMsgs \cap DOMAIN mRegisteredMotorList) \ writeFailed :
       mPrevMotorMsgs[id] # DefaultSetting =>
          mRegisteredMotorList[id].setting = mPrevMotorMsgs[id]

\* A follower that exists follows: it never stays in the mode a new object
\* has, so the zeroing of masters in disabled mode never takes it off its master.
FollowersFollow ==
    \A id \in Followers \cap DOMAIN mRegisteredMotorList :
       mRegisteredMotorList[id].mode = "Follower"

\* A motor is deleted by the tick that completes MaxHeartbeatTicks ticks
\* without an accepted command, not before.
DeletedOnTime ==
    [][\A id \in MotorIds :
         motorExists(id) /\ ~motorExists(id)' => age[id] = MaxHeartbeatTicks - 1]_vars

\* The ticks that each object has left.
leases == [id \in DOMAIN mRegisteredMotorList |->
             IF id \in DOMAIN mRegisteredMotorHeartbeatList
               THEN mRegisteredMotorHeartbeatList[id] ELSE 0]
Lease == INSTANCE HeartbeatLease WITH
    Ids <- MotorIds,
    MaxTicks <- MaxHeartbeatTicks,
    left <- leases

\* The motor objects that the rest of the program finds are held on leases:
\* they come with a command, stay while commands come, and a heartbeat deletes
\* those it ends, whatever the configuration task does with them meanwhile.
ImplementsHeartbeatLease == Lease!Spec
-----------------------------------------------------------------------------
\* A motor that is no longer commanded is deleted.
SilentMotorDeleted ==
    \A id \in MotorIds :
       <>[][~CommandMotor(id)]_vars => <>[]~motorExists(id)

\* A follower does not outlive its master, although it is still commanded.
FollowerGoesWithMaster ==
    \A id \in Followers :
       <>[]~motorExists(MasterOf[id]) => <>[]~motorExists(id)

\* The configuration asked for, and the one the motor controller has.
AskedFor(id, setting) == id \in DOMAIN mMotorMsgs /\ mMotorMsgs[id] = setting
HasSetting(id, setting) == motorExists(id) /\ mRegisteredMotorList[id].setting = setting

\* A motor that keeps existing, while the messages that list it keep coming and
\* ask for the same value, gets that value for good, whatever was written
\* before it was created and whichever update the sizes chose, also one by
\* difference to a message that operator[] made up. Two cases are excluded,
\* because the code loses them: a write that failed at every retry, and the
\* default, which only a complete update writes.
ConfiguredEventually ==
    \A id \in MotorIds : \A setting \in Settings \ {DefaultSetting} :
       (/\ <>[]motorExists(id)
        /\ <>[](AskedFor(id, setting) /\ id \notin writeFailed)
        /\ []<><<ConfigBegin /\ id \in todo'>>_vars)
       => <>[]HasSetting(id, setting)
=============================================================================

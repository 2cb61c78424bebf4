------------------------------ MODULE Solenoids ------------------------------
(***************************************************************************)
(* The solenoid valves and the compressor. ApplySolenoidValuesTask applies *)
(* a message only when it differs from the previous one or when more than  *)
(* MandatoryTicks have passed since it last applied one, and only applying *)
(* a message renews the heartbeats that keep the solenoid objects alive.   *)
(* So two time-outs on two clocks have to fit together: rtTimer, which     *)
(* reads the time, and the heartbeats, which are counted by a task that    *)
(* may run late.                                                           *)
(*                                                                         *)
(* All this runs on the scheduler thread, a task at a time, so that a task *)
(* is one step; the main thread changes the control mode.                  *)
(***************************************************************************)
EXTENDS Naturals, FiniteSets, Functions

CONSTANTS
    SolenoidIds,        \* the ids, module and channel, that messages may list
    ModuleType,         \* the type of module that messages name for each of them
    Commands,           \* what a message may say of a solenoid
    Messages,           \* the messages that may come
    MaxHeartbeatTicks,  \* kMaxHeartbeatTicks (250)
    MandatoryTicks,     \* kMandatoryUpdatePerioduS in ticks of 20 ms (10)
    MaxLag              \* bound: the ticks processHeartbeat may be late by: time that
                        \* went by before the scheduler started, or in a stall

SolenoidType == {"SINGLE", "DOUBLE"}
\* The values CKSolenoid::set accepts for each type.
Accepted == [SINGLE |-> {"OFF", "ON"}, DOUBLE |-> {"OFF", "FORWARD", "REVERSE"}]
Value == {"OFF", "ON", "FORWARD", "REVERSE"}

ASSUME IdAssumption ==
    /\ SolenoidIds \subseteq Nat
    /\ ModuleType \in [SolenoidIds -> {"CTREPCM", "REVPH"}]

\* A message lists some solenoids; the compressor flag is its other field.
Message == [compressorIsEnabledForAuto : BOOLEAN,
            solenoids : UNION {[ids -> Commands] : ids \in SUBSET SolenoidIds}]

ASSUME SolenoidAssumption ==
    /\ Commands \subseteq [type : SolenoidType, value : Value]
    /\ Messages \subseteq Message
    /\ MaxHeartbeatTicks \in Nat \ {0}
    /\ MandatoryTicks \in Nat
    /\ MaxLag \in Nat \ {0}

VARIABLES
    \* SolenoidManager: three maps by solenoid id. The object in the first
    \* stands for the valve: its type and the value last written to it.
    mRegisteredSolenoidList,
    mRegisteredSolenoidTypeList,
    mRegisteredSolenoidHeartbeatList,
    \* ApplySolenoidValuesTask
    mPrevSolenoidMsg,
    rtTimer,          \* ticks since it was restarted, up to MandatoryTicks + 1
    compressor,       \* "None" before it is created, then mCompressorState
    \* RobotControlModeHelper: the control mode is TELEOP
    teleop,
    lag,              \* ticks of time not yet counted by processHeartbeat
    \* history, read by properties only
    silent,           \* for a solenoid with an object: heartbeats since a message
                      \* that parsed listed it, applied or not
    torn,             \* a message failed to parse since one was applied
    lastApplied,      \* the solenoids listed by the message applied last
    passedOver        \* solenoids with an object that a message listed anew and that
                      \* was not applied, nor any that lists them since

registry == <<mRegisteredSolenoidList, mRegisteredSolenoidTypeList,
              mRegisteredSolenoidHeartbeatList>>
taskVars == <<mPrevSolenoidMsg, rtTimer, compressor, torn, lastApplied>>
vars == <<registry, taskVars, teleop, lag, silent, passedOver>>

Valve == [type : SolenoidType, value : Value \cup {"Unknown"}]
Listed(msg) == DOMAIN msg.solenoids

IsMap(map, S) == DOMAIN map \subseteq SolenoidIds /\ map \in [DOMAIN map -> S]
EmptyMap == [id \in {} |-> 0]
\* map with the entries of new written over it
Overwrite(map, new) ==
    [id \in DOMAIN map \cup DOMAIN new |-> IF id \in DOMAIN new THEN new[id] ELSE map[id]]
registered(id) == id \in DOMAIN mRegisteredSolenoidList

\* The module is the high half of an id, and 1 instead of 0 on a REV hub; the
\* channel is the low half. CKSolenoid's constructor makes no hardware for others.
getModuleId(id) ==
    LET high == (id \div 65536) % 65536 IN
      IF ModuleType[id] = "REVPH" /\ high = 0 THEN 1 ELSE high
getSolenoidId(id) == id % 65536
HasHardware(id) ==
    IF ModuleType[id] = "CTREPCM" THEN getModuleId(id) < 64 /\ getSolenoidId(id) < 8
                                  ELSE getModuleId(id) < 63 /\ getSolenoidId(id) < 16

TypeOK ==
    /\ IsMap(mRegisteredSolenoidList, Valve)
    /\ IsMap(mRegisteredSolenoidTypeList, SolenoidType)
    /\ IsMap(mRegisteredSolenoidHeartbeatList, 1..MaxHeartbeatTicks)
    /\ mPrevSolenoidMsg.compressorIsEnabledForAuto \in BOOLEAN
    /\ IsMap(mPrevSolenoidMsg.solenoids, Commands)
    /\ rtTimer \in 0..(MandatoryTicks + 1)
    /\ compressor \in {"None", "Off", "On"}
    /\ teleop \in BOOLEAN
    /\ lag \in 0..MaxLag
    /\ silent \in [SolenoidIds -> 0..MaxHeartbeatTicks]
    /\ torn \in BOOLEAN
    /\ lastApplied \subseteq SolenoidIds
    /\ passedOver \subseteq SolenoidIds

Init ==
    /\ mRegisteredSolenoidList = EmptyMap
    /\ mRegisteredSolenoidTypeList = EmptyMap
    /\ mRegisteredSolenoidHeartbeatList = EmptyMap
    /\ mPrevSolenoidMsg = [compressorIsEnabledForAuto |-> FALSE, solenoids |-> EmptyMap]
    /\ rtTimer = 0
    /\ compressor = "None"
    /\ teleop = FALSE
    /\ lag \in 0..MaxLag
    /\ silent = [id \in SolenoidIds |-> 0]
    /\ torn = FALSE
    /\ lastApplied = {}
    /\ passedOver = {}
-----------------------------------------------------------------------------
(* ApplySolenoidValuesTask.                                                *)

SwitchedOn(msg) == IF msg.compressorIsEnabledForAuto \/ teleop THEN "On" ELSE compressor
\* A message that lists solenoids creates the compressor and switches it by
\* the control mode of the moment, whether the message is new or not.
Compressor(msg) ==
    IF Listed(msg) = {} THEN compressor
    ELSE IF ~msg.compressorIsEnabledForAuto /\ ~teleop THEN "Off"
    ELSE "On"

\* registerSolenoid gives back the object that exists, whatever its type, or a
\* new one; nothing is known of the output of a valve that had no object.
ObjectFor(id, cmd) ==
    IF registered(id) THEN mRegisteredSolenoidList[id]
                      ELSE [type |-> cmd.type, value |-> "Unknown"]

\* CKSolenoid::set refuses a value that the type of the object does not have,
\* and an object without hardware.
set(id, valve, value) ==
    IF HasHardware(id) /\ value \in Accepted[valve.type]
      THEN [valve EXCEPT !.value = value]
      ELSE valve

RetypedBy(msg) == [id \in Listed(msg) |-> msg.solenoids[id].type]
\* registerSolenoid records the type of a solenoid that it creates.
TypesFor(msg) == [id \in Listed(msg) |-> ObjectFor(id, msg.solenoids[id]).type]

\* Register and set every solenoid the message lists.
ApplyMessage(msg) ==
    /\ mRegisteredSolenoidList' =
         Overwrite(mRegisteredSolenoidList,
           [id \in Listed(msg) |->
              set(id, ObjectFor(id, msg.solenoids[id]), msg.solenoids[id].value)])
    /\ mRegisteredSolenoidTypeList' = Overwrite(mRegisteredSolenoidTypeList, TypesFor(msg))
    /\ mRegisteredSolenoidHeartbeatList' =
         Overwrite(mRegisteredSolenoidHeartbeatList,
                   [id \in Listed(msg) |-> MaxHeartbeatTicks])

ListsOthers(msg) == Listed(msg) # Listed(mPrevSolenoidMsg)
\* ~MessageDifferencer::Equivalent
Differs(msg) == msg # mPrevSolenoidMsg

NoMandatoryUpdate == FALSE
MandatoryUpdateDue == rtTimer > MandatoryTicks

\* run with a message. When ParseFromArray fails, msg is what it had read of
\* it until then: anything; it becomes the previous message all the same.
ApplySolenoidValues(msg, parsed) ==
    LET applied == parsed /\ (Differs(msg) \/ MandatoryUpdateDue) IN
    /\ IF applied THEN ApplyMessage(msg) ELSE UNCHANGED registry
    /\ rtTimer' = IF applied THEN 0 ELSE rtTimer
    /\ compressor' = IF parsed THEN Compressor(msg) ELSE compressor
    /\ mPrevSolenoidMsg' = msg
    /\ torn' = IF applied THEN FALSE ELSE torn \/ ~parsed
    /\ silent' = [id \in SolenoidIds |->
                    IF parsed /\ id \in Listed(msg) THEN 0 ELSE silent[id]]
    /\ lastApplied' = IF applied THEN Listed(msg) ELSE lastApplied
    /\ passedOver' =
         IF applied THEN passedOver \ Listed(msg)
         ELSE IF parsed THEN passedOver \cup {id \in Listed(msg) \ lastApplied : registered(id)}
         ELSE passedOver
    /\ UNCHANGED <<teleop, lag>>
-----------------------------------------------------------------------------
KeepTypes(ids) == mRegisteredSolenoidTypeList
\* deleteSolenoid forgets the type with the object.
ForgetTypes(ids) ==
    Restrict(mRegisteredSolenoidTypeList, DOMAIN mRegisteredSolenoidTypeList \ ids)

ExpiredLate == {id \in DOMAIN mRegisteredSolenoidHeartbeatList :
                  mRegisteredSolenoidHeartbeatList[id] < 1}
ExpiredEarly == {id \in DOMAIN mRegisteredSolenoidHeartbeatList :
                   mRegisteredSolenoidHeartbeatList[id] <= 2}
\* Solenoids whose counter this tick brings to zero.
Expired == {id \in DOMAIN mRegisteredSolenoidHeartbeatList :
              mRegisteredSolenoidHeartbeatList[id] <= 1}

\* SolenoidManager::processHeartbeat, with deleteSolenoid.
processHeartbeat ==
    /\ lag > 0
    /\ lag' = lag - 1
    /\ mRegisteredSolenoidList' =
         Restrict(mRegisteredSolenoidList, DOMAIN mRegisteredSolenoidList \ Expired)
    /\ mRegisteredSolenoidTypeList' = ForgetTypes(Expired)
    /\ mRegisteredSolenoidHeartbeatList' =
         [id \in DOMAIN mRegisteredSolenoidHeartbeatList \ Expired |->
            mRegisteredSolenoidHeartbeatList[id] - 1]
    /\ silent' = [id \in SolenoidIds |->
                    IF registered(id) /\ id \notin Expired THEN silent[id] + 1 ELSE 0]
    /\ passedOver' = passedOver \ Expired
    /\ UNCHANGED <<taskVars, teleop>>

\* 20 ms pass.
Tick ==
    /\ lag < MaxLag
    /\ lag' = lag + 1
    /\ rtTimer' = IF rtTimer <= MandatoryTicks THEN rtTimer + 1 ELSE rtTimer
    /\ UNCHANGED <<registry, mPrevSolenoidMsg, compressor, torn, lastApplied, teleop,
                   silent, passedOver>>

\* The main thread enters or leaves teleop.
SetControlMode ==
    /\ teleop' = ~teleop
    /\ UNCHANGED <<registry, taskVars, lag, silent, passedOver>>
-----------------------------------------------------------------------------
Next ==
    \/ \E msg \in Messages, parsed \in BOOLEAN : ApplySolenoidValues(msg, parsed)
    \/ processHeartbeat
    \/ Tick
    \/ SetControlMode

Spec == Init /\ [][Next]_vars

\* Time passes and the heartbeat task, which keeps coming due, is run. Nobody
\* has to send anything.
FairSpec == Spec /\ WF_vars(Tick) /\ WF_vars(processHeartbeat)
-----------------------------------------------------------------------------
\* SolenoidManager's three maps list the same solenoids, and the type recorded
\* is the type of the object, also when a message names another type.
RegistriesAgree ==
    /\ DOMAIN mRegisteredSolenoidTypeList = DOMAIN mRegisteredSolenoidList
    /\ DOMAIN mRegisteredSolenoidHeartbeatList = DOMAIN mRegisteredSolenoidList
    /\ \A id \in DOMAIN mRegisteredSolenoidList :
         mRegisteredSolenoidTypeList[id] = mRegisteredSolenoidList[id].type

\* Not applying a message that equals the previous one is sound: every valve
\* that exists has the value the last message gives it, unless a message that
\* failed to parse has come between, or the value is not one of its type.
ValvesAsCommanded ==
    ~torn => \A id \in Listed(mPrevSolenoidMsg) \cap DOMAIN mRegisteredSolenoidList :
       LET value == mPrevSolenoidMsg.solenoids[id].value IN
         HasHardware(id) /\ value \in Accepted[mRegisteredSolenoidList[id].type] =>
            mRegisteredSolenoidList[id].value = value

\* A solenoid that messages keep listing is not deleted, also when some of them
\* fail to parse: not applying equal messages shortens its life by the
\* mandatory period and the lateness of the heartbeat task at most. The
\* exception is a solenoid that messages begin to list again and that is passed
\* over: after such a message failed to parse, an equal good one is taken for
\* applied, and the lease of before, nearly over, goes on.
DeletedOnlyWhenSilent ==
    [][\A id \in SolenoidIds :
         registered(id) /\ ~registered(id)' =>
            \/ silent[id] + 1 + MandatoryTicks + MaxLag >= MaxHeartbeatTicks
            \/ id \in passedOver]_vars
-----------------------------------------------------------------------------
\* Steps: a message that parses and gives the solenoid the command; any message,
\* as all other steps take time or change the mode. A message, parsed or not,
\* is the previous message after its step.
Commanded(id, cmd) ==
    LET msg == mPrevSolenoidMsg' IN
      id \in Listed(msg) /\ msg.solenoids[id] = cmd /\ ApplySolenoidValues(msg, TRUE)
AnyMessage == UNCHANGED <<teleop, lag>>

\* A solenoid that every message from now on gives the same value gets it,
\* also after it was deleted and after a message that failed to parse, as long
\* as the object has the type the messages name.
CommandedComesBack ==
    \A id \in {i \in SolenoidIds : HasHardware(i)}, cmd \in Commands :
       (/\ []<><<AnyMessage>>_vars
        /\ <>[][AnyMessage => Commanded(id, cmd)]_vars) =>
          []<>(/\ registered(id)
               /\ (mRegisteredSolenoidList[id].type = cmd.type /\ cmd.value \in Accepted[cmd.type])
                     => mRegisteredSolenoidList[id].value = cmd.value)

\* Step: a message that parses, lists a solenoid and does not ask for the
\* compressor outside teleop.
NoCompressorAsked ==
    LET msg == mPrevSolenoidMsg' IN
       /\ Listed(msg) # {}
       /\ ~msg.compressorIsEnabledForAuto
       /\ ApplySolenoidValues(msg, TRUE)

\* Outside teleop the compressor stops, and stays off, when messages that do
\* not ask for it keep coming, even if they never change.
CompressorStops ==
    (/\ <>[]~teleop
     /\ []<><<AnyMessage>>_vars
     /\ <>[][AnyMessage => NoCompressorAsked]_vars) => <>[](compressor # "On")
=============================================================================

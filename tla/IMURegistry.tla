---------------------------- MODULE IMURegistry ----------------------------
(***************************************************************************)
(* The IMUs. ApplyIMUConfigTask registers every IMU that a configuration   *)
(* message lists, and writes its mount pose when the message differs from  *)
(* the last one recorded for it. Unlike the motors and the LED controllers *)
(* a message is recorded only when the write is reported as successful, so *)
(* that a failed one is tried again at the next message.                   *)
(*                                                                         *)
(* IMUs are independent of each other: a step is one IMU of one message.   *)
(* The heartbeat of an IMU is renewed but never counted, as                *)
(* ProcessHeartbeatTask does not call CKIMUManager: no object is deleted.  *)
(***************************************************************************)
EXTENDS Naturals

CONSTANTS
    IMUIds,             \* the IMUs that messages may list
    Poses,              \* mount poses
    DefaultPose,        \* the pose of a message that leaves its fields absent
    kPhoenixRetryCount, \* how often a failed call is repeated (3)
    MaxHeartbeatTicks   \* kMaxHeartbeatTicks (250)

ASSUME IMUAssumption ==
    /\ IMUIds \subseteq Nat
    /\ DefaultPose \in Poses
    /\ kPhoenixRetryCount \in Nat
    /\ MaxHeartbeatTicks \in Nat \ {0}

VARIABLES
    \* CKIMUManager: the ids with an object (always a CKPigeon2), and two maps
    mRegisteredIMUList,
    mRegisteredIMUTypeList,
    mRegisteredIMUHeartbeatList,
    mPrevIMUMsg,    \* ApplyIMUConfigTask: the last message recorded
    mounted,        \* the pose each IMU has
    \* history, read by properties only
    age,            \* ticks since a message listed the IMU, up to the maximum
    unreported      \* IMUs whose last write took place and was reported as failed

registry == <<mRegisteredIMUList, mRegisteredIMUTypeList, mRegisteredIMUHeartbeatList>>
vars == <<registry, mPrevIMUMsg, mounted, age, unreported>>

IMUType == {"PIGEON2", "NAVX"}
\* A configuration carries its id, so that only that of IMU 0 can equal the
\* default which operator[] makes up for an IMU without a recorded message.
Message(id) == [id : {id}, type : IMUType, pose : Poses]
DefaultMessage == [id |-> 0, type |-> "PIGEON2", pose |-> DefaultPose]

IsMap(map, S) == DOMAIN map \subseteq IMUIds /\ map \in [DOMAIN map -> S]
EmptyMap == [id \in {} |-> 0]
Put(map, id, v) == [i \in DOMAIN map \cup {id} |-> IF i = id THEN v ELSE map[i]]

TypeOK ==
    /\ mRegisteredIMUList \subseteq IMUIds
    /\ IsMap(mRegisteredIMUTypeList, IMUType)
    /\ IsMap(mRegisteredIMUHeartbeatList, 1..MaxHeartbeatTicks)
    /\ mPrevIMUMsg \in [IMUIds -> [id : IMUIds \cup {0}, type : IMUType, pose : Poses]]
    /\ mounted \in [IMUIds -> Poses]
    /\ age \in [IMUIds -> 0..MaxHeartbeatTicks]
    /\ unreported \subseteq IMUIds

Init ==
    /\ mRegisteredIMUList = {}
    /\ mRegisteredIMUTypeList = EmptyMap
    /\ mRegisteredIMUHeartbeatList = EmptyMap
    /\ mPrevIMUMsg = [id \in IMUIds |-> DefaultMessage]
    /\ mounted \in [IMUIds -> Poses]
    /\ age = [id \in IMUIds |-> MaxHeartbeatTicks]
    /\ unreported = {}
-----------------------------------------------------------------------------
\* registerIMU makes an object for a Pigeon only; type and heartbeat are
\* recorded whether there is an object or not, and whatever its type.
Exists(id, m) == id \in mRegisteredIMUList \/ m.type = "PIGEON2"
registerIMU(id, m) ==
    /\ mRegisteredIMUList' = IF Exists(id, m) THEN mRegisteredIMUList \cup {id}
                                              ELSE mRegisteredIMUList
    /\ mRegisteredIMUTypeList' = Put(mRegisteredIMUTypeList, id, m.type)
    /\ mRegisteredIMUHeartbeatList' = Put(mRegisteredIMUHeartbeatList, id, MaxHeartbeatTicks)

\* A call that succeeds for the first time at its k-th try, if it is tried
\* that often. The last try counts as failed whatever its result.
Written(k) == k <= kPhoenixRetryCount + 1
Reported(k) == k - 1 < kPhoenixRetryCount
Tries == 1..(kPhoenixRetryCount + 2)

\* onIMU with configMountPose; success stays true when there is no object.
configMountPose(id, m, k) ==
    IF Exists(id, m)
      THEN /\ mounted' = IF Written(k) THEN [mounted EXCEPT ![id] = m.pose] ELSE mounted
           /\ unreported' = IF Reported(k) THEN unreported \ {id}
                            ELSE IF Written(k) THEN unreported \cup {id}
                            ELSE unreported
      ELSE UNCHANGED <<mounted, unreported>>
AnySuccess(id, m, k) == TRUE
Success(id, m, k) == Exists(id, m) => Reported(k)

OnlyType(id, m) == m.type = mPrevIMUMsg[id].type
\* MessageDifferencer::Equivalent
Equivalent(id, m) == m = mPrevIMUMsg[id]

\* One IMU of a configuration message.
ConfigureIMU(id, m, k) ==
    /\ registerIMU(id, m)
    /\ IF Equivalent(id, m) THEN UNCHANGED <<mounted, unreported>> ELSE configMountPose(id, m, k)
    /\ mPrevIMUMsg' = IF Equivalent(id, m) \/ Success(id, m, k)
                        THEN [mPrevIMUMsg EXCEPT ![id] = m] ELSE mPrevIMUMsg
    /\ age' = [age EXCEPT ![id] = 0]

CountedOnly ==
    /\ mRegisteredIMUHeartbeatList' = [id \in DOMAIN mRegisteredIMUHeartbeatList |->
                                         mRegisteredIMUHeartbeatList[id] - 1]
    /\ UNCHANGED <<mRegisteredIMUList, mRegisteredIMUTypeList>>
\* ProcessHeartbeatTask::run counts the other managers' heartbeats.
NotCounted == UNCHANGED registry

ProcessHeartbeat ==
    /\ NotCounted
    /\ age' = [id \in IMUIds |-> IF age[id] < MaxHeartbeatTicks THEN age[id] + 1 ELSE age[id]]
    /\ UNCHANGED <<mPrevIMUMsg, mounted, unreported>>
-----------------------------------------------------------------------------
ConfigureAnIMU == \E id \in IMUIds : \E m \in Message(id), k \in Tries : ConfigureIMU(id, m, k)
Next == ConfigureAnIMU \/ ProcessHeartbeat

Spec == Init /\ [][Next]_vars
\* The heartbeat task is run again and again. Nobody has to send anything.
FairSpec == Spec /\ WF_vars(ProcessHeartbeat)
-----------------------------------------------------------------------------
\* Not writing a pose again for a message that equals the recorded one is
\* sound: an IMU whose recorded message names a Pigeon has the pose it gives,
\* also after writes that failed and messages that named another type. The
\* exceptions are the message that equals the made-up default, and a write
\* that took place and was reported as failed, as the last try always is.
PoseAsRecorded ==
    \A id \in IMUIds \ unreported :
       (mPrevIMUMsg[id] # DefaultMessage /\ mPrevIMUMsg[id].type = "PIGEON2") =>
          id \in mRegisteredIMUList /\ mounted[id] = mPrevIMUMsg[id].pose

\* The comment "5s timeout": an IMU that no message has listed for
\* kMaxHeartbeatTicks runs of ProcessHeartbeatTask has no object.
DeletedAfterTimeout == \A id \in mRegisteredIMUList : age[id] < MaxHeartbeatTicks

\* Steps: a message for the IMU; one that says m; one whose write is a success.
Sent(id) == \E m \in Message(id), k \in Tries : ConfigureIMU(id, m, k)
SentAlways(id, m) == \E k \in Tries : ConfigureIMU(id, m, k)
Succeeds(id, m) == \E k \in Tries : Reported(k) /\ ConfigureIMU(id, m, k)

\* A Pigeon to which the same configuration is sent from now on, again and
\* again, gets its pose for good, whatever was sent before, as soon as one write
\* is a success: no failure on the way makes the task give up.
PoseRetried ==
    \A id \in IMUIds : \A m \in {n \in Message(id) \ {DefaultMessage} : n.type = "PIGEON2"} :
       (/\ <>[][Sent(id) => SentAlways(id, m)]_vars
        /\ []<><<SentAlways(id, m)>>_vars
        /\ []<><<Succeeds(id, m)>>_vars
        /\ []<>(id \notin unreported)) =>
          <>[](id \in mRegisteredIMUList /\ mounted[id] = m.pose)
=============================================================================

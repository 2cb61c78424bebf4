------------------------- MODULE IMURegistryProofs -------------------------
(***************************************************************************)
(* IMURegistry's properties for every set of IMUs and poses, retry         *)
(* count and heartbeat limit: the record is true, and a pose that could not *)
(* be written is written later.                                            *)
(***************************************************************************)
EXTENDS IMURegistry, TLAPS

IInv == TypeOK /\ PoseAsRecorded
-----------------------------------------------------------------------------
\* Entering a value keeps a map a map.
LEMMA PutMap ==
    ASSUME NEW map, NEW S, IsMap(map, S), NEW id \in IMUIds, NEW v \in S
    PROVE  IsMap(Put(map, id, v), S)
BY DEF IsMap, Put

\* No IMU is registered at first, and none has a recorded message.
LEMMA IMUInit == Init => IInv
<1> SUFFICES ASSUME Init PROVE IInv
  OBVIOUS
<1>1. \A S : IsMap(EmptyMap, S)
  BY DEF IsMap, EmptyMap
<1>2. TypeOK
  <2>1. MaxHeartbeatTicks \in 0..MaxHeartbeatTicks
    BY IMUAssumption
  <2>2. IsMap(mRegisteredIMUTypeList, IMUType) /\ IsMap(mRegisteredIMUHeartbeatList, 1..MaxHeartbeatTicks)
    BY <1>1 DEF Init
  <2>3. mPrevIMUMsg \in [IMUIds -> [id : IMUIds \cup {0}, type : IMUType, pose : Poses]]
    BY IMUAssumption DEF Init, DefaultMessage, IMUType
  <2>4. age \in [IMUIds -> 0..MaxHeartbeatTicks]
    BY <2>1 DEF Init
  <2>5. mRegisteredIMUList \subseteq IMUIds /\ mounted \in [IMUIds -> Poses] /\ unreported \subseteq IMUIds
    BY DEF Init
  <2>6. QED
    BY <2>2, <2>3, <2>4, <2>5 DEF TypeOK
<1>3. PoseAsRecorded
  BY DEF Init, PoseAsRecorded
<1>4. QED
  BY <1>2, <1>3 DEF IInv

\* A try whose success is reported has taken place.
LEMMA ReportedIsWritten == \A k \in Tries : Reported(k) => Written(k)
BY IMUAssumption DEF Tries, Reported, Written

\* Configuring an IMU keeps the types.
LEMMA ConfigureType ==
    ASSUME TypeOK, NEW id \in IMUIds, NEW m \in Message(id), NEW k \in Tries,
           ConfigureIMU(id, m, k)
    PROVE  TypeOK'
<1>1. m.type \in IMUType /\ m.pose \in Poses
  BY DEF Message
<1>2. /\ (mRegisteredIMUList \subseteq IMUIds)'
      /\ IsMap(mRegisteredIMUTypeList, IMUType)'
      /\ IsMap(mRegisteredIMUHeartbeatList, 1..MaxHeartbeatTicks)'
  <2>1. MaxHeartbeatTicks \in 1..MaxHeartbeatTicks
    BY IMUAssumption
  <2>2. QED
    BY <1>1, <2>1, PutMap DEF ConfigureIMU, registerIMU, TypeOK
<1>3. (mPrevIMUMsg \in [IMUIds -> [id : IMUIds \cup {0}, type : IMUType, pose : Poses]])'
  BY DEF ConfigureIMU, Message, TypeOK
<1>4. (mounted \in [IMUIds -> Poses])' /\ (unreported \subseteq IMUIds)'
  BY <1>1 DEF ConfigureIMU, configMountPose, TypeOK
<1>5. (age \in [IMUIds -> 0..MaxHeartbeatTicks])'
  BY IMUAssumption DEF ConfigureIMU, TypeOK
<1>6. QED
  BY <1>2, <1>3, <1>4, <1>5 DEF TypeOK

\* Configuring an IMU writes the pose it records, or records nothing.
LEMMA ConfigurePose ==
    ASSUME IInv, NEW id \in IMUIds, NEW m \in Message(id), NEW k \in Tries,
           ConfigureIMU(id, m, k)
    PROVE  PoseAsRecorded'
<1> USE DEF IInv
<1>1. mRegisteredIMUList \subseteq mRegisteredIMUList'
  BY DEF ConfigureIMU, registerIMU
<1>2. CASE Equivalent(id, m)
  <2>1. UNCHANGED <<mPrevIMUMsg, mounted, unreported>>
    BY <1>2 DEF ConfigureIMU, Equivalent, TypeOK
  <2>2. QED
    BY <1>1, <2>1 DEF PoseAsRecorded
<1>3. CASE ~Equivalent(id, m)
  <2> SUFFICES ASSUME NEW i \in IMUIds \ unreported',
                      mPrevIMUMsg'[i] # DefaultMessage, mPrevIMUMsg'[i].type = "PIGEON2"
               PROVE  i \in mRegisteredIMUList' /\ mounted'[i] = mPrevIMUMsg'[i].pose
    BY DEF PoseAsRecorded
  <2>1. configMountPose(id, m, k)
    BY <1>3 DEF ConfigureIMU
  <2>2. mPrevIMUMsg' = IF Success(id, m, k) THEN [mPrevIMUMsg EXCEPT ![id] = m] ELSE mPrevIMUMsg
    BY <1>3 DEF ConfigureIMU
  <2>3. CASE i # id
    <3>1. mPrevIMUMsg'[i] = mPrevIMUMsg[i] /\ mounted'[i] = mounted[i]
      BY <2>1, <2>2, <2>3 DEF configMountPose, TypeOK
    <3>2. i \notin unreported
      BY <2>1, <2>3 DEF configMountPose
    <3>3. QED
      BY <1>1, <3>1, <3>2 DEF PoseAsRecorded
  <2>4. CASE i = id /\ ~Exists(id, m)
    <3>1. mPrevIMUMsg'[i] = m
      BY <2>2, <2>4 DEF Success, TypeOK
    <3>2. QED
      BY <2>4, <3>1 DEF Exists
  <2>5. CASE i = id /\ Exists(id, m) /\ Reported(k)
    <3>1. mPrevIMUMsg'[i] = m
      BY <2>2, <2>5 DEF Success, TypeOK
    <3>2. mounted'[i] = m.pose
      BY <2>1, <2>5, ReportedIsWritten DEF configMountPose, TypeOK
    <3>3. i \in mRegisteredIMUList'
      BY <2>5 DEF ConfigureIMU, registerIMU
    <3>4. QED
      BY <3>1, <3>2, <3>3
  <2>6. CASE i = id /\ Exists(id, m) /\ ~Reported(k)
    <3>1. UNCHANGED <<mPrevIMUMsg, mounted, unreported>>
      BY <2>1, <2>2, <2>6 DEF configMountPose, Success
    <3>2. QED
      BY <1>1, <3>1 DEF PoseAsRecorded
  <2>7. QED
    BY <2>3, <2>4, <2>5, <2>6
<1>4. QED
  BY <1>2, <1>3

\* Every step keeps the invariant.
LEMMA IMUInductive == IInv /\ [Next]_vars => IInv'
<1> SUFFICES ASSUME IInv, [Next]_vars PROVE IInv'
  OBVIOUS
<1>1. CASE ConfigureAnIMU
  BY <1>1, ConfigureType, ConfigurePose DEF ConfigureAnIMU, IInv
<1>2. CASE ProcessHeartbeat
  <2>1. UNCHANGED <<registry, mPrevIMUMsg, mounted, unreported>>
    BY <1>2 DEF ProcessHeartbeat, NotCounted
  <2>2. (age \in [IMUIds -> 0..MaxHeartbeatTicks])'
    BY <1>2, IMUAssumption DEF ProcessHeartbeat, IInv, TypeOK
  <2>3. QED
    BY <2>1, <2>2 DEF IInv, TypeOK, PoseAsRecorded, registry
<1>3. CASE UNCHANGED vars
  BY <1>3 DEF vars, registry, IInv, TypeOK, PoseAsRecorded
<1>4. QED
  BY <1>1, <1>2, <1>3 DEF Next

\* The invariant holds in every reachable state.
THEOREM IMUInvariant == Spec => []IInv
BY IMUInit, IMUInductive, PTL DEF Spec

\* Types: the registry's maps list IMUs with types of the enumeration and full
\* heartbeats, and a recorded message is one that was sent or the default.
THEOREM IMUTypeInvariant == Spec => []TypeOK
<1>1. IInv => TypeOK
  BY DEF IInv
<1>2. QED
  BY <1>1, IMUInvariant, PTL

\* A Pigeon has the pose of its recorded message, unless that message is the
\* made-up default or a write took place that was reported as failed.
THEOREM PoseIsAsRecorded == Spec => []PoseAsRecorded
<1>1. IInv => PoseAsRecorded
  BY DEF IInv
<1>2. QED
  BY <1>1, IMUInvariant, PTL
-----------------------------------------------------------------------------
\* Steps for the other IMUs, and heartbeats, leave an IMU's record and pose alone.
LEMMA OthersLeaveAlone ==
    ASSUME TypeOK, NEW id \in IMUIds, [Next]_vars, ~Sent(id)
    PROVE  /\ mPrevIMUMsg'[id] = mPrevIMUMsg[id]
           /\ id \in unreported' <=> id \in unreported
<1>1. ASSUME NEW i \in IMUIds, NEW m \in Message(i), NEW k \in Tries, ConfigureIMU(i, m, k)
      PROVE  /\ mPrevIMUMsg'[id] = mPrevIMUMsg[id]
             /\ id \in unreported' <=> id \in unreported
  <2>1. i # id
    BY <1>1 DEF Sent
  <2>2. QED
    BY <1>1, <2>1 DEF ConfigureIMU, configMountPose, TypeOK
<1>2. CASE ProcessHeartbeat
  BY <1>2 DEF ProcessHeartbeat
<1>3. CASE UNCHANGED vars
  BY <1>3 DEF vars
<1>4. QED
  BY <1>1, <1>2, <1>3 DEF Next, ConfigureAnIMU

\* The message that an IMU has on record can be sent again without effect.
LEMMA RecordedAgain ==
    ASSUME TypeOK, NEW id \in IMUIds, NEW m, mPrevIMUMsg[id] = m, SentAlways(id, m)
    PROVE  /\ mPrevIMUMsg'[id] = m
           /\ id \in unreported' <=> id \in unreported
BY DEF SentAlways, ConfigureIMU, Equivalent, TypeOK

\* A write that is a success records the message.
LEMMA SuccessRecords ==
    ASSUME TypeOK, NEW id \in IMUIds, NEW m, Succeeds(id, m)
    PROVE  mPrevIMUMsg'[id] = m
BY DEF Succeeds, ConfigureIMU, Success, TypeOK

\* A Pigeon that is sent the same configuration for ever gets its pose and
\* keeps it, if one write is a success. The message goes on record then, and
\* later ones that equal it change nothing; with PoseAsRecorded the pose is
\* right from the first moment on at which no unreported write is outstanding.
THEOREM PoseRetriedInTheEnd == Spec => PoseRetried
<1> SUFFICES ASSUME NEW id \in IMUIds,
                    NEW m \in {n \in Message(id) \ {DefaultMessage} : n.type = "PIGEON2"}
             PROVE  Spec => ((/\ <>[][Sent(id) => SentAlways(id, m)]_vars
                              /\ []<><<SentAlways(id, m)>>_vars
                              /\ []<><<Succeeds(id, m)>>_vars
                              /\ []<>(id \notin unreported)) =>
                                <>[](id \in mRegisteredIMUList /\ mounted[id] = m.pose))
  BY DEF PoseRetried
<1> DEFINE Recorded == mPrevIMUMsg[id] = m
           Reliable == id \notin unreported
<1>1. IInv /\ <<Succeeds(id, m)>>_vars => Recorded'
  BY SuccessRecords DEF IInv
<1>2. IInv /\ Recorded /\ [Next]_vars /\ [Sent(id) => SentAlways(id, m)]_vars => Recorded'
  <2> SUFFICES ASSUME IInv, Recorded, [Next]_vars, [Sent(id) => SentAlways(id, m)]_vars
               PROVE  Recorded'
    OBVIOUS
  <2>1. CASE Sent(id) /\ SentAlways(id, m)
    BY <2>1, RecordedAgain DEF IInv
  <2>2. CASE ~Sent(id)
    BY <2>2, OthersLeaveAlone DEF IInv
  <2>3. CASE UNCHANGED vars
    BY <2>3 DEF vars
  <2>4. QED
    BY <2>1, <2>2, <2>3
<1>3. IInv /\ Recorded /\ Reliable /\ [Next]_vars /\ [Sent(id) => SentAlways(id, m)]_vars =>
        Reliable'
  <2> SUFFICES ASSUME IInv, Recorded, Reliable, [Next]_vars, [Sent(id) => SentAlways(id, m)]_vars
               PROVE  Reliable'
    OBVIOUS
  <2>1. CASE Sent(id) /\ SentAlways(id, m)
    BY <2>1, RecordedAgain DEF IInv
  <2>2. CASE ~Sent(id)
    BY <2>2, OthersLeaveAlone DEF IInv
  <2>3. CASE UNCHANGED vars
    BY <2>3 DEF vars
  <2>4. QED
    BY <2>1, <2>2, <2>3
<1>4. IInv /\ Recorded /\ Reliable => id \in mRegisteredIMUList /\ mounted[id] = m.pose
  BY DEF IInv, PoseAsRecorded
<1>5. QED
  BY <1>1, <1>2, <1>3, <1>4, IMUInvariant, PTL DEF Spec
=============================================================================

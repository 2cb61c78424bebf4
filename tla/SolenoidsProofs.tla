--------------------------- MODULE SolenoidsProofs ---------------------------
(***************************************************************************)
(* Solenoids' properties for every set of solenoids and commands, every    *)
(* heartbeat limit, mandatory period and lateness: safety, the leases, and *)
(* that the commanded value arrives and the compressor stops.              *)
(***************************************************************************)
EXTENDS Solenoids, TLAPS

\* What a heartbeat has lost. At least the silence of the senders. If the last
\* message applied listed the solenoid and the mandatory update is not due, at
\* most one for every tick since then that the lateness has caught up with. And
\* in the end at most what the silence, the mandatory period and the lateness
\* account for, unless the solenoid was passed over.
HeartbeatInv ==
    \A id \in DOMAIN mRegisteredSolenoidList :
       /\ mRegisteredSolenoidHeartbeatList[id] + silent[id] <= MaxHeartbeatTicks
       /\ (id \in lastApplied /\ rtTimer <= MandatoryTicks) =>
             MaxHeartbeatTicks + lag <= mRegisteredSolenoidHeartbeatList[id] + rtTimer + MaxLag
       /\ \/ id \in passedOver
          \/ MaxHeartbeatTicks <=
                mRegisteredSolenoidHeartbeatList[id] + silent[id] + MandatoryTicks + MaxLag

IInv == TypeOK /\ RegistriesAgree /\ ValvesAsCommanded /\ HeartbeatInv
-----------------------------------------------------------------------------
\* A message lists solenoids, and gives each of them a command.
LEMMA MessageType ==
    ASSUME NEW msg \in Messages
    PROVE  /\ msg.compressorIsEnabledForAuto \in BOOLEAN
           /\ IsMap(msg.solenoids, Commands)
<1>1. msg.solenoids \in UNION {[ids -> Commands] : ids \in SUBSET SolenoidIds}
  BY SolenoidAssumption DEF Message
<1>2. PICK ids \in SUBSET SolenoidIds : msg.solenoids \in [ids -> Commands]
  BY <1>1
<1>3. QED
  BY <1>2, SolenoidAssumption DEF Message, IsMap

\* A command names a type and a value.
LEMMA CommandType ==
    ASSUME NEW cmd \in Commands
    PROVE  cmd.type \in SolenoidType /\ cmd.value \in Value
BY SolenoidAssumption

\* The program starts with no solenoid.
LEMMA SolenoidsInit == Init => IInv
<1> SUFFICES ASSUME Init PROVE IInv
  OBVIOUS
<1> USE SolenoidAssumption
<1>1. DOMAIN EmptyMap = {} /\ \A S : IsMap(EmptyMap, S)
  BY DEF EmptyMap, IsMap
<1>2. TypeOK
  <2>1. /\ mPrevSolenoidMsg.compressorIsEnabledForAuto \in BOOLEAN
        /\ mPrevSolenoidMsg.solenoids = EmptyMap
    BY DEF Init
  <2>2. 0 \in 0..(MandatoryTicks + 1)
    OBVIOUS
  <2>3. [id \in SolenoidIds |-> 0] \in [SolenoidIds -> 0..MaxHeartbeatTicks]
    OBVIOUS
  <2>4. /\ IsMap(EmptyMap, Valve)
        /\ IsMap(EmptyMap, SolenoidType)
        /\ IsMap(EmptyMap, 1..MaxHeartbeatTicks)
        /\ IsMap(EmptyMap, Commands)
    BY <1>1
  <2>5. QED
    BY <2>1, <2>2, <2>3, <2>4 DEF Init, TypeOK
<1>3. RegistriesAgree /\ ValvesAsCommanded /\ HeartbeatInv
  BY <1>1 DEF Init, RegistriesAgree, ValvesAsCommanded, HeartbeatInv
<1>4. QED
  BY <1>2, <1>3 DEF IInv

\* The valve a message is written to has a type, and keeps it.
LEMMA WrittenValve ==
    ASSUME TypeOK, NEW id \in SolenoidIds, NEW cmd \in Commands
    PROVE  LET valve == ObjectFor(id, cmd)
               written == set(id, valve, cmd.value)
           IN /\ valve \in Valve
              /\ written \in Valve
              /\ written.type = valve.type
              /\ (HasHardware(id) /\ cmd.value \in Accepted[valve.type]) =>
                    written.value = cmd.value
<1> DEFINE valve == ObjectFor(id, cmd)
<1>1. cmd.type \in SolenoidType /\ cmd.value \in Value
  BY CommandType
<1>2. valve \in Valve
  <2>1. CASE registered(id)
    BY <2>1 DEF TypeOK, IsMap, registered, ObjectFor
  <2>2. CASE ~registered(id)
    BY <1>1, <2>2 DEF ObjectFor, Valve
  <2>3. QED
    BY <2>1, <2>2
<1> HIDE DEF valve
<1>3. set(id, valve, cmd.value) \in Valve
  BY <1>1, <1>2 DEF set, Valve
<1>4. set(id, valve, cmd.value).type = valve.type
  BY <1>2 DEF set, Valve
<1>5. (HasHardware(id) /\ cmd.value \in Accepted[valve.type]) =>
        set(id, valve, cmd.value).value = cmd.value
  BY <1>2 DEF set, Valve
<1>6. QED
  BY <1>2, <1>3, <1>4, <1>5 DEF valve

\* Applying a message registers and writes every solenoid it lists.
LEMMA ApplyInductive ==
    ASSUME IInv, NEW msg \in Messages, ApplyMessage(msg),
           mPrevSolenoidMsg' = msg, rtTimer' = 0, torn' = FALSE,
           compressor' = Compressor(msg),
           silent' = [id \in SolenoidIds |-> IF id \in Listed(msg) THEN 0 ELSE silent[id]],
           lastApplied' = Listed(msg), passedOver' = passedOver \ Listed(msg),
           UNCHANGED <<teleop, lag>>
    PROVE  IInv'
<1> USE SolenoidAssumption DEF IInv
<1> DEFINE List == mRegisteredSolenoidList
           Types == mRegisteredSolenoidTypeList
           Beats == mRegisteredSolenoidHeartbeatList
           cmds == msg.solenoids
<1>1. Listed(msg) \subseteq SolenoidIds /\ \A id \in Listed(msg) : cmds[id] \in Commands
  BY MessageType DEF IsMap, Listed
<1>2. /\ DOMAIN List \subseteq SolenoidIds
      /\ \A id \in DOMAIN List : List[id] \in Valve
      /\ DOMAIN Types = DOMAIN List
      /\ DOMAIN Beats = DOMAIN List
      /\ \A id \in DOMAIN List : Beats[id] \in 1..MaxHeartbeatTicks
      /\ \A id \in DOMAIN List : Types[id] = List[id].type
  BY DEF TypeOK, IsMap, RegistriesAgree
<1>3. /\ DOMAIN List' = DOMAIN List \cup Listed(msg)
      /\ DOMAIN Types' = DOMAIN List \cup Listed(msg)
      /\ DOMAIN Beats' = DOMAIN List \cup Listed(msg)
  BY <1>2 DEF ApplyMessage, Overwrite, TypesFor
<1>4. \A id \in Listed(msg) :
        /\ List'[id] = set(id, ObjectFor(id, cmds[id]), cmds[id].value)
        /\ Types'[id] = ObjectFor(id, cmds[id]).type
        /\ Beats'[id] = MaxHeartbeatTicks
  BY <1>2 DEF ApplyMessage, Overwrite, TypesFor
<1>5. \A id \in DOMAIN List \ Listed(msg) :
        List'[id] = List[id] /\ Types'[id] = Types[id] /\ Beats'[id] = Beats[id]
  BY <1>2 DEF ApplyMessage, Overwrite, TypesFor
<1>6. \A id \in DOMAIN List' : List'[id] \in Valve /\ Types'[id] = List'[id].type
  BY <1>1, <1>2, <1>3, <1>4, <1>5, WrittenValve
<1>7. \A id \in DOMAIN List' : Beats'[id] \in 1..MaxHeartbeatTicks
  BY <1>2, <1>3, <1>4, <1>5
<1>8. TypeOK'
  <2>1. /\ IsMap(List, Valve)'
        /\ IsMap(Types, SolenoidType)'
        /\ IsMap(Beats, 1..MaxHeartbeatTicks)'
    <3>1. /\ List' = [id \in DOMAIN List' |-> List'[id]]
          /\ Types' = [id \in DOMAIN Types' |-> Types'[id]]
          /\ Beats' = [id \in DOMAIN Beats' |-> Beats'[id]]
      BY DEF ApplyMessage, Overwrite
    <3>2. \A id \in DOMAIN List' : Types'[id] \in SolenoidType
      BY <1>6 DEF Valve
    <3>3. DOMAIN List' \subseteq SolenoidIds
      BY <1>1, <1>2, <1>3
    <3>4. QED
      BY <1>3, <1>6, <1>7, <3>1, <3>2, <3>3 DEF IsMap
  <2>2. compressor' \in {"None", "Off", "On"}
    BY DEF Compressor, TypeOK
  <2>3. silent' \in [SolenoidIds -> 0..MaxHeartbeatTicks]
    BY DEF TypeOK
  <2>4. /\ mPrevSolenoidMsg'.compressorIsEnabledForAuto \in BOOLEAN
        /\ IsMap(mPrevSolenoidMsg.solenoids, Commands)'
    BY MessageType DEF IsMap
  <2>5. 0 \in 0..(MandatoryTicks + 1)
    OBVIOUS
  <2>6. lastApplied' \subseteq SolenoidIds /\ passedOver' \subseteq SolenoidIds
    BY <1>1 DEF TypeOK
  <2>7. QED
    BY <2>1, <2>2, <2>3, <2>4, <2>5, <2>6 DEF TypeOK
<1>9. RegistriesAgree'
  BY <1>3, <1>6 DEF RegistriesAgree
<1>10. ValvesAsCommanded'
  <2> SUFFICES ASSUME NEW id \in Listed(msg), HasHardware(id),
                      cmds[id].value \in Accepted[List'[id].type]
               PROVE  List'[id].value = cmds[id].value
    BY DEF ValvesAsCommanded
  <2>1. QED
    BY <1>1, <1>4, WrittenValve
<1>11. HeartbeatInv'
  <2>1. \A id \in Listed(msg) : Beats'[id] = MaxHeartbeatTicks /\ silent'[id] = 0
    BY <1>1, <1>4
  <2>2. \A id \in DOMAIN List \ Listed(msg) : Beats'[id] = Beats[id] /\ silent'[id] = silent[id]
    BY <1>2, <1>5
  <2>3. lag \in 0..MaxLag
    BY DEF TypeOK
  <2>4. \A id \in DOMAIN List : Beats[id] \in Nat /\ silent[id] \in Nat
    BY <1>2 DEF TypeOK
  <2>5. \A id \in DOMAIN List' \ Listed(msg) :
          /\ Beats'[id] + silent'[id] <= MaxHeartbeatTicks
          /\ \/ id \in passedOver'
             \/ MaxHeartbeatTicks <= Beats'[id] + silent'[id] + MandatoryTicks + MaxLag
    BY <1>3, <2>2, <2>4 DEF HeartbeatInv
  <2>6. \A id \in Listed(msg) :
          /\ Beats'[id] + silent'[id] <= MaxHeartbeatTicks
          /\ MaxHeartbeatTicks + lag <= Beats'[id] + 0 + MaxLag
          /\ MaxHeartbeatTicks <= Beats'[id] + silent'[id] + MandatoryTicks + MaxLag
    BY <2>1, <2>3
  <2>7. QED
    BY <1>3, <2>5, <2>6 DEF HeartbeatInv
<1>12. QED
  BY <1>8, <1>9, <1>10, <1>11

\* A message that is not applied changes the previous message and the
\* compressor only.
LEMMA SkipInductive ==
    ASSUME IInv, NEW msg \in Messages, NEW parsed \in BOOLEAN,
           ApplySolenoidValues(msg, parsed),
           ~(parsed /\ (Differs(msg) \/ MandatoryUpdateDue))
    PROVE  IInv'
<1> USE SolenoidAssumption DEF IInv
<1>1. /\ UNCHANGED <<registry, rtTimer, teleop, lag, lastApplied>>
      /\ mPrevSolenoidMsg' = msg
      /\ torn' = (torn \/ ~parsed)
      /\ compressor' = IF parsed THEN Compressor(msg) ELSE compressor
      /\ silent' = [id \in SolenoidIds |->
                      IF parsed /\ id \in Listed(msg) THEN 0 ELSE silent[id]]
      /\ passedOver' =
           IF parsed THEN passedOver \cup {id \in Listed(msg) \ lastApplied : registered(id)}
                     ELSE passedOver
  BY DEF ApplySolenoidValues
<1>2. TypeOK'
  <2>1. compressor' \in {"None", "Off", "On"}
    BY <1>1 DEF Compressor, TypeOK
  <2>2. silent' \in [SolenoidIds -> 0..MaxHeartbeatTicks]
    BY <1>1 DEF TypeOK
  <2>3. torn' \in BOOLEAN
    BY <1>1 DEF TypeOK
  <2>4. passedOver' \subseteq SolenoidIds
    BY <1>1 DEF TypeOK, IsMap, registered
  <2>5. QED
    BY <1>1, <2>1, <2>2, <2>3, <2>4, MessageType DEF TypeOK, IsMap, registry
<1>3. /\ ~torn' => ~torn /\ msg = mPrevSolenoidMsg
      /\ parsed => rtTimer <= MandatoryTicks
  <2>1. rtTimer \in Nat
    BY DEF TypeOK
  <2>2. ~torn' => ~torn /\ parsed
    BY <1>1, Zenon
  <2>3. parsed => msg = mPrevSolenoidMsg /\ ~MandatoryUpdateDue
    BY Zenon DEF Differs
  <2>4. QED
    BY <2>1, <2>2, <2>3 DEF MandatoryUpdateDue
<1>4. RegistriesAgree' /\ ValvesAsCommanded'
  BY <1>1, <1>3 DEF RegistriesAgree, ValvesAsCommanded, registry
<1>5. HeartbeatInv'
  <2> DEFINE beats(id) == mRegisteredSolenoidHeartbeatList[id]
  <2> SUFFICES ASSUME NEW id \in DOMAIN mRegisteredSolenoidList
               PROVE  /\ beats(id) + silent'[id] <= MaxHeartbeatTicks
                      /\ (id \in lastApplied /\ rtTimer <= MandatoryTicks) =>
                            MaxHeartbeatTicks + lag <= beats(id) + rtTimer + MaxLag
                      /\ \/ id \in passedOver'
                         \/ MaxHeartbeatTicks <=
                               beats(id) + silent'[id] + MandatoryTicks + MaxLag
    BY <1>1 DEF HeartbeatInv, registry
  <2>1. /\ id \in SolenoidIds
        /\ beats(id) \in 1..MaxHeartbeatTicks
        /\ lag \in Nat /\ rtTimer \in Nat
    BY DEF TypeOK, IsMap, RegistriesAgree
  <2>2. passedOver \subseteq passedOver'
    BY <1>1
  <2>3. CASE silent'[id] = silent[id]
    BY <2>1, <2>2, <2>3 DEF HeartbeatInv
  <2>4. CASE silent'[id] # silent[id]
    <3>1. parsed /\ id \in Listed(msg) /\ silent'[id] = 0
      BY <1>1, <2>1, <2>4
    <3>2. id \notin lastApplied => id \in passedOver'
      BY <1>1, <3>1 DEF registered
    <3>3. rtTimer <= MandatoryTicks
      BY <1>3, <3>1
    <3>4. QED
      BY <2>1, <3>1, <3>2, <3>3 DEF HeartbeatInv
  <2>5. QED
    BY <2>3, <2>4
<1>6. QED
  BY <1>2, <1>4, <1>5

\* A tick of the heartbeat task deletes the solenoids whose time is up.
LEMMA HeartbeatInductive ==
    ASSUME IInv, processHeartbeat
    PROVE  IInv'
<1> USE SolenoidAssumption DEF IInv
<1> DEFINE List == mRegisteredSolenoidList
           Types == mRegisteredSolenoidTypeList
           Beats == mRegisteredSolenoidHeartbeatList
<1>1. /\ DOMAIN List \subseteq SolenoidIds
      /\ \A id \in DOMAIN List : List[id] \in Valve
      /\ DOMAIN Types = DOMAIN List
      /\ DOMAIN Beats = DOMAIN List
      /\ \A id \in DOMAIN List : Beats[id] \in 1..MaxHeartbeatTicks
      /\ \A id \in DOMAIN List : Types[id] = List[id].type
  BY DEF TypeOK, IsMap, RegistriesAgree
<1>2. /\ List' = [id \in DOMAIN List \ Expired |-> List[id]]
      /\ Types' = [id \in DOMAIN List \ Expired |-> Types[id]]
      /\ Beats' = [id \in DOMAIN List \ Expired |-> Beats[id] - 1]
  BY <1>1 DEF processHeartbeat, ForgetTypes, Restrict
<1>3. \A id \in DOMAIN List \ Expired : Beats[id] - 1 \in 1..MaxHeartbeatTicks
  BY <1>1 DEF Expired
<1>4. /\ lag \in 1..MaxLag /\ lag' = lag - 1
      /\ UNCHANGED <<taskVars, teleop>>
  BY DEF processHeartbeat, TypeOK
<1>5. /\ silent' \in [SolenoidIds -> 0..MaxHeartbeatTicks]
      /\ \A id \in DOMAIN List \ Expired : silent[id] \in Nat /\ silent'[id] = silent[id] + 1
  <2>1. \A id \in DOMAIN List \ Expired : silent[id] + 1 \in 0..MaxHeartbeatTicks
    BY <1>1 DEF TypeOK, HeartbeatInv, Expired
  <2>2. QED
    BY <1>1, <2>1 DEF processHeartbeat, TypeOK, registered
<1>6. TypeOK'
  <2>1. /\ IsMap(List, Valve)'
        /\ IsMap(Types, SolenoidType)'
        /\ IsMap(Beats, 1..MaxHeartbeatTicks)'
    BY <1>1, <1>2, <1>3 DEF IsMap, Valve
  <2>2. passedOver' \subseteq SolenoidIds
    BY DEF processHeartbeat, TypeOK
  <2>3. QED
    BY <1>4, <1>5, <2>1, <2>2 DEF TypeOK, IsMap, taskVars
<1>7. RegistriesAgree'
  BY <1>1, <1>2 DEF RegistriesAgree
<1>8. ValvesAsCommanded'
  BY <1>2, <1>4 DEF ValvesAsCommanded, taskVars
<1>9. HeartbeatInv'
  <2> SUFFICES ASSUME NEW id \in DOMAIN List, id \notin Expired
               PROVE  /\ Beats[id] - 1 + silent'[id] <= MaxHeartbeatTicks
                      /\ (id \in lastApplied /\ rtTimer <= MandatoryTicks) =>
                            MaxHeartbeatTicks + lag - 1 <= Beats[id] - 1 + rtTimer + MaxLag
                      /\ \/ id \in passedOver
                         \/ MaxHeartbeatTicks <=
                               Beats[id] - 1 + silent'[id] + MandatoryTicks + MaxLag
    BY <1>2, <1>4 DEF HeartbeatInv, taskVars, processHeartbeat
  <2>1. Beats[id] \in 2..MaxHeartbeatTicks /\ id \in SolenoidIds
    BY <1>1 DEF Expired
  <2>2. rtTimer \in Nat
    BY DEF TypeOK
  <2>3. QED
    BY <1>4, <1>5, <2>1, <2>2 DEF HeartbeatInv
<1>10. QED
  BY <1>6, <1>7, <1>8, <1>9

\* Time passes.
LEMMA TickInductive ==
    ASSUME IInv, Tick
    PROVE  IInv'
<1> USE SolenoidAssumption DEF IInv
<1>1. TypeOK'
  BY DEF Tick, TypeOK, IsMap, registry
<1>2. RegistriesAgree' /\ ValvesAsCommanded'
  BY DEF Tick, RegistriesAgree, ValvesAsCommanded, registry
<1>3. HeartbeatInv'
  <2>1. \A id \in DOMAIN mRegisteredSolenoidList : mRegisteredSolenoidHeartbeatList[id] \in Nat
    BY DEF TypeOK, IsMap, RegistriesAgree
  <2>2. rtTimer \in Nat /\ lag \in Nat
    BY DEF TypeOK
  <2>3. QED
    BY <2>1, <2>2 DEF Tick, HeartbeatInv, registry
<1>4. QED
  BY <1>1, <1>2, <1>3

\* The invariant holds in every reachable state.
LEMMA Inductive == Spec => []IInv
<1>1. IInv /\ [Next]_vars => IInv'
  <2> SUFFICES ASSUME IInv, [Next]_vars PROVE IInv'
    OBVIOUS
  <2>1. ASSUME NEW msg \in Messages, NEW parsed \in BOOLEAN, ApplySolenoidValues(msg, parsed)
        PROVE  IInv'
    <3>1. CASE parsed /\ (Differs(msg) \/ MandatoryUpdateDue)
      <4>1. /\ ApplyMessage(msg)
            /\ mPrevSolenoidMsg' = msg /\ rtTimer' = 0 /\ torn' = FALSE
            /\ compressor' = Compressor(msg)
            /\ silent' = [id \in SolenoidIds |-> IF id \in Listed(msg) THEN 0 ELSE silent[id]]
            /\ lastApplied' = Listed(msg) /\ passedOver' = passedOver \ Listed(msg)
            /\ UNCHANGED <<teleop, lag>>
        BY <2>1, <3>1 DEF ApplySolenoidValues
      <4>2. QED
        BY <4>1, ApplyInductive
    <3>2. CASE ~(parsed /\ (Differs(msg) \/ MandatoryUpdateDue))
      BY <2>1, <3>2, SkipInductive
    <3>3. QED
      BY <3>1, <3>2
  <2>2. CASE processHeartbeat
    BY <2>2, HeartbeatInductive
  <2>3. CASE Tick
    BY <2>3, TickInductive
  <2>4. CASE SetControlMode
    BY <2>4 DEF SetControlMode, registry, taskVars, IInv, TypeOK, IsMap, RegistriesAgree,
       ValvesAsCommanded, HeartbeatInv
  <2>5. CASE UNCHANGED vars
    BY <2>5 DEF vars, registry, taskVars, IInv, TypeOK, IsMap, RegistriesAgree,
       ValvesAsCommanded, HeartbeatInv
  <2>6. QED
    BY <2>1, <2>2, <2>3, <2>4, <2>5 DEF Next
<1>2. QED
  BY SolenoidsInit, <1>1, PTL DEF Spec
-----------------------------------------------------------------------------
\* Every variable keeps its type.
THEOREM SolenoidsTypeInvariant == Spec => []TypeOK
BY Inductive, PTL DEF IInv

\* The maps of SolenoidManager list the same solenoids, with the types of
\* their objects.
THEOREM SolenoidRegistriesAgree == Spec => []RegistriesAgree
BY Inductive, PTL DEF IInv

\* Comparing a message with the previous one never leaves a valve at another
\* value than the messages give it.
THEOREM SkippingIsSound == Spec => []ValvesAsCommanded
BY Inductive, PTL DEF IInv

\* Whatever the heartbeat limit, the mandatory period and the lateness of the
\* heartbeat task, a solenoid is deleted only after a silence that lasts as
\* long as the limit less the other two, or when it was passed over: messages
\* began to list it again and the good one was taken for applied.
THEOREM SilenceBeforeDeletion == Spec => DeletedOnlyWhenSilent
<1> DEFINE AfterSilence == \A id \in SolenoidIds :
             registered(id) /\ ~registered(id)' =>
                \/ silent[id] + 1 + MandatoryTicks + MaxLag >= MaxHeartbeatTicks
                \/ id \in passedOver
<1>1. IInv /\ [Next]_vars => [AfterSilence]_vars
  <2> SUFFICES ASSUME IInv, Next, NEW id \in SolenoidIds, registered(id), ~registered(id)'
               PROVE  \/ silent[id] + 1 + MandatoryTicks + MaxLag >= MaxHeartbeatTicks
                      \/ id \in passedOver
    OBVIOUS
  <2>1. processHeartbeat
    <3>1. ASSUME NEW msg \in Messages, NEW parsed \in BOOLEAN, ApplySolenoidValues(msg, parsed)
          PROVE  FALSE
      BY <3>1 DEF ApplySolenoidValues, ApplyMessage, Overwrite, registered, registry
    <3>2. ~Tick /\ ~SetControlMode
      BY DEF Tick, SetControlMode, registry, registered
    <3>3. QED
      BY <3>1, <3>2 DEF Next
  <2>2. id \in Expired
    BY <2>1 DEF processHeartbeat, registered, Restrict
  <2>3. QED
    BY <2>2, SolenoidAssumption DEF IInv, HeartbeatInv, TypeOK, IsMap, Expired, registered
<1>2. QED
  BY Inductive, <1>1, PTL DEF Spec, DeletedOnlyWhenSilent
-----------------------------------------------------------------------------
\* The ticks that each solenoid object has left.
leases == [id \in DOMAIN mRegisteredSolenoidList |-> mRegisteredSolenoidHeartbeatList[id]]
Lease == INSTANCE HeartbeatLease WITH
    Ids <- SolenoidIds,
    MaxTicks <- MaxHeartbeatTicks,
    left <- leases

\* There is no object at first.
LEMMA LeaseInit == Init => Lease!Init
BY DEF Init, EmptyMap, Lease!Init, leases

\* A message that is applied renews the leases of all solenoids it lists, a
\* heartbeat is a heartbeat, and nothing else touches a lease.
LEMMA LeaseNext == IInv /\ IInv' /\ [Next]_vars => [Lease!Next]_leases
<1> SUFFICES ASSUME IInv, IInv', [Next]_vars
             PROVE  Lease!Next \/ leases' = leases
  OBVIOUS
<1>1. leases = mRegisteredSolenoidHeartbeatList
  <2>1. mRegisteredSolenoidHeartbeatList \in
          [DOMAIN mRegisteredSolenoidList -> 1..MaxHeartbeatTicks]
    BY DEF IInv, TypeOK, RegistriesAgree, IsMap
  <2>2. QED
    BY <2>1 DEF leases
<1>2. leases' = mRegisteredSolenoidHeartbeatList'
  <2>1. mRegisteredSolenoidHeartbeatList' \in
          [DOMAIN mRegisteredSolenoidList' -> 1..MaxHeartbeatTicks]
    BY DEF IInv, TypeOK, RegistriesAgree, IsMap
  <2>2. QED
    BY <2>1 DEF leases
<1>3. ASSUME NEW msg \in Messages, NEW parsed \in BOOLEAN, ApplySolenoidValues(msg, parsed)
      PROVE  Lease!Next \/ leases' = leases
  <2>1. CASE UNCHANGED registry
    BY <1>1, <1>2, <2>1 DEF registry
  <2>2. CASE ApplyMessage(msg)
    <3>1. Lease!Renew(Listed(msg))
      BY <1>1, <1>2, <2>2 DEF ApplyMessage, Overwrite, Lease!Renew
    <3>2. Listed(msg) \subseteq SolenoidIds
      BY MessageType DEF IsMap, Listed
    <3>3. QED
      BY <3>1, <3>2 DEF Lease!Next
  <2>3. QED
    BY <1>3, <2>1, <2>2 DEF ApplySolenoidValues
<1>4. CASE processHeartbeat
  <2>1. DOMAIN mRegisteredSolenoidHeartbeatList \ Expired =
          {i \in DOMAIN mRegisteredSolenoidHeartbeatList : mRegisteredSolenoidHeartbeatList[i] > 1}
    BY SolenoidAssumption DEF Expired, IInv, TypeOK, IsMap
  <2>2. Lease!Heartbeat
    BY <1>1, <1>2, <1>4, <2>1 DEF processHeartbeat, Lease!Heartbeat
  <2>3. QED
    BY <2>2 DEF Lease!Next
<1>5. CASE Tick \/ SetControlMode \/ UNCHANGED vars
  BY <1>1, <1>2, <1>5 DEF Tick, SetControlMode, vars, registry
<1>6. QED
  BY <1>3, <1>4, <1>5 DEF Next

\* The solenoid objects implement heartbeat leases too: whether a message is
\* applied or skipped, and whenever the heartbeat task runs, an object comes
\* with a message, and goes with the heartbeat that ends its lease.
THEOREM SolenoidsHeldOnLeases == Spec => Lease!Spec
BY LeaseInit, LeaseNext, Inductive, PTL DEF Spec, Lease!Spec
-----------------------------------------------------------------------------
\* A message that does not ask for the compressor switches it off outside
\* teleop, whether it is applied or skipped.
LEMMA NotAskedIsOff ==
    ASSUME ~teleop, NoCompressorAsked
    PROVE  compressor' = "Off"
BY DEF NoCompressorAsked, ApplySolenoidValues, Compressor

\* Outside teleop the compressor stops and stays off while messages come that
\* do not ask for it: each of them switches it off and no other step switches
\* it on.
THEOREM CompressorStopsInTheEnd == Spec => CompressorStops
<1> DEFINE IsOff == compressor # "On"
<1>1. ~teleop /\ <<AnyMessage>>_vars /\ [AnyMessage => NoCompressorAsked]_vars => IsOff'
  BY NotAskedIsOff
<1>2. IsOff /\ ~teleop /\ [Next]_vars /\ [AnyMessage => NoCompressorAsked]_vars => IsOff'
  <2> SUFFICES ASSUME IsOff, ~teleop, [Next]_vars, [AnyMessage => NoCompressorAsked]_vars
               PROVE  IsOff'
    OBVIOUS
  <2>1. CASE UNCHANGED compressor
    BY <2>1
  <2>2. ASSUME NEW msg \in Messages, NEW parsed \in BOOLEAN, ApplySolenoidValues(msg, parsed)
        PROVE  IsOff' \/ UNCHANGED compressor
    <3>1. AnyMessage
      BY <2>2 DEF ApplySolenoidValues, AnyMessage
    <3>2. CASE UNCHANGED vars
      BY <3>2 DEF vars, taskVars
    <3>3. CASE NoCompressorAsked
      BY <3>3, NotAskedIsOff
    <3>4. QED
      BY <3>1, <3>2, <3>3
  <2>3. CASE processHeartbeat \/ Tick \/ SetControlMode \/ UNCHANGED vars
    BY <2>3 DEF processHeartbeat, Tick, SetControlMode, vars, taskVars
  <2>4. QED
    BY <2>1, <2>2, <2>3 DEF Next
<1>3. QED
  BY <1>1, <1>2, PTL DEF Spec, CompressorStops
-----------------------------------------------------------------------------
\* What fairness of Tick comes to for rtTimer: it passes the mandatory period
\* again and again, unless it is set back again and again.
TimerRuns == []<>MandatoryUpdateDue \/ []<><<rtTimer' < rtTimer>>_vars

\* The command has reached the valve, if the valve is of the type it is for.
Obeyed(id, cmd) ==
    /\ registered(id)
    /\ (mRegisteredSolenoidList[id].type = cmd.type /\ cmd.value \in Accepted[cmd.type])
          => mRegisteredSolenoidList[id].value = cmd.value

\* Applying a message reaches every valve that it lists.
LEMMA AppliedIsObeyed ==
    ASSUME TypeOK, NEW id \in SolenoidIds, HasHardware(id), NEW cmd \in Commands,
           Commanded(id, cmd), Differs(mPrevSolenoidMsg') \/ MandatoryUpdateDue
    PROVE  Obeyed(id, cmd)'
<1> DEFINE msg == mPrevSolenoidMsg'
<1>1. id \in Listed(msg) /\ msg.solenoids[id] = cmd /\ ApplyMessage(msg)
  BY DEF Commanded, ApplySolenoidValues
<1>2. /\ id \in DOMAIN mRegisteredSolenoidList'
      /\ mRegisteredSolenoidList'[id] = set(id, ObjectFor(id, cmd), cmd.value)
  BY <1>1 DEF ApplyMessage, Overwrite
<1>3. QED
  BY <1>2, WrittenValve DEF Obeyed, registered

\* The timer is set back by messages that are applied only.
LEMMA SetBackIsApplied ==
    ASSUME TypeOK, NEW id, NEW cmd, [Next]_vars, rtTimer' < rtTimer,
           [AnyMessage => Commanded(id, cmd)]_vars
    PROVE  Commanded(id, cmd) /\ (Differs(mPrevSolenoidMsg') \/ MandatoryUpdateDue)
<1>1. rtTimer \in Nat
  BY SolenoidAssumption DEF TypeOK
<1>2. ~UNCHANGED vars
  BY <1>1 DEF vars, taskVars
<1>3. ~Tick /\ ~processHeartbeat /\ ~SetControlMode
  BY <1>1 DEF Tick, processHeartbeat, SetControlMode, taskVars
<1>4. PICK msg \in Messages, parsed \in BOOLEAN : ApplySolenoidValues(msg, parsed)
  BY <1>2, <1>3 DEF Next
<1>5. Commanded(id, cmd)
  BY <1>2, <1>4 DEF ApplySolenoidValues, AnyMessage
<1>6. ApplySolenoidValues(mPrevSolenoidMsg', TRUE)
  BY <1>5 DEF Commanded
<1>7. QED
  BY <1>1, <1>5, <1>6 DEF ApplySolenoidValues

\* Whatever else the messages say, and whatever was lost, deleted or failed to
\* parse before, a valve that all of them command alike is brought to the value
\* again and again: a message is applied when the timer is set back, and the
\* first one after it has passed the mandatory period is applied.
THEOREM CommandedValveComesBack == Spec /\ TimerRuns => CommandedComesBack
<1> SUFFICES ASSUME NEW id \in {i \in SolenoidIds : HasHardware(i)}, NEW cmd \in Commands
             PROVE  Spec /\ TimerRuns =>
                      ((/\ []<><<AnyMessage>>_vars
                        /\ <>[][AnyMessage => Commanded(id, cmd)]_vars) =>
                          []<>Obeyed(id, cmd))
  BY DEF CommandedComesBack, Obeyed
<1>1. IInv /\ [Next]_vars /\ [AnyMessage => Commanded(id, cmd)]_vars
           /\ <<rtTimer' < rtTimer>>_vars => Obeyed(id, cmd)'
  BY SetBackIsApplied, AppliedIsObeyed DEF IInv
<1>2. IInv /\ [Next]_vars /\ [AnyMessage => Commanded(id, cmd)]_vars /\ MandatoryUpdateDue =>
        MandatoryUpdateDue' \/ Obeyed(id, cmd)'
  <2> SUFFICES ASSUME IInv, [Next]_vars, [AnyMessage => Commanded(id, cmd)]_vars,
                      MandatoryUpdateDue, ~MandatoryUpdateDue'
               PROVE  Obeyed(id, cmd)'
    OBVIOUS
  <2>1. rtTimer \in Nat /\ rtTimer' \in Nat
    <3>1. rtTimer \in Nat
      BY SolenoidAssumption DEF IInv, TypeOK
    <3>2. ASSUME NEW msg \in Messages, NEW parsed \in BOOLEAN, ApplySolenoidValues(msg, parsed)
          PROVE  rtTimer' \in Nat
      BY <3>1, <3>2 DEF ApplySolenoidValues
    <3>3. QED
      BY <3>1, <3>2 DEF Next, Tick, processHeartbeat, SetControlMode, vars, taskVars
  <2>2. rtTimer' < rtTimer
    BY <2>1, SolenoidAssumption DEF MandatoryUpdateDue
  <2>3. QED
    BY <2>2, SetBackIsApplied, AppliedIsObeyed DEF IInv
<1>3. IInv /\ [AnyMessage => Commanded(id, cmd)]_vars /\ MandatoryUpdateDue
           /\ <<AnyMessage>>_vars => Obeyed(id, cmd)'
  BY AppliedIsObeyed DEF IInv
<1>4. QED
  BY <1>1, <1>2, <1>3, Inductive, PTL DEF Spec, TimerRuns
-----------------------------------------------------------------------------
\* CKSolenoid cuts module and channel out of an id without a loss: two ids of
\* 32 bits that name the same channel of the same module are the same id, but
\* for those that name modules 0 and 1 of a REV hub, which are one hub.
THEOREM ChannelsHaveOneId ==
    ASSUME NEW a \in SolenoidIds, NEW b \in SolenoidIds,
           a < 65536 * 65536, b < 65536 * 65536,
           ModuleType[a] = ModuleType[b],
           getModuleId(a) = getModuleId(b), getSolenoidId(a) = getSolenoidId(b)
    PROVE  \/ a = b
           \/ /\ ModuleType[a] = "REVPH"
              /\ {a \div 65536, b \div 65536} = {0, 1}
<1>1. a \in Nat /\ b \in Nat
  BY IdAssumption
<1>2. /\ a = 65536 * (a \div 65536) + getSolenoidId(a)
      /\ b = 65536 * (b \div 65536) + getSolenoidId(b)
  BY <1>1 DEF getSolenoidId
<1>3. /\ (a \div 65536) % 65536 = a \div 65536
      /\ (b \div 65536) % 65536 = b \div 65536
  BY <1>1
<1>4. CASE a \div 65536 = b \div 65536
  BY <1>2, <1>4
<1>5. CASE a \div 65536 # b \div 65536
  BY <1>3, <1>5 DEF getModuleId
<1>6. QED
  BY <1>4, <1>5
=============================================================================

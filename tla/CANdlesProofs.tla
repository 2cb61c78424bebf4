--------------------------- MODULE CANdlesProofs ---------------------------
(***************************************************************************)
(* The properties of CANdles for any controllers, channels, slots and      *)
(* lease. The invariants are inductive together with two facts that TLC    *)
(* does not need: every object has a lease, and a controller that is known *)
(* to show what it was told has a previous message.                        *)
(***************************************************************************)
EXTENDS CANdles, FiniteSetTheorems, TLAPS

Leased == DOMAIN mRegisteredCANdleHeartbeatList = mRegisteredCANdleList
ToldBefore == CANdleIds \ missed \subseteq DOMAIN mPrevCANdleMsgs
IInv == TypeOK /\ AnimationsRecorded /\ ShowsWhatIsRecorded /\ Leased /\ ToldBefore
-----------------------------------------------------------------------------
\* Entering a value keeps a map a map.
LEMMA PutMap ==
    ASSUME NEW map, NEW S, IsMap(map, S), NEW id \in CANdleIds, NEW v \in S
    PROVE  /\ IsMap(Put(map, id, v), S)
           /\ DOMAIN Put(map, id, v) = DOMAIN map \cup {id}
           /\ \A i \in DOMAIN map \cup {id} : Put(map, id, v)[i] = IF i = id THEN v ELSE map[i]
BY DEF IsMap, Put

\* What is recorded of a controller is a message, or the default.
LEMMA RecordedType ==
    ASSUME TypeOK, NEW id \in CANdleIds
    PROVE  Recorded(id) \in Message
<1>1. DefaultMessage \in Message
  BY CANdleAssumption DEF DefaultMessage, Message
<1>2. IsMap(mPrevCANdleMsgs, Message)
  BY DEF TypeOK
<1>3. QED
  BY <1>1, <1>2 DEF IsMap, Recorded

\* At first nothing is registered and nothing is known of what is shown.
LEMMA CANdleInit == Init => IInv
<1> SUFFICES ASSUME Init PROVE IInv
  OBVIOUS
<1>1. \A S : IsMap(EmptyMap, S) /\ DOMAIN EmptyMap = {}
  BY DEF IsMap, EmptyMap
<1>2. TypeOK
  BY <1>1 DEF Init, TypeOK
<1>3. AnimationsRecorded
  BY DEF Init, AnimationsRecorded
<1>4. ShowsWhatIsRecorded /\ Leased /\ ToldBefore
  BY <1>1 DEF Init, ShowsWhatIsRecorded, Leased, ToldBefore
<1>5. QED
  BY <1>2, <1>3, <1>4 DEF IInv
-----------------------------------------------------------------------------
(* What the handling of one controller does to what it shows.              *)

\* The facts that every way to apply, or not to apply, a message m to a
\* controller establishes.
Applied(id, m) ==
    /\ (controller \in [CANdleIds -> [color : SUBSET Channels, running : SUBSET Slots]])'
    /\ (orphaned \in [CANdleIds -> SUBSET Slots])'
    /\ missed' \in {missed \cup {id}, missed \ {id}, missed}
    /\ \A i \in CANdleIds \ {id} : controller'[i] = controller[i] /\ orphaned'[i] = orphaned[i]
    /\ controller'[id].running \subseteq m.slots \cup orphaned'[id]
    /\ id \notin missed' =>
         IF m.mode = "Static"
           THEN controller'[id].color = Lit(m) /\ controller'[id].running \subseteq orphaned'[id]
           ELSE m.slots \subseteq controller'[id].running

\* The controller has the colour, and runs what was started or is not stopped.
Only(id, started, color) ==
    /\ (controller \in [CANdleIds -> [color : SUBSET Channels, running : SUBSET Slots]])'
    /\ (orphaned \in [CANdleIds -> SUBSET Slots])'
    /\ \A i \in CANdleIds \ {id} : controller'[i] = controller[i] /\ orphaned'[i] = orphaned[i]
    /\ controller'[id].color = color
    /\ started \subseteq controller'[id].running
    /\ controller'[id].running \subseteq started \cup orphaned'[id]

\* Show keeps the types, and leaves running what was started or could not be stopped.
LEMMA ShowOnly ==
    ASSUME TypeOK, AnimationsRecorded, NEW id \in CANdleIds,
           NEW failed \in SUBSET Recorded(id).slots, NEW started \in SUBSET Slots,
           NEW color \in SUBSET Channels, Show(id, failed, started, color)
    PROVE  Only(id, started, color)
<1>1. Recorded(id).slots \subseteq Slots
  BY RecordedType DEF Message
<1>2. controller[id].running \subseteq Recorded(id).slots \cup orphaned[id]
  BY DEF AnimationsRecorded
<1>3. controller[id] \in [color : SUBSET Channels, running : SUBSET Slots]
      /\ orphaned[id] \in SUBSET Slots
  BY DEF TypeOK
<1> DEFINE runs == (controller[id].running \ Cleared(id, failed)) \cup started
           left == (orphaned[id] \ Cleared(id, failed)) \cup failed
<1>4. runs \subseteq started \cup left
  BY <1>2 DEF Cleared
<1>5. runs \in SUBSET Slots /\ left \in SUBSET Slots
  BY <1>1, <1>3
<1>6. controller' = [controller EXCEPT ![id] = [color |-> color, running |-> runs]]
      /\ orphaned' = [orphaned EXCEPT ![id] = left]
  BY DEF Show
<1> HIDE DEF runs, left
<1>7. controller'[id] = [color |-> color, running |-> runs] /\ orphaned'[id] = left
  BY <1>6 DEF TypeOK
<1>8. started \subseteq runs
  BY DEF runs
<1>9. QED
  BY <1>4, <1>5, <1>6, <1>7, <1>8 DEF TypeOK, Only

\* A complete update applies the message or notes that it failed.
LEMMA UpdateApplies ==
    ASSUME TypeOK, AnimationsRecorded, NEW id \in CANdleIds, NEW m \in Message,
           processLEDUpdate(id, m)
    PROVE  Applied(id, m)
<1>1. Lit(m) \in SUBSET Channels /\ m.slots \in SUBSET Slots
  <2>1. m.color \in {NoColor} \cup SUBSET Channels /\ m.slots \in SUBSET Slots
    BY DEF Message
  <2>2. CASE m.color = NoColor
    BY <2>1, <2>2 DEF Lit
  <2>3. CASE m.color # NoColor
    BY <2>1, <2>3 DEF Lit
  <2>4. QED
    BY <2>2, <2>3
<1>2. controller[id].color \in SUBSET Channels
  BY DEF TypeOK
<1>3. CASE m.mode = "Static"
  <2>1. PICK failed \in SUBSET Recorded(id).slots :
           \/ Show(id, failed, {}, Lit(m)) /\ missed' = missed \ {id}
           \/ Show(id, failed, {}, controller[id].color) /\ missed' = missed \cup {id}
    BY <1>3 DEF processLEDUpdate, updateColor
  <2>2. CASE Show(id, failed, {}, Lit(m)) /\ missed' = missed \ {id}
    <3>1. Only(id, {}, Lit(m))
      BY <1>1, <2>2, ShowOnly
    <3>2. QED
      BY <1>3, <2>2, <3>1 DEF Applied, Only
  <2>3. CASE Show(id, failed, {}, controller[id].color) /\ missed' = missed \cup {id}
    <3>1. Only(id, {}, controller[id].color)
      BY <1>2, <2>3, ShowOnly
    <3>2. QED
      BY <1>3, <2>3, <3>1 DEF Applied, Only
  <2>4. QED
    BY <2>1, <2>2, <2>3
<1>4. CASE m.mode # "Static"
  <2>1. PICK failed \in SUBSET Recorded(id).slots, started \in SUBSET m.slots :
           /\ Show(id, failed, started, controller[id].color)
           /\ missed' = IF started = m.slots THEN missed \ {id} ELSE missed \cup {id}
    BY <1>4 DEF processLEDUpdate, updateAnimation
  <2>2. started \in SUBSET Slots
    BY <1>1
  <2>3. Only(id, started, controller[id].color)
    BY <1>2, <2>1, <2>2, ShowOnly
  <2>4. /\ missed' \in {missed \cup {id}, missed \ {id}}
            /\ id \notin missed' => started = m.slots
    BY <2>1
  <2>5. QED
    BY <1>4, <2>1, <2>3, <2>4 DEF Applied, Only
<1>5. QED
  BY <1>3, <1>4

\* So does an update by difference, which may also leave everything as it is.
LEMMA CompareApplies ==
    ASSUME TypeOK, AnimationsRecorded, ShowsWhatIsRecorded, ToldBefore,
           NEW id \in CANdleIds, NEW m \in Message, Compare(id, m)
    PROVE  Applied(id, m)
<1>1. CASE processLEDUpdate(id, m)
  BY <1>1, UpdateApplies
<1>2. CASE ~processLEDUpdate(id, m)
  <2>1. /\ controller' = controller
        /\ orphaned' = [orphaned EXCEPT ![id] = @ \cup (Recorded(id).slots \ m.slots)]
        /\ missed' = IF ShowsTheSame(id, m) THEN missed ELSE missed \cup {id}
    BY <1>2 DEF Compare
  <2>2. Recorded(id).slots \subseteq Slots
    BY RecordedType DEF Message
  <2>3. controller[id].running \subseteq Recorded(id).slots \cup orphaned[id]
    BY DEF AnimationsRecorded
  <2>4. (orphaned \in [CANdleIds -> SUBSET Slots])'
        /\ orphaned'[id] = orphaned[id] \cup (Recorded(id).slots \ m.slots)
    BY <2>1, <2>2 DEF TypeOK
  <2>5. ASSUME id \notin missed'
        PROVE  IF m.mode = "Static"
                 THEN controller'[id].color = Lit(m)
                      /\ controller'[id].running \subseteq orphaned'[id]
                 ELSE m.slots \subseteq controller'[id].running
    <3>1. ShowsTheSame(id, m) /\ id \notin missed
      BY <2>1, <2>5
    <3>2. id \in DOMAIN mPrevCANdleMsgs \ missed /\ Recorded(id) = mPrevCANdleMsgs[id]
      BY <3>1 DEF ToldBefore, Recorded
    <3>3. m.slots \subseteq Recorded(id).slots
      BY <1>2 DEF Compare, AnimationsReported
    <3>4. CASE m.mode = "Static"
      BY <2>1, <2>4, <3>1, <3>2, <3>4 DEF ShowsWhatIsRecorded, ShowsTheSame, Lit
    <3>5. CASE m.mode # "Static"
      BY <2>1, <3>1, <3>2, <3>3, <3>5 DEF ShowsWhatIsRecorded, ShowsTheSame
    <3>6. QED
      BY <3>4, <3>5
  <2>6. \A i \in CANdleIds \ {id} : controller'[i] = controller[i] /\ orphaned'[i] = orphaned[i]
    BY <2>1 DEF TypeOK
  <2>7. QED
    BY <2>1, <2>3, <2>4, <2>5, <2>6 DEF Applied, TypeOK
<1>3. QED
  BY <1>1, <1>2
-----------------------------------------------------------------------------
\* Registering keeps the types of the registry, and its agreement.
LEMMA RegisterKeeps ==
    ASSUME TypeOK, Leased, NEW id \in CANdleIds, registerCANdle(id)
    PROVE  /\ mRegisteredCANdleList' \subseteq RegistrableIds
           /\ IsMap(mRegisteredCANdleHeartbeatList', 1..MaxHeartbeatTicks)
           /\ Leased'
<1>1. CASE id \in RegistrableIds
  <2>1. MaxHeartbeatTicks \in 1..MaxHeartbeatTicks
    BY CANdleAssumption
  <2>2. IsMap(mRegisteredCANdleHeartbeatList, 1..MaxHeartbeatTicks)
    BY DEF TypeOK
  <2>3. mRegisteredCANdleHeartbeatList' = Put(mRegisteredCANdleHeartbeatList, id, MaxHeartbeatTicks)
    BY <1>1 DEF registerCANdle
  <2>4. IsMap(mRegisteredCANdleHeartbeatList', 1..MaxHeartbeatTicks)
        /\ DOMAIN mRegisteredCANdleHeartbeatList' = DOMAIN mRegisteredCANdleHeartbeatList \cup {id}
    BY <2>1, <2>2, <2>3, PutMap
  <2>5. mRegisteredCANdleList' = mRegisteredCANdleList \cup {id}
    BY <1>1 DEF registerCANdle
  <2>6. QED
    BY <1>1, <2>4, <2>5 DEF TypeOK, Leased
<1>2. CASE id \notin RegistrableIds
  BY <1>2 DEF registerCANdle, registry, TypeOK, Leased
<1>3. QED
  BY <1>1, <1>2

\* The previous message after a controller was handled.
LEMMA PrevAfter ==
    ASSUME TypeOK, NEW id \in CANdleIds, NEW m \in Message,
           mPrevCANdleMsgs' = setPrevCANdleConfigMsg(id, m)
    PROVE  /\ IsMap(mPrevCANdleMsgs', Message)
           /\ DOMAIN mPrevCANdleMsgs' = DOMAIN mPrevCANdleMsgs \cup {id}
           /\ mPrevCANdleMsgs'[id] = m
           /\ Recorded(id)' = m
           /\ \A i \in CANdleIds \ {id} : Recorded(i)' = Recorded(i)
           /\ \A i \in DOMAIN mPrevCANdleMsgs \ {id} : mPrevCANdleMsgs'[i] = mPrevCANdleMsgs[i]
<1>1. IsMap(mPrevCANdleMsgs, Message)
  BY DEF TypeOK
<1>2. /\ IsMap(mPrevCANdleMsgs', Message)
      /\ DOMAIN mPrevCANdleMsgs' = DOMAIN mPrevCANdleMsgs \cup {id}
      /\ \A i \in DOMAIN mPrevCANdleMsgs \cup {id} :
            mPrevCANdleMsgs'[i] = IF i = id THEN m ELSE mPrevCANdleMsgs[i]
  <2>1. mPrevCANdleMsgs' = Put(mPrevCANdleMsgs, id, m)
    BY DEF setPrevCANdleConfigMsg
  <2>2. /\ IsMap(Put(mPrevCANdleMsgs, id, m), Message)
        /\ DOMAIN Put(mPrevCANdleMsgs, id, m) = DOMAIN mPrevCANdleMsgs \cup {id}
        /\ \A i \in DOMAIN mPrevCANdleMsgs \cup {id} :
              Put(mPrevCANdleMsgs, id, m)[i] = IF i = id THEN m ELSE mPrevCANdleMsgs[i]
    BY <1>1 DEF IsMap, Put
  <2>3. QED
    BY <2>1, <2>2
<1>3. QED
  BY <1>2 DEF Recorded

\* A message that is applied and recorded keeps what is known of the controllers.
LEMMA AppliedKeeps ==
    ASSUME IInv, NEW id \in CANdleIds, NEW m \in Message, Applied(id, m),
           mPrevCANdleMsgs' = setPrevCANdleConfigMsg(id, m)
    PROVE  AnimationsRecorded' /\ ShowsWhatIsRecorded' /\ ToldBefore'
<1> USE PrevAfter DEF IInv
<1>1. AnimationsRecorded'
  <2> SUFFICES ASSUME NEW i \in CANdleIds
               PROVE  controller'[i].running \subseteq Recorded(i)'.slots \cup orphaned'[i]
    BY DEF AnimationsRecorded
  <2>1. CASE i = id
    BY <2>1 DEF Applied
  <2>2. CASE i # id
    <3>1. Recorded(i)' = Recorded(i) /\ controller'[i] = controller[i] /\ orphaned'[i] = orphaned[i]
      BY <2>2 DEF Applied
    <3>2. QED
      BY <3>1 DEF AnimationsRecorded
  <2>3. QED
    BY <2>1, <2>2
<1>2. ToldBefore'
  BY DEF Applied, ToldBefore
<1>3. ShowsWhatIsRecorded'
  <2> DEFINE Right(i) == LET k == mPrevCANdleMsgs'[i] IN
                IF k.mode = "Static"
                  THEN controller'[i].color = Lit(k) /\ controller'[i].running \subseteq orphaned'[i]
                  ELSE k.slots \subseteq controller'[i].running
  <2> SUFFICES ASSUME NEW i \in DOMAIN mPrevCANdleMsgs' \ missed'
               PROVE  Right(i)
    BY DEF ShowsWhatIsRecorded
  <2>1. CASE i = id
    BY <2>1 DEF Applied
  <2>2. CASE i # id
    <3>1. i \in DOMAIN mPrevCANdleMsgs \ missed /\ mPrevCANdleMsgs'[i] = mPrevCANdleMsgs[i]
      BY <2>2 DEF Applied
    <3>2. i \in CANdleIds
      BY <3>1 DEF TypeOK, IsMap
    <3>3. controller'[i] = controller[i] /\ orphaned'[i] = orphaned[i]
      BY <2>2, <3>2 DEF Applied
    <3>4. QED
      BY <3>1, <3>3 DEF ShowsWhatIsRecorded
  <2>3. QED
    BY <2>1, <2>2
<1>4. QED
  BY <1>1, <1>2, <1>3
-----------------------------------------------------------------------------
\* Handling a controller keeps the invariant.
LEMMA HandleKeeps ==
    ASSUME IInv, NEW id \in CANdleIds, NEW m \in Message, HandleCANdle(id, m)
    PROVE  IInv'
<1>1. TypeOK /\ Leased
  BY DEF IInv
<1>2. /\ mRegisteredCANdleList' \subseteq RegistrableIds
      /\ IsMap(mRegisteredCANdleHeartbeatList', 1..MaxHeartbeatTicks)
      /\ Leased'
  BY <1>1, RegisterKeeps DEF HandleCANdle
<1>3. todo' \subseteq CANdleIds /\ listed' \in Nat
  BY <1>1 DEF HandleCANdle, TypeOK
<1>4. CASE id \in mRegisteredCANdleList'
  <2>1. mPrevCANdleMsgs' = setPrevCANdleConfigMsg(id, m)
    BY <1>4 DEF HandleCANdle
  <2>2. Compare(id, m) \/ processLEDUpdate(id, m)
    BY <1>4 DEF HandleCANdle
  <2>3. Applied(id, m)
    BY <2>2, CompareApplies, UpdateApplies DEF IInv
  <2>4. AnimationsRecorded' /\ ShowsWhatIsRecorded' /\ ToldBefore'
    BY <2>1, <2>3, AppliedKeeps
  <2>5. IsMap(mPrevCANdleMsgs', Message)
    BY <1>1, <2>1, PrevAfter
  <2>6. missed' \subseteq CANdleIds
    BY <1>1, <2>3 DEF Applied, TypeOK
  <2>7. TypeOK'
    BY <1>2, <1>3, <2>3, <2>5, <2>6 DEF Applied, TypeOK
  <2>8. QED
    BY <1>2, <2>4, <2>7 DEF IInv
<1>5. CASE id \notin mRegisteredCANdleList'
  <2>1. UNCHANGED <<shown, mPrevCANdleMsgs>>
    BY <1>5 DEF HandleCANdle
  <2>2. TypeOK'
    BY <1>1, <1>2, <1>3, <2>1 DEF TypeOK, shown
  <2>3. AnimationsRecorded' /\ ShowsWhatIsRecorded' /\ ToldBefore'
    BY <2>1 DEF IInv, AnimationsRecorded, ShowsWhatIsRecorded, ToldBefore, Recorded, shown
  <2>4. QED
    BY <1>2, <2>2, <2>3 DEF IInv
<1>6. QED
  BY <1>4, <1>5

\* A heartbeat deletes objects and keeps what is known of the controllers.
LEMMA HeartbeatKeeps == IInv /\ processHeartbeat => IInv'
<1> SUFFICES ASSUME IInv, processHeartbeat PROVE IInv'
  OBVIOUS
<1>1. TypeOK /\ Leased
  BY DEF IInv
<1>2. IsMap(mRegisteredCANdleHeartbeatList', 1..MaxHeartbeatTicks)
  <2>1. \A id \in DOMAIN mRegisteredCANdleHeartbeatList \ Expired :
           mRegisteredCANdleHeartbeatList[id] - 1 \in 1..MaxHeartbeatTicks
    BY <1>1, CANdleAssumption DEF Expired, TypeOK, IsMap
  <2>2. QED
    BY <1>1, <2>1 DEF processHeartbeat, TypeOK, IsMap
<1>3. Leased'
  BY <1>1 DEF processHeartbeat, Leased
<1>4. UNCHANGED <<mPrevCANdleMsgs, shown, thread>>
  BY DEF processHeartbeat, deleteCANdle
<1>5. TypeOK'
  BY <1>1, <1>2, <1>4 DEF TypeOK, processHeartbeat, shown, thread
<1>6. AnimationsRecorded' /\ ShowsWhatIsRecorded' /\ ToldBefore'
  BY <1>4 DEF IInv, AnimationsRecorded, ShowsWhatIsRecorded, ToldBefore, Recorded, shown
<1>7. QED
  BY <1>3, <1>5, <1>6 DEF IInv

\* Every step keeps the invariant.
LEMMA CANdleInductive == IInv /\ [Next]_vars => IInv'
<1> SUFFICES ASSUME IInv, [Next]_vars PROVE IInv'
  OBVIOUS
<1>1. CASE ApplyLEDControl
  <2>1. IsFiniteSet(todo') /\ todo' \subseteq CANdleIds
    BY <1>1, CANdleAssumption, FS_Subset DEF ApplyLEDControl
  <2>2. listed' \in Nat
    BY <1>1, <2>1, FS_CardinalityType DEF ApplyLEDControl
  <2>3. QED
    BY <1>1, <2>1, <2>2 DEF ApplyLEDControl, IInv, TypeOK, AnimationsRecorded,
       ShowsWhatIsRecorded, Leased, ToldBefore, Recorded, registry, shown
<1>2. CASE HandleACANdle
  BY <1>2, HandleKeeps DEF HandleACANdle
<1>3. CASE processHeartbeat
  BY <1>3, HeartbeatKeeps
<1>4. CASE UNCHANGED vars
  BY <1>4 DEF vars, registry, shown, thread, IInv, TypeOK, AnimationsRecorded,
     ShowsWhatIsRecorded, Leased, ToldBefore, Recorded
<1>5. QED
  BY <1>1, <1>2, <1>3, <1>4 DEF Next

\* The invariant holds in every reachable state.
THEOREM CANdleInvariant == Spec => []IInv
BY CANdleInit, CANdleInductive, PTL DEF Spec

\* Types: only accepted ids are registered, and no lease that has ended is kept.
THEOREM CANdleTypeInvariant == Spec => []TypeOK
<1>1. IInv => TypeOK
  BY DEF IInv
<1>2. QED
  BY <1>1, CANdleInvariant, PTL

\* No animation runs that the next update would not stop, unless it could not
\* be stopped or was dropped without a report, whatever objects are deleted.
THEOREM AnimationsAreRecorded == Spec => []AnimationsRecorded
<1>1. IInv => AnimationsRecorded
  BY DEF IInv
<1>2. QED
  BY <1>1, CANdleInvariant, PTL

\* A controller shows what its recorded message says, unless a write failed, the
\* mode went back to its default or a static colour was left out since.
THEOREM ControllerShowsWhatIsRecorded == Spec => []ShowsWhatIsRecorded
<1>1. IInv => ShowsWhatIsRecorded
  BY DEF IInv
<1>2. QED
  BY <1>1, CANdleInvariant, PTL
-----------------------------------------------------------------------------
(* The objects are held on leases.                                         *)

\* The program starts without leases.
LEMMA LeaseInit == Init => Lease!Init
BY DEF Init, EmptyMap, Lease!Init, leases

\* When every object has a lease, the leases are the map of heartbeats.
LEMMA LeasesAreHeartbeats ==
    ASSUME TypeOK, Leased
    PROVE  leases = mRegisteredCANdleHeartbeatList
<1>1. mRegisteredCANdleHeartbeatList \in [mRegisteredCANdleList -> 1..MaxHeartbeatTicks]
  BY DEF TypeOK, Leased, IsMap
<1>2. QED
  BY <1>1 DEF leases

\* A message renews the lease of the controller it lists, a heartbeat takes a
\* tick from every lease, and nothing else touches one.
LEMMA LeaseNext == IInv /\ IInv' /\ [Next]_vars => [Lease!Next]_leases
<1> SUFFICES ASSUME IInv, IInv', [Next]_vars
             PROVE  Lease!Next \/ leases' = leases
  OBVIOUS
<1>1. leases = mRegisteredCANdleHeartbeatList
  BY LeasesAreHeartbeats DEF IInv
<1>2. leases' = mRegisteredCANdleHeartbeatList'
  <2>1. TypeOK' /\ Leased'
    BY DEF IInv
  <2>2. mRegisteredCANdleHeartbeatList' \in [mRegisteredCANdleList' -> 1..MaxHeartbeatTicks]
    BY <2>1 DEF TypeOK, Leased, IsMap
  <2>3. QED
    BY <2>2 DEF leases
<1>3. ASSUME NEW id \in CANdleIds, registerCANdle(id)
      PROVE  Lease!Next \/ leases' = leases
  <2>1. CASE id \in RegistrableIds
    <3>1. mRegisteredCANdleHeartbeatList' =
             Put(mRegisteredCANdleHeartbeatList, id, MaxHeartbeatTicks)
      BY <1>3, <2>1 DEF registerCANdle
    <3>2. {id} \in SUBSET RegistrableIds
      BY <2>1
    <3>3. Lease!Renew({id})
      BY <1>1, <1>2, <3>1 DEF Lease!Renew, Put
    <3>4. QED
      BY <3>2, <3>3 DEF Lease!Next
  <2>2. CASE id \notin RegistrableIds
    BY <1>1, <1>2, <1>3, <2>2 DEF registerCANdle, registry
  <2>3. QED
    BY <2>1, <2>2
<1>4. CASE ApplyLEDControl
  BY <1>1, <1>2, <1>4 DEF ApplyLEDControl, registry
<1>5. CASE HandleACANdle
  BY <1>3, <1>5 DEF HandleACANdle, HandleCANdle
<1>6. CASE processHeartbeat
  <2>1. mRegisteredCANdleHeartbeatList \in
          [DOMAIN mRegisteredCANdleHeartbeatList -> 1..MaxHeartbeatTicks]
    BY DEF IInv, TypeOK, IsMap
  <2>2. DOMAIN mRegisteredCANdleHeartbeatList \ Expired =
          {i \in DOMAIN mRegisteredCANdleHeartbeatList : mRegisteredCANdleHeartbeatList[i] > 1}
    BY <2>1, CANdleAssumption DEF Expired
  <2>3. Lease!Heartbeat
    BY <1>1, <1>2, <1>6, <2>2 DEF processHeartbeat, Lease!Heartbeat
  <2>4. QED
    BY <2>3 DEF Lease!Next
<1>7. CASE UNCHANGED vars
  BY <1>1, <1>2, <1>7 DEF vars, registry
<1>8. QED
  BY <1>4, <1>5, <1>6, <1>7 DEF Next

\* The objects of the LED controllers implement heartbeat leases.
THEOREM CANdlesHeldOnLeases == Spec => ImplementsHeartbeatLease
BY LeaseInit, LeaseNext, CANdleInvariant, PTL DEF Spec, ImplementsHeartbeatLease, Lease!Spec
=============================================================================

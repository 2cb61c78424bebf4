------------------------------ MODULE CANdles ------------------------------
(***************************************************************************)
(* The LED controllers. ApplyLEDControlTask registers every controller an  *)
(* LED message lists and applies the message completely or by difference   *)
(* to the previous one. Which animations to stop is known only from the    *)
(* previous message, and deleting an object whose lease has ended keeps    *)
(* that message: the controller itself goes on showing what it was told.   *)
(*                                                                         *)
(* All of it runs on the scheduler thread. A task handles its message      *)
(* controller by controller, in any order; what the message says of one is *)
(* chosen when its turn comes. One flag per colour channel and one slot    *)
(* per animation stand for the colour and the animation parameters.        *)
(***************************************************************************)
EXTENDS Naturals, FiniteSets, Functions

CONSTANTS
    CANdleIds,          \* the controllers that messages may list
    RegistrableIds,     \* those with an id below 64
    Channels,           \* colour channels
    NoColor,            \* the colour of a message that leaves it out
    Slots,              \* animation slots
    DefaultMode,        \* the protobuf default of the control mode
    MaxHeartbeatTicks   \* kMaxHeartbeatTicks (250)

Mode == {"Static", "Animated"}

ASSUME CANdleAssumption ==
    /\ IsFiniteSet(CANdleIds)
    /\ RegistrableIds \subseteq CANdleIds
    /\ \A color \in SUBSET Channels : color # NoColor
    /\ DefaultMode \in Mode
    /\ MaxHeartbeatTicks \in Nat \ {0}

VARIABLES
    \* CANdleManager: the ids with an object, their heartbeats, the previous messages
    mRegisteredCANdleList,
    mRegisteredCANdleHeartbeatList,
    mPrevCANdleMsgs,
    \* the controllers: the colour last set, the animations that run
    controller,
    \* ApplyLEDControlTask: the controllers not yet handled, how many the message lists
    todo,
    listed,
    \* history, read by properties only
    orphaned,   \* slots of each controller that a previous message no longer stops
    missed      \* controllers with a write that failed, or a change of what they
                \* are to show that was not reported

registry == <<mRegisteredCANdleList, mRegisteredCANdleHeartbeatList>>
shown    == <<controller, orphaned, missed>>
thread   == <<todo, listed>>
vars == <<registry, mPrevCANdleMsgs, shown, thread>>

\* One controller's part of an LED message: the lit channels, unless it has no
\* colour, and the animations.
Message == [mode : Mode, color : {NoColor} \cup SUBSET Channels, slots : SUBSET Slots]
DefaultMessage == [mode |-> DefaultMode, color |-> NoColor, slots |-> {}]
\* Every channel of a colour that was left out reads as zero.
Lit(m) == IF m.color = NoColor THEN {} ELSE m.color

IsMap(map, S) == DOMAIN map \subseteq CANdleIds /\ map \in [DOMAIN map -> S]
EmptyMap == [id \in {} |-> DefaultMessage]
Put(map, id, v) == [i \in DOMAIN map \cup {id} |-> IF i = id THEN v ELSE map[i]]

TypeOK ==
    /\ mRegisteredCANdleList \subseteq RegistrableIds
    /\ IsMap(mRegisteredCANdleHeartbeatList, 1..MaxHeartbeatTicks)
    /\ IsMap(mPrevCANdleMsgs, Message)
    /\ controller \in [CANdleIds -> [color : SUBSET Channels, running : SUBSET Slots]]
    /\ todo \subseteq CANdleIds
    /\ listed \in Nat
    /\ orphaned \in [CANdleIds -> SUBSET Slots]
    /\ missed \subseteq CANdleIds

\* The program may be restarted under controllers that show anything.
Init ==
    /\ mRegisteredCANdleList = {}
    /\ mRegisteredCANdleHeartbeatList = EmptyMap
    /\ mPrevCANdleMsgs = EmptyMap
    /\ controller \in [CANdleIds -> [color : SUBSET Channels, running : SUBSET Slots]]
    /\ todo = {}
    /\ listed = 0
    /\ orphaned = [id \in CANdleIds |-> controller[id].running]
    /\ missed = CANdleIds
-----------------------------------------------------------------------------
(* ApplyLEDControlTask.                                                    *)

\* run, with a message that lists some controllers.
ApplyLEDControl ==
    /\ todo = {}
    /\ todo' \in SUBSET CANdleIds \ {{}}
    /\ listed' = Cardinality(todo')
    /\ UNCHANGED <<registry, mPrevCANdleMsgs, shown>>

\* Every accepted id gets an object if it has none, and a new lease.
registerCANdle(id) ==
    IF id \in RegistrableIds
      THEN /\ mRegisteredCANdleList' = mRegisteredCANdleList \cup {id}
           /\ mRegisteredCANdleHeartbeatList' =
                Put(mRegisteredCANdleHeartbeatList, id, MaxHeartbeatTicks)
      ELSE UNCHANGED registry

\* operator[] on the map of previous messages gives a default.
Recorded(id) == IF id \in DOMAIN mPrevCANdleMsgs THEN mPrevCANdleMsgs[id] ELSE DefaultMessage

\* clearAllAnimations stops what the previous message lists; failed are the
\* slots that no retry could clear.
Cleared(id, failed) == Recorded(id).slots \ failed

\* The controller after clearAllAnimations and then the starts or the colour.
Show(id, failed, started, color) ==
    /\ controller' = [controller EXCEPT
         ![id] = [color |-> color, running |-> (@.running \ Cleared(id, failed)) \cup started]]
    /\ orphaned' = [orphaned EXCEPT ![id] = (@ \ Cleared(id, failed)) \cup failed]

ColorWithoutClearing(id, m) ==
    /\ controller' = [controller EXCEPT ![id].color = Lit(m)]
    /\ orphaned' = orphaned
    /\ missed' = missed \ {id}
updateColor(id, m) ==
    \E failed \in SUBSET Recorded(id).slots :
       \/ /\ Show(id, failed, {}, Lit(m))
          /\ missed' = missed \ {id}
       \/ /\ Show(id, failed, {}, controller[id].color)
          /\ missed' = missed \cup {id}

updateAnimation(id, m) ==
    \E failed \in SUBSET Recorded(id).slots, started \in SUBSET m.slots :
       /\ Show(id, failed, started, controller[id].color)
       /\ missed' = IF started = m.slots THEN missed \ {id} ELSE missed \cup {id}

\* processLEDUpdate, and the same switch in fullUpdate.
processLEDUpdate(id, m) ==
    IF m.mode = "Static" THEN updateColor(id, m) ELSE updateAnimation(id, m)

\* The differencer (CompareWithFieldsInternal of message_differencer.cc) reports
\* what is only in the new message as added, what differs, down to a single
\* channel, as modified, and what is only in the previous message as deleted,
\* for which there is no update: the mode back at its default, a colour left
\* out, animations that are missing at the end of the list. Whether lists of
\* animations differ otherwise depends on parameters and order.
ModeReported(id, m) == m.mode \notin {Recorded(id).mode, DefaultMode}
ColorReported(id, m) == m.color \notin {Recorded(id).color, NoColor}
AnimationsReported(id, m) ==
    {r \in BOOLEAN : /\ m.slots = {} => ~r
                     /\ ~(m.slots \subseteq Recorded(id).slots) => r}

\* The controller is to show the same as before, whatever else differs.
ShowsTheSame(id, m) ==
    /\ m.mode = Recorded(id).mode
    /\ m.mode = "Static" => m.color = Recorded(id).color

\* mDiff.Compare, with the update functions it calls. Animations that are
\* dropped from the message without a report go on.
Compare(id, m) ==
    \E animationsReported \in AnimationsReported(id, m) :
       IF ModeReported(id, m) \/ ColorReported(id, m) \/ animationsReported
         THEN processLEDUpdate(id, m)
         ELSE /\ controller' = controller
              /\ orphaned' = [orphaned EXCEPT ![id] = @ \cup (Recorded(id).slots \ m.slots)]
              /\ missed' = IF ShowsTheSame(id, m) THEN missed ELSE missed \cup {id}

\* Only the sizes of the message and of the map of previous messages decide.
ByDifference == listed = Cardinality(DOMAIN mPrevCANdleMsgs)

setPrevCANdleConfigMsg(id, m) == Put(mPrevCANdleMsgs, id, m)

\* One controller of the message; m becomes its previous message whether the
\* writes succeeded or not.
HandleCANdle(id, m) ==
    /\ id \in todo
    /\ todo' = todo \ {id}
    /\ listed' = IF todo' = {} THEN 0 ELSE listed
    /\ registerCANdle(id)
    /\ IF id \in mRegisteredCANdleList'
         THEN /\ IF ByDifference THEN Compare(id, m) ELSE processLEDUpdate(id, m)
              /\ mPrevCANdleMsgs' = setPrevCANdleConfigMsg(id, m)
         ELSE UNCHANGED <<shown, mPrevCANdleMsgs>>
-----------------------------------------------------------------------------
ExpiredLate == {id \in DOMAIN mRegisteredCANdleHeartbeatList :
                  mRegisteredCANdleHeartbeatList[id] < 1}
ExpiredEarly == {id \in DOMAIN mRegisteredCANdleHeartbeatList :
                   mRegisteredCANdleHeartbeatList[id] <= 2}
\* Controllers whose counter this tick brings to zero.
Expired == {id \in DOMAIN mRegisteredCANdleHeartbeatList :
              mRegisteredCANdleHeartbeatList[id] <= 1}

ForgetMessage(ids) == Restrict(mPrevCANdleMsgs, DOMAIN mPrevCANdleMsgs \ ids)
\* deleteCANdle keeps the previous message.
deleteCANdle(ids) == mPrevCANdleMsgs

\* CANdleManager::processHeartbeat.
processHeartbeat ==
    /\ todo = {}
    /\ mRegisteredCANdleList' = mRegisteredCANdleList \ Expired
    /\ mRegisteredCANdleHeartbeatList' =
         [id \in DOMAIN mRegisteredCANdleHeartbeatList \ Expired |->
            mRegisteredCANdleHeartbeatList[id] - 1]
    /\ mPrevCANdleMsgs' = deleteCANdle(Expired)
    /\ UNCHANGED <<shown, thread>>
-----------------------------------------------------------------------------
HandleACANdle == \E id \in CANdleIds, m \in Message : HandleCANdle(id, m)
Next == ApplyLEDControl \/ HandleACANdle \/ processHeartbeat

Spec == Init /\ [][Next]_vars
-----------------------------------------------------------------------------
\* No animation runs that the next update would not stop: whatever was deleted
\* and created again, and whatever mixture of complete and differential
\* updates, the animations that run are those of the previous message and
\* those which could not be stopped or were dropped without a report.
AnimationsRecorded ==
    \A id \in CANdleIds : controller[id].running \subseteq Recorded(id).slots \cup orphaned[id]

\* A controller shows what the message recorded as applied says: a static one
\* its colour and no animation, an animated one all its animations. The
\* exceptions are a write that failed, and since it was last told a mode that
\* went back to its default or a static colour that was left out.
ShowsWhatIsRecorded ==
    \A id \in DOMAIN mPrevCANdleMsgs \ missed :
       LET m == mPrevCANdleMsgs[id] IN
         IF m.mode = "Static"
           THEN controller[id].color = Lit(m) /\ controller[id].running \subseteq orphaned[id]
           ELSE m.slots \subseteq controller[id].running

\* The ticks that each object has left.
leases == [id \in mRegisteredCANdleList |->
             IF id \in DOMAIN mRegisteredCANdleHeartbeatList
               THEN mRegisteredCANdleHeartbeatList[id] ELSE 0]
Lease == INSTANCE HeartbeatLease WITH
    Ids <- RegistrableIds,
    MaxTicks <- MaxHeartbeatTicks,
    left <- leases

\* The controller objects are held on leases: each message that lists an
\* accepted id renews it, an unknown id included, and only heartbeats delete.
ImplementsHeartbeatLease == Lease!Spec
=============================================================================

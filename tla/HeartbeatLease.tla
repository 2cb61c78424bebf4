--------------------------- MODULE HeartbeatLease ---------------------------
(***************************************************************************)
(* What the device registries promise: a device object is held on a lease  *)
(* of MaxTicks heartbeats. A message may create it or renew its lease at   *)
(* any time; every heartbeat takes one tick from every lease, and deletes  *)
(* the objects, and only those, whose lease it ends.                       *)
(***************************************************************************)
EXTENDS Naturals

CONSTANTS Ids, MaxTicks

VARIABLE left   \* the ticks that the lease of each existing object has left

Init == left = [id \in {} |-> MaxTicks]

Renew(ids) ==
    left' = [id \in DOMAIN left \cup ids |-> IF id \in ids THEN MaxTicks ELSE left[id]]

Heartbeat == left' = [id \in {i \in DOMAIN left : left[i] > 1} |-> left[id] - 1]

Next == Heartbeat \/ \E ids \in SUBSET Ids : Renew(ids)

Spec == Init /\ [][Next]_left
=============================================================================

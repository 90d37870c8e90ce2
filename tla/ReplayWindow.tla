---------------------------- MODULE ReplayWindow ----------------------------
(***************************************************************************)
(* What the inbound side of the data path promises: a packet is delivered  *)
(* the first time its id is seen, unless the id is more than Window below  *)
(* the highest id seen; every other packet is dropped.  The set of ids     *)
(* delivered so far is remembered in full, which is what the fixed bitmap  *)
(* of ReplayProtector.m stands for.                                        *)
(***************************************************************************)
EXTENDS Integers

CONSTANTS IdSpace,     \* ids are below IdSpace
          MaxPacketId, \* the highest id a packet may carry
          Window       \* how far below the highest id a late packet may be

VARIABLES seen,    \* the ids delivered so far
          verdict  \* what became of the last packet: <<id, outcome>>

Outcomes == {"delivered", "dropped", "overflow"}

Fresh(id) == /\ id > 0
             /\ id \notin seen
             /\ \A other \in seen : other <= id + Window

Init == seen = {} /\ verdict = <<0, "dropped">>

Deliver(id) == /\ id <= MaxPacketId
               /\ Fresh(id)
               /\ seen' = seen \cup {id}
               /\ verdict' = <<id, "delivered">>

Drop(id) == /\ id <= MaxPacketId
            /\ ~Fresh(id)
            /\ verdict' = <<id, "dropped">>
            /\ UNCHANGED seen

Overflow(id) == /\ id > MaxPacketId
                /\ verdict' = <<id, "overflow">>
                /\ UNCHANGED seen

Next == \E id \in 0 .. IdSpace - 1 : Deliver(id) \/ Drop(id) \/ Overflow(id)

Spec == Init /\ [][Next]_<<seen, verdict>>
=============================================================================

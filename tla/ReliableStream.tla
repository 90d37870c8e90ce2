--------------------------- MODULE ReliableStream ---------------------------
(***************************************************************************)
(* What one direction of the control channel promises for one negotiation: *)
(* the packets submitted arrive one after the other, none missing, none    *)
(* twice, and in the end all of them.                                      *)
(***************************************************************************)
EXTENDS Naturals

CONSTANT Limit \* bound on the packets submitted, for AllArrive

VARIABLES submitted, \* packets handed to the channel so far
          arrived    \* packets that came out at the other end, in order

Init == submitted = 0 /\ arrived = 0

Submit == submitted' > submitted /\ UNCHANGED arrived

Arrive == /\ arrived' > arrived
          /\ arrived' <= submitted
          /\ UNCHANGED submitted

Next == Submit \/ Arrive

Spec == Init /\ [][Next]_<<submitted, arrived>>

AllArrive == \A n \in 1 .. Limit : (submitted >= n) ~> (arrived >= n)
=============================================================================

-------------------------- MODULE MCTunnelProvider --------------------------
(***************************************************************************)
(* A remote of two endpoints over TCP and one of a single endpoint over    *)
(* UDP are enough to go to the next endpoint, to the next remote and past  *)
(* the last one, and to change protocols on the way.  Three things that go *)
(* wrong need no more than MaxSockets sockets.                             *)
(***************************************************************************)
EXTENDS TunnelProvider

\* What the remotes resolve to, at most.
MCEndpoints == [r \in 1 .. Remotes |-> IF r \in Reliable THEN 2 ELSE 1]
=============================================================================

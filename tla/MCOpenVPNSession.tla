-------------------------- MODULE MCOpenVPNSession --------------------------
(***************************************************************************)
(* Four key ids are as few as the ring allows.  After two renegotiations   *)
(* the initial key has been removed, after four the ids have wrapped       *)
(* around and id 1 is used again (session_tcp).  Two packets per read are  *)
(* enough for one to be handled after another has changed the session, or  *)
(* out of order.                                                           *)
(***************************************************************************)
EXTENDS OpenVPNSession
=============================================================================

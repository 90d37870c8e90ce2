---------------------------- MODULE MCVPNSystem ----------------------------
(***************************************************************************)
(* Two calls at the same time are enough for one to run while the other    *)
(* one awaits; the manager that may be there before, with rules on demand, *)
(* brings a tunnel up without a third call.                                *)
(***************************************************************************)
EXTENDS VPNSystem
=============================================================================

---------------------------- MODULE MCStreamLink ----------------------------
(***************************************************************************)
(* Bytes of 2 bits: positions and lengths of 4 and more do not fit in one. *)
(* The packets have 1, 2, 4 and 5 bytes, so that a reversal has no middle, *)
(* or one, or one after a swap, and a length uses both bytes of its header.*)
(* Reads of up to 5 bytes end at any byte of a header and of a packet.     *)
(***************************************************************************)
EXTENDS StreamLink

MCPayloads == { <<{0}>>, <<{}, {1}>>, <<{1}, {0}, {}, {0, 1}>>,
                <<{0}, {0, 1}, {1}, {}, {0}>> }
MCMasks    == { <<{0, 1}, {0}, {1}>> }
=============================================================================

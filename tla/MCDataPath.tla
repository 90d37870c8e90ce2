----------------------------- MODULE MCDataPath -----------------------------
(***************************************************************************)
(* A bitmap of 3 words of 2 bits: the window is 4 ids wide, and it wraps   *)
(* around the bitmap before the 8 ids run out.  The payloads are an IPv4   *)
(* packet, an IPv6 packet that LZO makes shorter, an IPv6 packet whose     *)
(* traffic class makes it begin like a header, a keep-alive, and what V2   *)
(* has an escape for.                                                      *)
(***************************************************************************)
EXTENDS DataPath

MCPayloads == << <<"45", "a", "b">>, <<"60", "a", "a", "a">>, <<"66", "b", "a">>,
                 Ping, <<"50", "a", "b">> >>
=============================================================================

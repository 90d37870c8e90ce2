------------------------------- MODULE Framing -------------------------------
(***************************************************************************)
(* How DataPath.m wraps the payload of a data packet before it encrypts it *)
(* and unwraps it after decryption (setCompressionFraming).  A byte is its *)
(* hexadecimal name; what matters is the first one, which is a header or,  *)
(* when there is none, the version of an IP packet.                        *)
(***************************************************************************)
EXTENDS Integers, Sequences

Framings == {"disabled", "compress", "compressV2", "compLZO"}

\* The headers of PacketMacros.h.
NoCompress     == "fa"
NoCompressSwap == "fb"
LZOCompress    == "66"
V2Indicator    == "50"
V2Uncompressed == "00"

\* External: an LZO of three equal bytes at the end.
Compressible(p) ==
    LET n == Len(p) IN n > 2 /\ p[n] = p[n - 1] /\ p[n - 1] = p[n - 2]
Compressed(p)   == <<"z">> \o SubSeq(p, 1, Len(p) - 2)
IsCompressed(q) == Len(q) > 1 /\ Head(q) = "z"
Decompressed(q) == Tail(q) \o <<q[Len(q)], q[Len(q)]>>

\* The bytes that a buffer may hold behind the packet, two of them.
Residue == {"00", "7f"}

-----------------------------------------------------------------------------
\* NO_COMPRESS_SWAP: the header replaces the first byte, which goes to the end.
Swapped(p) == <<NoCompressSwap>> \o Tail(p) \o <<Head(p)>>

\* assemblePayloadBlock.  lzo says whether the library was linked and chosen.
Assemble(framing, lzo, p) ==
    CASE framing = "disabled" -> p
      [] framing = "compressV2" ->
             IF Head(p) = V2Indicator THEN <<V2Indicator, V2Uncompressed>> \o p ELSE p
      [] OTHER ->
             IF lzo /\ Compressible(p) THEN <<LZOCompress>> \o Compressed(p)
             ELSE IF framing = "compress" /\ ~lzo THEN Swapped(p)
             ELSE <<NoCompress>> \o p

\* What becomes of a packet: its payload, or the error it is refused with.
Taken(p)       == [payload |-> p, error |-> "none"]
Refused(error) == [payload |-> <<>>, error |-> error]

\* Mutant: a packet without a header is refused.
ParseStrict(framing, lzo, q) ==
    IF framing = "disabled" \/ Head(q) \notin {NoCompress, NoCompressSwap}
    THEN {Taken(q)}
    ELSE IF Head(q) = NoCompress THEN {Taken(Tail(q))} ELSE {Refused("compression")}

\* parsePayloadBlock, with the decompression in decryptPackets.  A first byte
\* that is no header is taken for the payload's.  The header of V2 moves the
\* start by two bytes and the length by one, so a byte behind the packet comes in.
Parse(framing, lzo, q) ==
    IF framing = "disabled" THEN {Taken(q)}
    ELSE CASE Head(q) = NoCompress -> {Taken(Tail(q))}
           [] Head(q) = NoCompressSwap ->
                  {Taken(<<q[Len(q)]>> \o SubSeq(q, 2, Len(q) - 1))}
           [] Head(q) = LZOCompress ->
                  IF ~lzo THEN {Refused("compression")}
                  ELSE IF IsCompressed(Tail(q)) THEN {Taken(Decompressed(Tail(q)))}
                  ELSE {Refused("lzo")}
           [] Head(q) = V2Indicator /\ framing = "compressV2" ->
                  IF q[2] # V2Uncompressed THEN {Refused("compression")}
                  ELSE {Taken(SubSeq(q, 3, Len(q)) \o <<byte>>) : byte \in Residue}
           [] OTHER -> {Taken(q)}

\* The payloads that V2, which has no header for most, makes the parser mistake
\* for its own headers.
Ambiguous(framing, p) ==
    framing = "compressV2" /\ Head(p) \in {NoCompress, NoCompressSwap, LZOCompress, V2Indicator}
=============================================================================

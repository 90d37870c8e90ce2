---------------------------- MODULE PacketStream ----------------------------
(***************************************************************************)
(* PacketStream.m: packets in a stream of bytes, each after its length in  *)
(* two bytes, the higher one first.                                        *)
(***************************************************************************)
EXTENDS Scramble

HeaderLength == 2

Header(n)      == <<ByteOf(n \div ByteCount), ByteOf(n)>>
Number(byte)   == CHOOSE n \in 0 .. ByteCount - 1 : ByteOf(n) = byte
LengthAt(s, i) == Number(s[i]) * ByteCount + Number(s[i + 1])

\* outboundStreamFromPackets, for packets that are scrambled already.
OutboundStream(packets) ==
    FlattenSeq([n \in DOMAIN packets |-> Header(Len(packets[n])) \o packets[n]])

\* Mutant: one packet is cut at a time.
InboundPacketsOne(stream) ==
    IF Len(stream) < HeaderLength \/ HeaderLength + LengthAt(stream, 1) > Len(stream)
    THEN [packets |-> <<>>, until |-> 0]
    ELSE LET end == HeaderLength + LengthAt(stream, 1)
         IN  [packets |-> <<SubSeq(stream, HeaderLength + 1, end)>>, until |-> end]

\* packetsFromInboundStream: the packets that are there in full, and how far
\* they reach.  cut[ni] is what the loop does from offset ni on.
InboundPackets(stream) ==
    LET cut[ni \in 0 .. Len(stream)] ==
            IF ni + HeaderLength > Len(stream)
               \/ ni + HeaderLength + LengthAt(stream, ni + 1) > Len(stream)
            THEN [packets |-> <<>>, until |-> ni]
            ELSE LET start == ni + HeaderLength
                     end   == start + LengthAt(stream, ni + 1)
                 IN  [packets |-> <<SubSeq(stream, start + 1, end)>> \o cut[end].packets,
                      until   |-> cut[end].until]
    IN  cut[0]
=============================================================================

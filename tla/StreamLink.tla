----------------------------- MODULE StreamLink -----------------------------
(***************************************************************************)
(* One direction of a link over TCP (NETCPLink.swift): packets are         *)
(* scrambled, framed and written; the network cuts the stream as it likes; *)
(* the reader puts the pieces together and hands the packets over.  One    *)
(* end is this code, the other is external: it scrambles by the same       *)
(* method, in the way of XORProcessor.                                     *)
(***************************************************************************)
EXTENDS PacketStream

CONSTANTS Payloads,  \* the packets to choose from
          Masks,     \* the masks to choose from
          MaxSent,   \* bound: packets written
          MaxBatch,  \* bound: packets in one write
          MaxRead    \* packetBufferSize: bytes that one read returns at most

ASSUME StreamAssumption ==
    /\ ByteBits \in Nat \ {0}
    /\ Payloads \cup Masks \subseteq Seq(Bytes)
    /\ \A p \in Payloads : p # <<>> /\ Len(p) < ByteCount * ByteCount
    /\ {MaxSent, MaxBatch} \subseteq Nat
    /\ MaxRead \in Nat /\ MaxRead >= 2

VARIABLES writer, \* which end writes: "client" is this code
          method, mask,
          sent,   \* the packets written so far
          stream, \* bytes on the way
          buffer, \* bytes read that are no whole packet yet
          handed, \* the packets the read handler got
          open    \* the connection has not failed

config == <<writer, method, mask>>
vars   == <<config, sent, stream, buffer, handed, open>>

\* The two ends, which have one implementation each.
Outgoing(p) == IF writer = "client" THEN Memcpy(method, mask, p, TRUE)
               ELSE ProcessPacket(method, mask, p, TRUE)
Incoming(p) == IF writer = "client" THEN ProcessPacket(method, mask, p, FALSE)
               ELSE Memcpy(method, mask, p, FALSE)

Each(Op(_), packets) == [n \in DOMAIN packets |-> Op(packets[n])]

-----------------------------------------------------------------------------
\* writePackets.
Write(packets) ==
    /\ open
    /\ Len(sent) + Len(packets) <= MaxSent
    /\ sent' = sent \o packets
    /\ stream' = stream \o OutboundStream(Each(Outgoing, packets))
    /\ UNCHANGED <<config, buffer, handed, open>>

\* Mutant: what is left of a read is dropped.
ReadDropsRest(n) ==
    /\ open /\ n \in 2 .. MaxRead /\ n <= Len(stream)
    /\ stream' = SubSeq(stream, n + 1, Len(stream))
    /\ LET inbound == InboundPackets(buffer \o SubSeq(stream, 1, n))
       IN  handed' = handed \o Each(Incoming, inbound.packets)
    /\ buffer' = <<>>
    /\ UNCHANGED <<config, sent, open>>

\* The completion of readMinimumLength(2) in loopReadPackets: two bytes or more,
\* up to the size of the buffer.  The next read follows in any case.
Read(n) ==
    /\ open /\ n \in 2 .. MaxRead /\ n <= Len(stream)
    /\ stream' = SubSeq(stream, n + 1, Len(stream))
    /\ LET newBuffer == buffer \o SubSeq(stream, 1, n)
           inbound   == InboundPackets(newBuffer)
       IN  /\ buffer' = SubSeq(newBuffer, inbound.until + 1, Len(newBuffer))
           /\ handed' = handed \o Each(Incoming, inbound.packets)
    /\ UNCHANGED <<config, sent, open>>

\* The read fails: the handler hears of it, and there is no next one.
ReadFails ==
    /\ open
    /\ open' = FALSE
    /\ UNCHANGED <<config, sent, stream, buffer, handed>>

-----------------------------------------------------------------------------
Init == /\ writer \in {"client", "server"}
        /\ method \in Methods
        /\ mask \in Masks
        /\ method \notin {"mask", "obfuscate"} => mask = CHOOSE m \in Masks : TRUE
        /\ sent = <<>> /\ stream = <<>> /\ buffer = <<>> /\ handed = <<>>
        /\ open = TRUE

Next == \/ \E packets \in SeqOf(Payloads, MaxBatch) \ {<<>>} : Write(packets)
        \/ \E n \in 2 .. MaxRead : Read(n)
        \/ ReadFails

Spec == Init /\ [][Next]_vars

\* A read completes when there is enough to read.
FairSpec == Spec /\ WF_vars(\E n \in 2 .. MaxRead : Read(n))

-----------------------------------------------------------------------------
\* However the stream is cut, what the handler got and what is still in the buffer
\* and on the way are the packets sent, in order and unscrambled: neither end loses
\* its place in the stream, and the two implementations of the methods agree.
InStep ==
    LET rest == InboundPackets(buffer \o stream)
    IN  /\ sent = handed \o Each(Incoming, rest.packets)
        /\ rest.until = Len(buffer \o stream)

\* Everything sent is handed over in the end, except that a last byte that comes
\* alone waits for more (readMinimumLength(2)).
LoneByte == Len(stream) = 1
Drains   == <>[](handed = sent \/ LoneByte \/ ~open)
=============================================================================

----------------------------- MODULE ControlLink -----------------------------
(***************************************************************************)
(* The control channel of a session, talking to the server over a datagram *)
(* link that loses, repeats and reorders packets.  The client side is the  *)
(* code of ControlChannel.swift as OpenVPNSession.swift drives it; the     *)
(* server is external, and keeps a queue per key as OpenVPN servers do.    *)
(*                                                                         *)
(* A renegotiation (soft reset) makes the client start over with packet id *)
(* 0 under the next key, in the same session.  Packets are pairs of the    *)
(* key they were sent for and their id.                                    *)
(***************************************************************************)
EXTENDS ControlChannel

CONSTANTS LastKey,  \* bound: the keys negotiated are 0 .. LastKey
          MaxOut,   \* bound: packets the client sends for a key
          MaxIn,    \* bound: packets the server sends for a key
          Orderly   \* nothing of a key is in flight any more when the next one starts

ASSUME ControlLinkAssumption ==
    /\ LastKey \in Nat /\ MaxOut \in Nat /\ MaxIn \in Nat
    /\ Orderly \in BOOLEAN

VARIABLES key,      \* negotiationKey.id
          channel,  \* the client's queues
          handled,  \* handled[k]: the packets that handleControlPacket was given under key
                    \* k: their ids, or Dropped for one that failed its key check
          wire,     \* packets on their way to the server: <<key, id>>
          wireAcks, \* acks on their way to the server
          back,     \* packets on their way to the client
          backAcks, \* acks on their way to the client
          got,      \* got[k]: ids the server has received for key k
          said,     \* said[k]: how many packets the server has sent for key k
          unacked   \* unacked[k]: those it still retransmits

vars == <<key, channel, handled, wire, wireAcks, back, backAcks, got, said, unacked>>
server == <<got, said, unacked>>

KeyIds  == 0 .. LastKey
Dropped == -1
Packets(n) == KeyIds \X (0 .. n - 1)

-----------------------------------------------------------------------------
\* The client.

\* flushControlQueue: everything queued goes out, except what was written a
\* moment ago.
Flush(ch, recent) ==
    /\ channel' = MarkWritten(ch, recent)
    /\ wire' = wire \cup {<<ch.outbound[id], id>> : id \in Written(ch, recent)}

\* enqueueControlPackets, for a payload of n packets; recent are those that
\* retransmissionLimit still holds back.
Send(n, recent) ==
    /\ channel.nextOut + n <= MaxOut
    /\ recent \subseteq channel.pendingAcks
    /\ Flush(EnqueueOutbound(channel, [i \in 1 .. n |-> key]), recent)
    /\ UNCHANGED <<key, handled, wireAcks, back, backAcks, server>>

\* The tick of loopNegotiation on an unreliable link.
Tick(recent) ==
    /\ recent \subseteq channel.pendingAcks
    /\ Flush(channel, recent)
    /\ UNCHANGED <<key, handled, wireAcks, back, backAcks, server>>

\* readInboundPacket with an ack of the server.  The session matches, and the
\* key of the ack is not looked at.
ReceiveAck(ack) ==
    /\ ack \in backAcks
    /\ channel' = ReadAcks(channel, {ack[2]})
    /\ UNCHANGED <<key, handled, wire, wireAcks, back, backAcks, server>>

\* receiveLink with a control packet: it is acknowledged, then queued, and the
\* packets that are due are handled; one that carries another key is dropped then.
ReceivePacket(packet) ==
    /\ packet \in back
    /\ wireAcks' = wireAcks \cup {packet}
    /\ channel' = EnqueueInbound(channel, packet[2], packet)
    /\ LET due == Handled(channel, packet[2], packet)
       IN  handled' = [handled EXCEPT ![key] = @ \o [n \in DOMAIN due |->
                         IF due[n][1] = key THEN due[n][2] ELSE Dropped]]
    /\ UNCHANGED <<key, wire, back, backAcks, server>>

\* Nothing of key k is left anywhere that could still reach the client.
Quiet(k) == /\ \A packet \in wire \cup wireAcks \cup back \cup backAcks : packet[1] # k
            /\ unacked[k] = {}

\* softReset: resetControlChannel(forNewSession: false) and the next key.
SoftReset ==
    /\ key < LastKey
    /\ Orderly => Quiet(key)
    /\ key' = key + 1
    /\ channel' = FreshChannel
    /\ UNCHANGED <<handled, wire, wireAcks, back, backAcks, server>>

-----------------------------------------------------------------------------
\* The server.

ServerReceive(packet) ==
    /\ packet \in wire
    /\ got' = [got EXCEPT ![packet[1]] = @ \cup {packet[2]}]
    /\ backAcks' = backAcks \cup {packet}
    /\ UNCHANGED <<key, channel, handled, wire, wireAcks, back, said, unacked>>

ServerSend(k) ==
    /\ k = key
    /\ said[k] < MaxIn
    /\ said' = [said EXCEPT ![k] = @ + 1]
    /\ unacked' = [unacked EXCEPT ![k] = @ \cup {said[k]}]
    /\ back' = back \cup {<<k, said[k]>>}
    /\ UNCHANGED <<key, channel, handled, wire, wireAcks, backAcks, got>>

ServerResend(packet) ==
    /\ packet[2] \in unacked[packet[1]]
    /\ back' = back \cup {packet}
    /\ UNCHANGED <<key, channel, handled, wire, wireAcks, backAcks, server>>

ServerReceiveAck(ack) ==
    /\ ack \in wireAcks
    /\ unacked' = [unacked EXCEPT ![ack[1]] = @ \ {ack[2]}]
    /\ UNCHANGED <<key, channel, handled, wire, wireAcks, back, backAcks, got, said>>

\* A datagram, or its last copy, is lost.
Lose == /\ \/ \E p \in wire : wire' = wire \ {p} /\ UNCHANGED <<wireAcks, back, backAcks>>
           \/ \E p \in wireAcks : wireAcks' = wireAcks \ {p} /\ UNCHANGED <<wire, back, backAcks>>
           \/ \E p \in back : back' = back \ {p} /\ UNCHANGED <<wire, wireAcks, backAcks>>
           \/ \E p \in backAcks : backAcks' = backAcks \ {p} /\ UNCHANGED <<wire, wireAcks, back>>
        /\ UNCHANGED <<key, channel, handled, server>>

-----------------------------------------------------------------------------
Init == /\ key = 0
        /\ channel = FreshChannel
        /\ handled = [k \in KeyIds |-> <<>>]
        /\ wire = {} /\ wireAcks = {} /\ back = {} /\ backAcks = {}
        /\ got = [k \in KeyIds |-> {}]
        /\ said = [k \in KeyIds |-> 0]
        /\ unacked = [k \in KeyIds |-> {}]

Client == \/ \E n \in 1 .. 2, recent \in SUBSET channel.pendingAcks : Send(n, recent)
          \/ \E recent \in SUBSET channel.pendingAcks : Tick(recent)
          \/ \E ack \in backAcks : ReceiveAck(ack)
          \/ \E packet \in back : ReceivePacket(packet)
          \/ SoftReset

Server == \/ \E packet \in wire : ServerReceive(packet)
          \/ \E k \in KeyIds : ServerSend(k)
          \/ \E packet \in Packets(MaxIn) : ServerResend(packet)
          \/ \E ack \in wireAcks : ServerReceiveAck(ack)

Next == Client \/ Server \/ Lose

Spec == Init /\ [][Next]_vars

\* The queue ticks as long as the negotiation lasts, the server keeps
\* retransmitting, and a packet that is sent again and again gets through.
Fairness ==
    /\ WF_vars(Tick({}))
    /\ \A packet \in Packets(MaxOut) : /\ SF_vars(ServerReceive(packet))
                                       /\ SF_vars(ReceiveAck(packet))
    /\ \A packet \in Packets(MaxIn)  : /\ WF_vars(ServerResend(packet))
                                       /\ SF_vars(ReceivePacket(packet))
                                       /\ SF_vars(ServerReceiveAck(packet))

FairSpec == Spec /\ Fairness
-----------------------------------------------------------------------------
TypeOK ==
    /\ key \in KeyIds
    /\ channel = [outbound |-> channel.outbound, nextOut |-> channel.nextOut,
                  pendingAcks |-> channel.pendingAcks,
                  inbound |-> channel.inbound, nextIn |-> channel.nextIn]
    /\ channel.nextOut \in 0 .. MaxOut
    /\ channel.outbound \in [DOMAIN channel.outbound -> KeyIds]
    /\ DOMAIN channel.outbound \subseteq 0 .. channel.nextOut - 1
    /\ channel.pendingAcks \subseteq DOMAIN channel.outbound
    /\ channel.nextIn \in 0 .. MaxIn
    /\ channel.inbound \in [DOMAIN channel.inbound -> Packets(MaxIn)]
    /\ DOMAIN channel.inbound \subseteq channel.nextIn + 1 .. MaxIn - 1
    /\ handled \in [KeyIds -> Seq({Dropped} \cup 0 .. MaxIn - 1)]
    /\ wire \cup backAcks \subseteq Packets(MaxOut)
    /\ back \cup wireAcks \subseteq Packets(MaxIn)
    /\ got \in [KeyIds -> SUBSET (0 .. MaxOut - 1)]
    /\ said \in [KeyIds -> 0 .. MaxIn]
    /\ unacked \in [KeyIds -> SUBSET (0 .. MaxIn - 1)]

\* A packet leaves the outbound queue only when the server has it under the key
\* it was sent for: "drop queued out packets if ack-ed" (ControlChannel.swift).
NothingForgotten ==
    \A id \in 0 .. channel.nextOut - 1 :
        id \notin DOMAIN channel.outbound => id \in got[key]

\* The packets handled for a negotiation are the first ones of the server's, in
\* order, none missing and none twice (enqueueInboundPacket).
InOrder == handled[key] = [n \in 1 .. channel.nextIn |-> n - 1]

\* What the client acknowledges it also keeps, to handle it now or when its turn
\* comes (receiveLink sends the ack before it queues the packet).
AckedIsKept ==
    \A id \in 0 .. said[key] - 1 :
        (<<key, id>> \in wireAcks \/ id \notin unacked[key])
        => \/ \E n \in DOMAIN handled[key] : handled[key][n] = id
           \/ id \in DOMAIN channel.inbound /\ channel.inbound[id] = <<key, id>>

\* How many packets the server has got without a gap.
Prefix(ids) == Cardinality({id \in ids : 0 .. id \subseteq ids})

\* Either direction is a reliable stream while the first negotiation lasts.
Up   == INSTANCE ReliableStream WITH submitted <- channel.nextOut, arrived <- Prefix(got[key]),
                                     Limit <- MaxOut
Down == INSTANCE ReliableStream WITH submitted <- said[key], arrived <- Len(handled[key]),
                                     Limit <- MaxIn

\* What the client submits reaches the server in order, whatever is lost.
UpIsReliable == Up!Spec

\* What the server sends comes out of the inbound queue in order, once.
DownIsReliable == Down!Spec

\* Retransmission gets every packet through in the end, in both directions.
UpArrives   == Up!AllArrive
DownArrives == Down!AllArrive
=============================================================================

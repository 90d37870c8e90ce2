------------------------- MODULE ControlLinkProofs -------------------------
(***************************************************************************)
(* The control channel for any number of keys and of packets.  When a      *)
(* negotiation starts with nothing of the former one in flight, no packet  *)
(* leaves the outbound queue before the server has it, the packets of the  *)
(* server are handled in order and once, and none that was acknowledged is *)
(* lost.  Within one negotiation both directions are reliable streams.     *)
(***************************************************************************)
EXTENDS ControlLink, ControlChannelProofs

\* No packet of a former negotiation can reach this one: either the link is quiet
\* when a negotiation starts, or there is a single negotiation.
Separate == Orderly \/ LastKey = 0
-----------------------------------------------------------------------------
(* The operations on the queues (ControlChannel.swift).                    *)

\* enqueueOutboundPackets: the packets of a payload take the next ids.
LEMMA OutboundStep ==
  ASSUME TypeOK, NEW n \in Nat
  PROVE  LET fresh == channel.nextOut .. channel.nextOut + n - 1
         IN  EnqueueOutbound(channel, [i \in 1 .. n |-> key])
               = [outbound |-> [id \in DOMAIN channel.outbound \cup fresh |->
                                  IF id \in fresh THEN key ELSE channel.outbound[id]],
                  nextOut |-> channel.nextOut + n, pendingAcks |-> channel.pendingAcks,
                  inbound |-> channel.inbound, nextIn |-> channel.nextIn]
<1> DEFINE contents == [i \in 1 .. n |-> key]
           Fresh(k) == channel.nextOut .. channel.nextOut + k - 1
           Out(k) == [id \in DOMAIN channel.outbound \cup Fresh(k) |->
                        IF id \in Fresh(k) THEN contents[id - channel.nextOut + 1]
                                           ELSE channel.outbound[id]]
           Grown(k) == [channel EXCEPT !.outbound = Out(k), !.nextOut = channel.nextOut + k]
           ch == EnqueueOutbound(channel, contents)
<1>1. ch = Grown(Len(contents))
  BY DEF EnqueueOutbound
<1>2. Len(contents) = n
  OBVIOUS
<1>3. ch = Grown(n)
  <2> HIDE DEF ch, Grown, contents
  <2> QED BY <1>1, <1>2
<1>4. ch = [outbound |-> Out(n), nextOut |-> channel.nextOut + n,
            pendingAcks |-> channel.pendingAcks,
            inbound |-> channel.inbound, nextIn |-> channel.nextIn]
  <2> HIDE DEF ch, Out
  <2> QED BY <1>3 DEF TypeOK
<1>5. \A id \in Fresh(n) : id - channel.nextOut + 1 \in 1 .. n
  BY DEF TypeOK
<1>6. Out(n) = [id \in DOMAIN channel.outbound \cup Fresh(n) |->
                  IF id \in Fresh(n) THEN key ELSE channel.outbound[id]]
  BY <1>5
<1> QED
  <2> HIDE DEF Out
  <2> QED BY <1>4, <1>6

\* receiveLink with a control packet: what the client acknowledges, keeps and
\* handles, l being the first id it lacks.
LEMMA PacketStep ==
  ASSUME TypeOK, NEW packet \in back, ReceivePacket(packet)
  PROVE  LET queue == Joined(channel, packet[2], packet)
             due(n) == queue[channel.nextIn + n - 1]
         IN  \E l \in channel.nextIn .. MaxIn, news \in Seq({Dropped} \cup 0 .. MaxIn - 1) :
               /\ channel' = [outbound |-> channel.outbound, nextOut |-> channel.nextOut,
                              pendingAcks |-> channel.pendingAcks,
                              inbound |-> Without(queue, channel.nextIn .. l - 1),
                              nextIn |-> l]
               /\ handled' = [handled EXCEPT ![key] = @ \o news]
               /\ Len(news) = l - channel.nextIn
               /\ \A n \in 1 .. Len(news) :
                    news[n] = IF due(n)[1] = key THEN due(n)[2] ELSE Dropped
               /\ wireAcks' = wireAcks \cup {packet}
               /\ UNCHANGED <<key, wire, back, backAcks, got, said, unacked>>
               /\ queue \in [DOMAIN queue -> Packets(MaxIn)]
               /\ l \notin DOMAIN queue
               /\ channel.nextIn .. l - 1 \subseteq DOMAIN queue
               /\ DOMAIN queue \subseteq channel.nextIn .. MaxIn - 1
<1> DEFINE queue == Joined(channel, packet[2], packet)
           run == Run(queue, channel.nextIn)
           l == channel.nextIn + Cardinality(run)
           due == Handled(channel, packet[2], packet)
           news == [n \in DOMAIN due |-> IF due[n][1] = key THEN due[n][2] ELSE Dropped]
<1>1. /\ packet \in Packets(MaxIn) /\ packet[2] \in 0 .. MaxIn - 1
      /\ channel.nextIn \in 0 .. MaxIn /\ MaxIn \in Nat
      /\ DOMAIN channel.inbound \subseteq channel.nextIn + 1 .. MaxIn - 1
  BY ControlLinkAssumption DEF TypeOK, Packets
<1>2. /\ l \in channel.nextIn .. MaxIn
      /\ run = channel.nextIn .. l - 1
      /\ l \notin DOMAIN queue
      /\ channel.nextIn .. l - 1 \subseteq DOMAIN queue
      /\ DOMAIN queue \subseteq channel.nextIn .. MaxIn - 1
      /\ DOMAIN due = 1 .. l - channel.nextIn
      /\ \A n \in 1 .. l - channel.nextIn : due[n] = queue[channel.nextIn + n - 1]
  BY <1>1, InboundStep
<1>3. queue \in [DOMAIN queue -> Packets(MaxIn)]
  BY <1>1 DEF TypeOK, Joined
<1>4. channel' = [channel EXCEPT !.inbound = Without(queue, run),
                                 !.nextIn = l]
  BY DEF ReceivePacket, EnqueueInbound
<1>5. handled' = [handled EXCEPT ![key] = @ \o news]
  BY DEF ReceivePacket
<1>6. wireAcks' = wireAcks \cup {packet} /\ UNCHANGED <<key, wire, back, backAcks, got, said, unacked>>
  BY DEF ReceivePacket, server
<1> HIDE DEF queue, run, l, due
<1>7. \A n \in 1 .. l - channel.nextIn : channel.nextIn + n - 1 \in channel.nextIn .. l - 1
  BY <1>1, <1>2
<1>8. \A n \in DOMAIN due : due[n] \in Packets(MaxIn)
  BY <1>2, <1>3, <1>7
<1>9. news \in Seq({Dropped} \cup 0 .. MaxIn - 1) /\ Len(news) = l - channel.nextIn
  <2>1. l - channel.nextIn \in Nat
    BY <1>1, <1>2
  <2>2. \A n \in DOMAIN due :
          (IF due[n][1] = key THEN due[n][2] ELSE Dropped) \in {Dropped} \cup 0 .. MaxIn - 1
    BY <1>8 DEF Packets
  <2>3. news \in [1 .. l - channel.nextIn -> {Dropped} \cup 0 .. MaxIn - 1]
    BY <1>2, <2>2
  <2> HIDE DEF news
  <2> QED BY <2>1, <2>3
<1>10. \A n \in 1 .. Len(news) :
         news[n] = IF queue[channel.nextIn + n - 1][1] = key
                   THEN queue[channel.nextIn + n - 1][2] ELSE Dropped
  BY <1>2, <1>9
<1> HIDE DEF news
<1>11. channel' = [outbound |-> channel.outbound, nextOut |-> channel.nextOut,
                   pendingAcks |-> channel.pendingAcks,
                   inbound |-> Without(queue, channel.nextIn .. l - 1), nextIn |-> l]
  BY <1>2, <1>4 DEF TypeOK
<1> QED
  BY <1>2, <1>3, <1>5, <1>6, <1>9, <1>10, <1>11 DEF queue
-----------------------------------------------------------------------------
(* The type invariant.                                                     *)

\* Nothing has been sent.
LEMMA TypeInit == Init => TypeOK
  BY ControlLinkAssumption DEF Init, TypeOK, FreshChannel, KeyIds, Packets

\* A write puts packets of the queue on the wire.
LEMMA FlushTypes ==
  ASSUME TypeOK, NEW ch, NEW recent, Flush(ch, recent),
         UNCHANGED <<key, handled, wireAcks, back, backAcks, got, said, unacked>>,
         ch = [outbound |-> ch.outbound, nextOut |-> ch.nextOut,
               pendingAcks |-> ch.pendingAcks,
               inbound |-> channel.inbound, nextIn |-> channel.nextIn],
         ch.nextOut \in 0 .. MaxOut,
         ch.outbound \in [DOMAIN ch.outbound -> KeyIds],
         DOMAIN ch.outbound \subseteq 0 .. ch.nextOut - 1,
         ch.pendingAcks \subseteq DOMAIN ch.outbound
  PROVE  TypeOK'
<1>1. Written(ch, recent) \subseteq DOMAIN ch.outbound
  BY DEF Written
<1>2. channel' = [outbound |-> ch.outbound, nextOut |-> ch.nextOut,
                  pendingAcks |-> ch.pendingAcks \cup Written(ch, recent),
                  inbound |-> channel.inbound, nextIn |-> channel.nextIn]
  BY DEF Flush, MarkWritten
<1>3. wire' \subseteq Packets(MaxOut)
  <2>1. wire' = wire \cup {<<ch.outbound[id], id>> : id \in Written(ch, recent)}
    BY DEF Flush
  <2>2. \A id \in Written(ch, recent) : ch.outbound[id] \in KeyIds /\ id \in 0 .. MaxOut - 1
    BY <1>1, ControlLinkAssumption
  <2> QED BY <2>1, <2>2 DEF TypeOK, Packets
<1> QED
  BY <1>1, <1>2, <1>3 DEF TypeOK

LEMMA SendTypes ==
  ASSUME TypeOK, NEW n \in 1 .. 2, NEW recent, Send(n, recent)
  PROVE  TypeOK'
<1> DEFINE fresh == channel.nextOut .. channel.nextOut + n - 1
           ch == EnqueueOutbound(channel, [i \in 1 .. n |-> key])
<1>1. ch = [outbound |-> [id \in DOMAIN channel.outbound \cup fresh |->
                            IF id \in fresh THEN key ELSE channel.outbound[id]],
            nextOut |-> channel.nextOut + n, pendingAcks |-> channel.pendingAcks,
            inbound |-> channel.inbound, nextIn |-> channel.nextIn]
  BY OutboundStep
<1>2. /\ Flush(ch, recent)
      /\ UNCHANGED <<key, handled, wireAcks, back, backAcks, got, said, unacked>>
  BY DEF Send, server
<1>3. channel.nextOut + n \in 0 .. MaxOut
  BY ControlLinkAssumption DEF Send, TypeOK
<1> HIDE DEF ch
<1>4. /\ ch.outbound = [id \in DOMAIN channel.outbound \cup fresh |->
                         IF id \in fresh THEN key ELSE channel.outbound[id]]
      /\ ch.nextOut = channel.nextOut + n /\ ch.pendingAcks = channel.pendingAcks
      /\ ch = [outbound |-> ch.outbound, nextOut |-> ch.nextOut,
               pendingAcks |-> ch.pendingAcks,
               inbound |-> channel.inbound, nextIn |-> channel.nextIn]
  BY <1>1
<1>5. DOMAIN ch.outbound = DOMAIN channel.outbound \cup fresh
  BY <1>4
<1>6. fresh \subseteq 0 .. channel.nextOut + n - 1
  BY DEF TypeOK
<1>7. channel.nextOut \in Nat /\ DOMAIN channel.outbound \subseteq 0 .. channel.nextOut + n - 1
  BY DEF TypeOK
<1>8. ch.outbound \in [DOMAIN ch.outbound -> KeyIds]
  <2> HIDE DEF fresh
  <2>1. \A id \in DOMAIN channel.outbound : channel.outbound[id] \in KeyIds
    BY DEF TypeOK
  <2>2. key \in KeyIds
    BY DEF TypeOK
  <2> QED BY <1>4, <1>5, <2>1, <2>2
<1>9. DOMAIN ch.outbound \subseteq 0 .. ch.nextOut - 1
  <2> HIDE DEF fresh
  <2> QED BY <1>4, <1>5, <1>6, <1>7
<1>10. ch.pendingAcks \subseteq DOMAIN ch.outbound
  BY <1>4, <1>5 DEF TypeOK
<1>11. ch.nextOut \in 0 .. MaxOut
  BY <1>3, <1>4
<1> QED
  BY <1>2, <1>4, <1>8, <1>9, <1>10, <1>11, FlushTypes

LEMMA TypeStep ==
  ASSUME TypeOK, [Next]_vars
  PROVE  TypeOK'
<1>1. ASSUME NEW n \in 1 .. 2, NEW recent \in SUBSET channel.pendingAcks, Send(n, recent)
      PROVE  TypeOK'
  BY <1>1, SendTypes
<1>2. ASSUME NEW recent \in SUBSET channel.pendingAcks, Tick(recent)
      PROVE  TypeOK'
  BY <1>2, FlushTypes DEF Tick, TypeOK, server
<1>3. ASSUME NEW ack \in backAcks, ReceiveAck(ack)
      PROVE  TypeOK'
  BY <1>3 DEF ReceiveAck, ReadAcks, Without, TypeOK, server
<1>4. ASSUME NEW packet \in back, ReceivePacket(packet)
      PROVE  TypeOK'
  <2> DEFINE queue == Joined(channel, packet[2], packet)
  <2>1. PICK l \in channel.nextIn .. MaxIn, news \in Seq({Dropped} \cup 0 .. MaxIn - 1) :
          /\ channel' = [outbound |-> channel.outbound, nextOut |-> channel.nextOut,
                         pendingAcks |-> channel.pendingAcks,
                         inbound |-> Without(queue, channel.nextIn .. l - 1), nextIn |-> l]
          /\ handled' = [handled EXCEPT ![key] = @ \o news]
          /\ wireAcks' = wireAcks \cup {packet}
          /\ UNCHANGED <<key, wire, back, backAcks, got, said, unacked>>
          /\ queue \in [DOMAIN queue -> Packets(MaxIn)]
          /\ l \notin DOMAIN queue
          /\ DOMAIN queue \subseteq channel.nextIn .. MaxIn - 1
    BY <1>4, PacketStep
  <2>2. handled' \in [KeyIds -> Seq({Dropped} \cup 0 .. MaxIn - 1)]
    BY <2>1, ConcatProperties DEF TypeOK
  <2>3. l \in 0 .. MaxIn /\ DOMAIN queue \ (channel.nextIn .. l - 1) \subseteq l + 1 .. MaxIn - 1
    BY <2>1, ControlLinkAssumption DEF TypeOK
  <2> HIDE DEF queue
  <2>4. /\ Without(queue, channel.nextIn .. l - 1)
            \in [DOMAIN queue \ (channel.nextIn .. l - 1) -> Packets(MaxIn)]
        /\ DOMAIN Without(queue, channel.nextIn .. l - 1)
            = DOMAIN queue \ (channel.nextIn .. l - 1)
    BY <2>1 DEF Without
  <2> QED
    BY <2>1, <2>2, <2>3, <2>4 DEF TypeOK
<1>5. CASE SoftReset
  BY <1>5, ControlLinkAssumption DEF SoftReset, FreshChannel, TypeOK, KeyIds, server
<1>6. ASSUME NEW packet \in wire, ServerReceive(packet)
      PROVE  TypeOK'
  BY <1>6 DEF ServerReceive, TypeOK, Packets
<1>7. ASSUME NEW k \in KeyIds, ServerSend(k)
      PROVE  TypeOK'
  <2>1. said[k] \in 0 .. MaxIn - 1 /\ said[k] + 1 \in 0 .. MaxIn
    BY <1>7, ControlLinkAssumption DEF ServerSend, TypeOK
  <2> QED BY <1>7, <2>1 DEF ServerSend, TypeOK, Packets
<1>8. ASSUME NEW packet \in Packets(MaxIn), ServerResend(packet)
      PROVE  TypeOK'
  BY <1>8 DEF ServerResend, TypeOK, server
<1>9. ASSUME NEW ack \in wireAcks, ServerReceiveAck(ack)
      PROVE  TypeOK'
  BY <1>9 DEF ServerReceiveAck, TypeOK
<1>10. CASE Lose
  BY <1>10 DEF Lose, TypeOK, server
<1>11. CASE UNCHANGED vars
  BY <1>11 DEF vars, TypeOK, server
<1> QED
  BY <1>1, <1>2, <1>3, <1>4, <1>5, <1>6, <1>7, <1>8, <1>9, <1>10, <1>11
     DEF Next, Client, Server

\* The queues, the packets in flight and what either side keeps stay within the
\* keys and the packets of the negotiations, whatever a packet of another key
\* does to the queue (ControlChannel.swift).
THEOREM Typed == Spec => []TypeOK
<1>1. TypeOK /\ [Next]_vars => TypeOK'
  BY TypeStep
<1> QED
  BY TypeInit, <1>1, PTL DEF Spec
-----------------------------------------------------------------------------
(* The outbound half.                                                      *)

\* The queue holds packets of the key under negotiation.
QueueOfKey == \A id \in DOMAIN channel.outbound : channel.outbound[id] = key

\* Nothing of another key is in flight.
FlightOfKey == \A packet \in wire \cup backAcks : packet[1] = key

\* The server acknowledges what it has.
AcksTrue == \A ack \in backAcks : ack[2] \in got[ack[1]]

\* The server has only what was submitted, and nothing of the keys to come.
Submitted ==
    /\ \A packet \in wire : packet[2] < channel.nextOut
    /\ \A id \in got[key] : id < channel.nextOut
    /\ \A k \in KeyIds : k > key => got[k] = {}

\* What makes NothingForgotten inductive: an ack that comes in is true, and is
\* of the key whose packet it removes.
OutInv == QueueOfKey /\ FlightOfKey /\ AcksTrue /\ Submitted /\ NothingForgotten

\* Nothing has been sent.
LEMMA OutInit == Init => OutInv
  BY ControlLinkAssumption
     DEF Init, OutInv, QueueOfKey, FlightOfKey, AcksTrue, Submitted, NothingForgotten,
         FreshChannel, KeyIds

\* A write keeps the queue, and puts packets of the key on the wire.
LEMMA FlushKeeps ==
  ASSUME TypeOK, OutInv, NEW ch, NEW recent, Flush(ch, recent),
         UNCHANGED <<key, backAcks, got>>,
         ch.nextOut \in Nat, ch.nextOut >= channel.nextOut,
         DOMAIN ch.outbound = DOMAIN channel.outbound
                                \cup (channel.nextOut .. ch.nextOut - 1),
         \A id \in DOMAIN ch.outbound : ch.outbound[id] = key
  PROVE  /\ channel'.outbound = ch.outbound /\ channel'.nextOut = ch.nextOut
         /\ OutInv'
<1>1. channel'.outbound = ch.outbound /\ channel'.nextOut = ch.nextOut
  <2>1. channel' = [ch EXCEPT !.pendingAcks = ch.pendingAcks \cup Written(ch, recent)]
    BY DEF Flush, MarkWritten
  <2> QED BY <2>1
<1>2. /\ wire' = wire \cup {<<key, id>> : id \in Written(ch, recent)}
      /\ Written(ch, recent) \subseteq 0 .. ch.nextOut - 1
  BY DEF Flush, Written, TypeOK
<1>3. QueueOfKey' /\ FlightOfKey' /\ AcksTrue'
  BY <1>1, <1>2 DEF OutInv, QueueOfKey, FlightOfKey, AcksTrue
<1>4. NothingForgotten'
  BY <1>1 DEF OutInv, TypeOK, NothingForgotten
<1>5. Submitted'
  <2>1. channel.nextOut \in Nat /\ wire \subseteq Packets(MaxOut) /\ got[key] \subseteq Nat
    BY DEF TypeOK
  <2>2. \A packet \in wire' : packet[2] < ch.nextOut
    BY <1>2, <2>1 DEF OutInv, Submitted, Packets
  <2>3. \A id \in got[key] : id < ch.nextOut
    BY <2>1 DEF OutInv, Submitted
  <2> QED BY <1>1, <2>2, <2>3 DEF OutInv, Submitted
<1> QED
  BY <1>1, <1>3, <1>4, <1>5 DEF OutInv

\* A payload joins the end of the queue and is written.
LEMMA SendKeeps ==
  ASSUME TypeOK, OutInv, NEW n \in 1 .. 2, NEW recent, Send(n, recent)
  PROVE  OutInv' /\ channel'.nextOut > channel.nextOut
<1> DEFINE fresh == channel.nextOut .. channel.nextOut + n - 1
           ch == EnqueueOutbound(channel, [i \in 1 .. n |-> key])
<1>1. ch = [outbound |-> [id \in DOMAIN channel.outbound \cup fresh |->
                            IF id \in fresh THEN key ELSE channel.outbound[id]],
            nextOut |-> channel.nextOut + n, pendingAcks |-> channel.pendingAcks,
            inbound |-> channel.inbound, nextIn |-> channel.nextIn]
  BY OutboundStep
<1>2. Flush(ch, recent) /\ UNCHANGED <<key, backAcks, got>>
  BY DEF Send, server
<1> HIDE DEF ch
<1>3. /\ ch.outbound = [id \in DOMAIN channel.outbound \cup fresh |->
                         IF id \in fresh THEN key ELSE channel.outbound[id]]
      /\ ch.nextOut = channel.nextOut + n
  BY <1>1
<1>4. /\ DOMAIN ch.outbound = DOMAIN channel.outbound \cup fresh
      /\ \A id \in DOMAIN ch.outbound : ch.outbound[id] = key
  <2> HIDE DEF fresh
  <2> QED BY <1>3 DEF OutInv, QueueOfKey
<1>5. /\ ch.nextOut \in Nat /\ ch.nextOut > channel.nextOut /\ channel.nextOut \in Nat
      /\ fresh = channel.nextOut .. ch.nextOut - 1
  <2>1. channel.nextOut \in Nat
    BY DEF TypeOK
  <2> QED BY <1>3, <2>1
<1> HIDE DEF fresh
<1> QED
  BY <1>2, <1>4, <1>5, FlushKeeps

\* A tick writes what the queue holds.
LEMMA TickKeeps ==
  ASSUME TypeOK, OutInv, NEW recent, Tick(recent)
  PROVE  OutInv' /\ channel'.nextOut = channel.nextOut
<1>1. Flush(channel, recent) /\ UNCHANGED <<key, backAcks, got>>
  BY DEF Tick, server
<1>2. channel.nextOut \in Nat /\ channel.nextOut .. channel.nextOut - 1 = {}
  BY DEF TypeOK
<1> QED
  BY <1>1, <1>2, FlushKeeps DEF OutInv, QueueOfKey

\* An ack removes a packet that the server has.
LEMMA AckKeeps ==
  ASSUME TypeOK, OutInv, NEW ack \in backAcks, ReceiveAck(ack)
  PROVE  OutInv' /\ channel'.nextOut = channel.nextOut
<1>1. /\ channel'.outbound = [id \in DOMAIN channel.outbound \ {ack[2]} |-> channel.outbound[id]]
      /\ channel'.nextOut = channel.nextOut
      /\ UNCHANGED <<key, wire, backAcks, got>>
  BY DEF ReceiveAck, ReadAcks, Without, TypeOK, server
<1>2. ack[2] \in got[key]
  BY DEF OutInv, FlightOfKey, AcksTrue
<1>3. QueueOfKey' /\ FlightOfKey' /\ AcksTrue' /\ Submitted'
  BY <1>1 DEF OutInv, QueueOfKey, FlightOfKey, AcksTrue, Submitted
<1>4. NothingForgotten'
  BY <1>1, <1>2 DEF OutInv, NothingForgotten
<1> QED
  BY <1>1, <1>3, <1>4 DEF OutInv

\* The next negotiation starts with an empty queue and a quiet link.
LEMMA SoftResetKeeps ==
  ASSUME TypeOK, OutInv, Separate, SoftReset
  PROVE  OutInv'
<1>1. Orderly
  BY ControlLinkAssumption DEF Separate, SoftReset, TypeOK, KeyIds
<1>2. wire = {} /\ backAcks = {}
  BY <1>1 DEF SoftReset, Quiet, OutInv, FlightOfKey
<1>3. key' = key + 1 /\ key' \in KeyIds /\ key \in Nat
  BY ControlLinkAssumption DEF SoftReset, TypeOK, KeyIds
<1>4. channel'.outbound = <<>> /\ channel'.nextOut = 0 /\ UNCHANGED <<wire, backAcks, got>>
  BY DEF SoftReset, FreshChannel, server
<1>5. QueueOfKey' /\ FlightOfKey' /\ AcksTrue' /\ NothingForgotten'
  BY <1>2, <1>4 DEF QueueOfKey, FlightOfKey, AcksTrue, NothingForgotten
<1>6. Submitted'
  BY <1>2, <1>3, <1>4 DEF OutInv, Submitted, KeyIds
<1> QED
  BY <1>5, <1>6 DEF OutInv

\* The server acknowledges a packet of the key that it has got.
LEMMA ServerReceiveKeeps ==
  ASSUME TypeOK, OutInv, NEW packet \in wire, ServerReceive(packet)
  PROVE  OutInv'
<1>1. packet \in Packets(MaxOut) /\ packet[1] = key /\ packet[2] < channel.nextOut
  BY DEF OutInv, TypeOK, FlightOfKey, Submitted
<1>2. /\ got' = [got EXCEPT ![key] = @ \cup {packet[2]}]
      /\ backAcks' = backAcks \cup {packet}
      /\ UNCHANGED <<key, channel, wire>>
  BY <1>1 DEF ServerReceive
<1>3. /\ got'[key] = got[key] \cup {packet[2]}
      /\ \A k \in KeyIds \ {key} : got'[k] = got[k]
  BY <1>2 DEF TypeOK
<1>4. QueueOfKey' /\ FlightOfKey'
  BY <1>1, <1>2 DEF OutInv, QueueOfKey, FlightOfKey
<1>5. AcksTrue'
  BY <1>1, <1>2, <1>3 DEF OutInv, FlightOfKey, AcksTrue
<1>6. Submitted' /\ NothingForgotten'
  BY <1>1, <1>2, <1>3 DEF OutInv, TypeOK, KeyIds, Submitted, NothingForgotten
<1> QED
  BY <1>4, <1>5, <1>6 DEF OutInv

\* What only takes packets off the link, or concerns the other direction.
LEMMA OthersKeep ==
  ASSUME OutInv, wire' \subseteq wire, backAcks' \subseteq backAcks,
         channel'.outbound = channel.outbound, channel'.nextOut = channel.nextOut,
         UNCHANGED <<key, got>>
  PROVE  OutInv'
  BY DEF OutInv, QueueOfKey, FlightOfKey, AcksTrue, Submitted, NothingForgotten

LEMMA OutStep ==
  ASSUME TypeOK, OutInv, Separate, [Next]_vars
  PROVE  OutInv'
<1>1. ASSUME NEW n \in 1 .. 2, NEW recent \in SUBSET channel.pendingAcks, Send(n, recent)
      PROVE  OutInv'
  BY <1>1, SendKeeps
<1>2. ASSUME NEW recent \in SUBSET channel.pendingAcks, Tick(recent)
      PROVE  OutInv'
  BY <1>2, TickKeeps
<1>3. ASSUME NEW ack \in backAcks, ReceiveAck(ack)
      PROVE  OutInv'
  BY <1>3, AckKeeps
<1>4. ASSUME NEW packet \in back, ReceivePacket(packet)
      PROVE  OutInv'
  BY <1>4, OthersKeep DEF ReceivePacket, EnqueueInbound, TypeOK, server
<1>5. CASE SoftReset
  BY <1>5, SoftResetKeeps
<1>6. ASSUME NEW packet \in wire, ServerReceive(packet)
      PROVE  OutInv'
  BY <1>6, ServerReceiveKeeps
<1>7. ASSUME NEW k \in KeyIds, ServerSend(k)
      PROVE  OutInv'
  BY <1>7, OthersKeep DEF ServerSend
<1>8. ASSUME NEW packet \in Packets(MaxIn), ServerResend(packet)
      PROVE  OutInv'
  BY <1>8, OthersKeep DEF ServerResend, server
<1>9. ASSUME NEW ack \in wireAcks, ServerReceiveAck(ack)
      PROVE  OutInv'
  BY <1>9, OthersKeep DEF ServerReceiveAck
<1>10. CASE Lose
  BY <1>10, OthersKeep DEF Lose, server
<1>11. CASE UNCHANGED vars
  BY <1>11, OthersKeep DEF vars, server
<1> QED
  BY <1>1, <1>2, <1>3, <1>4, <1>5, <1>6, <1>7, <1>8, <1>9, <1>10, <1>11
     DEF Next, Client, Server

\* A packet leaves the outbound queue only when the server has it, for every
\* number of keys and packets, if no ack of a former key is in flight when a
\* negotiation starts (readAcks).
THEOREM Retained ==
  ASSUME Separate
  PROVE  Spec => []NothingForgotten
<1>1. TypeOK /\ OutInv /\ [Next]_vars => OutInv'
  BY OutStep
<1>2. OutInv => NothingForgotten
  BY DEF OutInv
<1> QED
  BY Typed, OutInit, <1>1, <1>2, PTL DEF Spec
-----------------------------------------------------------------------------
(* The inbound half.                                                       *)

\* Nothing of another key is in flight, nor in the queue.
FlightOfKeyIn == \A packet \in back \cup wireAcks : packet[1] = key
QueueOfKeyIn == \A id \in DOMAIN channel.inbound : channel.inbound[id] = <<key, id>>

\* The server says nothing for the keys to come, and has nothing left to say for
\* those before.
SaysOfKey ==
    \A k \in KeyIds : /\ k > key => handled[k] = <<>> /\ said[k] = 0
                      /\ k # key => unacked[k] = {}

\* What the client holds, and what is in flight, the server has said.
Said == /\ \A packet \in back : packet[2] < said[key]
        /\ \A id \in unacked[key] \cup DOMAIN channel.inbound : id < said[key]
        /\ channel.nextIn <= said[key]

\* The client has handled the packet, or holds it until its turn.
Kept(id) == id < channel.nextIn \/ id \in DOMAIN channel.inbound

\* The client keeps what it acknowledges, and the server what is not kept.
AcksKept == \A ack \in wireAcks : Kept(ack[2])
SettledKept == \A id \in 0 .. said[key] - 1 : id \notin unacked[key] => Kept(id)

\* What makes InOrder and AckedIsKept inductive.
InInv == /\ FlightOfKeyIn /\ QueueOfKeyIn /\ SaysOfKey /\ Said
         /\ AcksKept /\ SettledKept /\ InOrder

\* Nothing has been said.
LEMMA InInit == Init => InInv
<1> SUFFICES ASSUME Init PROVE InInv
  OBVIOUS
<1>1. key \in KeyIds /\ handled[key] = <<>> /\ channel.nextIn = 0
  BY ControlLinkAssumption DEF Init, KeyIds, FreshChannel
<1>2. InOrder
  BY <1>1 DEF InOrder
<1> QED
  BY <1>1, <1>2
     DEF Init, FreshChannel, InInv, FlightOfKeyIn, QueueOfKeyIn, SaysOfKey, Said,
         AcksKept, SettledKept, Kept

\* A packet that comes in: the queue had no copy of what is handled now, and what
\* follows it is kept.
LEMMA PacketKeepsIn ==
  ASSUME TypeOK, InInv, NEW packet \in back, ReceivePacket(packet)
  PROVE  InInv'
<1> DEFINE queue == Joined(channel, packet[2], packet)
           due(n) == queue[channel.nextIn + n - 1]
<1>1. PICK l \in channel.nextIn .. MaxIn, news \in Seq({Dropped} \cup 0 .. MaxIn - 1) :
        /\ channel' = [outbound |-> channel.outbound, nextOut |-> channel.nextOut,
                       pendingAcks |-> channel.pendingAcks,
                       inbound |-> Without(queue, channel.nextIn .. l - 1), nextIn |-> l]
        /\ handled' = [handled EXCEPT ![key] = @ \o news]
        /\ Len(news) = l - channel.nextIn
        /\ \A n \in 1 .. Len(news) :
             news[n] = IF due(n)[1] = key THEN due(n)[2] ELSE Dropped
        /\ wireAcks' = wireAcks \cup {packet}
        /\ UNCHANGED <<key, wire, back, backAcks, got, said, unacked>>
        /\ l \notin DOMAIN queue
        /\ channel.nextIn .. l - 1 \subseteq DOMAIN queue
        /\ DOMAIN queue \subseteq channel.nextIn .. MaxIn - 1
  BY PacketStep
<1>2. /\ packet = <<key, packet[2]>> /\ packet[2] \in Nat /\ packet[2] < said[key]
      /\ channel.nextIn \in Nat /\ l \in Nat /\ MaxIn \in Nat /\ said[key] \in Nat
      /\ DOMAIN channel.inbound \subseteq Nat
  BY ControlLinkAssumption DEF InInv, FlightOfKeyIn, Said, TypeOK, Packets
<1>3. /\ \A id \in DOMAIN queue : queue[id] = <<key, id>> /\ id < said[key]
      /\ \A id : id \in DOMAIN queue <=> \/ id \in DOMAIN channel.inbound
                                         \/ id = packet[2] /\ id >= channel.nextIn
  BY <1>2 DEF InInv, QueueOfKeyIn, Said, Joined, TypeOK
<1> HIDE DEF queue
<1>4. /\ channel'.nextIn = l
      /\ DOMAIN channel'.inbound = DOMAIN queue \ (channel.nextIn .. l - 1)
      /\ \A id \in DOMAIN channel'.inbound : channel'.inbound[id] = queue[id]
  BY <1>1 DEF Without
<1>5. \A id \in Nat : Kept(id)' <=> Kept(id) \/ id = packet[2]
  <2> SUFFICES ASSUME NEW id \in Nat
               PROVE  id < l \/ id \in DOMAIN queue \ (channel.nextIn .. l - 1)
                        <=> Kept(id) \/ id = packet[2]
    BY <1>4 DEF Kept
  <2>1. /\ channel.nextIn <= l
        /\ \A i \in Nat : channel.nextIn <= i /\ i < l => i \in DOMAIN queue
        /\ \A i \in DOMAIN queue : i >= channel.nextIn
    <3>1. /\ channel.nextIn .. l - 1 \subseteq DOMAIN queue
          /\ DOMAIN queue \subseteq channel.nextIn .. MaxIn - 1
      BY <1>1
    <3> QED BY <1>2, <3>1
  <2>2. id \in DOMAIN queue \ (channel.nextIn .. l - 1) <=> id \in DOMAIN queue /\ id >= l
    BY <1>2, <2>1
  <2> QED BY <1>2, <1>3, <2>1, <2>2 DEF Kept
<1>6. FlightOfKeyIn' /\ QueueOfKeyIn'
  BY <1>1, <1>2, <1>3, <1>4 DEF InInv, FlightOfKeyIn, QueueOfKeyIn
<1>7. SaysOfKey'
  BY <1>1 DEF InInv, SaysOfKey, TypeOK, KeyIds
<1>8. Said'
  <2>1. l <= said[key]
    <3>1. CASE l = channel.nextIn
      BY <3>1 DEF InInv, Said
    <3>2. CASE l > channel.nextIn
      <4>1. l - 1 \in DOMAIN queue
        BY <1>1, <1>2, <3>2
      <4> QED BY <1>2, <1>3, <4>1
    <3> QED BY <1>1, <1>2, <3>1, <3>2
  <2> QED BY <1>1, <1>3, <1>4, <2>1 DEF InInv, Said
<1>9. AcksKept' /\ SettledKept'
  BY <1>1, <1>2, <1>5 DEF InInv, AcksKept, SettledKept, TypeOK, Packets
<1>10. InOrder'
  <2> DEFINE first == channel.nextIn
             S == {Dropped} \cup 0 .. MaxIn - 1
  <2>1. \A n \in 1 .. l - first : news[n] = first + n - 1
    <3> TAKE n \in 1 .. l - first
    <3>1. first + n - 1 \in first .. l - 1
      BY <1>2
    <3>2. due(n) = <<key, first + n - 1>>
      BY <1>1, <1>3, <3>1
    <3> QED BY <1>1, <3>2
  <2>2. handled[key] \in Seq(S) /\ handled[key] = [n \in 1 .. first |-> n - 1]
    BY DEF InInv, InOrder, TypeOK
  <2>3. Len(handled[key]) = first /\ \A n \in 1 .. first : handled[key][n] = n - 1
    BY <1>2, <2>2
  <2>4. handled'[key] = handled[key] \o news
    BY <1>1 DEF TypeOK
  <2>5. /\ handled'[key] \in Seq(S) /\ Len(handled'[key]) = l
        /\ \A n \in 1 .. l : handled'[key][n] = IF n <= first THEN handled[key][n]
                                                 ELSE news[n - first]
    BY <1>1, <1>2, <2>2, <2>3, <2>4, ConcatProperties
  <2>6. \A n \in 1 .. l : handled'[key][n] = n - 1
    <3> TAKE n \in 1 .. l
    <3>1. CASE n <= first
      BY <1>2, <2>3, <2>5, <3>1
    <3>2. CASE n > first
      <4>1. n - first \in 1 .. l - first
        BY <1>2, <3>2
      <4>2. news[n - first] = n - 1
        BY <1>2, <2>1, <4>1
      <4> QED BY <1>2, <2>5, <3>2, <4>2
    <3> QED BY <1>2, <3>1, <3>2
  <2>7. handled'[key] = [n \in 1 .. l |-> n - 1]
    BY <1>2, <2>5, <2>6
  <2> QED BY <1>1, <1>4, <2>7 DEF InOrder
<1> QED
  BY <1>6, <1>7, <1>8, <1>9, <1>10 DEF InInv

\* The next negotiation starts with an empty queue and a quiet link.
LEMMA SoftResetKeepsIn ==
  ASSUME TypeOK, InInv, Separate, SoftReset
  PROVE  InInv'
<1>1. Orderly
  BY ControlLinkAssumption DEF Separate, SoftReset, TypeOK, KeyIds
<1>2. back = {} /\ wireAcks = {} /\ unacked[key] = {}
  BY <1>1 DEF SoftReset, Quiet, InInv, FlightOfKeyIn
<1>3. key' = key + 1 /\ key' \in KeyIds /\ key \in Nat
  BY ControlLinkAssumption DEF SoftReset, TypeOK, KeyIds
<1>4. /\ channel'.inbound = <<>> /\ channel'.nextIn = 0
      /\ UNCHANGED <<handled, back, wireAcks, said, unacked>>
  BY DEF SoftReset, FreshChannel, server
<1>5. handled[key'] = <<>> /\ said[key'] = 0 /\ unacked[key'] = {}
  BY <1>3 DEF InInv, SaysOfKey, KeyIds
<1>6. InOrder'
  BY <1>4, <1>5 DEF InOrder
<1>7. SaysOfKey'
  BY <1>2, <1>3, <1>4 DEF InInv, SaysOfKey, KeyIds
<1> QED
  BY <1>2, <1>4, <1>5, <1>6, <1>7
     DEF InInv, FlightOfKeyIn, QueueOfKeyIn, Said, AcksKept, SettledKept

\* The server has one more packet to say.
LEMMA ServerSendKeepsIn ==
  ASSUME TypeOK, InInv, NEW k \in KeyIds, ServerSend(k)
  PROVE  InInv'
<1>1. /\ said'[key] = said[key] + 1 /\ said[key] \in Nat
      /\ unacked'[key] = unacked[key] \cup {said[key]}
      /\ \A j \in KeyIds \ {key} : said'[j] = said[j] /\ unacked'[j] = unacked[j]
      /\ back' = back \cup {<<key, said[key]>>}
      /\ UNCHANGED <<key, channel, handled, wireAcks>>
  BY DEF ServerSend, TypeOK
<1>2. key \in Nat /\ KeyIds \subseteq Nat
  BY ControlLinkAssumption DEF TypeOK, KeyIds
<1>3. FlightOfKeyIn' /\ QueueOfKeyIn' /\ SaysOfKey' /\ AcksKept' /\ InOrder'
  BY <1>1, <1>2 DEF InInv, FlightOfKeyIn, QueueOfKeyIn, SaysOfKey, AcksKept, Kept, InOrder
<1>4. Said'
  <2>1. /\ channel.nextIn \in Nat /\ DOMAIN channel.inbound \subseteq Int
        /\ unacked[key] \subseteq Nat /\ \A packet \in back : packet[2] \in Nat
    BY DEF TypeOK, Packets
  <2> QED BY <1>1, <2>1 DEF InInv, Said
<1>5. SettledKept'
  BY <1>1 DEF InInv, SettledKept, Kept
<1> QED
  BY <1>3, <1>4, <1>5 DEF InInv

\* The server forgets a packet that the client keeps.
LEMMA ServerReceiveAckKeepsIn ==
  ASSUME TypeOK, InInv, NEW ack \in wireAcks, ServerReceiveAck(ack)
  PROVE  InInv'
<1>1. ack[1] = key /\ Kept(ack[2])
  BY DEF InInv, FlightOfKeyIn, AcksKept
<1>2. /\ unacked'[key] = unacked[key] \ {ack[2]}
      /\ \A j \in KeyIds \ {key} : unacked'[j] = unacked[j]
      /\ UNCHANGED <<key, channel, handled, wireAcks, back, said>>
  BY <1>1 DEF ServerReceiveAck, TypeOK
<1> QED
  BY <1>1, <1>2
     DEF InInv, FlightOfKeyIn, QueueOfKeyIn, SaysOfKey, Said, AcksKept, SettledKept, Kept, InOrder

\* What only takes packets off the link, or concerns the other direction.
LEMMA OthersKeepIn ==
  ASSUME InInv, back' \subseteq back, wireAcks' \subseteq wireAcks,
         channel'.inbound = channel.inbound, channel'.nextIn = channel.nextIn,
         UNCHANGED <<key, handled, said, unacked>>
  PROVE  InInv'
  BY DEF InInv, FlightOfKeyIn, QueueOfKeyIn, SaysOfKey, Said, AcksKept, SettledKept, Kept, InOrder

\* A write of the outbound queue leaves the inbound one alone.
LEMMA FlushKeepsIn ==
  ASSUME NEW ch, NEW recent, Flush(ch, recent),
         ch.inbound = channel.inbound, ch.nextIn = channel.nextIn
  PROVE  channel'.inbound = channel.inbound /\ channel'.nextIn = channel.nextIn
  BY DEF Flush, MarkWritten

LEMMA InStep ==
  ASSUME TypeOK, InInv, Separate, [Next]_vars
  PROVE  InInv'
<1>1. ASSUME NEW n \in 1 .. 2, NEW recent \in SUBSET channel.pendingAcks, Send(n, recent)
      PROVE  InInv'
  <2> DEFINE ch == EnqueueOutbound(channel, [i \in 1 .. n |-> key])
  <2>1. n \in Nat /\ Flush(ch, recent) /\ UNCHANGED <<key, handled, wireAcks, back, said, unacked>>
    BY <1>1 DEF Send, server
  <2>2. ch.inbound = channel.inbound /\ ch.nextIn = channel.nextIn
    BY DEF EnqueueOutbound, TypeOK
  <2> HIDE DEF ch
  <2> QED BY <2>1, <2>2, FlushKeepsIn, OthersKeepIn
<1>2. ASSUME NEW recent \in SUBSET channel.pendingAcks, Tick(recent)
      PROVE  InInv'
  BY <1>2, FlushKeepsIn, OthersKeepIn DEF Tick, server
<1>3. ASSUME NEW ack \in backAcks, ReceiveAck(ack)
      PROVE  InInv'
  BY <1>3, OthersKeepIn DEF ReceiveAck, ReadAcks, TypeOK, server
<1>4. ASSUME NEW packet \in back, ReceivePacket(packet)
      PROVE  InInv'
  BY <1>4, PacketKeepsIn
<1>5. CASE SoftReset
  BY <1>5, SoftResetKeepsIn
<1>6. ASSUME NEW packet \in wire, ServerReceive(packet)
      PROVE  InInv'
  BY <1>6, OthersKeepIn DEF ServerReceive
<1>7. ASSUME NEW k \in KeyIds, ServerSend(k)
      PROVE  InInv'
  BY <1>7, ServerSendKeepsIn
<1>8. ASSUME NEW packet \in Packets(MaxIn), ServerResend(packet)
      PROVE  InInv'
  <2>1. packet[1] = key /\ packet[2] < said[key]
    BY <1>8 DEF ServerResend, InInv, SaysOfKey, Said, Packets
  <2> QED
    BY <1>8, <2>1
       DEF ServerResend, server, InInv, FlightOfKeyIn, QueueOfKeyIn, SaysOfKey, Said,
           AcksKept, SettledKept, Kept, InOrder
<1>9. ASSUME NEW ack \in wireAcks, ServerReceiveAck(ack)
      PROVE  InInv'
  BY <1>9, ServerReceiveAckKeepsIn
<1>10. CASE Lose
  BY <1>10, OthersKeepIn DEF Lose, server
<1>11. CASE UNCHANGED vars
  BY <1>11, OthersKeepIn DEF vars, server
<1> QED
  BY <1>1, <1>2, <1>3, <1>4, <1>5, <1>6, <1>7, <1>8, <1>9, <1>10, <1>11
     DEF Next, Client, Server

\* The packets handled for a negotiation are the server's, in order, none missing
\* and none twice, for every number of keys and packets, if nothing of a former
\* key is in flight when a negotiation starts (enqueueInboundPacket).
THEOREM HandledInOrder ==
  ASSUME Separate
  PROVE  Spec => []InOrder
<1>1. TypeOK /\ InInv /\ [Next]_vars => InInv'
  BY InStep
<1>2. InInv => InOrder
  BY DEF InInv
<1> QED
  BY Typed, InInit, <1>1, <1>2, PTL DEF Spec

\* What the client acknowledges before it queues the packet it also keeps, under
\* the same condition (receiveLink).
THEOREM AckedKept ==
  ASSUME Separate
  PROVE  Spec => []AckedIsKept
<1>1. TypeOK /\ InInv /\ [Next]_vars => InInv'
  BY InStep
<1>2. TypeOK /\ InInv => AckedIsKept
  <2> SUFFICES ASSUME TypeOK, InInv, NEW id \in 0 .. said[key] - 1,
                      <<key, id>> \in wireAcks \/ id \notin unacked[key]
               PROVE  \/ \E n \in DOMAIN handled[key] : handled[key][n] = id
                      \/ id \in DOMAIN channel.inbound /\ channel.inbound[id] = <<key, id>>
    BY DEF AckedIsKept
  <2>1. Kept(id)
    BY DEF InInv, AcksKept, SettledKept
  <2>2. CASE id < channel.nextIn
    <3>1. id + 1 \in 1 .. channel.nextIn
      BY <2>2 DEF TypeOK
    <3>2. id + 1 \in DOMAIN handled[key] /\ handled[key][id + 1] = id
      BY <3>1 DEF InInv, InOrder
    <3> QED BY <3>2
  <2>3. CASE id \in DOMAIN channel.inbound
    BY <2>3 DEF InInv, QueueOfKeyIn
  <2> QED
    BY <2>1, <2>2, <2>3 DEF Kept
<1> QED
  BY Typed, InInit, <1>1, <1>2, PTL DEF Spec
-----------------------------------------------------------------------------
(* Either direction implements a reliable stream.                          *)

\* How many packets the server has without a gap only grows, and is bounded by
\* what was submitted.
LEMMA PrefixBounds ==
  ASSUME NEW n \in Nat, NEW more \in SUBSET (0 .. n - 1), NEW ids \in SUBSET more
  PROVE  /\ Prefix(ids) \in Nat /\ Prefix(more) \in Nat
         /\ Prefix(ids) <= Prefix(more) /\ Prefix(more) <= n
<1> DEFINE Gapless(s) == {id \in s : 0 .. id \subseteq s}
<1>1. Gapless(ids) \in SUBSET Gapless(more) /\ Gapless(more) \in SUBSET (0 .. n - 1)
  OBVIOUS
<1>2. Prefix(ids) = Cardinality(Gapless(ids)) /\ Prefix(more) = Cardinality(Gapless(more))
  BY DEF Prefix
<1> HIDE DEF Gapless
<1>3. IsFiniteSet(0 .. n - 1) /\ Cardinality(0 .. n - 1) = n
  <2>1. 0 \in Int /\ n - 1 \in Int
    OBVIOUS
  <2>2. /\ IsFiniteSet(0 .. n - 1)
        /\ Cardinality(0 .. n - 1) = IF 0 > n - 1 THEN 0 ELSE n - 1 - 0 + 1
    BY <2>1, FS_Interval
  <2> QED BY <2>2
<1>4. IsFiniteSet(Gapless(more)) /\ Cardinality(Gapless(more)) <= n
  BY <1>1, <1>3, FS_Subset
<1>5. IsFiniteSet(Gapless(ids)) /\ Cardinality(Gapless(ids)) <= Cardinality(Gapless(more))
  BY <1>1, <1>4, FS_Subset
<1>6. Cardinality(Gapless(ids)) \in Nat /\ Cardinality(Gapless(more)) \in Nat
  BY <1>4, <1>5, FS_CardinalityType
<1> QED
  BY <1>2, <1>4, <1>5, <1>6

\* A step of a negotiation submits, or lets the server have more.
LEMMA UpMoves ==
  ASSUME TypeOK, OutInv, [Next]_vars, UNCHANGED key
  PROVE  \/ channel'.nextOut > channel.nextOut /\ UNCHANGED got
         \/ channel'.nextOut = channel.nextOut /\ got[key] \subseteq got'[key]
<1>1. ASSUME NEW n \in 1 .. 2, NEW recent \in SUBSET channel.pendingAcks, Send(n, recent)
      PROVE  channel'.nextOut > channel.nextOut /\ UNCHANGED got
  BY <1>1, SendKeeps DEF Send, server
<1>2. ASSUME NEW recent \in SUBSET channel.pendingAcks, Tick(recent)
      PROVE  channel'.nextOut = channel.nextOut /\ UNCHANGED got
  BY <1>2, TickKeeps DEF Tick, server
<1>3. ASSUME NEW ack \in backAcks, ReceiveAck(ack)
      PROVE  channel'.nextOut = channel.nextOut /\ UNCHANGED got
  BY <1>3, AckKeeps DEF ReceiveAck, server
<1>4. ASSUME NEW packet \in back, ReceivePacket(packet)
      PROVE  channel'.nextOut = channel.nextOut /\ UNCHANGED got
  BY <1>4 DEF ReceivePacket, EnqueueInbound, TypeOK, server
<1>5. ~ SoftReset
  BY ControlLinkAssumption DEF SoftReset, TypeOK, KeyIds
<1>6. ASSUME NEW packet \in wire, ServerReceive(packet)
      PROVE  channel'.nextOut = channel.nextOut /\ got[key] \subseteq got'[key]
  BY <1>6 DEF ServerReceive, TypeOK, Packets
<1>7. ASSUME \/ \E k \in KeyIds : ServerSend(k)
             \/ \E packet \in Packets(MaxIn) : ServerResend(packet)
             \/ \E ack \in wireAcks : ServerReceiveAck(ack)
             \/ Lose
             \/ UNCHANGED vars
      PROVE  channel'.nextOut = channel.nextOut /\ UNCHANGED got
  BY <1>7 DEF ServerSend, ServerResend, ServerReceiveAck, Lose, vars, server
<1> QED
  BY <1>1, <1>2, <1>3, <1>4, <1>5, <1>6, <1>7 DEF Next, Client, Server

\* A step of a negotiation is a step of the upward stream.
LEMMA UpStep ==
  ASSUME TypeOK, TypeOK', OutInv, OutInv', [Next]_vars, UNCHANGED key
  PROVE  [Up!Next]_<<channel.nextOut, Prefix(got[key])>>
<1>1. /\ channel'.nextOut \in Nat /\ got[key] \in SUBSET Nat
      /\ got'[key] \in SUBSET (0 .. channel'.nextOut - 1)
  BY DEF TypeOK, OutInv, Submitted
<1>2. CASE channel'.nextOut > channel.nextOut /\ UNCHANGED got
  BY <1>2 DEF Up!Next, Up!Submit
<1>3. CASE channel'.nextOut = channel.nextOut /\ got[key] \subseteq got'[key]
  <2>1. /\ Prefix(got[key]) \in Nat /\ Prefix(got'[key]) \in Nat
        /\ Prefix(got[key]) <= Prefix(got'[key])
        /\ Prefix(got'[key]) <= channel'.nextOut
    BY <1>1, <1>3, PrefixBounds
  <2> QED
    BY <1>3, <2>1 DEF Up!Next, Up!Arrive
<1> QED
  BY <1>2, <1>3, UpMoves

\* A step of a negotiation lets the server say more, or the client handle more.
LEMMA DownMoves ==
  ASSUME TypeOK, InInv, [Next]_vars, UNCHANGED key
  PROVE  \/ said'[key] > said[key] /\ channel'.nextIn = channel.nextIn
         \/ said'[key] = said[key] /\ channel'.nextIn >= channel.nextIn
<1>1. channel.nextIn \in Nat /\ said[key] \in Nat
  BY DEF TypeOK
<1>2. ASSUME NEW n \in 1 .. 2, NEW recent \in SUBSET channel.pendingAcks, Send(n, recent)
      PROVE  channel'.nextIn = channel.nextIn /\ UNCHANGED said
  <2> DEFINE ch == EnqueueOutbound(channel, [i \in 1 .. n |-> key])
  <2>1. ch.inbound = channel.inbound /\ ch.nextIn = channel.nextIn
    BY DEF EnqueueOutbound, TypeOK
  <2>2. Flush(ch, recent) /\ UNCHANGED said
    BY <1>2 DEF Send, server
  <2> HIDE DEF ch
  <2> QED BY <2>1, <2>2, FlushKeepsIn
<1>3. ASSUME NEW recent \in SUBSET channel.pendingAcks, Tick(recent)
      PROVE  channel'.nextIn = channel.nextIn /\ UNCHANGED said
  BY <1>3, FlushKeepsIn DEF Tick, server
<1>4. ASSUME NEW ack \in backAcks, ReceiveAck(ack)
      PROVE  channel'.nextIn = channel.nextIn /\ UNCHANGED said
  BY <1>4 DEF ReceiveAck, ReadAcks, TypeOK, server
<1>5. ASSUME NEW packet \in back, ReceivePacket(packet)
      PROVE  channel'.nextIn >= channel.nextIn /\ UNCHANGED said
  BY <1>1, <1>5, PacketStep
<1>6. ~ SoftReset
  BY ControlLinkAssumption DEF SoftReset, TypeOK, KeyIds
<1>7. ASSUME NEW k \in KeyIds, ServerSend(k)
      PROVE  said'[key] > said[key] /\ channel'.nextIn = channel.nextIn
  BY <1>1, <1>7 DEF ServerSend, TypeOK
<1>8. ASSUME \/ \E packet \in wire : ServerReceive(packet)
             \/ \E packet \in Packets(MaxIn) : ServerResend(packet)
             \/ \E ack \in wireAcks : ServerReceiveAck(ack)
             \/ Lose
             \/ UNCHANGED vars
      PROVE  channel'.nextIn = channel.nextIn /\ UNCHANGED said
  BY <1>8 DEF ServerReceive, ServerResend, ServerReceiveAck, Lose, vars, server
<1> QED
  BY <1>1, <1>2, <1>3, <1>4, <1>5, <1>6, <1>7, <1>8 DEF Next, Client, Server

\* A step of a negotiation is a step of the downward stream.
LEMMA DownStep ==
  ASSUME TypeOK, TypeOK', InInv, InInv', [Next]_vars, UNCHANGED key
  PROVE  [Down!Next]_<<said[key], Len(handled[key])>>
<1>1. /\ handled[key] = [n \in 1 .. channel.nextIn |-> n - 1]
      /\ handled'[key] = [n \in 1 .. channel'.nextIn |-> n - 1]
      /\ channel'.nextIn <= said'[key]
  BY DEF InInv, InOrder, Said
<1>2. channel.nextIn \in Nat /\ channel'.nextIn \in Nat /\ said[key] \in Nat
  BY DEF TypeOK
<1>3. Len(handled[key]) = channel.nextIn /\ Len(handled'[key]) = channel'.nextIn
  BY <1>1, <1>2
<1> QED
  BY <1>1, <1>2, <1>3, DownMoves DEF Down!Next, Down!Submit, Down!Arrive

\* What the client submits reaches the server in order, within every negotiation
\* that starts with a quiet link (enqueueOutboundPackets and readAcks).
THEOREM UpReliable ==
  ASSUME Separate
  PROVE  Spec => [][UNCHANGED key => [Up!Next]_<<channel.nextOut, Prefix(got[key])>>]_vars
<1>1. TypeOK /\ OutInv /\ [Next]_vars => OutInv'
  BY OutStep
<1>2. TypeOK /\ TypeOK' /\ OutInv /\ OutInv' /\ [Next]_vars
      => [UNCHANGED key => [Up!Next]_<<channel.nextOut, Prefix(got[key])>>]_vars
  BY UpStep
<1> QED
  BY Typed, OutInit, <1>1, <1>2, PTL DEF Spec

\* What the server sends comes out of the inbound queue in order and once, within
\* every negotiation that starts with a quiet link (enqueueInboundPacket).
THEOREM DownReliable ==
  ASSUME Separate
  PROVE  Spec => [][UNCHANGED key => [Down!Next]_<<said[key], Len(handled[key])>>]_vars
<1>1. TypeOK /\ InInv /\ [Next]_vars => InInv'
  BY InStep
<1>2. TypeOK /\ TypeOK' /\ InInv /\ InInv' /\ [Next]_vars
      => [UNCHANGED key => [Down!Next]_<<said[key], Len(handled[key])>>]_vars
  BY DownStep
<1> QED
  BY Typed, InInit, <1>1, <1>2, PTL DEF Spec

\* The first negotiation implements a reliable stream from the client to the
\* server.
THEOREM UpImplements ==
  ASSUME LastKey = 0
  PROVE  Spec => UpIsReliable
<1>1. Init => Up!Init
  <2> SUFFICES ASSUME Init PROVE channel.nextOut = 0 /\ Prefix(got[key]) = 0
    BY DEF Up!Init
  <2>1. got[key] = {} /\ channel.nextOut = 0
    BY ControlLinkAssumption DEF Init, FreshChannel, KeyIds
  <2>2. {id \in {} : 0 .. id \subseteq {}} = {}
    OBVIOUS
  <2> QED BY <2>1, <2>2, FS_EmptySet DEF Prefix
<1>2. TypeOK /\ OutInv /\ [Next]_vars => OutInv'
  BY OutStep DEF Separate
<1>3. TypeOK /\ TypeOK' => UNCHANGED key
  BY DEF TypeOK, KeyIds
<1>4. TypeOK /\ TypeOK' /\ OutInv /\ OutInv' /\ [Next]_vars
      => [Up!Next]_<<channel.nextOut, Prefix(got[key])>>
  BY <1>3, UpStep
<1> QED
  BY Typed, OutInit, <1>1, <1>2, <1>4, PTL DEF Spec, UpIsReliable, Up!Spec

\* The first negotiation implements a reliable stream from the server to the
\* client.
THEOREM DownImplements ==
  ASSUME LastKey = 0
  PROVE  Spec => DownIsReliable
<1>1. Init => Down!Init
  BY ControlLinkAssumption DEF Init, Down!Init, KeyIds
<1>2. TypeOK /\ InInv /\ [Next]_vars => InInv'
  BY InStep DEF Separate
<1>3. TypeOK /\ TypeOK' => UNCHANGED key
  BY DEF TypeOK, KeyIds
<1>4. TypeOK /\ TypeOK' /\ InInv /\ InInv' /\ [Next]_vars
      => [Down!Next]_<<said[key], Len(handled[key])>>
  BY <1>3, DownStep
<1> QED
  BY Typed, InInit, <1>1, <1>2, <1>4, PTL DEF Spec, DownIsReliable, Down!Spec
=============================================================================

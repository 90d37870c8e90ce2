--------------------------- MODULE ControlChannel ---------------------------
(***************************************************************************)
(* The queues of TunnelKitOpenVPNProtocol/ControlChannel.swift as a record *)
(* and the operations on it as operators.  A queue of packets is a         *)
(* function from packet ids to contents: the Swift arrays are kept in the  *)
(* order of the ids, and only the first copy of an id is ever used.        *)
(***************************************************************************)
EXTENDS Integers, Sequences, FiniteSets

\* queue.outbound, currentPacketId.outbound, pendingAcks, queue.inbound and
\* currentPacketId.inbound, as they are after reset(forNewSession:).
FreshChannel == [outbound |-> <<>>, nextOut |-> 0, pendingAcks |-> {},
                 inbound  |-> <<>>, nextIn  |-> 0]

Without(queue, ids) == [id \in DOMAIN queue \ ids |-> queue[id]]

\* Mutant: the packet id advances once per payload, not once per packet.
EnqueueOutboundOneId(ch, contents) ==
    LET fresh == ch.nextOut .. ch.nextOut + Len(contents) - 1
    IN  [ch EXCEPT !.outbound = [id \in DOMAIN @ \cup fresh |->
                                   IF id \in fresh THEN contents[id - ch.nextOut + 1]
                                                   ELSE @[id]],
                   !.nextOut  = @ + 1]

\* enqueueOutboundPackets: a payload is split into the contents of one or more
\* packets, which take consecutive ids.
EnqueueOutbound(ch, contents) ==
    LET fresh == ch.nextOut .. ch.nextOut + Len(contents) - 1
    IN  [ch EXCEPT !.outbound = [id \in DOMAIN @ \cup fresh |->
                                   IF id \in fresh THEN contents[id - ch.nextOut + 1]
                                                   ELSE @[id]],
                   !.nextOut  = @ + Len(contents)]

\* Mutant: a packet is written once and never again.
WrittenOnce(ch, recent) == DOMAIN ch.outbound \ ch.pendingAcks

\* writeOutboundPackets writes everything that is still queued, except packets
\* that it wrote less than retransmissionLimit ago.
Written(ch, recent) == DOMAIN ch.outbound \ recent

MarkWritten(ch, recent) ==
    [ch EXCEPT !.pendingAcks = @ \cup Written(ch, recent)]

\* Mutant: an ack is taken to cover all the packets before it.
ReadAcksUpTo(ch, ids) ==
    LET covered == {id \in DOMAIN ch.outbound : \E acked \in ids : id <= acked}
    IN  [ch EXCEPT !.outbound    = Without(@, covered),
                   !.pendingAcks = @ \ covered]

\* readAcks: what is acknowledged needs no retransmission.
ReadAcks(ch, ids) == [ch EXCEPT !.outbound    = Without(@, ids),
                                !.pendingAcks = @ \ ids]

\* Mutant: a copy of a packet that was handled before joins the queue.
JoinedAgain(ch, id, content) ==
    IF id \in DOMAIN ch.inbound
    THEN ch.inbound
    ELSE [i \in DOMAIN ch.inbound \cup {id} |->
            IF i = id THEN content ELSE ch.inbound[i]]

\* Mutant: a packet that is early is dropped.
JoinedInOrderOnly(ch, id, content) ==
    IF id # ch.nextIn
    THEN ch.inbound
    ELSE [i \in DOMAIN ch.inbound \cup {id} |->
            IF i = id THEN content ELSE ch.inbound[i]]

\* enqueueInboundPacket: the packet joins the queue ...
Joined(ch, id, content) ==
    IF id < ch.nextIn \/ id \in DOMAIN ch.inbound
    THEN ch.inbound
    ELSE [i \in DOMAIN ch.inbound \cup {id} |->
            IF i = id THEN content ELSE ch.inbound[i]]

\* Mutant: everything that is queued can be handled.
RunOverGaps(queue, first) == DOMAIN queue

\* ... and the ids that follow each other from the current one can be handled.
Run(queue, first) == {id \in DOMAIN queue : \A i \in first .. id : i \in DOMAIN queue}

EnqueueInbound(ch, id, content) ==
    LET queue == Joined(ch, id, content)
        run   == Run(queue, ch.nextIn)
    IN  [ch EXCEPT !.inbound = Without(queue, run), !.nextIn = @ + Cardinality(run)]

Nth(ids, n) == CHOOSE id \in ids : Cardinality({i \in ids : i < id}) = n - 1

\* The packets it returns to be handled, in order.
Handled(ch, id, content) ==
    LET queue == Joined(ch, id, content)
        run   == Run(queue, ch.nextIn)
    IN  [n \in 1 .. Cardinality(run) |-> queue[Nth(run, n)]]
=============================================================================

------------------------------ MODULE DataPath ------------------------------
(***************************************************************************)
(* The data path of one key: DataPath.m, as handleDataPackets and          *)
(* sendDataPackets of OpenVPNSession.swift call it.  A call decrypts the   *)
(* packets of a read one after the other; what comes out goes to the       *)
(* tunnel when the whole call succeeds, and an error stops the session.    *)
(* The peer, external, frames its packets as this code does; the link may  *)
(* lose, repeat, reorder and damage them.                                  *)
(***************************************************************************)
EXTENDS ReplayProtector, Framing

CONSTANTS Payloads, \* the payload of a packet depends on its id: one of these
          MaxBatch  \* bound: packets in a call

\* The gap under 2^32 is wider than the largest batch of the tunnel.
ASSUME DataPathAssumption ==
    /\ Payloads \in Seq(Seq(STRING)) /\ Payloads # <<>>
    /\ \A n \in DOMAIN Payloads : Payloads[n] # <<>>
    /\ MaxBatch \in Nat \ {0}
    /\ MaxPacketId + MaxBatch < IdSpace

VARIABLES framing,     \* compressionFraming, the same at both ends
          lzo,         \* whether lzo is there
          call,        \* the running decryptPackets: packets so far, and inPackets
          written,     \* what was written to the tunnel: <<id, payload>>
          outPacketId, \* the last id used
          sent,        \* how often each id went out
          stopped      \* "no", or why the session was stopped

inbound  == <<call, written>>
outbound == <<outPacketId, sent>>
config   == <<framing, lzo>>
pathVars == <<vars, inbound, outbound, config, stopped>>

Ping == <<"2a", "18">> \* DataPacketPingData, two bytes of it

PayloadOf(id) == Payloads[1 + (id % Len(Payloads))]

NoCall    == [running |-> FALSE, packets |-> 0, inPackets |-> <<>>]
Idle      == ~call.running /\ stopped = "no"
Decrypting == call.running /\ call.packets < MaxBatch

-----------------------------------------------------------------------------
\* decryptPackets.

BeginDecrypt ==
    /\ Idle
    /\ call' = [NoCall EXCEPT !.running = TRUE]
    /\ UNCHANGED <<vars, written, outbound, config, stopped>>

\* Mutant: handleDataPackets drops the packets of the call and goes on.
FailSilently(error) ==
    /\ call' = NoCall /\ stopped' = "no"
    /\ UNCHANGED <<written, outbound, config>>

\* The call throws: its packets are not delivered, and the session stops.
Fail(error) ==
    /\ call' = NoCall /\ stopped' = error
    /\ UNCHANGED <<written, outbound, config>>

\* Goes on to the next packet, after one more in inPackets or none.
Proceed(more) ==
    /\ call' = [running |-> TRUE, packets |-> call.packets + 1,
                inPackets |-> call.inPackets \o more]
    /\ UNCHANGED <<written, outbound, config, stopped>>

\* A packet that decrypts: the range of its id, the replay window, the framing,
\* and the keep-alive, in this order.
Decrypt(id) ==
    /\ Decrypting
    /\ \/ Overflow(id) /\ Fail("overflow")
       \/ Check(id) /\ Replayed(id) /\ Proceed(<<>>)
       \/ /\ Check(id) /\ ~Replayed(id)
          /\ \E outcome \in Parse(framing, lzo, Assemble(framing, lzo, PayloadOf(id))) :
                \/ outcome.error # "none" /\ Fail(outcome.error)
                \/ outcome.error = "none" /\ outcome.payload = Ping /\ Proceed(<<>>)
                \/ /\ outcome.error = "none" /\ outcome.payload # Ping
                   /\ Proceed(<<<<id, outcome.payload>>>>)

\* A packet that is too short, or else damaged or for another peer.
DecryptFails ==
    /\ Decrypting
    /\ \E error \in {"short", "crypto"} : Fail(error)
    /\ UNCHANGED vars

\* The call returns, and handleDataPackets writes what it decrypted.
EndDecrypt ==
    /\ call.running
    /\ written' = written \cup {call.inPackets[n] : n \in DOMAIN call.inPackets}
    /\ call' = NoCall
    /\ UNCHANGED <<vars, outbound, config, stopped>>

-----------------------------------------------------------------------------
\* encryptPackets.

\* The ids of the first n packets of a batch; the counter has 32 bits.
NextIds(n) == {(outPacketId + i) % IdSpace : i \in 1 .. n}

Consume(n) == outPacketId' = (outPacketId + n) % IdSpace

\* Mutant: the counter is not looked at.
EncryptUnchecked(n) ==
    /\ Idle
    /\ Consume(n)
    /\ sent' = [id \in Ids |-> IF id \in NextIds(n) THEN sent[id] + 1 ELSE sent[id]]
    /\ UNCHANGED <<vars, inbound, config, stopped>>

\* A batch is encrypted and written: the id is checked once, before the first.
Encrypt(n) ==
    /\ Idle
    /\ outPacketId <= MaxPacketId
    /\ Consume(n)
    /\ sent' = [id \in Ids |-> IF id \in NextIds(n) THEN sent[id] + 1 ELSE sent[id]]
    /\ UNCHANGED <<vars, inbound, config, stopped>>

EncryptOverflow ==
    /\ Idle
    /\ outPacketId > MaxPacketId
    /\ stopped' = "overflow"
    /\ UNCHANGED <<vars, inbound, outbound, config>>

\* The cipher fails on the n-th packet: nothing of the batch is written.
EncryptFails(n) ==
    /\ Idle
    /\ outPacketId <= MaxPacketId
    /\ Consume(n)
    /\ stopped' = "crypto"
    /\ UNCHANGED <<vars, inbound, sent, config>>

-----------------------------------------------------------------------------
PathInit ==
    /\ Init
    /\ framing \in Framings /\ lzo \in BOOLEAN
    /\ call = NoCall /\ written = {}
    /\ outPacketId = 0 /\ sent = [id \in Ids |-> 0]
    /\ stopped = "no"

PathNext ==
    \/ BeginDecrypt \/ DecryptFails \/ EndDecrypt \/ EncryptOverflow
    \/ \E id \in Ids : Decrypt(id)
    \/ \E n \in 1 .. MaxBatch : Encrypt(n) \/ EncryptFails(n)

PathSpec == PathInit /\ [][PathNext]_pathVars

-----------------------------------------------------------------------------
\* No id goes out twice under a key, nor does 0: the counter is looked at once per
\* batch (encryptPackets), and the gap above maxPacketId takes the rest of it.
OutIdsOnce == sent[0] = 0 /\ \A id \in Ids : sent[id] <= 1

\* As long as the session runs, what the replay window let through is what the
\* tunnel got, byte by byte: no packet is marked as seen and then lost with its
\* batch, none is altered by the framing.  Payloads that V2 cannot tell from its
\* headers are not covered, and keep-alives are not written.
Carried == {id \in seen : PayloadOf(id) # Ping}
TunnelGetsAll ==
    Idle /\ (\A id \in Carried : ~Ambiguous(framing, PayloadOf(id)))
    => written = {<<id, PayloadOf(id)>> : id \in Carried}

\* A session is stopped for a compressed packet only when the framing is V2 and a
\* payload begins like a header (parseCompressedBlock).
StopsForCause ==
    stopped \in {"compression", "lzo"} => \E id \in seen : Ambiguous(framing, PayloadOf(id))
=============================================================================

--------------------------- MODULE OpenVPNSession ---------------------------
(***************************************************************************)
(* OpenVPNSession.swift at work: the blocks that run on its queue (reads   *)
(* from the link, negotiation ticks, pings, write completions, requests of *)
(* the provider), and a server that answers what the client writes.        *)
(*                                                                         *)
(* A read handler is several steps.  On a serial queue nothing runs in     *)
(* between; the queue that OpenVPNTunnelProvider passes is concurrent.     *)
(* Acknowledgements and losses are the subject of module ControlLink: here *)
(* what is written arrives, in any order and any number of times on UDP.   *)
(***************************************************************************)
EXTENDS SessionState

CONSTANTS Concurrent, \* TRUE: other blocks run while a read handler is running
          Replays,    \* TRUE: packets of a negotiation may come after its end
          Faults,     \* what may go wrong, of AllFaults
          MaxOut,     \* bound: control packets of a negotiation that the ticks send
          MaxResets,  \* bound: renegotiations of a session
          MaxBatch,   \* bound: packets that one read returns
          MaxLinks    \* bound: links set, over the life of a session

AllFaults == (HandlerFaults \ {"none"}) \cup CallFaults \cup
             {"random", "auth_failed", "no_routes", "restart", "early_reset", "stop",
              "link_lost", "timeout", "silence"}

ASSUME SessionAssumption ==
    /\ Reliable \in BOOLEAN /\ Concurrent \in BOOLEAN /\ Replays \in BOOLEAN
    /\ Faults \subseteq AllFaults
    /\ {MaxOut, MaxResets, MaxBatch, MaxLinks} \subseteq Nat

VARIABLES session, \* the client's OpenVPNSession
          server,  \* external: its key, the client packet it expects, how many packets
                   \* it sent for this key and for the one before
          back,    \* external: the packets the server has sent, in order
          read,    \* the indexes of those that the client has read
          links    \* how many links have been set

vars == <<session, server, back, read, links>>

NewServer == [key |-> 0, next |-> 0, sent |-> 0, before |-> 0]

Init ==
    /\ session = FreshSession
    /\ server = NewServer
    /\ back = <<>>
    /\ read = {}
    /\ links = 0

Envs == {Env(passed, fault) : passed \in BOOLEAN,
                              fault \in {"none"} \cup (Faults \cap HandlerFaults)}

\* The blocks of the queue capture the session weakly, and a crash ends it all.
Runs    == session.alive /\ session.crashed = "no"
Reading == session.inbox # <<>> \/ session.due # <<>>
Free    == Runs /\ (Concurrent \/ ~Reading)

-----------------------------------------------------------------------------
\* The link.

\* setLink, with start: the provider has a socket that became active.
SetLink ==
    /\ Free /\ ~session.link /\ links < MaxLinks
    /\ \E drawn \in BOOLEAN :
          /\ ~drawn => "random" \in Faults
          /\ session' = HardReset([session EXCEPT !.link = TRUE, !.wire = {},
                                                  !.starts = 0, !.stops = 0], drawn)
    /\ server' = NewServer
    /\ back' = <<>>
    /\ read' = {}
    /\ links' = links + 1

\* The socket failed: finishTunnelDisconnection cleans the session up, and the
\* provider keeps it for the next link.
LinkLost ==
    /\ "link_lost" \in Faults /\ Free /\ session.link
    /\ session' = Cleanup(session)
    /\ UNCHANGED <<server, back, read, links>>

\* What UDP may hand out.  Without replays that is any packet of the negotiation
\* under way, copies included, and otherwise only what was not read before; a
\* SOFT_RESET comes once.  Key ids are used again: what the server sent for a key
\* before its last two does not come.
Deliverable(i) ==
    \/ Replays
    \/ /\ i > Len(back) - server.sent /\ i \notin read
       /\ back[i].key = Following(session.ring.negotiationKeyIdx)
    \/ /\ i > Len(back) - server.sent - server.before
       /\ back[i].key = session.ring.negotiationKeyIdx
       /\ i \in read => /\ back[i].body # "SOFT_RESET"
                        /\ NegotiationKey(session).controlState # "connected"

Batches ==
    LET unread == (1 .. Len(back)) \ read
        some   == {i \in 1 .. Len(back) : Deliverable(i)}
    IN  {batch \in UNION {[1 .. n -> IF Reliable THEN unread ELSE some] : n \in 1 .. MaxBatch} :
            /\ \A i, j \in DOMAIN batch : i < j => batch[i] # batch[j]
            /\ Reliable => \A i \in DOMAIN batch : batch[i] = Cardinality(read) + i}

\* maybeRenegotiate: due says whether the current key is old enough.
MaybeRenegotiate(s, due) ==
    IF due /\ s.ring.negotiationKeyIdx = s.ring.currentKeyIdx THEN SoftReset(s, FALSE) ELSE s

\* The read handler of loopLink, up to the loop over the packets.
Read(batch, due) ==
    /\ Runs /\ session.link /\ ~Reading
    /\ due => session.resets < MaxResets
    /\ read' = read \cup {batch[i] : i \in DOMAIN batch}
    /\ LET s == MaybeRenegotiate(session, due)
       IN  session' = IF s.isStopping \/ s.ring.keys = {} THEN s
                      ELSE [s EXCEPT !.inbox = [i \in DOMAIN batch |-> back[batch[i]]]]
    /\ UNCHANGED <<server, back, links>>

\* One turn of the loop over the packets, up to the packets that the control
\* channel has in order.
ReceiveLink ==
    /\ session.crashed = "no" /\ session.due = <<>> /\ session.inbox # <<>>
    /\ LET packet == Head(session.inbox)
           rest   == [session EXCEPT !.inbox = Tail(@)]
       IN  \/ /\ packet.body = "HARD_RESET" /\ session.ring.isRenegotiating
              /\ session' = Stop([session EXCEPT !.inbox = <<>>]) \* staleSession
           \/ /\ ~(packet.body = "HARD_RESET" /\ session.ring.isRenegotiating)
              /\ LET starts == packet.body = "SOFT_RESET" /\ ~session.ring.isRenegotiating
                     s      == SendAck(IF starts THEN SoftReset(rest, TRUE) ELSE rest)
                 IN  /\ starts => session.resets < MaxResets
                     /\ session' = [s EXCEPT
                           !.channel = EnqueueInbound(@, packet.id, packet),
                           !.due = Handled(s.channel, packet.id, packet)]
    /\ UNCHANGED <<server, back, read, links>>

\* One turn of the loop over the packets in order.
HandleControl(env) ==
    /\ session.crashed = "no" /\ session.due # <<>>
    /\ session' = HandleControlPacket([session EXCEPT !.due = Tail(@)],
                                      Head(session.due), env)
    /\ UNCHANGED <<server, back, read, links>>

-----------------------------------------------------------------------------
\* The blocks scheduled on the queue, and the requests to stop.

\* A tick of the negotiation loop; late says whether the key has timed out.
Tick(late, env) ==
    /\ Free /\ session.ticks > 0
    /\ late => "timeout" \in Faults
    /\ env.passed => session.channel.nextOut < MaxOut
    /\ session' = LoopNegotiation([session EXCEPT !.ticks = @ - 1], late, env)
    /\ UNCHANGED <<server, back, read, links>>

\* Mutant: nothing follows the first ping.
PingOnce(silent, unsent) ==
    /\ Free /\ session.pings > 0
    /\ silent => "silence" \in Faults
    /\ LET s == [session EXCEPT !.pings = @ - 1]
       IN  session' = IF silent THEN Stop(s) ELSE s
    /\ UNCHANGED <<server, back, read, links>>

\* ping; silent says whether the server has been quiet for too long, unsent that
\* the ping, if one is due, cannot be encrypted.
Ping(silent, unsent) ==
    /\ Free /\ session.pings > 0
    /\ silent => "silence" \in Faults
    /\ unsent => "encrypt" \in session.failing
    /\ LET s == [session EXCEPT !.pings = @ - 1]
       IN  session' = IF ~HasCurrentKey(s) \/ s.key[s.ring.currentKeyIdx].controlState # "connected"
                      THEN s
                      ELSE IF silent THEN Stop(s)
                      ELSE IF unsent THEN Stop(session) ELSE session
    /\ UNCHANGED <<server, back, read, links>>

\* The exit notification has been written, or has failed: the stop goes on.
ExitWritten ==
    /\ Free /\ session.exit = "pending"
    /\ session' = DidStop([session EXCEPT !.exit = "no"])
    /\ UNCHANGED <<server, back, read, links>>

\* deferStop from a block of its own: shutdown or reconnect called by the
\* provider, a write that failed, a TLS peer that was not verified, a data packet
\* that could not be decrypted or encrypted.
StopRequest ==
    /\ "stop" \in Faults /\ Free
    /\ session' = Stop(session)
    /\ UNCHANGED <<server, back, read, links>>

\* What fails, of the calls that may fail anywhere, changes at any time until the
\* session stops; after that it only decides what is still written.
Fail ==
    /\ Runs /\ ~session.isStopping
    /\ \E calls \in SUBSET (Faults \cap CallFaults) :
           calls # session.failing /\ session' = [session EXCEPT !.failing = calls]
    /\ UNCHANGED <<server, back, read, links>>

-----------------------------------------------------------------------------
\* The server (external): it takes the client's packets of its key in order.

Say(key, body) == back' = Append(back, [key |-> key, id |-> server'.sent - 1, body |-> body])

\* How it answers a packet: nothing to "finished" and to a request that crossed
\* its own.
Answers(body) ==
    CASE body = "HARD_RESET"   -> {"HARD_RESET"}
      [] body = "hello"        -> {"hello"}
      [] body = "auth"         -> {"auth_reply"}
      [] body = "PUSH_REQUEST" -> {"PUSH_REPLY"} \cup
             (IF "auth_failed" \in Faults THEN {"AUTH_FAILED"} ELSE {}) \cup
             (IF "no_routes" \in Faults THEN {"PUSH_REPLY without routes"} ELSE {})
      [] OTHER                 -> {}

\* Until it turns the client away or says that it restarts.
Up == /\ session.link /\ session.crashed = "no"
      /\ \A i \in DOMAIN back : back[i].body \notin {"AUTH_FAILED", "RESTART"}
Expected(packet) == packet.key = server.key /\ packet.id = server.next

\* What the server has taken is not taken again.
Take(packet) ==
    /\ Up /\ packet \in session.wire
    /\ session' = [session EXCEPT !.wire = @ \ {packet}]
    /\ UNCHANGED <<read, links>>

ServerAnswers ==
    \E packet \in session.wire : \E answer \in Answers(packet.body) :
        /\ Expected(packet) /\ Take(packet)
        /\ server' = [server EXCEPT !.next = @ + 1, !.sent = @ + 1]
        /\ Say(server.key, answer)

ServerTakes ==
    \E packet \in session.wire :
        /\ Expected(packet) /\ Answers(packet.body) = {} /\ Take(packet)
        /\ server' = [server EXCEPT !.next = @ + 1]
        /\ UNCHANGED back

\* The client asks for the next key.
ServerFollows ==
    \E packet \in session.wire :
        /\ packet.key = Following(server.key) /\ packet.id = 0 /\ packet.body = "SOFT_RESET"
        /\ Take(packet)
        /\ server' = [key |-> packet.key, next |-> 1, sent |-> 1, before |-> server.sent]
        /\ Say(packet.key, "SOFT_RESET")

\* The server asks for the next key, once the client uses this one.
ServerRenegotiates ==
    /\ Up /\ server.sent > 0 /\ session.resets < MaxResets
    /\ "early_reset" \in Faults \/ session.ring.currentKeyIdx = server.key
    /\ server' = [key |-> Following(server.key), next |-> 0, sent |-> 1,
                  before |-> server.sent]
    /\ Say(server'.key, "SOFT_RESET")
    /\ UNCHANGED <<session, read, links>>

\* The server goes away.
ServerRestarts ==
    /\ "restart" \in Faults /\ Up
    /\ session.ring.currentKeyIdx = server.key
    /\ server' = [server EXCEPT !.sent = @ + 1]
    /\ Say(server.key, "RESTART")
    /\ UNCHANGED <<session, read, links>>

Server == \/ ServerAnswers \/ ServerTakes \/ ServerFollows
          \/ ServerRenegotiates \/ ServerRestarts

-----------------------------------------------------------------------------
ReadSome  == \E batch \in Batches, due \in BOOLEAN : Read(batch, due)
HandleOne == \E env \in Envs : HandleControl(env)
TickSome  == \E late \in BOOLEAN, env \in Envs : Tick(late, env)
PingSome  == \E silent, unsent \in BOOLEAN : Ping(silent, unsent)

Next ==
    \/ SetLink \/ LinkLost
    \/ ReadSome \/ ReceiveLink \/ HandleOne
    \/ TickSome \/ PingSome \/ ExitWritten \/ StopRequest \/ Fail
    \/ Server

Spec == Init /\ [][Next]_vars

\* The queue runs what is due, a clock that is watched moves on, and a server
\* that is there answers.
FairSpec ==
    /\ Spec
    /\ WF_vars(SetLink)
    /\ WF_vars(ReadSome) /\ WF_vars(ReceiveLink) /\ WF_vars(HandleOne)
    /\ WF_vars(\E late \in BOOLEAN : Tick(late, Env(TRUE, "none")) /\ late = ("timeout" \in Faults))
    /\ WF_vars(ExitWritten)
    /\ WF_vars(ServerAnswers \/ ServerTakes \/ ServerFollows)

-----------------------------------------------------------------------------
\* Every variable holds what its declaration says.
TypeOK ==
    /\ session.ring.keys \subseteq KeyIds /\ session.ring.oldKeys \in Seq(KeyIds)
    /\ session.key \in [KeyIds -> [state : {"invalid", "hardReset", "softReset", "tls"},
                                   controlState : {"none", "preAuth", "preIfConfig", "connected"},
                                   isTLSConnected : BOOLEAN, dataPath : BOOLEAN]]
    /\ session.authenticator \in {"none", "sent", "authenticated", "reset"}
    /\ session.exit \in {"no", "pending"} /\ session.failing \subseteq CallFaults
    /\ {session.ticks, session.pings, session.starts, session.stops, session.resets} \subseteq Nat
    /\ server.key \in KeyIds
    /\ {server.next, server.sent, server.before, links} \subseteq Nat
    /\ read \subseteq 1 .. Len(back)

\* No fatalError of the session is reached: the negotiation key is there when it
\* is looked at, and encryption is set up from the reply to the credentials and
\* a PUSH_REPLY (negotiationKey, setupEncryption).
NoCrash == session.crashed = "no"

\* When the process does end, the session had stopped before: a handler went on
\* after a stop that ran inside it (deferStop).
CrashAfterStop == session.crashed # "no" => ~session.alive

\* The keys are the one under negotiation, the current one and the one before it,
\* and their ids follow each other past the wrap-around, whatever was reset in
\* between (hardReset, softReset, transitionKeys, cleanKeys, cleanup).  Once the
\* provider has let go of the session, the rest of a handler may leave it another.
RingInv == session.alive => RingOK(session.ring)

\* A negotiation that has not completed always has a tick ahead, or nothing would
\* retransmit its packets or notice its timeout (loopNegotiation).
LoopAlive ==
    Free /\ session.link /\ NegotiationKey(session).controlState # "connected"
        => session.ticks > 0

\* A session that the delegate was told about keeps watching for a silent server
\* (scheduleNextPing).
PingAlive ==
    Free /\ session.link /\ session.starts > 0 /\ ~session.isStopping => session.pings > 0

\* The current key can encrypt, and the previous one can still decrypt.
KeysUsable ==
    ~session.isStopping =>
        \A k \in KeyIds :
            k = session.ring.currentKeyIdx \/ (\E i \in DOMAIN session.ring.oldKeys : k = session.ring.oldKeys[i])
            => session.key[k].dataPath /\ session.key[k].controlState = "connected"

\* When a renegotiation completes, what the server still encrypts with the key
\* that was current can be decrypted (transitionKeys, cleanKeys).
OldKeyKept ==
    [][LET k == session.ring.currentKeyIdx
       IN  /\ k # NoIdx
           /\ session'.ring.currentKeyIdx \notin {k, NoIdx}
           => k \in session'.ring.keys /\ session'.key[k].dataPath]_vars

\* The client encrypts with the server's key, or the one before it.
KeysAgree ==
    session.link /\ session.ring.currentKeyIdx # NoIdx =>
        server.key \in {session.ring.currentKeyIdx, Following(session.ring.currentKeyIdx)}

\* A renegotiation is one that the server knows of or will hear of, or that could not
\* be asked for, which stops the session (softReset, flushControlQueue).
NoPhantom ==
    session.link /\ ~session.isStopping /\ session.ring.isRenegotiating =>
        \/ server.key = session.ring.negotiationKeyIdx
        \/ \E packet \in session.wire : /\ packet.key = session.ring.negotiationKeyIdx
                                        /\ packet.body = "SOFT_RESET"

\* For each link the delegate hears of at most one start and of at most one stop
\* (sessionDidStart, sessionDidStop).
DelegateOnce == session.starts <= 1 /\ session.stops <= 1

\* Every negotiation ends: the key is connected, or the session has gone.
Negotiating == session.link /\ NegotiationKey(session).controlState # "connected"
Settles == Negotiating ~> ~Negotiating

\* With nothing in the way, a session connects.
Connects == <>(session.starts = 1)
=============================================================================

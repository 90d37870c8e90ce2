---------------------------- MODULE SessionState ----------------------------
(***************************************************************************)
(* The state of OpenVPNSession.swift and the methods its handlers are made *)
(* of, as operators from one session record to the next.  Methods call     *)
(* each other on one serial queue, so a handler is one or more of these    *)
(* applied in the order of the source.                                     *)
(***************************************************************************)
EXTENDS KeyRing, ControlChannel

CONSTANT Reliable \* isReliableLink: TRUE for TCP, FALSE for UDP

\* What a handler finds when it runs: whether the clock has passed the date of
\* the next push request, and what is wrong, if anything: the session id of the
\* packet, the first TLS call of the handler or a later one, the set-up of a
\* cipher, or the gateway.
TLSFaults     == {"tls", "tls_later"}
HandlerFaults == {"none", "mismatch", "encryption", "gateway"} \cup TLSFaults
Env(passed, fault) == [passed |-> passed, fault |-> fault]

\* A SessionKey: its handshake state, its control state, and its data path.
NewKey(state) == [state |-> state, controlState |-> "none",
                  isTLSConnected |-> FALSE, dataPath |-> FALSE]
NoKey == NewKey("invalid")

\* Calls that may fail wherever they are made: encrypting for the current key,
\* because its packet ids have run out or its cipher fails, and serializing a
\* control packet.
CallFaults == {"encrypt", "serialize"}

FreshSession ==
    [link |-> FALSE, isStopping |-> FALSE,
     ring |-> EmptyRing, key |-> [k \in KeyIds |-> NoKey],
     authenticator |-> "none", pushReply |-> FALSE, nextPushRequestDate |-> FALSE,
     channel |-> FreshChannel,
     inbox |-> <<>>, due |-> <<>>,            \* what the running read handler has left to do
     ticks |-> 0, pings |-> 0, exit |-> "no", \* blocks scheduled on the queue
     wire |-> {},                             \* what was written to the link, until it is taken
     failing |-> {},                          \* the CallFaults of the moment
     alive |-> TRUE,                          \* the provider still holds the session
     starts |-> 0, stops |-> 0,               \* delegate calls since setLink
     resets |-> 0, crashed |-> "no"]

\* remoteSessionId is set from the server's HARD_RESET, which takes key 0 to TLS.
HasRemoteSessionId(s) == s.key[0].state # "hardReset"

\* negotiationKey ends the process when the key is not there.
HasNegotiationKey(s) == s.ring.negotiationKeyIdx \in s.ring.keys
NegotiationKey(s)    == s.key[s.ring.negotiationKeyIdx]
HasCurrentKey(s)     == s.ring.currentKeyIdx \in s.ring.keys
Crash(s, why)        == IF s.crashed = "no" THEN [s EXCEPT !.crashed = why] ELSE s

SetNegotiationKey(s, field, value) ==
    [s EXCEPT !.key[s.ring.negotiationKeyIdx][field] = value]

-----------------------------------------------------------------------------
\* Stopping.

\* Mutant: the renegotiation under way is not forgotten.
CleanupKeepsRenegotiating(s) ==
    [s EXCEPT !.ring = [EmptyRing EXCEPT !.isRenegotiating = s.ring.isRenegotiating],
              !.key = [k \in KeyIds |-> NoKey],
              !.nextPushRequestDate = FALSE, !.authenticator = "none",
              !.pushReply = FALSE, !.link = FALSE, !.isStopping = FALSE]

\* cleanup: keys, negotiation and link go, the scheduled blocks and the queues
\* of the control channel stay.
Cleanup(s) ==
    [s EXCEPT !.ring = EmptyRing, !.key = [k \in KeyIds |-> NoKey],
              !.nextPushRequestDate = FALSE, !.authenticator = "none",
              !.pushReply = FALSE, !.link = FALSE, !.isStopping = FALSE]

\* doShutdown and doReconnect: the delegate is OpenVPNTunnelProvider, whose
\* sessionDidStop cleans the session up and lets go of it before it returns.
DidStop(s) == [Cleanup(s) EXCEPT !.stops = @ + 1, !.alive = FALSE]

\* deferStop: on UDP the exit notification is written first, and the stop waits
\* for the write to complete; on TCP, and when there is no key to encrypt it or the
\* encryption fails, the stop happens inside the call.
Stop(s) ==
    IF s.isStopping THEN s
    ELSE IF /\ s.link /\ ~Reliable
            /\ HasCurrentKey(s) /\ s.key[s.ring.currentKeyIdx].dataPath
            /\ "encrypt" \notin s.failing
         THEN [s EXCEPT !.isStopping = TRUE, !.exit = "pending"]
         ELSE DidStop([s EXCEPT !.isStopping = TRUE])

-----------------------------------------------------------------------------
\* Sending.

\* enqueueControlPackets, for a payload of one packet, and flushControlQueue: a
\* packet that cannot be serialized stops the session inside the call.
Enqueue(s, body) ==
    LET queued == [s EXCEPT !.channel = EnqueueOutbound(@, <<body>>)]
    IN  IF ~s.link THEN s
        ELSE IF "serialize" \in s.failing THEN Stop(queued)
        ELSE [queued EXCEPT !.wire = @ \cup {[key  |-> s.ring.negotiationKeyIdx,
                                              id   |-> s.channel.nextOut,
                                              body |-> body]}]

\* flushControlQueue on its own repeats what is queued, and is on the wire already.
Flush(s) == IF "serialize" \in s.failing /\ s.channel.outbound # <<>> THEN Stop(s) ELSE s

\* sendAck.
SendAck(s) == IF "serialize" \in s.failing THEN Stop(s) ELSE s

-----------------------------------------------------------------------------
\* Completing a negotiation.

\* Mutant: the data path goes to the key in use.
SetupEncryptionOfCurrent(s, env) ==
    IF s.ring.currentKeyIdx = NoIdx THEN SetNegotiationKey(s, "dataPath", TRUE)
    ELSE [s EXCEPT !.key[s.ring.currentKeyIdx].dataPath = TRUE]

\* setupEncryption: every missing ingredient is a fatal error.
SetupEncryption(s, env) ==
    IF s.authenticator # "authenticated" THEN Crash(s, "no server randoms")
    ELSE IF ~s.pushReply THEN Crash(s, "no PUSH_REPLY")
    ELSE IF ~HasNegotiationKey(s) THEN Crash(s, "no negotiation key")
    ELSE IF env.fault = "encryption" THEN Stop(s)
    ELSE SetNegotiationKey(s, "dataPath", TRUE)

CompleteConnection(s, env) ==
    LET ready == SetupEncryption(s, env)
    IN  IF ready.crashed # "no" THEN ready
        ELSE IF ~HasNegotiationKey(ready) THEN Crash(ready, "no negotiation key")
        ELSE [SetNegotiationKey(ready, "controlState", "connected")
                EXCEPT !.ring = Transition(@), !.authenticator = "reset"]

\* pushRequest, once the date of the next request has passed.  In a
\* renegotiation the request completes the new key.
PushRequest(s, env) ==
    IF ~HasNegotiationKey(s) THEN Crash(s, "no negotiation key")
    ELSE IF NegotiationKey(s).controlState # "preIfConfig"
            \/ ~s.nextPushRequestDate \/ ~env.passed THEN s
    ELSE IF env.fault \in TLSFaults THEN Stop(s)
    ELSE LET asked == Enqueue(s, "PUSH_REQUEST")
         IN  IF asked.ring.isRenegotiating
             THEN [CompleteConnection(asked, env) EXCEPT !.ring.isRenegotiating = FALSE,
                                                         !.nextPushRequestDate = TRUE]
             ELSE asked

\* Mutant: the loop dies when a request has been sent.
LoopNegotiationOnce(s, late, env) ==
    IF ~s.link \/ s.ring.keys = {} THEN s
    ELSE IF late THEN DidStop(s)
    ELSE LET asked == PushRequest(s, env)
         IN  IF NegotiationKey(asked).controlState \in {"connected", "preIfConfig"} THEN asked
             ELSE [asked EXCEPT !.ticks = @ + 1]

\* loopNegotiation: late says whether the timeout of the key has passed, which
\* stops the session directly.
LoopNegotiation(s, late, env) ==
    IF ~s.link \/ s.ring.keys = {} THEN s
    ELSE IF late /\ NegotiationKey(s).controlState # "connected" THEN DidStop(s)
    ELSE LET asked   == PushRequest(s, env)
             flushed == IF Reliable THEN asked ELSE Flush(asked)
         IN  IF asked.crashed # "no" THEN asked
             ELSE IF ~HasNegotiationKey(flushed) THEN Crash(flushed, "no negotiation key")
             ELSE IF NegotiationKey(flushed).controlState = "connected" THEN flushed
             ELSE [flushed EXCEPT !.ticks = @ + 1]

-----------------------------------------------------------------------------
\* Starting a negotiation.

\* hardReset, called when the link is set; drawn says whether resetControlChannel has
\* drawn a session id.  Otherwise it stops the session, and hardReset goes on.
HardReset(s, drawn) ==
    LET cleared == IF drawn THEN [s EXCEPT !.channel = FreshChannel] ELSE Stop(s)
        reset   == [cleared EXCEPT !.authenticator = "none", !.pushReply = FALSE,
                                   !.ring = RingHardReset(@), !.key[0] = NewKey("hardReset")]
    IN  Enqueue(LoopNegotiation(reset, FALSE, Env(FALSE, "none")), "HARD_RESET")

\* When a negotiation starts, of what was sent only the packets of the one before
\* can still be on the way: key ids are used again.
Recent(s) == {packet \in s.wire : packet.key = s.ring.negotiationKeyIdx}

\* Mutant: a renegotiation starts from nothing, like a new session.
SoftResetForgets(s, byServer) ==
    LET idx   == Following(s.ring.negotiationKeyIdx)
        reset == [s EXCEPT !.authenticator = "none", !.channel = FreshChannel,
                           !.pushReply = FALSE, !.ring = RingSoftReset(@),
                           !.key[idx] = NewKey("softReset"),
                           !.wire = Recent(s), !.resets = @ + 1]
        loop  == LoopNegotiation(reset, FALSE, Env(FALSE, "none"))
    IN  IF byServer THEN loop ELSE Enqueue(loop, "SOFT_RESET")

\* Mutant: the request is sent when the server sent its own.
SoftResetSwapped(s, byServer) ==
    LET idx   == Following(s.ring.negotiationKeyIdx)
        reset == [s EXCEPT !.authenticator = "none", !.channel = FreshChannel,
                           !.ring = RingSoftReset(@), !.key[idx] = NewKey("softReset"),
                           !.wire = Recent(s), !.resets = @ + 1]
        loop  == LoopNegotiation(reset, FALSE, Env(FALSE, "none"))
    IN  IF byServer THEN Enqueue(loop, "SOFT_RESET") ELSE loop

\* softReset: only the client's own request is sent.
SoftReset(s, byServer) ==
    LET idx   == Following(s.ring.negotiationKeyIdx)
        reset == [s EXCEPT !.authenticator = "none", !.channel = FreshChannel,
                           !.ring = RingSoftReset(@), !.key[idx] = NewKey("softReset"),
                           !.wire = Recent(s), !.resets = @ + 1]
        loop  == LoopNegotiation(reset, FALSE, Env(FALSE, "none"))
    IN  IF s.ring.isRenegotiating THEN s
        ELSE IF byServer THEN loop ELSE Enqueue(loop, "SOFT_RESET")

-----------------------------------------------------------------------------
\* Handling control packets.

\* onTLSConnect: the credentials go out with the new authenticator.
OnTLSConnect(s, env) ==
    LET sent == [SetNegotiationKey(s, "controlState", "preAuth")
                   EXCEPT !.authenticator = "sent"]
    IN  IF env.fault \in TLSFaults THEN Stop(sent) ELSE Enqueue(sent, "auth")

\* handleControlMessage, for the messages of a server.
HandleControlMessage(s, message, env) ==
    IF message \in {"AUTH_FAILED", "RESTART"} THEN Stop(s)
    ELSE IF ~HasNegotiationKey(s) THEN Crash(s, "no negotiation key")
    ELSE IF NegotiationKey(s).controlState # "preIfConfig" THEN s
    ELSE IF message = "PUSH_REPLY without routes" THEN Stop([s EXCEPT !.pushReply = TRUE])
    ELSE LET done    == CompleteConnection([s EXCEPT !.pushReply = TRUE], env)
             started == [done EXCEPT !.starts = @ + 1]
         IN  IF done.crashed # "no" THEN done
             ELSE IF ~done.link THEN Crash(done, "no remote address")
             \* the delegate may shut the session down: there is no gateway
             ELSE LET up == IF env.fault = "gateway" THEN Stop(started) ELSE started
                  IN  [up EXCEPT !.pings = @ + 1]

\* handleControlData: the reply to the credentials, then messages.
HandleControlData(s, body, env) ==
    IF s.authenticator = "none" THEN s
    ELSE IF NegotiationKey(s).controlState = "preAuth"
    THEN IF body = "auth_reply"
         THEN PushRequest([SetNegotiationKey(s, "controlState", "preIfConfig")
                             EXCEPT !.authenticator = "authenticated",
                                    !.nextPushRequestDate = TRUE], env)
         ELSE Stop(s) \* wrongControlDataPrefix
    ELSE IF body = "auth_reply" THEN s ELSE HandleControlMessage(s, body, env)

\* The packet that answers a reset starts TLS.
StartsTLS(s, packet) ==
    \/ packet.body = "HARD_RESET" /\ NegotiationKey(s).state = "hardReset"
    \/ packet.body = "SOFT_RESET" /\ NegotiationKey(s).state = "softReset"

\* Its session id is the server's: a HARD_RESET sets it, a SOFT_RESET has to match.
StartTLS(s, env) ==
    LET tls == SetNegotiationKey(s, "state", "tls")
    IN  IF /\ NegotiationKey(s).state = "softReset"
           /\ ~HasRemoteSessionId(s) \/ env.fault = "mismatch" THEN Stop(s)
        ELSE IF env.fault = "tls" THEN Stop(tls)
        ELSE Enqueue(tls, "hello")

\* shouldOnTLSConnect: the server's part of the handshake completes it, once.
ShouldOnTLSConnect(s, packet) ==
    packet.body = "hello" /\ ~NegotiationKey(s).isTLSConnected

\* The TLS exchange: what follows the handshake is control data.  The loop that
\* pulls it looks at negotiationKey again, unless the session id or the ciphertext
\* was refused.  The id of the server is known, or TLS would not have started.
ExchangeTLS(s, packet, env) ==
    LET finished == Enqueue(SetNegotiationKey(s, "isTLSConnected", TRUE), "finished")
        after    == IF ShouldOnTLSConnect(s, packet)
                    THEN IF HasNegotiationKey(finished) THEN OnTLSConnect(finished, env)
                                                        ELSE finished
                    ELSE IF packet.body = "hello" THEN s
                    ELSE HandleControlData(s, packet.body, env)
    IN  IF env.fault \in {"mismatch", "tls"} THEN Stop(s)
        ELSE IF HasNegotiationKey(after) THEN after ELSE Crash(after, "no negotiation key")

\* handleControlPacket: a packet of another key is dropped.
HandleControlPacket(s, packet, env) ==
    IF ~HasNegotiationKey(s) THEN Crash(s, "no negotiation key")
    ELSE IF packet.key # s.ring.negotiationKeyIdx THEN s
    ELSE IF StartsTLS(s, packet) THEN StartTLS(s, env)
    ELSE IF packet.body \notin {"HARD_RESET", "SOFT_RESET"}
            /\ NegotiationKey(s).state = "tls"
         THEN ExchangeTLS(s, packet, env)
         ELSE s
=============================================================================

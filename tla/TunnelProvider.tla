--------------------------- MODULE TunnelProvider ---------------------------
(***************************************************************************)
(* OpenVPNTunnelProvider.swift between the operating system, which starts  *)
(* and stops the tunnel, the OpenVPN session, and the sockets under it;    *)
(* with the choice of the endpoint (ConnectionStrategy.swift,              *)
(* ResolvedRemote.swift, DNSResolver.swift) and the observation of a       *)
(* socket (NEUDPSocket.swift and NETCPSocket.swift).  The session is       *)
(* reduced to what it reports, and the connections of the Network          *)
(* Extension framework are external.                                       *)
(*                                                                         *)
(* A tunnel is a record; the methods of the provider are operators on it,  *)
(* the blocks of its queue and the calls from outside are the actions.     *)
(***************************************************************************)
EXTENDS Integers, Sequences, SequencesExt

CONSTANTS Remotes,    \* how many remotes the configuration has
          Reliable,   \* the remotes that are reached over TCP
          Endpoints,  \* how many endpoints each remote may resolve to, at most
          MaxSockets, \* bound: sockets created
          Faults,     \* what may go wrong, of AllFaults
          MaxFaults   \* bound: how often something goes wrong

AllFaults == {"dns", "dns_late", "socket", "slow", "session", "gateway", "settings",
              "better_path", "stop"}

ASSUME ProviderAssumption ==
    /\ Reliable \subseteq 1 .. Remotes /\ Faults \subseteq AllFaults
    /\ Remotes \in Nat \ {0} /\ Endpoints \in [1 .. Remotes -> Nat \ {0}]
    /\ MaxSockets \in Nat /\ MaxFaults \in Nat

VARIABLE tunnel

NoSocket == 0

NewTunnel ==
    [start |-> "none",      \* startTunnel's handler: none, pending, ok, failed, dropped
     pendingStop |-> FALSE, stopCalls |-> 0, \* stopTunnel's handler, and calls of it
     cancelled |-> FALSE,   \* cancelTunnelWithError was called
     session |-> "none",    \* none, idle, linked, started
     isStopping |-> FALSE, exit |-> "no", link |-> NoSocket,
     socket |-> NoSocket, sockets |-> <<>>,
     shouldReconnect |-> FALSE,
     remote |-> 1,
     endpoints |-> [r \in 1 .. Remotes |-> 0], \* as resolved; 0 before, and on failure
     endpoint |-> [r \in 1 .. Remotes |-> 1],
     \* Blocks on the queue, and calls that have not returned.
     resolving |-> <<>>, late |-> {}, next |-> 0, reconnects |-> <<>>, disposals |-> 0,
     networkUp |-> 0, stopTimer |-> FALSE,
     tried |-> {},          \* history: the endpoints that a socket was created for
     skipped |-> FALSE,     \* history: the upgrade of a socket has timed out over TCP
     twice |-> FALSE,       \* history: a resolution has called its handler twice
     wrong |-> 0,           \* history: how often something went wrong
     forced |-> FALSE]      \* history: the timer was the first to call the stop handler

\* A fault that happens now, and the tunnel in which it has.
May(fault) == fault \in Faults /\ tunnel.wrong < MaxFaults
TunnelWith(wrong) == IF wrong THEN [tunnel EXCEPT !.wrong = @ + 1] ELSE tunnel

-----------------------------------------------------------------------------
\* ConnectionStrategy.

HasRemote(t)   == t.remote <= Remotes
HasEndpoint(t, r) == t.endpoint[r] <= t.endpoints[r]

\* Mutant: the index moves on when the remote has changed as well.
NextEndpointOfNext(t) ==
    IF ~HasRemote(t) THEN t
    ELSE LET n == [t EXCEPT !.endpoint[t.remote] = @ + 1]
         IN  IF HasEndpoint(n, t.remote) THEN n
             ELSE [n EXCEPT !.remote = @ + 1, !.endpoint = [r \in 1 .. Remotes |->
                                                 IF r > t.remote THEN @[r] + 1 ELSE @[r]]]

\* tryNextEndpoint: the next endpoint of this remote, or else the next remote.
NextEndpoint(t) ==
    IF ~HasRemote(t) THEN t
    ELSE LET n == [t EXCEPT !.endpoint[t.remote] = @ + 1]
         IN  IF HasEndpoint(n, t.remote) THEN n ELSE [n EXCEPT !.remote = @ + 1]

-----------------------------------------------------------------------------
\* Sockets.  kvo counts the state changes that wait on the queue.

Closed(state) == state \in {"cancelled", "failed"}

SetState(t, s, state) ==
    [t EXCEPT !.sockets[s].state = state,
              !.sockets[s].kvo = IF t.sockets[s].delegate THEN @ + 1 ELSE @]

\* A socket that is replaced is freed, unless blocks on the queue still hold it.
Freed(t, s) ==
    IF s = NoSocket \/ s = t.socket \/ t.sockets[s].kvo > 0 THEN t
    ELSE [t EXCEPT !.sockets[s].delegate = FALSE, !.sockets[s].timer = FALSE]

\* shutdown cancels the connection.
Shutdown(t, s) == IF Closed(t.sockets[s].state) THEN t ELSE SetState(t, s, "cancelled")

\* connectTunnel(via:), with observe.  MaxSockets bounds the sockets.
ConnectVia(t, reliable, upgraded) ==
    Freed([t EXCEPT !.sockets = Append(@, [reliable |-> reliable, upgraded |-> upgraded,
                                           state |-> "preparing", kvo |-> 0, isActive |-> FALSE,
                                           delegate |-> TRUE, timer |-> TRUE]),
                    !.socket = Len(t.sockets) + 1],
          t.socket)

Bounded == Len(tunnel'.sockets) <= MaxSockets

\* The socket of an endpoint of remote r.
ConnectTo(t, r) == [ConnectVia(t, r \in Reliable, FALSE) EXCEPT !.tried = @ \cup {<<r, t.endpoint[r]>>}]

\* disposeTunnel, with the delay of reconnectionDelay.
Dispose(t) == [t EXCEPT !.disposals = @ + 1]

\* Mutant: nobody hears that the endpoints are exhausted.
ConnectGivesUpSilently(t) ==
    IF ~HasRemote(t) THEN t
    ELSE IF HasEndpoint(t, t.remote) THEN ConnectTo(t, t.remote)
         ELSE [t EXCEPT !.resolving = Append(@, t.remote)]

\* connectTunnel: the current endpoint, or a resolution, or exhaustedEndpoints.
Connect(t) ==
    IF ~HasRemote(t) THEN Dispose(t)
    ELSE IF HasEndpoint(t, t.remote) THEN ConnectTo(t, t.remote)
         ELSE [t EXCEPT !.resolving = Append(@, t.remote)]

\* connectTunnel with the upgrade of socket s, if it has one.
ConnectUpgraded(t, s) ==
    IF s = NoSocket THEN Connect(t) ELSE ConnectVia(t, t.sockets[s].reliable, TRUE)

\* The provider's tryNextEndpoint gives up when there is none.
TryNext(t) == IF HasRemote(NextEndpoint(t)) THEN NextEndpoint(t) ELSE Dispose(NextEndpoint(t))

\* Mutant: the provider remains the delegate of the socket it forgets.
UnobservedKeepsDelegate(t) == [t EXCEPT !.socket = NoSocket]

\* finishTunnelDisconnection forgets the socket.
Unobserved(t) ==
    IF t.socket = NoSocket THEN t
    ELSE [t EXCEPT !.sockets[t.socket].delegate = FALSE, !.socket = NoSocket]

\* Mutant: the session is not cleaned up.
FinishKeepsLink(t) == Unobserved(t)

\* canRebindLink is always false: the session is cleaned up, and kept.
FinishDisconnection(t) ==
    [Unobserved(t) EXCEPT !.session = "idle", !.link = NoSocket, !.isStopping = FALSE]

-----------------------------------------------------------------------------
\* The session.

\* Mutant: the session that stopped keeps its link.
SessionDidStopKeepsLink(t, reconnect) ==
    LET gone == [t EXCEPT !.session = "none", !.isStopping = FALSE,
                          !.exit = "no", !.shouldReconnect = reconnect]
    IN  IF t.socket = NoSocket THEN gone ELSE Shutdown(gone, t.socket)

\* sessionDidStop: the session is cleaned up and let go, and the socket closed.
SessionDidStop(t, reconnect) ==
    LET gone == [t EXCEPT !.session = "none", !.link = NoSocket, !.isStopping = FALSE,
                          !.exit = "no", !.shouldReconnect = reconnect]
    IN  IF t.socket = NoSocket THEN gone ELSE Shutdown(gone, t.socket)

\* deferStop: on UDP an established session first writes an exit notification.
StopSession(t, reconnect) ==
    IF t.isStopping THEN t
    ELSE IF t.session = "started" /\ ~t.sockets[t.link].reliable
         THEN [t EXCEPT !.isStopping = TRUE, !.exit = IF reconnect THEN "reconnect" ELSE "shutdown"]
         ELSE SessionDidStop(t, reconnect)

-----------------------------------------------------------------------------
\* Calls from the operating system.

\* startTunnel, once the configuration, the credentials and the seed are there.
StartTunnel ==
    /\ tunnel.start = "none"
    /\ tunnel' = Connect([tunnel EXCEPT !.start = "pending", !.session = "idle"])

\* Mutant: nothing watches over the stop.
StopTunnelUnwatched ==
    /\ "stop" \in Faults
    /\ tunnel.start \in {"pending", "ok"} /\ ~tunnel.cancelled
    /\ ~tunnel.pendingStop /\ tunnel.stopCalls = 0
    /\ LET t == [tunnel EXCEPT !.start = IF @ = "pending" THEN "dropped" ELSE @]
       IN  tunnel' = IF t.session = "none" THEN [t EXCEPT !.stopCalls = @ + 1]
                     ELSE StopSession([t EXCEPT !.pendingStop = TRUE], FALSE)

\* stopTunnel: the start handler, if it still waits, is dropped.
StopTunnel ==
    /\ "stop" \in Faults
    /\ tunnel.start \in {"pending", "ok"} /\ ~tunnel.cancelled
    /\ ~tunnel.pendingStop /\ tunnel.stopCalls = 0
    /\ LET t == [tunnel EXCEPT !.start = IF @ = "pending" THEN "dropped" ELSE @]
       IN  tunnel' = IF t.session = "none" THEN [t EXCEPT !.stopCalls = @ + 1]
                     ELSE StopSession([t EXCEPT !.pendingStop = TRUE, !.stopTimer = TRUE], FALSE)

\* The tunnel has not stopped in time: the handler is called, and kept.
StopTimer ==
    /\ tunnel.stopTimer
    /\ tunnel' = IF tunnel.pendingStop
                 THEN [tunnel EXCEPT !.stopTimer = FALSE, !.stopCalls = @ + 1,
                                     !.forced = tunnel.stopCalls = 0]
                 ELSE [tunnel EXCEPT !.stopTimer = FALSE]

-----------------------------------------------------------------------------
\* Blocks of the provider.

\* The handler of a resolution of remote r, with n addresses of the right family.
Answered(t, r, n) ==
    LET u == [t EXCEPT !.endpoints[r] = n]
    IN  IF HasEndpoint(u, r) THEN ConnectTo(u, r) ELSE [u EXCEPT !.next = @ + 1]

\* A resolution calls its handler.
Resolved(i, n) ==
    /\ n = 0 => May("dns")
    /\ LET r == tunnel.resolving[i]
           t == [TunnelWith(n = 0) EXCEPT !.resolving = RemoveAt(@, i),
                                          !.late = IF n = 0 THEN @ \cup {r} ELSE @]
       IN  tunnel' = Answered(t, r, n)
    /\ Bounded

\* When it was the timeout that called the handler, the answer may have been past
\* its guard on the other queue, and calls the handler again.
ResolvedTwice(r, n) ==
    /\ May("dns_late")
    /\ tunnel' = Answered([TunnelWith(TRUE) EXCEPT !.late = @ \ {r}, !.twice = TRUE], r, n)
    /\ Bounded

\* After a failed resolution, the next endpoint.
AfterDNSFailure ==
    /\ tunnel.next > 0
    /\ tunnel' = Connect(NextEndpoint([tunnel EXCEPT !.next = @ - 1]))
    /\ Bounded

\* The block that didShutdownWithFailure scheduled.
Reconnect ==
    /\ tunnel.reconnects # <<>>
    /\ LET t == [tunnel EXCEPT !.reconnects = Tail(@)]
       IN  tunnel' = IF t.shouldReconnect THEN ConnectUpgraded(t, Head(tunnel.reconnects)) ELSE t
    /\ Bounded

\* Mutant: the stop handler that was called stays.
ReallyDisposeKeepsHandler ==
    /\ tunnel.disposals > 0
    /\ LET t == [tunnel EXCEPT !.disposals = @ - 1]
       IN  tunnel' = IF t.start = "pending" THEN [t EXCEPT !.start = "failed"]
                     ELSE IF t.pendingStop THEN [t EXCEPT !.stopCalls = @ + 1]
                     ELSE [t EXCEPT !.cancelled = TRUE]

\* reallyDisposeTunnel.
ReallyDispose ==
    /\ tunnel.disposals > 0
    /\ LET t == [tunnel EXCEPT !.disposals = @ - 1]
       IN  tunnel' = IF t.start = "pending" THEN [t EXCEPT !.start = "failed"]
                     ELSE IF t.pendingStop
                          THEN [t EXCEPT !.pendingStop = FALSE, !.stopCalls = @ + 1]
                     ELSE [t EXCEPT !.cancelled = TRUE]

\* setTunnelNetworkSettings has completed: the handler of sessionDidStart.
NetworkUp(failed) ==
    /\ tunnel.networkUp > 0
    /\ failed => May("settings")
    /\ tunnel' = [TunnelWith(failed) EXCEPT !.networkUp = @ - 1,
                                !.start = IF @ = "pending"
                                          THEN IF failed THEN "failed" ELSE "ok"
                                          ELSE @]

-----------------------------------------------------------------------------
\* Sockets: what the framework does, and what the provider makes of it.

\* External: the connection gets ready, or fails.
Ready(s) ==
    /\ tunnel.sockets[s].state = "preparing"
    /\ tunnel' = SetState(tunnel, s, "ready")

Fail(s) ==
    /\ May("socket") /\ ~Closed(tunnel.sockets[s].state)
    /\ tunnel' = SetState(TunnelWith(TRUE), s, "failed")

\* Mutant: the link is taken whether there is a session or not.
DidBecomeActiveAnyway(t, s) ==
    IF t.link # NoSocket THEN t ELSE [t EXCEPT !.session = "linked", !.link = s]

\* socketDidBecomeActive.
DidBecomeActive(t, s) ==
    IF t.session = "none" \/ t.link # NoSocket THEN t
    ELSE [t EXCEPT !.session = "linked", !.link = s]

\* socket(_:didShutdownWithFailure:).  stopError is nil while there is a session,
\* so the branch for a negotiation timeout is not taken.
DidShutdown(t, s, upgraded) ==
    IF t.session = "none" THEN t
    ELSE LET done == FinishDisconnection(t)
         IN  IF t.shouldReconnect THEN [done EXCEPT !.reconnects = Append(@, IF upgraded THEN s ELSE NoSocket)]
                                  ELSE Dispose(done)

\* observeValueInTunnelQueue: it acts on the state as it is now.  upgraded says
\* whether the connection has a better path.
ObserveState(s, upgraded) ==
    /\ tunnel.sockets[s].kvo > 0
    /\ upgraded => May("better_path")
    /\ LET t    == [TunnelWith(upgraded) EXCEPT !.sockets[s].kvo = @ - 1]
           told == t.sockets[s].delegate
           seen == IF Closed(t.sockets[s].state)
                   THEN IF told THEN DidShutdown(t, s, upgraded) ELSE t
                   ELSE IF t.sockets[s].isActive THEN t
                   ELSE LET active == [t EXCEPT !.sockets[s].isActive = TRUE]
                        IN  IF told THEN DidBecomeActive(active, s) ELSE active
       IN  tunnel' = Freed(seen, s)

\* The timer of observe, and socketDidTimeout.
SocketTimer(s) ==
    /\ tunnel.sockets[s].timer
    /\ tunnel.sockets[s].isActive \/ May("slow")
    /\ LET t    == [TunnelWith(~tunnel.sockets[s].isActive) EXCEPT !.sockets[s].timer = FALSE]
           shut == Shutdown([t EXCEPT !.shouldReconnect = TRUE], s)
       IN  tunnel' = IF t.sockets[s].isActive \/ ~t.sockets[s].delegate THEN t
                     ELSE IF ~t.sockets[s].reliable THEN shut
                     ELSE TryNext([shut EXCEPT !.skipped = @ \/ t.sockets[s].upgraded])

\* socketHasBetterPath.
BetterPath(s) ==
    /\ May("better_path")
    /\ tunnel.sockets[s].delegate /\ ~Closed(tunnel.sockets[s].state)
    /\ tunnel.session # "none"
    /\ tunnel' = StopSession(TunnelWith(TRUE), TRUE)

-----------------------------------------------------------------------------
\* The session: what it reports to its delegate (module OpenVPNSession).

\* sessionDidStart, with bringNetworkUp.
SessionStarts ==
    /\ tunnel.session = "linked"
    /\ LET t == [tunnel EXCEPT !.session = "started"]
       IN  \/ tunnel' = [t EXCEPT !.networkUp = @ + 1]
           \/ May("gateway") /\ tunnel' = StopSession([t EXCEPT !.wrong = @ + 1], FALSE)

\* The session stops by itself.
SessionStops ==
    /\ May("session")
    /\ tunnel.session \in {"linked", "started"}
    /\ \E reconnect \in BOOLEAN : tunnel' = StopSession(TunnelWith(TRUE), reconnect)

\* The exit notification has been written.
ExitWritten ==
    /\ tunnel.exit # "no"
    /\ tunnel' = SessionDidStop(tunnel, tunnel.exit = "reconnect")

-----------------------------------------------------------------------------
Sockets == 1 .. Len(tunnel.sockets)

Init == tunnel = NewTunnel

Calls   == StartTunnel \/ StopTunnel
Blocks  == \/ StopTimer \/ AfterDNSFailure \/ Reconnect \/ ReallyDispose
           \/ \E i \in DOMAIN tunnel.resolving : \E n \in 0 .. Endpoints[tunnel.resolving[i]] :
                 Resolved(i, n)
           \/ \E failed \in BOOLEAN : NetworkUp(failed)
Twice   == \E r \in tunnel.late : \E n \in 0 .. Endpoints[r] : ResolvedTwice(r, n)
Observe == \/ \E s \in Sockets, upgraded \in BOOLEAN : ObserveState(s, upgraded)
           \/ \E s \in Sockets : SocketTimer(s)
           \/ \E s \in Sockets : BetterPath(s)
Network == \/ \E s \in Sockets : Ready(s)
           \/ \E s \in Sockets : Fail(s)
Session == SessionStarts \/ SessionStops \/ ExitWritten

Next == Calls \/ Blocks \/ Twice \/ Observe \/ Network \/ Session

Spec == Init /\ [][Next]_tunnel

\* The queue runs its blocks and timers, a link that is up is negotiated, the
\* framework completes a write, and a connection that is not too slow gets ready.
\* Nothing has to go wrong: a resolution need not answer twice.
FairSpec ==
    /\ Spec
    /\ WF_tunnel(Blocks) /\ WF_tunnel(StopTimer)
    /\ WF_tunnel(SessionStarts) /\ WF_tunnel(ExitWritten)
    /\ \A s \in 1 .. MaxSockets :
          /\ WF_tunnel(s \in Sockets /\ \E upgraded \in BOOLEAN : ObserveState(s, upgraded))
          /\ WF_tunnel(s \in Sockets /\ SocketTimer(s))
          /\ WF_tunnel(s \in Sockets /\ Ready(s))

-----------------------------------------------------------------------------
TypeOK ==
    /\ tunnel.start \in {"none", "pending", "ok", "failed", "dropped"}
    /\ tunnel.session \in {"none", "idle", "linked", "started"}
    /\ tunnel.link # NoSocket <=> tunnel.session \in {"linked", "started"}
    /\ tunnel.exit \in {"no", "shutdown", "reconnect"}
    /\ {tunnel.socket, tunnel.link} \subseteq {NoSocket} \cup Sockets
    /\ tunnel.remote \in 1 .. Remotes + 1
    /\ \A s \in Sockets : tunnel.sockets[s].state \in {"preparing", "ready", "cancelled", "failed"}
    /\ tunnel.wrong \in 0 .. MaxFaults
    /\ {tunnel.stopCalls, tunnel.next, tunnel.disposals, tunnel.networkUp} \subseteq Nat

\* The session talks over the socket that the provider observes, never over one
\* that was given up (setLink ignores a second link, cleanup frees it), unless a
\* resolution has called its handler twice.
LinkOfSocket == tunnel.link # NoSocket => tunnel.link = tunnel.socket \/ tunnel.twice

\* The provider listens to one socket at a time, unless a resolution has called
\* its handler twice (finishTunnelDisconnection, connectTunnel).
OneObserved ==
    \A s \in Sockets : tunnel.sockets[s].delegate => s = tunnel.socket \/ tunnel.twice

\* The remotes are given up only when a socket was created for every endpoint
\* they resolved to (tryNextEndpoint, nextEndpoint), unless the code moves on
\* twice: it called the handler of a resolution again, or it upgraded a socket
\* that had timed out, and the upgrade timed out as well.
AllTried ==
    tunnel.twice \/ tunnel.skipped \/
    \A r \in 1 .. Remotes : r < tunnel.remote =>
        \A e \in 1 .. tunnel.endpoints[r] : <<r, e>> \in tunnel.tried

\* A session that the provider has let go of stays gone: names that resolve late,
\* sockets that become active late and reconnections that are due bring up
\* nothing (the guards on session in the socket's delegate methods).
StaysDown ==
    [][tunnel.start # "none" /\ tunnel.session = "none" => tunnel'.session = "none"]_tunnel

\* A disposal that has called stopTunnel's handler is the last to call it
\* (pendingStopHandler; the timer that forces the stop leaves it set).
StopOnce == tunnel.stopCalls > 1 => tunnel.forced

\* stopTunnel's completion handler is called in the end, whatever the session and
\* the sockets do (shutdownTimeout).
StopAnswered == tunnel.pendingStop ~> tunnel.stopCalls > 0

\* startTunnel's completion handler is called in the end: the tunnel is up, or the
\* endpoints are exhausted, or it is stopped.  Only a session that stops before
\* the tunnel is up keeps it waiting (see Restarted).
StartAnswered ==
    (tunnel.start = "pending") ~> (tunnel.start # "pending" \/ tunnel.session = "none")

\* A session that stops and asks to be restarted gets another socket, as the
\* delegate of the session promises of shouldReconnect.
AwaitsRestart == /\ tunnel.shouldReconnect /\ tunnel.session = "none"
                 /\ tunnel.start = "ok" /\ tunnel.disposals = 0
Restarted == AwaitsRestart ~> ~AwaitsRestart
=============================================================================

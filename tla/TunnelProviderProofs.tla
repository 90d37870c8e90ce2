------------------------ MODULE TunnelProviderProofs ------------------------
(***************************************************************************)
(* The tunnel provider, for any configuration and any number of sockets:   *)
(* its types, what it observes and talks over, what it has tried, what     *)
(* stays down, and how often it calls the stop handler.                    *)
(***************************************************************************)
EXTENDS TunnelProvider, SequenceTheorems, TLAPS

-----------------------------------------------------------------------------
(* Types.                                                                  *)

States == {"preparing", "ready", "cancelled", "failed"}

Socket == [reliable : BOOLEAN, upgraded : BOOLEAN, state : States, kvo : Nat,
           isActive : BOOLEAN, delegate : BOOLEAN, timer : BOOLEAN]

TunnelType ==
    [start : {"none", "pending", "ok", "failed", "dropped"},
     pendingStop : BOOLEAN, stopCalls : Nat, cancelled : BOOLEAN,
     session : {"none", "idle", "linked", "started"},
     isStopping : BOOLEAN, exit : {"no", "shutdown", "reconnect"}, link : Nat,
     socket : Nat, sockets : Seq(Socket), shouldReconnect : BOOLEAN,
     remote : 1 .. Remotes + 1,
     endpoints : [1 .. Remotes -> Nat], endpoint : [1 .. Remotes -> Nat \ {0}],
     resolving : Seq(1 .. Remotes), late : SUBSET (1 .. Remotes), next : Nat,
     reconnects : Seq(Nat), disposals : Nat, networkUp : Nat, stopTimer : BOOLEAN,
     tried : SUBSET ((1 .. Remotes) \X (Nat \ {0})),
     skipped : BOOLEAN, twice : BOOLEAN, wrong : 0 .. MaxFaults, forced : BOOLEAN]

\* q are the sockets p with no observer, and no timer, that they had not.
Fewer(p, q) ==
    /\ q \in Seq(Socket) /\ Len(q) = Len(p)
    /\ \A s \in 1 .. Len(p) : /\ q[s].reliable = p[s].reliable /\ q[s].upgraded = p[s].upgraded
                              /\ q[s].delegate => p[s].delegate
                              /\ q[s].timer => p[s].timer

\* u is t with other sockets, and fewer observers.
Quieter(t, u) == u = [t EXCEPT !.sockets = u.sockets] /\ Fewer(t.sockets, u.sockets)

\* What the steps of the stop, of the session, of the connections under way and of
\* the choice of the endpoint are about.
SameStop(t, u)    == /\ u.stopCalls = t.stopCalls /\ u.pendingStop = t.pendingStop
                     /\ u.stopTimer = t.stopTimer /\ u.forced = t.forced
SameSession(t, u) == u.start = t.start /\ u.session = t.session /\ u.link = t.link
SameWork(t, u)    == /\ u.resolving = t.resolving /\ u.next = t.next
                     /\ u.reconnects = t.reconnects /\ u.twice = t.twice
SamePlace(t, u)   == /\ u.remote = t.remote /\ u.endpoints = t.endpoints
                     /\ u.endpoint = t.endpoint /\ u.tried = t.tried /\ u.skipped = t.skipped

\* Nothing else changes with the sockets.
LEMMA SocketsOnly ==
  ASSUME NEW t \in TunnelType, NEW q \in Seq(Socket), NEW u, u = [t EXCEPT !.sockets = q]
  PROVE  /\ u \in TunnelType /\ u.sockets = q /\ u.socket = t.socket
         /\ SameStop(t, u) /\ SameSession(t, u) /\ SameWork(t, u) /\ SamePlace(t, u)
         /\ u.shouldReconnect = t.shouldReconnect
<1>1. u \in TunnelType
  BY ZenonT(30) DEF TunnelType
<1>2. u.sockets = q /\ u.socket = t.socket
  BY DEF TunnelType
<1>3. SameStop(t, u)
  BY DEF TunnelType, SameStop
<1>4. SameSession(t, u)
  BY DEF TunnelType, SameSession
<1>5. SameWork(t, u)
  BY DEF TunnelType, SameWork
<1>6. SamePlace(t, u)
  BY DEF TunnelType, SamePlace
<1>7. u.shouldReconnect = t.shouldReconnect
  BY DEF TunnelType
<1> QED
  BY <1>1, <1>2, <1>3, <1>4, <1>5, <1>6, <1>7

\* One socket changes, and is not observed anew.
LEMMA OneSocket ==
  ASSUME NEW t \in TunnelType, NEW s \in 1 .. Len(t.sockets), NEW n \in Socket,
         n.reliable = t.sockets[s].reliable, n.upgraded = t.sockets[s].upgraded,
         n.delegate => t.sockets[s].delegate, n.timer => t.sockets[s].timer,
         NEW u, u = [t EXCEPT !.sockets = [t.sockets EXCEPT ![s] = n]]
  PROVE  /\ Quieter(t, u) /\ u \in TunnelType
         /\ u.sockets = [t.sockets EXCEPT ![s] = n] /\ u.sockets[s] = n
<1> DEFINE q == [t.sockets EXCEPT ![s] = n]
<1>1. t.sockets \in Seq(Socket)
  BY DEF TunnelType
<1>2. /\ q \in Seq(Socket) /\ Len(q) = Len(t.sockets) /\ q[s] = n
      /\ \A k \in 1 .. Len(t.sockets) : k # s => q[k] = t.sockets[k]
  BY <1>1
<1>3. u = [t EXCEPT !.sockets = q]
  OBVIOUS
<1> HIDE DEF q
<1>4. u.sockets = q /\ u \in TunnelType
  BY <1>2, <1>3, SocketsOnly
<1>5. Fewer(t.sockets, q)
  BY <1>2 DEF Fewer
<1> QED
  BY <1>2, <1>3, <1>4, <1>5 DEF Quieter, q

\* Sockets get quieter step by step.
LEMMA QuieterTwice ==
  ASSUME NEW t \in TunnelType, NEW u, NEW v, Quieter(t, u), Quieter(u, v)
  PROVE  Quieter(t, v)
<1>1. v = [t EXCEPT !.sockets = v.sockets]
  <2>1. u = [t EXCEPT !.sockets = u.sockets] /\ v = [u EXCEPT !.sockets = v.sockets]
    BY DEF Quieter
  <2> QED BY <2>1
<1>2. t.sockets \in Seq(Socket)
  BY DEF TunnelType
<1>3. Fewer(t.sockets, v.sockets)
  BY <1>2 DEF Quieter, Fewer
<1> QED
  BY <1>1, <1>3 DEF Quieter

\* They may stay as they are.
LEMMA QuieterSame ==
  ASSUME NEW t \in TunnelType
  PROVE  Quieter(t, t)
<1>1. t.sockets \in Seq(Socket) /\ t = [t EXCEPT !.sockets = t.sockets]
  BY DEF TunnelType
<1> QED
  BY <1>1 DEF Quieter, Fewer

\* A socket changes its state.
LEMMA SetStateIs ==
  ASSUME NEW t \in TunnelType, NEW s \in 1 .. Len(t.sockets), NEW state \in States
  PROVE  Quieter(t, SetState(t, s, state))
<1> DEFINE p == t.sockets[s]
           kvo == IF p.delegate THEN p.kvo + 1 ELSE p.kvo
           n == [p EXCEPT !.state = state, !.kvo = kvo]
           q == [t.sockets EXCEPT ![s] = n]
           u == [t EXCEPT !.sockets = q]
<1>1. SetState(t, s, state) = u
  BY ZenonT(30) DEF SetState
<1>2. p \in Socket
  BY DEF TunnelType
<1>3. kvo \in Nat
  <2> HIDE DEF p
  <2> QED BY <1>2 DEF Socket
<1> HIDE DEF kvo
<1>4. /\ n \in Socket /\ n.reliable = p.reliable /\ n.upgraded = p.upgraded
  <2> HIDE DEF p
  <2> QED BY <1>2, <1>3, ZenonT(30) DEF Socket
<1>5. (n.delegate => p.delegate) /\ (n.timer => p.timer)
  <2> HIDE DEF p
  <2> QED BY <1>2, <1>3 DEF Socket
<1> HIDE DEF n
<1>6. Quieter(t, u)
  BY <1>4, <1>5, OneSocket, ZenonT(30)
<1> QED
  BY <1>1, <1>6

\* A socket is freed, if nothing holds it.
LEMMA FreedIs ==
  ASSUME NEW t \in TunnelType, NEW s \in 0 .. Len(t.sockets)
  PROVE  Quieter(t, Freed(t, s))
<1>1. CASE Freed(t, s) = t
  BY <1>1, QuieterSame
<1>2. CASE s # NoSocket /\ Freed(t, s) = [t EXCEPT !.sockets[s].delegate = FALSE,
                                                  !.sockets[s].timer = FALSE]
  <2> DEFINE p == t.sockets[s]
             n == [p EXCEPT !.delegate = FALSE, !.timer = FALSE]
             q == [t.sockets EXCEPT ![s] = n]
             u == [t EXCEPT !.sockets = q]
  <2>1. Freed(t, s) = u
    BY <1>2, ZenonT(30)
  <2>2. p \in Socket /\ s \in 1 .. Len(t.sockets)
    BY <1>2 DEF TunnelType, NoSocket
  <2>3. /\ n \in Socket /\ n.reliable = p.reliable /\ n.upgraded = p.upgraded
    <3> HIDE DEF p
    <3> QED BY <2>2, ZenonT(30) DEF Socket
  <2>4. ~n.delegate /\ ~n.timer
    <3> HIDE DEF p
    <3> QED BY <2>2 DEF Socket
  <2> HIDE DEF n
  <2>5. Quieter(t, u)
    BY <2>2, <2>3, <2>4, OneSocket, ZenonT(30)
  <2> QED BY <2>1, <2>5
<1> QED
  BY <1>1, <1>2 DEF Freed

\* shutdown cancels the connection.
LEMMA ShutdownIs ==
  ASSUME NEW t \in TunnelType, NEW s \in 1 .. Len(t.sockets)
  PROVE  Quieter(t, Shutdown(t, s))
  BY SetStateIs, QuieterSame DEF Shutdown, States
-----------------------------------------------------------------------------
(* The invariant of the sockets and of the endpoints.                      *)

\* Calls of connectTunnel that are still to come.
Pending(t) == Len(t.resolving) + t.next + Len(t.reconnects)

Linked(t) ==
    /\ t.socket \in 0 .. Len(t.sockets) /\ t.link \in 0 .. Len(t.sockets)
    /\ t.link # NoSocket <=> t.session \in {"linked", "started"}
    /\ \A i \in 1 .. Len(t.reconnects) : t.reconnects[i] \in 0 .. Len(t.sockets)

\* The provider connects, or has a socket, and the session talks over none other.
Single(t) ==
    /\ Pending(t) <= 1
    /\ Pending(t) # 0 => t.socket = NoSocket
    /\ \A s \in 1 .. Len(t.sockets) : t.sockets[s].delegate => s = t.socket
    /\ t.link # NoSocket => t.link = t.socket

\* The endpoints before the current one were tried, and those of the next remotes
\* are not known; nor are those of the current remote while it is resolved.  The
\* endpoint of a socket that may still time out is the current one.
Progress(t) ==
    /\ \A r \in 1 .. Remotes :
          /\ r < t.remote => \A e \in 1 .. t.endpoints[r] : <<r, e>> \in t.tried
          /\ r > t.remote => t.endpoints[r] = 0 /\ t.endpoint[r] = 1
          /\ r = t.remote =>
                /\ \A e \in 1 .. t.endpoints[r] : e < t.endpoint[r] => <<r, e>> \in t.tried
                /\ HasEndpoint(t, r) \/ (t.endpoints[r] = 0 /\ t.endpoint[r] = 1)
    /\ \A i \in 1 .. Len(t.resolving) :
          t.resolving[i] = t.remote /\ t.endpoints[t.remote] = 0
    /\ t.next > 0 => HasRemote(t) /\ t.endpoints[t.remote] = 0
    /\ t.socket # NoSocket /\ t.sockets[t.socket].timer /\ ~ t.sockets[t.socket].upgraded
          => HasRemote(t) /\ <<t.remote, t.endpoint[t.remote]>> \in t.tried

Sound(t) == /\ t \in TunnelType /\ Linked(t)
            /\ t.twice \/ Single(t)
            /\ t.twice \/ t.skipped \/ Progress(t)

\* What becomes of t while it is not to be started or stopped.
Follows(t, u) == /\ Sound(u) /\ SameStop(t, u) /\ u.start = t.start
                 /\ t.session = "none" => u.session = "none"

\* Nothing need change.
LEMMA FollowsSame ==
  ASSUME NEW t, Sound(t)
  PROVE  Follows(t, t)
  BY DEF Follows, SameStop

\* What follows, step by step.
LEMMA FollowsTwice ==
  ASSUME NEW t, NEW u, NEW v, Follows(t, u), Follows(u, v)
  PROVE  Follows(t, v)
  BY DEF Follows, SameStop

\* Nothing of the sockets and of the endpoints changes but what makes them quieter.
LEMMA SoundKept ==
  ASSUME NEW t, Sound(t), NEW u \in TunnelType, Linked(u), SameWork(t, u), SamePlace(t, u),
         u.socket = t.socket, Fewer(t.sockets, u.sockets),
         u.link # NoSocket => u.link = t.link
  PROVE  Sound(u)
<1>1. t.twice \/ Single(t) => u.twice \/ Single(u)
  <2>1. CASE t.twice
    BY <2>1 DEF SameWork
  <2>2. CASE Single(t)
    BY <2>2 DEF Single, Pending, SameWork, Fewer
  <2> QED BY <2>1, <2>2
<1>2. t.twice \/ t.skipped \/ Progress(t) => u.twice \/ u.skipped \/ Progress(u)
  <2>1. CASE t.twice
    BY <2>1 DEF SameWork
  <2>2. CASE t.skipped
    BY <2>2 DEF SamePlace
  <2>3. CASE Progress(t)
    <3>1. t.socket \in 0 .. Len(t.sockets)
      BY DEF Sound, Linked
    <3>2. u.socket # NoSocket /\ u.sockets[u.socket].timer /\ ~ u.sockets[u.socket].upgraded
             => HasRemote(u) /\ <<u.remote, u.endpoint[u.remote]>> \in u.tried
      BY <2>3, <3>1 DEF Progress, SamePlace, Fewer, HasRemote, NoSocket
    <3> QED BY <2>3, <3>2 DEF Progress, SameWork, SamePlace, HasRemote, HasEndpoint
  <2> QED BY <2>1, <2>2, <2>3
<1> QED
  BY <1>1, <1>2 DEF Sound

\* Sockets that get quieter break nothing.
LEMMA QuieterSound ==
  ASSUME NEW t, Sound(t), NEW u, Quieter(t, u)
  PROVE  /\ Follows(t, u) /\ SameSession(t, u) /\ SameWork(t, u) /\ SamePlace(t, u)
         /\ u.socket = t.socket /\ u.shouldReconnect = t.shouldReconnect
<1>1. /\ u \in TunnelType /\ u.socket = t.socket
      /\ SameStop(t, u) /\ SameSession(t, u) /\ SameWork(t, u) /\ SamePlace(t, u)
      /\ u.shouldReconnect = t.shouldReconnect
  BY SocketsOnly DEF Quieter, Fewer, Sound
<1>2. Fewer(t.sockets, u.sockets)
  BY DEF Quieter
<1>3. Linked(u)
  BY <1>1, <1>2 DEF Sound, Linked, SameSession, SameWork, Fewer
<1>4. Sound(u)
  BY <1>1, <1>2, <1>3, SoundKept DEF SameSession
<1> QED
  BY <1>1, <1>4 DEF Follows, SameSession
-----------------------------------------------------------------------------
(* Connections.                                                            *)

\* The provider has no socket, and no connection is under way.
Idle(t) == t.twice \/ (Pending(t) = 0 /\ t.socket = NoSocket)

\* All the same but the sockets and the endpoints that were tried.
Connected(t, u) ==
    /\ u \in TunnelType /\ Linked(u)
    /\ u.twice \/ Single(u)
    /\ SameStop(t, u) /\ SameSession(t, u) /\ SameWork(t, u)
    /\ u.remote = t.remote /\ u.endpoints = t.endpoints /\ u.endpoint = t.endpoint
    /\ u.skipped = t.skipped

\* connectTunnel(via:) observes the new socket, and it alone.
LEMMA ConnectViaIs ==
  ASSUME NEW t, Sound(t), Idle(t), NEW reliable \in BOOLEAN, NEW upgraded \in BOOLEAN
  PROVE  LET u == ConnectVia(t, reliable, upgraded)
         IN  /\ Connected(t, u) /\ u.tried = t.tried
             /\ u.socket = Len(t.sockets) + 1 /\ u.sockets[u.socket].upgraded = upgraded
<1> DEFINE n == [reliable |-> reliable, upgraded |-> upgraded, state |-> "preparing",
                 kvo |-> 0, isActive |-> FALSE, delegate |-> TRUE, timer |-> TRUE]
           q == Append(t.sockets, n)
           k == Len(t.sockets) + 1
           x == [t EXCEPT !.sockets = q, !.socket = k]
           u == ConnectVia(t, reliable, upgraded)
<1>1. t \in TunnelType /\ t.sockets \in Seq(Socket) /\ t.socket \in 0 .. Len(t.sockets)
  BY ZenonT(30) DEF Sound, Linked, TunnelType
<1>2. u = Freed(x, t.socket)
  BY DEF ConnectVia
<1>3. n \in Socket /\ n.upgraded = upgraded
  BY DEF Socket, States
<1> HIDE DEF n
<1>4. /\ q \in Seq(Socket) /\ Len(q) = k /\ q[k] = n /\ k \in Nat \ {0}
      /\ \A s \in 1 .. Len(t.sockets) : q[s] = t.sockets[s]
  BY <1>1, <1>3
<1> HIDE DEF q, k, u
<1>5. x \in TunnelType /\ x.sockets = q /\ x.socket = k
  <2>1. x \in TunnelType
    BY <1>1, <1>4, ZenonT(30) DEF TunnelType
  <2>2. x.sockets = q /\ x.socket = k
    BY <1>1, <1>4 DEF TunnelType
  <2> QED BY <2>1, <2>2
<1>6. SameStop(t, x) /\ SameSession(t, x)
  BY <1>1 DEF TunnelType, SameStop, SameSession
<1>7. SameWork(t, x) /\ SamePlace(t, x)
  BY <1>1 DEF TunnelType, SameWork, SamePlace
<1> HIDE DEF x
<1>8. Quieter(x, u)
  <2>1. t.socket \in 0 .. Len(x.sockets)
    BY <1>1, <1>4, <1>5 DEF k
  <2> QED BY <1>2, <1>5, <2>1, FreedIs
<1>9. /\ u \in TunnelType /\ u.socket = k /\ SameStop(x, u) /\ SameSession(x, u)
      /\ SameWork(x, u) /\ SamePlace(x, u) /\ Fewer(q, u.sockets)
  BY <1>5, <1>8, SocketsOnly DEF Quieter, Fewer
<1>10. /\ SameStop(t, u) /\ SameSession(t, u) /\ SameWork(t, u) /\ SamePlace(t, u)
  <2>1. SameStop(t, u) /\ SameSession(t, u)
    BY <1>6, <1>9 DEF SameStop, SameSession
  <2>2. SameWork(t, u) /\ SamePlace(t, u)
    BY <1>7, <1>9 DEF SameWork, SamePlace
  <2> QED BY <2>1, <2>2
<1>11. u.sockets[k].upgraded = upgraded
  BY <1>3, <1>4, <1>9 DEF Fewer
<1>12. Linked(u)
  BY <1>1, <1>4, <1>9, <1>10 DEF Sound, Linked, SameSession, SameWork, Fewer, k
<1>13. u.twice \/ Single(u)
  <2>1. CASE t.twice
    BY <1>10, <2>1 DEF SameWork
  <2>2. CASE ~t.twice
    <3>1. Single(t) /\ Pending(t) = 0 /\ t.socket = NoSocket
      BY <2>2 DEF Sound, Idle
    <3>2. Pending(u) = 0
      BY <1>10, <3>1 DEF Pending, SameWork
    <3>3. u.link = NoSocket
      BY <1>10, <3>1 DEF Single, SameSession
    <3>4. ASSUME NEW s \in 1 .. Len(u.sockets), u.sockets[s].delegate PROVE s = k
      <4>1. s \in 1 .. Len(q) /\ q[s].delegate
        BY <1>9, <3>4 DEF Fewer
      <4> QED BY <1>1, <1>4, <3>1, <4>1 DEF Single, NoSocket, k
    <3> QED BY <1>9, <3>2, <3>3, <3>4 DEF Single
  <2> QED BY <2>1, <2>2
<1> QED
  BY <1>9, <1>10, <1>11, <1>12, <1>13 DEF Connected, SamePlace, u, k

\* A socket for the current endpoint counts as its try.
LEMMA ConnectToFollows ==
  ASSUME NEW t, Sound(t), Idle(t), NEW r \in 1 .. Remotes,
         t.twice \/ t.skipped \/ r = t.remote
  PROVE  Follows(t, ConnectTo(t, r))
<1> DEFINE u == ConnectVia(t, r \in Reliable, FALSE)
           v == [u EXCEPT !.tried = u.tried \cup {<<r, t.endpoint[r]>>}]
<1>1. ConnectTo(t, r) = v
  BY DEF ConnectTo
<1>2. /\ Connected(t, u) /\ u.tried = t.tried
      /\ u.socket = Len(t.sockets) + 1
  <2>1. PICK reliable \in BOOLEAN, upgraded \in BOOLEAN : u = ConnectVia(t, reliable, upgraded)
    <3>1. (r \in Reliable) \in BOOLEAN /\ FALSE \in BOOLEAN
      OBVIOUS
    <3> QED BY <3>1, Zenon
  <2> HIDE DEF u
  <2> QED BY <2>1, ConnectViaIs
<1> HIDE DEF u
<1>3. t \in TunnelType /\ u \in TunnelType /\ <<r, t.endpoint[r]>> \in (1 .. Remotes) \X (Nat \ {0})
  <2>1. t \in TunnelType /\ u \in TunnelType
    BY <1>2 DEF Sound, Connected
  <2>2. t.endpoint[r] \in Nat \ {0}
    BY <2>1, ZenonT(30) DEF TunnelType
  <2> QED BY <2>1, <2>2
<1> DEFINE w == u.tried \cup {<<r, t.endpoint[r]>>}
<1>4. w \in SUBSET ((1 .. Remotes) \X (Nat \ {0}))
  BY <1>3, ZenonT(30) DEF TunnelType
<1> HIDE DEF w
<1>5. v = [u EXCEPT !.tried = w]
  BY DEF w
<1> HIDE DEF v
<1>6. /\ v \in TunnelType /\ v.tried = w /\ v.sockets = u.sockets /\ v.socket = u.socket
      /\ v.remote = u.remote /\ v.endpoints = u.endpoints /\ v.endpoint = u.endpoint
      /\ v.skipped = u.skipped
  <2>1. v \in TunnelType
    BY <1>3, <1>4, <1>5, ZenonT(30) DEF TunnelType
  <2>2. /\ v.tried = w /\ v.sockets = u.sockets /\ v.socket = u.socket /\ v.remote = u.remote
        /\ v.endpoints = u.endpoints /\ v.endpoint = u.endpoint /\ v.skipped = u.skipped
    BY <1>3, <1>4, <1>5 DEF TunnelType
  <2> QED BY <2>1, <2>2
<1>7. SameStop(u, v) /\ SameSession(u, v)
  BY <1>3, <1>5 DEF TunnelType, SameStop, SameSession
<1>8. SameWork(u, v)
  BY <1>3, <1>5 DEF TunnelType, SameWork
<1>9. SameStop(t, v) /\ SameSession(t, v) /\ SameWork(t, v)
  <2>1. SameStop(t, v)
    BY <1>2, <1>7 DEF Connected, SameStop
  <2>2. SameSession(t, v) /\ SameWork(t, v)
    BY <1>2, <1>7, <1>8 DEF Connected, SameSession, SameWork
  <2> QED BY <2>1, <2>2
<1>10. Linked(v) /\ (v.twice \/ Single(v))
  <2>1. Linked(v)
    <3>1. /\ Linked(u) /\ v.sockets = u.sockets /\ v.socket = u.socket /\ v.link = u.link
          /\ v.session = u.session /\ v.reconnects = u.reconnects
      BY <1>2, <1>6, <1>7, <1>8 DEF Connected, SameSession, SameWork
    <3> QED BY <3>1, Zenon DEF Linked
  <2>2. Single(u) => Single(v)
    BY <1>6, <1>7, <1>8 DEF Single, Pending, SameSession, SameWork
  <2> QED BY <1>2, <1>8, <2>1, <2>2 DEF Connected, SameWork
<1>11. v.twice \/ v.skipped \/ Progress(v)
  <2>1. CASE t.twice \/ t.skipped
    BY <1>2, <1>6, <1>9, <2>1 DEF SameWork, Connected
  <2>2. CASE ~ (t.twice \/ t.skipped)
    <3>1. Progress(t) /\ r = t.remote
      BY <2>2 DEF Sound
    <3>2. /\ v.remote = t.remote /\ v.endpoints = t.endpoints /\ v.endpoint = t.endpoint
          /\ v.resolving = t.resolving /\ v.next = t.next
          /\ t.tried \subseteq v.tried /\ <<r, t.endpoint[r]>> \in v.tried
      BY <1>2, <1>6, <1>9 DEF Connected, SameWork, w
    <3> QED BY <3>1, <3>2 DEF Progress, HasRemote, HasEndpoint
  <2> QED BY <2>1, <2>2
<1> QED
  BY <1>1, <1>6, <1>9, <1>10, <1>11 DEF Follows, Sound, SameSession

\* Whatever else changes.
LEMMA SoundAside ==
  ASSUME NEW t, Sound(t), NEW u \in TunnelType, SameWork(t, u), SamePlace(t, u),
         u.session = t.session, u.link = t.link, u.socket = t.socket, u.sockets = t.sockets
  PROVE  Sound(u)
<1>1. t.sockets \in Seq(Socket)
  BY DEF Sound, TunnelType
<1>2. Fewer(t.sockets, u.sockets)
  BY <1>1 DEF Fewer
<1>3. Linked(u)
  BY DEF Sound, Linked, SameWork
<1> QED
  BY <1>2, <1>3, SoundKept

\* disposeTunnel.
LEMMA DisposeFollows ==
  ASSUME NEW t, Sound(t)
  PROVE  Follows(t, Dispose(t)) /\ Dispose(t).sockets = t.sockets
<1> DEFINE disposals == t.disposals + 1
           u == [t EXCEPT !.disposals = disposals]
<1>1. t \in TunnelType /\ Dispose(t) = u /\ disposals \in Nat
  <2>1. t.disposals \in Nat
    BY DEF Sound, TunnelType
  <2> QED BY <2>1 DEF Sound, Dispose
<1> HIDE DEF disposals
<1>2. u \in TunnelType /\ u.sockets = t.sockets /\ u.socket = t.socket
  BY <1>1, ZenonT(30) DEF TunnelType
<1>3. SameStop(t, u) /\ SameSession(t, u)
  BY <1>1 DEF TunnelType, SameStop, SameSession
<1>4. SameWork(t, u) /\ SamePlace(t, u)
  BY <1>1 DEF TunnelType, SameWork, SamePlace
<1> HIDE DEF u
<1> QED
  BY <1>1, <1>2, <1>3, <1>4, SoundAside DEF Follows, SameSession

\* The current endpoint is one that was tried, or is none, and nothing is under way
\* that will count as its try.
Finished(t) ==
    /\ HasRemote(t) =>
          \A e \in 1 .. t.endpoints[t.remote] :
              e = t.endpoint[t.remote] => <<t.remote, e>> \in t.tried
    /\ t.next = 0 /\ Len(t.resolving) = 0
    /\ t.socket # NoSocket /\ t.sockets[t.socket].timer => t.sockets[t.socket].upgraded

\* nextEndpoint moves on by one.
LEMMA NextEndpointFollows ==
  ASSUME NEW t, Sound(t), t.twice \/ t.skipped \/ Finished(t)
  PROVE  LET u == NextEndpoint(t)
         IN  /\ Follows(t, u) /\ SameWork(t, u) /\ SameSession(t, u) /\ u.socket = t.socket
<1>1. CASE ~HasRemote(t)
  BY <1>1, FollowsSame DEF NextEndpoint, SameWork, SameSession
<1>2. CASE HasRemote(t)
  <2> DEFINE r == t.remote
             e == t.endpoint[r] + 1
             p == [t.endpoint EXCEPT ![r] = e]
             n == [t EXCEPT !.endpoint = p]
             following == r + 1
             u == IF HasEndpoint(n, r) THEN n ELSE [n EXCEPT !.remote = following]
  <2>1. t \in TunnelType /\ NextEndpoint(t) = u
    <3>1. t \in TunnelType
      BY DEF Sound
    <3>2. n.remote = t.remote
      BY <3>1 DEF TunnelType
    <3>3. NextEndpoint(t) = IF HasEndpoint(n, r) THEN n ELSE [n EXCEPT !.remote = n.remote + 1]
      BY <1>2 DEF NextEndpoint
    <3> QED BY <3>1, <3>2, <3>3
  <2>2. /\ r \in 1 .. Remotes /\ e \in Nat \ {0} /\ e > 1
        /\ Remotes \in Nat \ {0} /\ t.endpoint \in [1 .. Remotes -> Nat \ {0}]
        /\ t.endpoints \in [1 .. Remotes -> Nat]
    <3>1. /\ t.endpoint \in [1 .. Remotes -> Nat \ {0}] /\ t.endpoints \in [1 .. Remotes -> Nat]
          /\ r \in 1 .. Remotes + 1
      BY <2>1 DEF TunnelType
    <3>2. Remotes \in Nat \ {0} /\ r <= Remotes
      BY <1>2, ProviderAssumption DEF HasRemote
    <3>3. r \in 1 .. Remotes
      BY <3>1, <3>2
    <3>4. t.endpoint[r] \in Nat \ {0}
      BY <3>1, <3>3, ZenonT(30)
    <3> QED BY <3>1, <3>2, <3>3, <3>4, SMTT(30)
  <2>20. following \in 1 .. Remotes + 1
    BY <2>2
  <2>3. /\ p \in [1 .. Remotes -> Nat \ {0}] /\ p[r] = e
        /\ \A k \in 1 .. Remotes : k # r => p[k] = t.endpoint[k]
    BY <2>2, ZenonT(30)
  <2> HIDE DEF p, u, following
  <2>4. /\ n \in TunnelType /\ n.remote = t.remote /\ n.endpoints = t.endpoints
        /\ n.endpoint = p /\ n.tried = t.tried /\ n.skipped = t.skipped
        /\ n.socket = t.socket /\ n.sockets = t.sockets
    BY <2>1, <2>3, ZenonT(30) DEF TunnelType
  <2>5. SameStop(t, n) /\ SameSession(t, n)
    BY <2>1 DEF TunnelType, SameStop, SameSession
  <2>6. SameWork(t, n)
    BY <2>1 DEF TunnelType, SameWork
  <2> HIDE DEF n
  <2>7. /\ u \in TunnelType /\ u.endpoints = t.endpoints /\ u.endpoint = p
        /\ u.tried = t.tried /\ u.skipped = t.skipped
        /\ u.socket = t.socket /\ u.sockets = t.sockets
        /\ SameWork(t, u)
    <3>1. CASE u = n
      BY <2>4, <2>6, <3>1
    <3>2. CASE u = [n EXCEPT !.remote = following]
      <4>1. /\ u \in TunnelType /\ u.endpoints = n.endpoints /\ u.endpoint = n.endpoint
            /\ u.tried = n.tried /\ u.skipped = n.skipped
            /\ u.socket = n.socket /\ u.sockets = n.sockets
        <5>1. u \in TunnelType
          BY <2>20, <2>4, <3>2, ZenonT(30) DEF TunnelType
        <5>2. /\ u.endpoints = n.endpoints /\ u.endpoint = n.endpoint /\ u.tried = n.tried
              /\ u.skipped = n.skipped /\ u.socket = n.socket /\ u.sockets = n.sockets
          BY <2>20, <2>4, <3>2 DEF TunnelType
        <5> QED BY <5>1, <5>2
      <4>2. SameWork(n, u)
        BY <2>4, <3>2 DEF TunnelType, SameWork
      <4> QED BY <2>4, <2>6, <4>1, <4>2 DEF SameWork
    <3> QED BY <3>1, <3>2 DEF u
  <2>8. SameStop(t, u) /\ SameSession(t, u)
    <3>1. CASE u = n
      BY <2>5, <3>1
    <3>2. CASE u = [n EXCEPT !.remote = following]
      <4>1. SameStop(n, u) /\ SameSession(n, u)
        BY <2>4, <3>2 DEF TunnelType, SameStop, SameSession
      <4> QED BY <2>5, <4>1 DEF SameStop, SameSession
    <3> QED BY <3>1, <3>2 DEF u
  <2>9. u.remote = IF e <= t.endpoints[r] THEN r ELSE r + 1
    BY <2>2, <2>3, <2>4, ZenonT(30) DEF HasEndpoint, TunnelType, u, following
  <2>10. Linked(u) /\ (t.twice \/ Single(t) => u.twice \/ Single(u))
    BY <2>7, <2>8 DEF Sound, Linked, Single, Pending, SameWork, SameSession
  <2>11. Progress(t) /\ Finished(t) => Progress(u)
    <3> SUFFICES ASSUME Progress(t), Finished(t) PROVE Progress(u)
      OBVIOUS
    <3>1. /\ u.next = 0 /\ Len(u.resolving) = 0
          /\ u.socket # NoSocket /\ u.sockets[u.socket].timer => u.sockets[u.socket].upgraded
      BY <2>7 DEF Finished, SameWork
    <3>2. ASSUME NEW k \in 1 .. Remotes
          PROVE  /\ k < u.remote => \A d \in 1 .. u.endpoints[k] : <<k, d>> \in u.tried
                 /\ k > u.remote => u.endpoints[k] = 0 /\ u.endpoint[k] = 1
                 /\ k = u.remote =>
                     /\ \A d \in 1 .. u.endpoints[k] : d < u.endpoint[k] => <<k, d>> \in u.tried
                     /\ HasEndpoint(u, k) \/ (u.endpoints[k] = 0 /\ u.endpoint[k] = 1)
      <4>1. CASE k = r
        <5>1. \A d \in 1 .. t.endpoints[r] : d < e => <<r, d>> \in t.tried
          BY <1>2, <2>2, SMTT(30) DEF Progress, Finished
        <5>2. CASE e <= t.endpoints[r]
          BY <2>2, <2>3, <2>7, <2>9, <4>1, <5>1, <5>2 DEF HasEndpoint
        <5>3. CASE ~ (e <= t.endpoints[r])
          <6>1. \A d \in 1 .. t.endpoints[r] : d < e
            BY <2>2, <5>3, SMTT(30)
          <6> QED BY <2>2, <2>7, <2>9, <4>1, <5>1, <5>3, <6>1
        <5> QED BY <5>2, <5>3
      <4>2. CASE k < r
        <5>1. \A d \in 1 .. t.endpoints[k] : <<k, d>> \in t.tried
          BY <4>2 DEF Progress
        <5>2. k < u.remote /\ ~ (k > u.remote) /\ k # u.remote
          BY <2>2, <2>9, <4>2, SMTT(30)
        <5> QED BY <2>7, <5>1, <5>2
      <4>3. CASE k > r
        <5>1. t.endpoints[k] = 0 /\ t.endpoint[k] = 1
          BY <4>3 DEF Progress
        <5> QED BY <2>2, <2>3, <2>7, <2>9, <4>3, <5>1, SMTT(30) DEF HasEndpoint
      <4> QED BY <2>2, <4>1, <4>2, <4>3
    <3> QED BY <3>1, <3>2 DEF Progress
  <2> QED BY <2>1, <2>7, <2>8, <2>10, <2>11 DEF Follows, Sound, SameSession, SameWork
<1> QED
  BY <1>1, <1>2

\* connectTunnel: a socket, a resolution or the end.
LEMMA ConnectFollows ==
  ASSUME NEW t, Sound(t), Idle(t)
  PROVE  Follows(t, Connect(t))
<1>1. CASE ~HasRemote(t)
  BY <1>1, DisposeFollows DEF Connect
<1>2. t \in TunnelType
  BY DEF Sound
<1>3. HasRemote(t) => t.remote \in 1 .. Remotes
  <2>1. t.remote \in 1 .. Remotes + 1
    BY <1>2 DEF TunnelType
  <2> QED BY <2>1, ProviderAssumption DEF HasRemote
<1>4. CASE HasRemote(t) /\ HasEndpoint(t, t.remote)
  BY <1>3, <1>4, ConnectToFollows DEF Connect
<1>5. CASE HasRemote(t) /\ ~HasEndpoint(t, t.remote)
  <2> DEFINE q == Append(t.resolving, t.remote)
             u == [t EXCEPT !.resolving = q]
  <2>1. Connect(t) = u
    BY <1>5 DEF Connect
  <2>2. /\ t.resolving \in Seq(1 .. Remotes) /\ t.remote \in 1 .. Remotes
        /\ t.next \in Nat /\ Len(t.reconnects) \in Nat
    BY <1>2, <1>3, <1>5 DEF TunnelType
  <2>3. /\ q \in Seq(1 .. Remotes) /\ Len(q) = Len(t.resolving) + 1
        /\ Len(t.resolving) \in Nat
        /\ q[Len(t.resolving) + 1] = t.remote
    BY <2>2
  <2> HIDE DEF q
  <2>4. /\ u \in TunnelType /\ u.resolving = q /\ u.sockets = t.sockets /\ u.socket = t.socket
        /\ u.next = t.next /\ u.reconnects = t.reconnects /\ u.twice = t.twice
    BY <1>2, <2>3, ZenonT(30) DEF TunnelType
  <2>5. SameStop(t, u) /\ SameSession(t, u)
    BY <1>2 DEF TunnelType, SameStop, SameSession
  <2>6. SamePlace(t, u)
    BY <1>2 DEF TunnelType, SamePlace
  <2> HIDE DEF u
  <2>7. Linked(u)
    BY <2>4, <2>5 DEF Sound, Linked, SameSession
  <2>8. CASE t.twice
    BY <2>1, <2>4, <2>5, <2>7, <2>8 DEF Follows, Sound, SameSession
  <2>9. CASE ~t.twice
    <3>1. Single(t) /\ Pending(t) = 0 /\ t.socket = NoSocket
      BY <2>9 DEF Sound, Idle
    <3>2. t.next = 0 /\ Len(t.resolving) = 0 /\ Pending(u) = 1
      BY <2>2, <2>3, <2>4, <3>1 DEF Pending
    <3>3. Single(u)
      BY <2>4, <2>5, <3>1, <3>2 DEF Single, SameSession
    <3>4. Progress(t) => Progress(u)
      <4> SUFFICES ASSUME Progress(t) PROVE Progress(u)
        OBVIOUS
      <4>1. t.endpoints[t.remote] = 0
        BY <1>5, <2>2 DEF Progress
      <4>2. \A i \in 1 .. Len(q) : q[i] = t.remote
        BY <2>3, <3>2
      <4> QED BY <2>4, <2>6, <3>1, <3>2, <4>1, <4>2 DEF Progress, SamePlace, HasRemote, HasEndpoint
    <3> QED BY <2>1, <2>4, <2>5, <2>6, <2>7, <3>3, <3>4 DEF Follows, Sound, SameSession, SamePlace
  <2> QED BY <2>8, <2>9
<1> QED
  BY <1>1, <1>4, <1>5

\* With the upgrade of a socket.
LEMMA ConnectUpgradedFollows ==
  ASSUME NEW t, Sound(t), Idle(t), NEW s \in 0 .. Len(t.sockets)
  PROVE  Follows(t, ConnectUpgraded(t, s))
<1>1. CASE s = NoSocket
  BY <1>1, ConnectFollows DEF ConnectUpgraded
<1>2. CASE s # NoSocket
  <2>1. t.sockets[s].reliable \in BOOLEAN
    <3>1. t.sockets \in Seq(Socket) /\ s \in 1 .. Len(t.sockets)
      BY <1>2 DEF Sound, TunnelType, NoSocket
    <3>2. t.sockets[s] \in Socket
      BY <3>1
    <3> QED BY <3>2 DEF Socket
  <2>2. PICK upgraded \in BOOLEAN :
           upgraded /\ ConnectUpgraded(t, s) = ConnectVia(t, t.sockets[s].reliable, upgraded)
    <3>1. ConnectUpgraded(t, s) = ConnectVia(t, t.sockets[s].reliable, TRUE) /\ TRUE \in BOOLEAN
      BY <1>2 DEF ConnectUpgraded
    <3> QED BY <3>1, Zenon
  <2> DEFINE u == ConnectVia(t, t.sockets[s].reliable, upgraded)
  <2>3. /\ Connected(t, u) /\ u.tried = t.tried
        /\ u.socket = Len(t.sockets) + 1 /\ u.sockets[u.socket].upgraded
    BY <2>1, <2>2, ConnectViaIs, ZenonT(30)
  <2> HIDE DEF u
  <2>4. Progress(t) => Progress(u)
    BY <2>3 DEF Connected, Progress, SameWork, HasRemote, HasEndpoint
  <2>5. u.twice \/ u.skipped \/ Progress(u)
    BY <2>3, <2>4 DEF Connected, Sound, SameWork
  <2>6. Sound(u)
    BY <2>3, <2>5 DEF Connected, Sound
  <2> QED BY <2>2, <2>3, <2>6, ZenonT(30) DEF Connected, Follows, SameSession, u
<1> QED
  BY <1>1, <1>2

\* The provider's tryNextEndpoint.
LEMMA TryNextFollows ==
  ASSUME NEW t, Sound(t), t.twice \/ t.skipped \/ Finished(t)
  PROVE  Follows(t, TryNext(t))
<1>1. Follows(t, NextEndpoint(t))
  BY NextEndpointFollows
<1>2. Follows(NextEndpoint(t), Dispose(NextEndpoint(t)))
  BY <1>1, DisposeFollows DEF Follows
<1> QED
  BY <1>1, <1>2, FollowsTwice DEF TryNext

\* A resolution of the current remote has n answers.
LEMMA AnsweredFollows ==
  ASSUME NEW t, Sound(t), Idle(t), NEW r \in 1 .. Remotes, NEW n \in Nat,
         t.twice \/ t.skipped \/ (r = t.remote /\ t.endpoints[r] = 0)
  PROVE  Follows(t, Answered(t, r, n))
<1> DEFINE p == [t.endpoints EXCEPT ![r] = n]
           u == [t EXCEPT !.endpoints = p]
<1>1. t \in TunnelType
  BY DEF Sound
<1>2. /\ t.endpoints \in [1 .. Remotes -> Nat] /\ t.endpoint \in [1 .. Remotes -> Nat \ {0}]
      /\ t.next \in Nat
  BY <1>1, ZenonT(30) DEF TunnelType
<1>3. /\ p \in [1 .. Remotes -> Nat] /\ p[r] = n
      /\ \A k \in 1 .. Remotes : k # r => p[k] = t.endpoints[k]
  BY <1>2, ZenonT(30)
<1> HIDE DEF p
<1>4. /\ u \in TunnelType /\ u.endpoints = p /\ u.remote = t.remote /\ u.endpoint = t.endpoint
      /\ u.tried = t.tried /\ u.skipped = t.skipped
      /\ u.sockets = t.sockets /\ u.socket = t.socket /\ u.next = t.next
  BY <1>1, <1>3, ZenonT(30) DEF TunnelType
<1>5. SameStop(t, u) /\ SameSession(t, u)
  BY <1>1 DEF TunnelType, SameStop, SameSession
<1>6. SameWork(t, u)
  BY <1>1 DEF TunnelType, SameWork
<1>7. Answered(t, r, n)
        = IF HasEndpoint(u, r) THEN ConnectTo(u, r) ELSE [u EXCEPT !.next = u.next + 1]
  BY DEF Answered, p
<1> HIDE DEF u
<1>8. /\ Linked(u) /\ Idle(u)
      /\ t.twice \/ Single(t) => u.twice \/ Single(u)
  BY <1>4, <1>5, <1>6 DEF Sound, Linked, Idle, Single, Pending, SameWork, SameSession
<1>9. r = t.remote /\ t.endpoints[r] = 0 /\ Progress(t) /\ ~t.twice
        => /\ Progress(u)
           /\ HasRemote(u) /\ (HasEndpoint(u, r) \/ u.endpoints[r] = 0)
           /\ Len(u.resolving) = 0
  <2> SUFFICES ASSUME r = t.remote, t.endpoints[r] = 0, Progress(t), ~t.twice
               PROVE  /\ Progress(u)
                      /\ HasRemote(u) /\ (HasEndpoint(u, r) \/ u.endpoints[r] = 0)
                      /\ Len(u.resolving) = 0
    OBVIOUS
  <2>1. t.endpoint[r] = 1
    <3>1. HasEndpoint(t, r) \/ (t.endpoints[r] = 0 /\ t.endpoint[r] = 1)
      BY DEF Progress
    <3>2. t.endpoint[r] \in Nat \ {0}
      BY <1>2, ZenonT(30)
    <3> QED BY <3>1, <3>2 DEF HasEndpoint
  <2>2. HasEndpoint(u, r) \/ u.endpoints[r] = 0
    BY <1>3, <1>4, <2>1 DEF HasEndpoint
  <2>3. Pending(t) = 0 /\ t.socket = NoSocket /\ Len(t.resolving) = 0 /\ t.next = 0
    <3>1. Len(t.resolving) \in Nat /\ Len(t.reconnects) \in Nat
      BY <1>1 DEF TunnelType
    <3> QED BY <1>2, <3>1, SMTT(30) DEF Idle, Pending
  <2>4. HasRemote(u) /\ u.remote = r
    BY <1>4, ProviderAssumption DEF HasRemote
  <2>5. ASSUME NEW k \in 1 .. Remotes
        PROVE  /\ k < u.remote => \A d \in 1 .. u.endpoints[k] : <<k, d>> \in u.tried
               /\ k > u.remote => u.endpoints[k] = 0 /\ u.endpoint[k] = 1
               /\ k = u.remote =>
                   /\ \A d \in 1 .. u.endpoints[k] : d < u.endpoint[k] => <<k, d>> \in u.tried
                   /\ HasEndpoint(u, k) \/ (u.endpoints[k] = 0 /\ u.endpoint[k] = 1)
    <3>1. CASE k = r
      BY <1>4, <2>1, <2>2, <3>1
    <3>2. CASE k # r
      BY <1>3, <1>4, <2>4, <3>2 DEF Progress
    <3> QED BY <3>1, <3>2
  <2>6. Len(u.resolving) = 0
    BY <1>6, <2>3 DEF SameWork
  <2> QED BY <1>4, <2>2, <2>3, <2>4, <2>5, <2>6 DEF Progress
<1>10. Sound(u) /\ Follows(t, u)
  <2>1. u.twice = t.twice
    BY <1>6 DEF SameWork
  <2>2. t.twice \/ t.skipped \/ Progress(u)
    BY <1>9 DEF Sound
  <2> QED BY <1>4, <1>5, <1>8, <2>1, <2>2 DEF Sound, Follows, SameSession
<1>11. CASE HasEndpoint(u, r)
  <2>1. Follows(u, ConnectTo(u, r))
    BY <1>4, <1>6, <1>8, <1>10, ConnectToFollows DEF SameWork
  <2> QED BY <1>7, <1>10, <1>11, <2>1, FollowsTwice
<1>12. CASE ~HasEndpoint(u, r)
  <2> DEFINE next == u.next + 1
             v == [u EXCEPT !.next = next]
  <2>1. next \in Nat /\ next > 0 /\ Answered(t, r, n) = v
    BY <1>2, <1>4, <1>7, <1>12
  <2> HIDE DEF next
  <2>2. /\ v \in TunnelType /\ v.next = next /\ v.sockets = u.sockets /\ v.socket = u.socket
        /\ v.resolving = u.resolving /\ v.reconnects = u.reconnects /\ v.twice = u.twice
    BY <1>4, <2>1, ZenonT(30) DEF TunnelType
  <2>3. SameStop(u, v) /\ SameSession(u, v)
    BY <1>4 DEF TunnelType, SameStop, SameSession
  <2>4. SamePlace(u, v)
    BY <1>4 DEF TunnelType, SamePlace
  <2> HIDE DEF v
  <2>5. Linked(v)
    BY <1>8, <2>2, <2>3 DEF Linked, SameSession
  <2>6. CASE t.twice
    BY <1>6, <1>10, <2>1, <2>2, <2>3, <2>5, <2>6, FollowsTwice, ZenonT(30) DEF SameWork, Follows, Sound, SameSession
  <2>7. CASE ~t.twice
    <3>1. ~u.twice /\ Single(u) /\ Pending(u) = 0 /\ u.socket = NoSocket
      BY <1>6, <1>8, <1>10, <2>7 DEF SameWork, Idle, Sound
    <3>2. Pending(v) = 1
      <4>1. Len(u.resolving) \in Nat /\ Len(u.reconnects) \in Nat
        BY <1>4 DEF TunnelType
      <4> QED BY <1>2, <1>4, <2>2, <3>1, <4>1 DEF Pending, next
    <3>3. Single(v)
      BY <2>2, <2>3, <3>1, <3>2 DEF Single, SameSession
    <3>4. v.skipped \/ Progress(v)
      <4>1. CASE t.skipped
        BY <1>4, <2>4, <4>1 DEF SamePlace
      <4>2. CASE ~t.skipped
        <5>1. Progress(u) /\ HasRemote(u) /\ u.endpoints[r] = 0 /\ u.remote = r
          BY <1>4, <1>9, <1>12, <2>7, <4>2 DEF Sound
        <5> QED BY <2>2, <2>4, <3>1, <5>1 DEF Progress, SamePlace, HasRemote, HasEndpoint
      <4> QED BY <4>1, <4>2
    <3>5. Sound(v)
      BY <2>2, <2>5, <3>3, <3>4 DEF Sound
    <3> QED BY <1>10, <2>1, <2>3, <3>5, FollowsTwice DEF Follows, SameSession
  <2> QED BY <2>6, <2>7
<1> QED
  BY <1>11, <1>12
-----------------------------------------------------------------------------
(* Disconnections, and the session.                                        *)

\* finishTunnelDisconnection leaves no socket, no link and no observer.
LEMMA FinishDisconnectionIs ==
  ASSUME NEW t, Sound(t)
  PROVE  LET u == FinishDisconnection(t)
         IN  /\ Sound(u) /\ SameStop(t, u) /\ SameWork(t, u) /\ u.start = t.start
             /\ u.socket = NoSocket /\ Len(u.sockets) = Len(t.sockets)
             /\ u.session = "idle"
<1> DEFINE v == Unobserved(t)
           u == [v EXCEPT !.session = "idle", !.link = NoSocket, !.isStopping = FALSE]
<1>1. t \in TunnelType /\ t.sockets \in Seq(Socket) /\ t.socket \in 0 .. Len(t.sockets)
  BY ZenonT(30) DEF Sound, Linked, TunnelType
<1>2. /\ v \in TunnelType /\ v.socket = NoSocket /\ Fewer(t.sockets, v.sockets)
      /\ \A s \in 1 .. Len(v.sockets) : v.sockets[s].delegate => s # t.socket
      /\ SameStop(t, v) /\ SameSession(t, v) /\ SameWork(t, v) /\ SamePlace(t, v)
  <2>1. CASE t.socket = NoSocket
    BY <1>1, <2>1 DEF Unobserved, Fewer, SameStop, SameSession, SameWork, SamePlace, NoSocket
  <2>2. CASE t.socket # NoSocket
    <3> DEFINE k == t.socket
               n == [t.sockets[k] EXCEPT !.delegate = FALSE]
               q == [t.sockets EXCEPT ![k] = n]
               x == [t EXCEPT !.sockets = q]
               w == [x EXCEPT !.socket = NoSocket]
    <3>1. v = w
      BY <1>1, <2>2 DEF Unobserved
    <3>2. k \in 1 .. Len(t.sockets) /\ t.sockets[k] \in Socket
      BY <1>1, <2>2 DEF NoSocket
    <3>3. /\ n \in Socket /\ n.reliable = t.sockets[k].reliable
          /\ n.upgraded = t.sockets[k].upgraded
      BY <3>2, ZenonT(30) DEF Socket
    <3>4. ~n.delegate
      BY <3>2 DEF Socket
    <3>5. n.timer => t.sockets[k].timer
      BY <3>2 DEF Socket
    <3> HIDE DEF n
    <3>6. Quieter(t, x) /\ x \in TunnelType /\ x.sockets = q /\ q[k] = n
      BY <1>1, <3>2, <3>3, <3>4, <3>5, OneSocket
    <3> HIDE DEF x
    <3>7. SameStop(t, x) /\ SameSession(t, x) /\ SameWork(t, x) /\ SamePlace(t, x)
      <4>1. x.sockets \in Seq(Socket) /\ x = [t EXCEPT !.sockets = x.sockets]
        BY <3>6 DEF Quieter, Fewer
      <4> QED BY <1>1, <4>1, SocketsOnly
    <3>8. NoSocket \in Nat
      BY DEF NoSocket
    <3>9. w \in TunnelType /\ w.socket = NoSocket /\ w.sockets = x.sockets
      BY <3>6, <3>8, ZenonT(30) DEF TunnelType
    <3>10. SameStop(x, w) /\ SameSession(x, w)
      BY <3>6 DEF TunnelType, SameStop, SameSession
    <3>11. SameWork(x, w) /\ SamePlace(x, w)
      BY <3>6 DEF TunnelType, SameWork, SamePlace
    <3> HIDE DEF w, v
    <3>12. SameStop(t, v) /\ SameSession(t, v)
      BY <3>1, <3>7, <3>10 DEF SameStop, SameSession
    <3>13. SameWork(t, v) /\ SamePlace(t, v)
      BY <3>1, <3>7, <3>11 DEF SameWork, SamePlace
    <3>14. \A s \in 1 .. Len(v.sockets) : v.sockets[s].delegate => s # t.socket
      BY <3>1, <3>4, <3>6, <3>9
    <3> QED BY <3>1, <3>6, <3>9, <3>12, <3>13, <3>14 DEF Quieter
  <2> QED BY <2>1, <2>2
<1>3. FinishDisconnection(t) = u
  BY DEF FinishDisconnection
<1> HIDE DEF v
<1>4. /\ u \in TunnelType /\ u.session = "idle" /\ u.link = NoSocket
      /\ u.sockets = v.sockets /\ u.socket = v.socket /\ u.start = v.start
  <2>1. v \in TunnelType /\ NoSocket = 0
    BY <1>2 DEF NoSocket
  <2>2. u \in TunnelType
    BY <2>1, ZenonT(30) DEF TunnelType
  <2>3. u.session = "idle" /\ u.link = NoSocket
    BY <2>1, ZenonT(30) DEF TunnelType
  <2>4. u.sockets = v.sockets /\ u.socket = v.socket /\ u.start = v.start
    BY <2>1, ZenonT(30) DEF TunnelType
  <2> QED BY <2>2, <2>3, <2>4
<1>5. SameStop(v, u) /\ SameWork(v, u)
  BY <1>2 DEF TunnelType, SameStop, SameWork
<1>6. SamePlace(v, u)
  BY <1>2 DEF TunnelType, SamePlace
<1> HIDE DEF u
<1>7. SameStop(t, u) /\ SameWork(t, u) /\ SamePlace(t, u) /\ u.start = t.start
  <2>1. SameStop(t, u) /\ SameWork(t, u)
    BY <1>2, <1>5 DEF SameStop, SameWork
  <2> QED BY <1>2, <1>4, <1>6, <2>1 DEF SamePlace, SameSession
<1>8. Linked(u) /\ Len(u.sockets) = Len(t.sockets)
  BY <1>1, <1>2, <1>4, <1>7 DEF Sound, Linked, SameWork, Fewer, NoSocket
<1>9. Single(t) => Single(u)
  BY <1>2, <1>4, <1>7 DEF Single, Pending, SameWork, Fewer
<1>10. Progress(t) => Progress(u)
  BY <1>2, <1>4, <1>7 DEF Progress, SameWork, SamePlace, HasRemote, HasEndpoint
<1>11. Sound(u)
  BY <1>4, <1>7, <1>8, <1>9, <1>10 DEF Sound, SameWork, SamePlace
<1> QED
  BY <1>2, <1>3, <1>4, <1>7, <1>8, <1>11

\* sessionDidStop lets the session go and closes the socket.
LEMMA SessionDidStopFollows ==
  ASSUME NEW t, Sound(t), NEW reconnect \in BOOLEAN
  PROVE  Follows(t, SessionDidStop(t, reconnect))
<1> DEFINE g == [t EXCEPT !.session = "none", !.link = NoSocket, !.isStopping = FALSE,
                          !.exit = "no", !.shouldReconnect = reconnect]
<1>1. t \in TunnelType /\ t.sockets \in Seq(Socket) /\ t.socket \in 0 .. Len(t.sockets)
  BY ZenonT(30) DEF Sound, Linked, TunnelType
<1>2. /\ g \in TunnelType /\ g.session = "none" /\ g.link = NoSocket
      /\ g.sockets = t.sockets /\ g.socket = t.socket /\ g.start = t.start
  <2>1. g \in TunnelType
    BY <1>1, ZenonT(30) DEF TunnelType, NoSocket
  <2>2. /\ g.session = "none" /\ g.link = NoSocket /\ g.sockets = t.sockets
        /\ g.socket = t.socket /\ g.start = t.start
    BY <1>1 DEF TunnelType, NoSocket
  <2> QED BY <2>1, <2>2
<1>3. SameStop(t, g) /\ SameWork(t, g)
  BY <1>1 DEF TunnelType, SameStop, SameWork
<1>4. SamePlace(t, g)
  BY <1>1 DEF TunnelType, SamePlace
<1>5. SessionDidStop(t, reconnect) = IF t.socket = NoSocket THEN g ELSE Shutdown(g, t.socket)
  BY DEF SessionDidStop
<1> HIDE DEF g
<1>6. Linked(g) /\ Fewer(t.sockets, g.sockets)
  BY <1>1, <1>2, <1>3 DEF Sound, Linked, SameWork, Fewer, NoSocket
<1>7. Sound(g)
  BY <1>2, <1>3, <1>4, <1>6, SoundKept
<1>8. Follows(t, g)
  BY <1>2, <1>3, <1>7 DEF Follows
<1>9. CASE t.socket # NoSocket
  <2>1. t.socket \in 1 .. Len(g.sockets)
    BY <1>1, <1>2, <1>9 DEF NoSocket
  <2>2. Follows(g, Shutdown(g, t.socket))
    BY <1>2, <1>7, <2>1, ShutdownIs, QuieterSound
  <2> QED BY <1>5, <1>8, <1>9, <2>2, FollowsTwice
<1> QED
  BY <1>5, <1>8, <1>9

\* deferStop, with the exit notification.
LEMMA StopSessionFollows ==
  ASSUME NEW t, Sound(t), NEW reconnect \in BOOLEAN
  PROVE  Follows(t, StopSession(t, reconnect))
<1>1. CASE StopSession(t, reconnect) = t
  BY <1>1, FollowsSame
<1>2. CASE StopSession(t, reconnect) = SessionDidStop(t, reconnect)
  BY <1>2, SessionDidStopFollows
<1> DEFINE exit == IF reconnect THEN "reconnect" ELSE "shutdown"
           u == [t EXCEPT !.isStopping = TRUE, !.exit = exit]
<1>3. CASE StopSession(t, reconnect) = u
  <2>1. t \in TunnelType /\ exit \in {"shutdown", "reconnect"}
    BY DEF Sound
  <2> HIDE DEF exit
  <2>2. u \in TunnelType /\ u.sockets = t.sockets /\ u.socket = t.socket
    BY <2>1, ZenonT(30) DEF TunnelType
  <2>3. SameStop(t, u) /\ SameSession(t, u)
    BY <2>1 DEF TunnelType, SameStop, SameSession
  <2>4. SameWork(t, u) /\ SamePlace(t, u)
    BY <2>1 DEF TunnelType, SameWork, SamePlace
  <2> HIDE DEF u
  <2> QED BY <1>3, <2>2, <2>3, <2>4, SoundAside DEF Follows, SameSession
<1> QED
  BY <1>1, <1>2, <1>3 DEF StopSession

\* socketDidBecomeActive, of a socket that is observed.
LEMMA DidBecomeActiveFollows ==
  ASSUME NEW t, Sound(t), NEW s \in 1 .. Len(t.sockets), t.sockets[s].delegate
  PROVE  /\ Follows(t, DidBecomeActive(t, s))
         /\ DidBecomeActive(t, s).sockets = t.sockets
<1>1. CASE DidBecomeActive(t, s) = t
  BY <1>1, FollowsSame
<1> DEFINE u == [t EXCEPT !.session = "linked", !.link = s]
<1>2. CASE t.session # "none" /\ DidBecomeActive(t, s) = u
  <2>1. t \in TunnelType /\ s \in Nat /\ s # NoSocket
    BY DEF Sound, NoSocket
  <2>2. /\ u \in TunnelType /\ u.session = "linked" /\ u.link = s
        /\ u.sockets = t.sockets /\ u.socket = t.socket /\ u.start = t.start
    BY <2>1, ZenonT(30) DEF TunnelType
  <2>3. SameStop(t, u) /\ SameWork(t, u)
    BY <2>1 DEF TunnelType, SameStop, SameWork
  <2>4. SamePlace(t, u)
    BY <2>1 DEF TunnelType, SamePlace
  <2> HIDE DEF u
  <2>5. Linked(u)
    BY <2>1, <2>2, <2>3 DEF Sound, Linked, SameWork
  <2>6. Single(t) => Single(u)
    BY <2>2, <2>3 DEF Single, Pending, SameWork
  <2>7. Progress(t) => Progress(u)
    BY <2>2, <2>3, <2>4 DEF Progress, SameWork, SamePlace, HasRemote, HasEndpoint
  <2>8. Sound(u)
    BY <2>2, <2>3, <2>4, <2>5, <2>6, <2>7 DEF Sound, SameWork, SamePlace
  <2> QED BY <1>2, <2>2, <2>3, <2>8 DEF Follows
<1> QED
  BY <1>1, <1>2 DEF DidBecomeActive

\* socket(_:didShutdownWithFailure:), of a socket that is observed: a reconnection is
\* scheduled, or the tunnel disposed of.
LEMMA DidShutdownFollows ==
  ASSUME NEW t, Sound(t), NEW s \in 1 .. Len(t.sockets), t.sockets[s].delegate,
         NEW upgraded \in BOOLEAN
  PROVE  /\ Follows(t, DidShutdown(t, s, upgraded))
         /\ Len(DidShutdown(t, s, upgraded).sockets) = Len(t.sockets)
<1> DEFINE d == FinishDisconnection(t)
<1>1. CASE DidShutdown(t, s, upgraded) = t
  BY <1>1, FollowsSame
<1>2. /\ Sound(d) /\ SameStop(t, d) /\ SameWork(t, d) /\ d.start = t.start
      /\ d.socket = NoSocket /\ Len(d.sockets) = Len(t.sockets)
      /\ d.session = "idle"
  BY FinishDisconnectionIs
<1> HIDE DEF d
<1>3. t.session # "none" => Follows(t, d)
  BY <1>2 DEF Follows
<1>4. CASE t.session # "none" /\ DidShutdown(t, s, upgraded) = Dispose(d)
  BY <1>2, <1>3, <1>4, DisposeFollows, FollowsTwice
<1> DEFINE k == IF upgraded THEN s ELSE NoSocket
           q == Append(d.reconnects, k)
           u == [d EXCEPT !.reconnects = q]
<1>5. CASE t.session # "none" /\ DidShutdown(t, s, upgraded) = u
  <2>1. d \in TunnelType /\ d.reconnects \in Seq(Nat) /\ k \in 0 .. Len(d.sockets)
    <3>1. d \in TunnelType
      BY <1>2 DEF Sound
    <3>2. k \in 0 .. Len(t.sockets)
      <4>1. t.sockets \in Seq(Socket)
        BY DEF Sound, TunnelType
      <4> QED BY <4>1 DEF NoSocket
    <3> QED BY <1>2, <3>1, <3>2, ZenonT(30) DEF TunnelType
  <2> HIDE DEF k
  <2>2. /\ q \in Seq(Nat) /\ Len(q) = Len(d.reconnects) + 1 /\ Len(d.reconnects) \in Nat
        /\ q[Len(d.reconnects) + 1] = k
        /\ \A i \in 1 .. Len(d.reconnects) : q[i] = d.reconnects[i]
    BY <2>1
  <2> HIDE DEF q
  <2>3. /\ u \in TunnelType /\ u.reconnects = q /\ u.sockets = d.sockets /\ u.socket = d.socket
        /\ u.resolving = d.resolving /\ u.next = d.next /\ u.twice = d.twice
    BY <2>1, <2>2, ZenonT(30) DEF TunnelType
  <2>4. SameStop(d, u) /\ SameSession(d, u)
    BY <2>1 DEF TunnelType, SameStop, SameSession
  <2>5. SamePlace(d, u)
    BY <2>1 DEF TunnelType, SamePlace
  <2> HIDE DEF u
  <2>6. Linked(u)
    <3>1. \A i \in 1 .. Len(q) : q[i] \in 0 .. Len(d.sockets)
      <4>1. \A i \in 1 .. Len(d.reconnects) : d.reconnects[i] \in 0 .. Len(d.sockets)
        BY <1>2 DEF Sound, Linked
      <4>2. ASSUME NEW i \in 1 .. Len(d.reconnects) + 1 PROVE q[i] \in 0 .. Len(d.sockets)
        <5>1. i \in 1 .. Len(d.reconnects) \/ i = Len(d.reconnects) + 1
          BY <2>2
        <5> QED BY <2>1, <2>2, <4>1, <5>1, ZenonT(30)
      <4> QED BY <2>2, <4>2
    <3> QED BY <1>2, <2>3, <2>4, <3>1 DEF Sound, Linked, SameSession
  <2>7. u.twice \/ Single(u)
    <3>1. CASE t.twice
      BY <1>2, <2>3, <3>1 DEF SameWork
    <3>2. CASE ~t.twice
      <4>1. Pending(t) = 0
        <5>1. Len(t.resolving) \in Nat /\ t.next \in Nat /\ Len(t.reconnects) \in Nat
          BY DEF Sound, TunnelType
        <5>2. t.socket = s /\ Pending(t) <= 1 /\ (Pending(t) # 0 => t.socket = NoSocket)
          BY <3>2 DEF Sound, Single
        <5> QED BY <5>1, <5>2 DEF Pending, NoSocket
      <4>2. Pending(u) = 1
        <5>1. Len(d.resolving) \in Nat /\ d.next \in Nat
          BY <2>1 DEF TunnelType
        <5> QED BY <1>2, <2>2, <2>3, <4>1, <5>1 DEF Pending, SameWork
      <4>3. Single(d)
        BY <1>2, <3>2 DEF Sound, SameWork
      <4> QED BY <1>2, <2>3, <2>4, <4>2, <4>3 DEF Single, SameSession
    <3> QED BY <3>1, <3>2
  <2>8. Progress(d) => Progress(u)
    BY <2>3, <2>5 DEF Progress, SamePlace, HasRemote, HasEndpoint
  <2>9. Sound(u)
    BY <1>2, <2>3, <2>5, <2>6, <2>7, <2>8 DEF Sound, SamePlace
  <2>10. Follows(d, u)
    BY <2>4, <2>9 DEF Follows, SameSession
  <2> QED BY <1>2, <1>3, <1>5, <2>3, <2>10, FollowsTwice
<1> QED
  BY <1>1, <1>4, <1>5 DEF DidShutdown, d
-----------------------------------------------------------------------------
(* The steps.                                                              *)

\* The handler of stopTunnel: until the timer has called it, nobody has while it is
\* still set; and the timer comes once.
StopOK(t) == /\ t.stopCalls > 1 => t.forced
             /\ t.pendingStop /\ ~t.forced => t.stopCalls = 0
             /\ t.stopTimer /\ t.pendingStop => t.stopCalls = 0

\* Before startTunnel there is nothing.
Asleep(t) == t.start = "none" => t = NewTunnel

Inv == Sound(tunnel) /\ StopOK(tunnel) /\ Asleep(tunnel)

\* What a step that is not the start leads to.
Leads(t, u) == /\ Sound(u) /\ StopOK(u)
               /\ t.start # "none" => u.start # "none"
               /\ t.session = "none" => u.session = "none"

\* That is so when nothing is started or stopped.
LEMMA FollowsLeads ==
  ASSUME NEW t, NEW u, StopOK(t), Follows(t, u)
  PROVE  Leads(t, u)
  BY DEF Follows, Leads, StopOK, SameStop

\* Something goes wrong, or not.
LEMMA TunnelWithIs ==
  ASSUME Sound(tunnel), NEW wrong \in BOOLEAN, wrong => tunnel.wrong < MaxFaults
  PROVE  LET t == TunnelWith(wrong)
         IN  /\ Follows(tunnel, t) /\ t.sockets = tunnel.sockets /\ t.socket = tunnel.socket
             /\ SameWork(tunnel, t) /\ SamePlace(tunnel, t) /\ SameSession(tunnel, t)
             /\ t.late = tunnel.late /\ t.networkUp = tunnel.networkUp
<1>1. CASE ~wrong
  BY <1>1, FollowsSame DEF TunnelWith, SameWork, SamePlace, SameSession
<1>2. CASE wrong
  <2> DEFINE w == tunnel.wrong + 1
             t == [tunnel EXCEPT !.wrong = w]
  <2>1. tunnel \in TunnelType
    BY DEF Sound
  <2>2. w \in 0 .. MaxFaults
    <3>1. tunnel.wrong \in 0 .. MaxFaults
      BY <2>1 DEF TunnelType
    <3> QED BY <1>2, <3>1, ProviderAssumption
  <2>3. TunnelWith(wrong) = t
    BY <1>2 DEF TunnelWith
  <2> HIDE DEF w
  <2>4. t \in TunnelType /\ t.sockets = tunnel.sockets /\ t.socket = tunnel.socket
        /\ t.late = tunnel.late /\ t.networkUp = tunnel.networkUp
    BY <2>1, <2>2, ZenonT(30) DEF TunnelType
  <2>5. SameStop(tunnel, t) /\ SameSession(tunnel, t)
    BY <2>1 DEF TunnelType, SameStop, SameSession
  <2>6. SameWork(tunnel, t) /\ SamePlace(tunnel, t)
    BY <2>1 DEF TunnelType, SameWork, SamePlace
  <2> HIDE DEF t
  <2> QED BY <2>3, <2>4, <2>5, <2>6, SoundAside DEF Follows, SameSession
<1> QED
  BY <1>1, <1>2

\* A connection that was to come comes now.
LEMMA ResumedSound ==
  ASSUME NEW t, Sound(t), NEW u \in TunnelType, SamePlace(t, u), SameSession(t, u),
         u.socket = t.socket, u.sockets = t.sockets, u.twice = t.twice,
         Pending(u) = Pending(t) - 1,
         \A i \in 1 .. Len(u.reconnects) : u.reconnects[i] \in 0 .. Len(t.sockets)
  PROVE  Sound(u) /\ Idle(u)
<1>1. Linked(u)
  BY DEF Sound, Linked, SameSession
<1>2. CASE t.twice
  BY <1>1, <1>2 DEF Sound, Idle
<1>3. CASE ~t.twice
  <2>1. /\ Len(u.resolving) \in Nat /\ u.next \in Nat /\ Len(u.reconnects) \in Nat
        /\ Len(t.resolving) \in Nat /\ t.next \in Nat /\ Len(t.reconnects) \in Nat
    BY SMTT(30) DEF Sound, TunnelType
  <2>2. Single(t)
    BY <1>3 DEF Sound
  <2>3. Pending(u) = 0 /\ u.socket = NoSocket /\ Len(u.resolving) = 0 /\ u.next = 0
    <3>1. Pending(t) = 1 /\ Pending(u) = 0
      <4>1. ASSUME NEW x, Len(x.resolving) \in Nat, x.next \in Nat, Len(x.reconnects) \in Nat
            PROVE  Pending(x) \in Nat
        <5>1. ASSUME NEW a \in Nat, NEW b \in Nat, NEW c \in Nat PROVE a + b + c \in Nat
          OBVIOUS
        <5> QED BY <4>1, <5>1, Zenon DEF Pending
      <4>2. Pending(t) <= 1
        BY <2>2 DEF Single
      <4>3. Pending(t) \in Nat /\ Pending(u) \in Nat
        BY <2>1, <4>1
      <4> QED BY <4>2, <4>3
    <3>2. u.socket = NoSocket
      BY <2>2, <3>1 DEF Single
    <3> QED BY <2>1, <3>1, <3>2 DEF Pending
  <2>4. Single(u)
    BY <2>2, <2>3 DEF Single, SameSession
  <2>5. Progress(t) => Progress(u)
    BY <2>3 DEF Progress, SamePlace, HasRemote, HasEndpoint
  <2> QED BY <1>1, <2>3, <2>4, <2>5, ZenonT(30) DEF Sound, Idle, SamePlace
<1> QED
  BY <1>2, <1>3

\* Before the start there is nothing, and it is no trouble.
LEMMA NewTunnelSound ==
  /\ Sound(NewTunnel) /\ StopOK(NewTunnel) /\ Idle(NewTunnel)
  /\ NewTunnel.session = "none" /\ NewTunnel.sockets = <<>> /\ NewTunnel.resolving = <<>>
  /\ NewTunnel.late = {} /\ NewTunnel.next = 0 /\ NewTunnel.reconnects = <<>>
  /\ NewTunnel.disposals = 0 /\ NewTunnel.networkUp = 0 /\ NewTunnel.exit = "no"
  /\ ~NewTunnel.stopTimer
<1> DEFINE t == NewTunnel
<1>1. /\ t.session = "none" /\ t.sockets = <<>> /\ t.resolving = <<>>
      /\ t.late = {} /\ t.next = 0 /\ t.reconnects = <<>>
      /\ t.disposals = 0 /\ t.networkUp = 0 /\ t.exit = "no"
      /\ t.start = "none" /\ t.link = NoSocket /\ t.socket = NoSocket /\ t.remote = 1
      /\ t.endpoints = [r \in 1 .. Remotes |-> 0] /\ t.endpoint = [r \in 1 .. Remotes |-> 1]
      /\ t.tried = {} /\ t.stopCalls = 0 /\ t.wrong = 0
  BY DEF NewTunnel
<1>2. ~t.stopTimer
  BY DEF NewTunnel
<1>3. t \in TunnelType
  <2>1. /\ t.resolving \in Seq(1 .. Remotes) /\ t.reconnects \in Seq(Nat) /\ t.sockets \in Seq(Socket)
        /\ t.late \in SUBSET (1 .. Remotes) /\ t.tried \in SUBSET ((1 .. Remotes) \X (Nat \ {0}))
    BY <1>1
  <2>2. /\ t.endpoints \in [1 .. Remotes -> Nat] /\ t.endpoint \in [1 .. Remotes -> Nat \ {0}]
        /\ t.remote \in 1 .. Remotes + 1
    BY <1>1, ProviderAssumption
  <2>3. /\ t.start \in {"none", "pending", "ok", "failed", "dropped"}
        /\ t.session \in {"none", "idle", "linked", "started"}
        /\ t.exit \in {"no", "shutdown", "reconnect"}
    BY <1>1
  <2>4. /\ t.stopCalls \in Nat /\ t.link \in Nat /\ t.socket \in Nat /\ t.next \in Nat
        /\ t.disposals \in Nat /\ t.networkUp \in Nat /\ t.wrong \in 0 .. MaxFaults
    BY <1>1, ProviderAssumption DEF NoSocket
  <2>5. /\ t.pendingStop \in BOOLEAN /\ t.cancelled \in BOOLEAN /\ t.isStopping \in BOOLEAN
        /\ t.shouldReconnect \in BOOLEAN /\ t.stopTimer \in BOOLEAN /\ t.skipped \in BOOLEAN
        /\ t.twice \in BOOLEAN /\ t.forced \in BOOLEAN
    BY DEF NewTunnel
  <2>6. t = [start |-> t.start, pendingStop |-> t.pendingStop, stopCalls |-> t.stopCalls,
             cancelled |-> t.cancelled, session |-> t.session, isStopping |-> t.isStopping,
             exit |-> t.exit, link |-> t.link, socket |-> t.socket, sockets |-> t.sockets,
             shouldReconnect |-> t.shouldReconnect, remote |-> t.remote,
             endpoints |-> t.endpoints, endpoint |-> t.endpoint, resolving |-> t.resolving,
             late |-> t.late, next |-> t.next, reconnects |-> t.reconnects,
             disposals |-> t.disposals, networkUp |-> t.networkUp, stopTimer |-> t.stopTimer,
             tried |-> t.tried, skipped |-> t.skipped, twice |-> t.twice, wrong |-> t.wrong,
             forced |-> t.forced]
    BY DEF NewTunnel
  <2> HIDE DEF t
  <2> QED BY <2>1, <2>2, <2>3, <2>4, <2>5, <2>6, Zenon DEF TunnelType
<1> HIDE DEF t
<1>4. Linked(t) /\ Single(t) /\ Idle(t)
  BY <1>1 DEF Linked, Single, Idle, Pending, NoSocket
<1>5. Progress(t)
  BY <1>1, ProviderAssumption DEF Progress, HasRemote, HasEndpoint, NoSocket
<1>6. StopOK(t)
  BY <1>1 DEF StopOK
<1> QED
  BY <1>1, <1>2, <1>3, <1>4, <1>5, <1>6 DEF Sound, t

\* What a step leads to goes on.
LEMMA LeadsOn ==
  ASSUME NEW t, NEW u, NEW v, Leads(t, u), Follows(u, v)
  PROVE  Leads(t, v)
  BY DEF Follows, Leads, StopOK, SameStop

\* The session is stopped for good, or to be started again.
LEMMA StopSessionLeads ==
  ASSUME NEW t, NEW u, Leads(t, u), NEW reconnect \in BOOLEAN, NEW v,
         v = StopSession(u, reconnect)
  PROVE  Leads(t, v)
  BY StopSessionFollows, LeadsOn DEF Leads

\* stopTunnel.
LEMMA StopTunnelLeads ==
  ASSUME Inv, StopTunnel
  PROVE  Leads(tunnel, tunnel')
<1> DEFINE start == IF tunnel.start = "pending" THEN "dropped" ELSE tunnel.start
           x == [tunnel EXCEPT !.start = start]
           calls == x.stopCalls + 1
           y == [x EXCEPT !.stopCalls = calls]
           z == [x EXCEPT !.pendingStop = TRUE, !.stopTimer = TRUE]
<1>1. tunnel \in TunnelType /\ start \in {"ok", "dropped"}
  BY DEF Inv, Sound, StopTunnel
<1>2. /\ tunnel' = y \/ (tunnel' = StopSession(z, FALSE) /\ tunnel.session # "none")
      /\ ~tunnel.pendingStop /\ tunnel.stopCalls = 0
  <2>1. x.session = tunnel.session
    BY <1>1 DEF TunnelType
  <2> QED BY <2>1, ZenonT(30) DEF StopTunnel
<1> HIDE DEF start
<1>3. /\ x \in TunnelType /\ x.start = start /\ x.session = tunnel.session
      /\ x.link = tunnel.link /\ x.sockets = tunnel.sockets /\ x.socket = tunnel.socket
  <2>1. x \in TunnelType
    BY <1>1, ZenonT(30) DEF TunnelType
  <2>2. /\ x.start = start /\ x.session = tunnel.session /\ x.link = tunnel.link
        /\ x.sockets = tunnel.sockets /\ x.socket = tunnel.socket
    BY <1>1 DEF TunnelType
  <2> QED BY <2>1, <2>2
<1>4. SameWork(tunnel, x) /\ SamePlace(tunnel, x)
  BY <1>1 DEF TunnelType, SameWork, SamePlace
<1>5. SameStop(tunnel, x)
  BY <1>1 DEF TunnelType, SameStop
<1> HIDE DEF x
<1>6. Sound(x)
  BY <1>3, <1>4, SoundAside DEF Inv
<1>7. CASE tunnel' = y
  <2>1. x.stopCalls = 0 /\ ~x.pendingStop /\ calls = 1
    BY <1>2, <1>5 DEF SameStop
  <2> HIDE DEF calls
  <2>2. /\ y \in TunnelType /\ y.stopCalls = 1 /\ SameSession(x, y)
        /\ y.sockets = x.sockets /\ y.socket = x.socket
    <3>1. y \in TunnelType
      <4>1. calls \in Nat
        BY <2>1
      <4> QED BY <1>3, <4>1, ZenonT(30) DEF TunnelType
    <3>2. y.stopCalls = 1 /\ y.sockets = x.sockets /\ y.socket = x.socket
      BY <1>3, <2>1 DEF TunnelType
    <3>3. SameSession(x, y)
      BY <1>3 DEF TunnelType, SameSession
    <3> QED BY <3>1, <3>2, <3>3
  <2>5. ~y.pendingStop
    <3>1. y.pendingStop = x.pendingStop
      BY <1>3 DEF TunnelType
    <3> QED BY <2>1, <3>1
  <2>3. SameWork(x, y) /\ SamePlace(x, y)
    BY <1>3 DEF TunnelType, SameWork, SamePlace
  <2> HIDE DEF y
  <2>4. Sound(y)
    BY <1>6, <2>2, <2>3, SoundAside DEF SameSession
  <2> QED BY <1>1, <1>3, <1>7, <2>2, <2>4, <2>5 DEF Leads, StopOK, SameSession
<1>8. CASE tunnel' = StopSession(z, FALSE)
  <2>1. z \in TunnelType /\ z.sockets = x.sockets /\ z.socket = x.socket /\ SameSession(x, z)
    BY <1>3, ZenonT(30) DEF TunnelType, SameSession
  <2>2. z.stopCalls = x.stopCalls
    BY <1>3 DEF TunnelType
  <2>3. SameWork(x, z) /\ SamePlace(x, z)
    BY <1>3 DEF TunnelType, SameWork, SamePlace
  <2> HIDE DEF z
  <2>4. Sound(z)
    BY <1>6, <2>1, <2>3, SoundAside DEF SameSession
  <2>5. Leads(tunnel, z)
    BY <1>1, <1>2, <1>3, <1>5, <2>1, <2>2, <2>4 DEF Leads, StopOK, SameSession, SameStop
  <2>6. PICK reconnect \in BOOLEAN : tunnel' = StopSession(z, reconnect)
    BY <1>8, Zenon
  <2> QED BY <2>5, <2>6, StopSessionLeads
<1> QED
  BY <1>2, <1>7, <1>8, ZenonT(30)

\* The timer of the stop calls the handler at most once.
LEMMA StopTimerLeads ==
  ASSUME Inv, StopTimer
  PROVE  Leads(tunnel, tunnel')
<1>1. tunnel \in TunnelType
  BY DEF Inv, Sound
<1>2. CASE ~tunnel.pendingStop
  <2> DEFINE u == [tunnel EXCEPT !.stopTimer = FALSE]
  <2>1. tunnel' = u
    BY <1>2 DEF StopTimer
  <2>2. /\ u \in TunnelType /\ ~u.stopTimer /\ u.pendingStop = tunnel.pendingStop
        /\ u.stopCalls = tunnel.stopCalls /\ u.forced = tunnel.forced
        /\ u.sockets = tunnel.sockets /\ u.socket = tunnel.socket
    <3>1. u \in TunnelType
      BY <1>1, ZenonT(30) DEF TunnelType
    <3>2. /\ ~u.stopTimer /\ u.pendingStop = tunnel.pendingStop /\ u.stopCalls = tunnel.stopCalls
          /\ u.forced = tunnel.forced /\ u.sockets = tunnel.sockets /\ u.socket = tunnel.socket
      BY <1>1 DEF TunnelType
    <3> QED BY <3>1, <3>2
  <2>3. SameSession(tunnel, u) /\ SameWork(tunnel, u) /\ SamePlace(tunnel, u)
    BY <1>1 DEF TunnelType, SameSession, SameWork, SamePlace
  <2> HIDE DEF u
  <2>4. Sound(u)
    BY <2>2, <2>3, SoundAside DEF Inv, SameSession
  <2> QED BY <2>1, <2>2, <2>3, <2>4 DEF Leads, StopOK, SameSession, Inv
<1>3. CASE tunnel.pendingStop
  <2> DEFINE forced == tunnel.stopCalls = 0
             calls == tunnel.stopCalls + 1
             u == [tunnel EXCEPT !.stopTimer = FALSE, !.stopCalls = calls, !.forced = forced]
  <2>1. tunnel' = u /\ tunnel.stopCalls = 0
    BY <1>3 DEF StopTimer, StopOK, Inv
  <2>2. forced /\ forced \in BOOLEAN
    BY <2>1
  <2>3. calls = 1
    BY <2>1
  <2> HIDE DEF forced, calls
  <2>4. u \in TunnelType /\ ~u.stopTimer /\ u.stopCalls = 1
    <3>1. u \in TunnelType
      BY <1>1, <2>2, <2>3, ZenonT(30) DEF TunnelType
    <3>2. ~u.stopTimer /\ u.stopCalls = 1
      BY <1>1, <2>2, <2>3 DEF TunnelType
    <3> QED BY <3>1, <3>2
  <2>5. u.forced
    BY <1>1, <2>2 DEF TunnelType
  <2>6. SameSession(tunnel, u) /\ u.sockets = tunnel.sockets /\ u.socket = tunnel.socket
    BY <1>1 DEF TunnelType, SameSession
  <2>7. SameWork(tunnel, u) /\ SamePlace(tunnel, u)
    BY <1>1 DEF TunnelType, SameWork, SamePlace
  <2> HIDE DEF u
  <2>8. Sound(u)
    BY <2>4, <2>6, <2>7, SoundAside DEF Inv, SameSession
  <2> QED BY <2>1, <2>4, <2>5, <2>6, <2>8 DEF Leads, StopOK, SameSession
<1> QED
  BY <1>2, <1>3

\* reallyDisposeTunnel.
LEMMA ReallyDisposeLeads ==
  ASSUME Inv, ReallyDispose
  PROVE  Leads(tunnel, tunnel')
<1> DEFINE left == tunnel.disposals - 1
           t == [tunnel EXCEPT !.disposals = left]
           a == [t EXCEPT !.start = "failed"]
           calls == t.stopCalls + 1
           b == [t EXCEPT !.pendingStop = FALSE, !.stopCalls = calls]
           c == [t EXCEPT !.cancelled = TRUE]
<1>1. tunnel \in TunnelType /\ left \in Nat
  <2>1. tunnel \in TunnelType /\ tunnel.disposals > 0
    BY DEF Inv, Sound, ReallyDispose
  <2>2. tunnel.disposals \in Nat
    BY <2>1 DEF TunnelType
  <2> QED BY <2>1, <2>2
<1>2. \/ tunnel' = a
      \/ tunnel' = b /\ t.pendingStop
      \/ tunnel' = c
  BY DEF ReallyDispose
<1> HIDE DEF left
<1>3. /\ t \in TunnelType /\ t.sockets = tunnel.sockets /\ t.socket = tunnel.socket
  BY <1>1, ZenonT(30) DEF TunnelType
<1>4. SameStop(tunnel, t) /\ SameSession(tunnel, t)
  BY <1>1 DEF TunnelType, SameStop, SameSession
<1>5. SameWork(tunnel, t) /\ SamePlace(tunnel, t)
  BY <1>1 DEF TunnelType, SameWork, SamePlace
<1> HIDE DEF t
<1>6. Sound(t) /\ Leads(tunnel, t)
  BY <1>3, <1>4, <1>5, SoundAside DEF Inv, SameSession, Leads, StopOK, SameStop
<1>7. CASE tunnel' = a
  <2>1. /\ a \in TunnelType /\ a.start = "failed" /\ a.session = t.session
        /\ a.link = t.link /\ a.sockets = t.sockets /\ a.socket = t.socket
    <3>1. a \in TunnelType
      BY <1>3, ZenonT(30) DEF TunnelType
    <3>2. /\ a.start = "failed" /\ a.session = t.session /\ a.link = t.link
          /\ a.sockets = t.sockets /\ a.socket = t.socket
      BY <1>3 DEF TunnelType
    <3> QED BY <3>1, <3>2
  <2>2. SameWork(t, a) /\ SamePlace(t, a)
    BY <1>3 DEF TunnelType, SameWork, SamePlace
  <2>3. SameStop(t, a)
    BY <1>3 DEF TunnelType, SameStop
  <2> HIDE DEF a
  <2>4. Sound(a)
    BY <1>6, <2>1, <2>2, SoundAside
  <2> QED BY <1>6, <1>7, <2>1, <2>3, <2>4 DEF Leads, StopOK, SameStop
<1>8. CASE tunnel' = b /\ t.pendingStop
  <2>1. calls \in Nat /\ (calls > 1 => t.forced)
    <3>1. t.stopCalls \in Nat
      BY <1>3 DEF TunnelType
    <3> QED BY <1>6, <1>8, <3>1 DEF Leads, StopOK
  <2> HIDE DEF calls
  <2>2. b \in TunnelType
    <3>1. FALSE \in BOOLEAN
      OBVIOUS
    <3> QED BY <1>3, <2>1, <3>1, ZenonT(30) DEF TunnelType
  <2>3. b.stopCalls = calls /\ ~b.pendingStop /\ b.forced = t.forced
    <3>1. b.stopCalls = calls /\ b.forced = t.forced
      BY <1>3 DEF TunnelType
    <3>2. b.pendingStop = FALSE
      BY <1>3 DEF TunnelType
    <3> QED BY <3>1, <3>2
  <2>4. SameSession(t, b) /\ b.sockets = t.sockets /\ b.socket = t.socket
    BY <1>3 DEF TunnelType, SameSession
  <2>5. SameWork(t, b) /\ SamePlace(t, b)
    BY <1>3 DEF TunnelType, SameWork, SamePlace
  <2> HIDE DEF b
  <2>6. Sound(b)
    BY <1>6, <2>2, <2>4, <2>5, SoundAside DEF SameSession
  <2> QED BY <1>6, <1>8, <2>1, <2>3, <2>4, <2>6 DEF Leads, StopOK, SameSession
<1>9. CASE tunnel' = c
  <2>1. c \in TunnelType /\ c.sockets = t.sockets /\ c.socket = t.socket
    BY <1>3, ZenonT(30) DEF TunnelType
  <2>2. SameWork(t, c) /\ SamePlace(t, c)
    BY <1>3 DEF TunnelType, SameWork, SamePlace
  <2>3. SameStop(t, c) /\ SameSession(t, c)
    BY <1>3 DEF TunnelType, SameStop, SameSession
  <2> HIDE DEF c
  <2>4. Follows(t, c)
    BY <1>6, <2>1, <2>2, <2>3, SoundAside DEF SameSession, Follows
  <2> QED BY <1>6, <1>9, <2>4, LeadsOn
<1> QED
  BY <1>2, <1>7, <1>8, <1>9

\* The network settings complete.
LEMMA NetworkUpLeads ==
  ASSUME Inv, NEW failed \in BOOLEAN, NetworkUp(failed)
  PROVE  Leads(tunnel, tunnel')
<1> DEFINE t == TunnelWith(failed)
           up == t.networkUp - 1
           start == IF t.start = "pending" THEN IF failed THEN "failed" ELSE "ok" ELSE t.start
           u == [t EXCEPT !.networkUp = up, !.start = start]
<1>1. /\ Follows(tunnel, t) /\ t.networkUp = tunnel.networkUp /\ SameSession(tunnel, t)
      /\ tunnel.networkUp > 0
  BY TunnelWithIs DEF Inv, NetworkUp, May
<1>2. tunnel' = u
  BY DEF NetworkUp
<1> HIDE DEF t
<1>3. Leads(tunnel, t) /\ Sound(t) /\ t \in TunnelType
  BY <1>1, FollowsLeads DEF Inv, Follows, Sound
<1>4. up \in Nat /\ start \in {"none", "pending", "ok", "failed", "dropped"}
  <2>1. t.networkUp \in Nat /\ t.start \in {"none", "pending", "ok", "failed", "dropped"}
    BY <1>3 DEF TunnelType
  <2> QED BY <1>1, <2>1
<1>5. t.start # "none" => start # "none"
  OBVIOUS
<1> HIDE DEF up, start
<1>6. /\ u \in TunnelType /\ u.start = start /\ u.session = t.session
      /\ u.link = t.link /\ u.sockets = t.sockets /\ u.socket = t.socket
  <2>1. u \in TunnelType
    BY <1>3, <1>4, ZenonT(30) DEF TunnelType
  <2>2. /\ u.start = start /\ u.session = t.session /\ u.link = t.link
        /\ u.sockets = t.sockets /\ u.socket = t.socket
    BY <1>3, <1>4 DEF TunnelType
  <2> QED BY <2>1, <2>2
<1>7. SameWork(t, u) /\ SamePlace(t, u)
  BY <1>3 DEF TunnelType, SameWork, SamePlace
<1>8. SameStop(t, u)
  BY <1>3 DEF TunnelType, SameStop
<1> HIDE DEF u
<1>9. Sound(u)
  BY <1>3, <1>6, <1>7, SoundAside
<1> QED
  BY <1>2, <1>3, <1>5, <1>6, <1>8, <1>9 DEF Leads, StopOK, SameStop

\* The session starts, and may be refused by its gateway.
LEMMA SessionStartsLeads ==
  ASSUME Inv, SessionStarts
  PROVE  Leads(tunnel, tunnel')
<1> DEFINE t == [tunnel EXCEPT !.session = "started"]
           up == t.networkUp + 1
           u == [t EXCEPT !.networkUp = up]
           wrong == t.wrong + 1
           v == [t EXCEPT !.wrong = wrong]
<1>1. tunnel \in TunnelType /\ tunnel.session = "linked"
  BY DEF Inv, Sound, SessionStarts
<1>2. /\ t \in TunnelType /\ t.session = "started" /\ t.link = tunnel.link
      /\ t.start = tunnel.start /\ t.sockets = tunnel.sockets /\ t.socket = tunnel.socket
      /\ t.networkUp = tunnel.networkUp /\ t.wrong = tunnel.wrong
  BY <1>1, ZenonT(30) DEF TunnelType
<1>3. SameWork(tunnel, t) /\ SamePlace(tunnel, t)
  BY <1>1 DEF TunnelType, SameWork, SamePlace
<1>4. SameStop(tunnel, t)
  BY <1>1 DEF TunnelType, SameStop
<1>5. tunnel' = u \/ (May("gateway") /\ tunnel' = StopSession(v, FALSE))
  BY ZenonT(30) DEF SessionStarts
<1> HIDE DEF t
<1>6. Linked(t) /\ Fewer(tunnel.sockets, t.sockets)
  <2>1. tunnel.sockets \in Seq(Socket)
    BY <1>1 DEF TunnelType
  <2>2. Fewer(tunnel.sockets, t.sockets)
    BY <1>2, <2>1 DEF Fewer
  <2> QED BY <1>1, <1>2, <1>3, <2>2 DEF Inv, Sound, Linked, SameWork
<1>7. Sound(t)
  BY <1>2, <1>3, <1>6, SoundKept DEF Inv
<1>8. Leads(tunnel, t)
  BY <1>1, <1>2, <1>4, <1>7 DEF Leads, Inv, StopOK, SameStop
<1>9. CASE tunnel' = u
  <2>1. up \in Nat
    BY <1>2 DEF TunnelType
  <2> HIDE DEF up
  <2>2. u \in TunnelType /\ u.sockets = t.sockets /\ u.socket = t.socket
    BY <1>2, <2>1, ZenonT(30) DEF TunnelType
  <2>3. SameWork(t, u) /\ SamePlace(t, u)
    BY <1>2 DEF TunnelType, SameWork, SamePlace
  <2>4. SameStop(t, u) /\ SameSession(t, u)
    BY <1>2 DEF TunnelType, SameStop, SameSession
  <2> HIDE DEF u
  <2>5. Follows(t, u)
    BY <1>7, <2>2, <2>3, <2>4, SoundAside DEF SameSession, Follows
  <2> QED BY <1>8, <1>9, <2>5, LeadsOn
<1>10. CASE May("gateway") /\ tunnel' = StopSession(v, FALSE)
  <2>1. wrong \in 0 .. MaxFaults
    <3>1. tunnel.wrong \in 0 .. MaxFaults
      BY <1>1 DEF TunnelType
    <3> QED BY <1>2, <1>10, <3>1, ProviderAssumption DEF May
  <2> HIDE DEF wrong
  <2>2. v \in TunnelType /\ v.sockets = t.sockets /\ v.socket = t.socket
    BY <1>2, <2>1, ZenonT(30) DEF TunnelType
  <2>3. SameWork(t, v) /\ SamePlace(t, v)
    BY <1>2 DEF TunnelType, SameWork, SamePlace
  <2>4. SameStop(t, v) /\ SameSession(t, v)
    BY <1>2 DEF TunnelType, SameStop, SameSession
  <2> HIDE DEF v
  <2>5. Follows(t, v)
    BY <1>7, <2>2, <2>3, <2>4, SoundAside DEF SameSession, Follows
  <2>6. PICK reconnect \in BOOLEAN : tunnel' = StopSession(v, reconnect)
    BY <1>10, Zenon
  <2> QED BY <1>8, <2>5, <2>6, LeadsOn, StopSessionLeads, ZenonT(30)
<1> QED
  BY <1>5, <1>9, <1>10, ZenonT(30)

\* The session stops by itself.
LEMMA SessionStopsLeads ==
  ASSUME Inv, SessionStops
  PROVE  Leads(tunnel, tunnel')
<1>1. PICK reconnect \in BOOLEAN : tunnel' = StopSession(TunnelWith(TRUE), reconnect)
  BY ZenonT(30) DEF SessionStops
<1>2. PICK wrong \in BOOLEAN : wrong /\ tunnel' = StopSession(TunnelWith(wrong), reconnect)
  BY <1>1, Zenon
<1>3. wrong => tunnel.wrong < MaxFaults
  BY DEF SessionStops, May
<1>4. Follows(tunnel, TunnelWith(wrong))
  BY <1>3, TunnelWithIs DEF Inv
<1> QED
  BY <1>2, <1>4, FollowsLeads, StopSessionLeads, ZenonT(30) DEF Inv

\* The exit notification is written.
LEMMA ExitWrittenLeads ==
  ASSUME Inv, ExitWritten
  PROVE  Leads(tunnel, tunnel')
<1>1. PICK reconnect \in BOOLEAN : tunnel' = SessionDidStop(tunnel, reconnect)
  <2>1. (tunnel.exit = "reconnect") \in BOOLEAN
    OBVIOUS
  <2> QED BY <2>1, Zenon DEF ExitWritten
<1> QED
  BY <1>1, SessionDidStopFollows, FollowsLeads DEF Inv

\* A connection gets ready.
LEMMA ReadyLeads ==
  ASSUME Inv, NEW s \in Sockets, Ready(s)
  PROVE  Leads(tunnel, tunnel')
<1>1. tunnel' = SetState(tunnel, s, "ready") /\ "ready" \in States
  BY DEF Ready, States
<1>2. Quieter(tunnel, tunnel')
  BY <1>1, SetStateIs DEF Inv, Sound, Sockets
<1> QED
  BY <1>2, QuieterSound, FollowsLeads DEF Inv

\* A connection fails.
LEMMA FailLeads ==
  ASSUME Inv, NEW s \in Sockets, Fail(s)
  PROVE  Leads(tunnel, tunnel')
<1>1. PICK wrong \in BOOLEAN : wrong /\ tunnel' = SetState(TunnelWith(wrong), s, "failed")
  BY Zenon DEF Fail
<1> DEFINE t == TunnelWith(wrong)
<1>2. Follows(tunnel, t) /\ t.sockets = tunnel.sockets
  <2>1. wrong => tunnel.wrong < MaxFaults
    BY DEF Fail, May
  <2> QED BY <2>1, TunnelWithIs DEF Inv
<1> HIDE DEF t
<1>3. tunnel' = SetState(t, s, "failed") /\ "failed" \in States
  BY <1>1 DEF t, States
<1>4. Quieter(t, tunnel')
  BY <1>2, <1>3, SetStateIs DEF Follows, Sound, Sockets
<1>5. Follows(t, tunnel')
  BY <1>2, <1>4, QuieterSound DEF Follows
<1> QED
  BY <1>2, <1>5, FollowsTwice, FollowsLeads DEF Inv

\* A better path restarts the session.
LEMMA BetterPathLeads ==
  ASSUME Inv, NEW s \in Sockets, BetterPath(s)
  PROVE  Leads(tunnel, tunnel')
<1>1. PICK wrong \in BOOLEAN, reconnect \in BOOLEAN :
         wrong /\ tunnel' = StopSession(TunnelWith(wrong), reconnect)
  <2>1. TRUE \in BOOLEAN
    OBVIOUS
  <2> QED BY <2>1, Zenon DEF BetterPath
<1>2. wrong => tunnel.wrong < MaxFaults
  BY DEF BetterPath, May
<1>3. Follows(tunnel, TunnelWith(wrong))
  BY <1>2, TunnelWithIs DEF Inv
<1> QED
  BY <1>1, <1>3, FollowsLeads, StopSessionLeads, ZenonT(30) DEF Inv

\* A block leaves its queue.
LEMMA RemovedIs ==
  ASSUME NEW S, NEW q \in Seq(S), NEW i \in DOMAIN q
  PROVE  /\ RemoveAt(q, i) \in Seq(S) /\ Len(RemoveAt(q, i)) = Len(q) - 1
         /\ i \in 1 .. Len(q) /\ q[i] \in S
<1>1. i \in 1 .. Len(q) /\ Len(q) \in Nat
  OBVIOUS
<1>2. q[i] \in S
  BY <1>1
<1> DEFINE a == SubSeq(q, 1, i - 1)
           b == SubSeq(q, i + 1, Len(q))
<1>3. a \in Seq(S) /\ Len(a) = i - 1
  BY <1>1
<1>4. b \in Seq(S) /\ Len(b) = Len(q) - i
  BY <1>1
<1>5. RemoveAt(q, i) = a \o b
  BY DEF RemoveAt
<1> HIDE DEF a, b
<1> QED
  BY <1>1, <1>2, <1>3, <1>4, <1>5

\* A resolution calls its handler.
LEMMA ResolvedLeads ==
  ASSUME Inv, NEW i \in DOMAIN tunnel.resolving,
         NEW n \in 0 .. Endpoints[tunnel.resolving[i]], Resolved(i, n)
  PROVE  Leads(tunnel, tunnel')
<1> DEFINE r == tunnel.resolving[i]
           q == RemoveAt(tunnel.resolving, i)
           w == TunnelWith(n = 0)
           late == IF n = 0 THEN w.late \cup {r} ELSE w.late
           t == [w EXCEPT !.resolving = q, !.late = late]
<1>1. /\ tunnel \in TunnelType /\ tunnel.resolving \in Seq(1 .. Remotes)
      /\ i \in 1 .. Len(tunnel.resolving) /\ r \in 1 .. Remotes
  <2>1. tunnel \in TunnelType
    BY DEF Inv, Sound
  <2>2. tunnel.resolving \in Seq(1 .. Remotes)
    BY <2>1 DEF TunnelType
  <2> QED BY <2>1, <2>2, RemovedIs, ZenonT(30)
<1>2. n \in Nat
  BY <1>1, ProviderAssumption
<1>3. /\ q \in Seq(1 .. Remotes) /\ Len(q) = Len(tunnel.resolving) - 1
  BY <1>1, RemovedIs, ZenonT(30)
<1>4. /\ Follows(tunnel, w) /\ w.sockets = tunnel.sockets /\ w.socket = tunnel.socket
      /\ SameWork(tunnel, w) /\ SamePlace(tunnel, w) /\ SameSession(tunnel, w)
      /\ w.late = tunnel.late
  <2>1. PICK wrong \in BOOLEAN : wrong = (n = 0) /\ w = TunnelWith(wrong)
    <3>1. (n = 0) \in BOOLEAN
      OBVIOUS
    <3> QED BY <3>1, Zenon
  <2>2. wrong => tunnel.wrong < MaxFaults
    BY <2>1, ZenonT(30) DEF Resolved, May
  <2> HIDE DEF w
  <2> QED BY <2>1, <2>2, TunnelWithIs, ZenonT(30) DEF Inv
<1>5. tunnel' = Answered(t, r, n)
  <2>1. w.resolving = tunnel.resolving
    BY <1>4 DEF SameWork
  <2> QED BY <2>1, ZenonT(30) DEF Resolved
<1> HIDE DEF w, q
<1>6. w \in TunnelType /\ late \in SUBSET (1 .. Remotes)
  <2>1. w \in TunnelType
    BY <1>4 DEF Follows, Sound
  <2>2. w.late \in SUBSET (1 .. Remotes)
    BY <2>1 DEF TunnelType
  <2> QED BY <1>1, <2>1, <2>2
<1> HIDE DEF r, late
<1>7. /\ t \in TunnelType /\ t.resolving = q /\ t.sockets = w.sockets /\ t.socket = w.socket
      /\ t.next = w.next /\ t.reconnects = w.reconnects /\ t.twice = w.twice
  BY <1>3, <1>6, ZenonT(30) DEF TunnelType
<1>8. SameStop(w, t) /\ SameSession(w, t)
  BY <1>6 DEF TunnelType, SameStop, SameSession
<1>9. SamePlace(w, t)
  BY <1>6 DEF TunnelType, SamePlace
<1> HIDE DEF t
<1>10. Pending(t) = Pending(w) - 1
  <2>1. /\ Len(w.resolving) = Len(tunnel.resolving) /\ Len(tunnel.resolving) \in Nat
        /\ w.next \in Nat /\ Len(w.reconnects) \in Nat
    BY <1>1, <1>4, <1>6, SMTT(30) DEF SameWork, TunnelType
  <2>2. Len(t.resolving) = Len(w.resolving) - 1 /\ t.next = w.next
        /\ Len(t.reconnects) = Len(w.reconnects)
    BY <1>3, <1>7, <2>1
  <2> QED BY <2>1, <2>2 DEF Pending
<1>11. \A k \in 1 .. Len(t.reconnects) : t.reconnects[k] \in 0 .. Len(w.sockets)
  BY <1>4, <1>7 DEF Follows, Sound, Linked
<1>12. Sound(t) /\ Idle(t)
  BY <1>4, <1>7, <1>8, <1>9, <1>10, <1>11, ResumedSound DEF Follows
<1>13. Follows(tunnel, t)
  <2>1. Follows(w, t)
    BY <1>8, <1>12 DEF Follows, SameSession
  <2> QED BY <1>4, <2>1, FollowsTwice
<1>14. t.twice \/ t.skipped \/ (r = t.remote /\ t.endpoints[r] = 0)
  <2>1. tunnel.twice \/ tunnel.skipped
          \/ (r = tunnel.remote /\ tunnel.endpoints[tunnel.remote] = 0)
    BY <1>1 DEF Inv, Sound, Progress, r
  <2> QED BY <1>4, <1>7, <1>9, <2>1 DEF SameWork, SamePlace
<1>15. Follows(t, tunnel')
  BY <1>1, <1>2, <1>5, <1>12, <1>14, AnsweredFollows
<1> QED
  BY <1>13, <1>15, FollowsTwice, FollowsLeads DEF Inv

\* It calls its handler again.
LEMMA ResolvedTwiceLeads ==
  ASSUME Inv, NEW r \in tunnel.late, NEW n \in 0 .. Endpoints[r], ResolvedTwice(r, n)
  PROVE  Leads(tunnel, tunnel')
<1> DEFINE late == tunnel.late \ {r}
<1>1. PICK wrong \in BOOLEAN :
         /\ wrong /\ tunnel.wrong < MaxFaults
         /\ tunnel' = Answered([TunnelWith(wrong) EXCEPT !.late = @ \ {r}, !.twice = TRUE], r, n)
  <2>1. TRUE \in BOOLEAN
    OBVIOUS
  <2> QED BY <2>1, Zenon DEF ResolvedTwice, May
<1> DEFINE w == TunnelWith(wrong)
           t == [w EXCEPT !.late = late, !.twice = TRUE]
<1>2. /\ Follows(tunnel, w) /\ w.sockets = tunnel.sockets /\ w.socket = tunnel.socket
      /\ SameWork(tunnel, w) /\ w.late = tunnel.late
  BY <1>1, TunnelWithIs, ZenonT(30) DEF Inv
<1>3. tunnel' = Answered(t, r, n)
  BY <1>1, <1>2, ZenonT(30)
<1>4. tunnel.late \in SUBSET (1 .. Remotes)
  BY DEF Inv, Sound, TunnelType
<1>5. r \in 1 .. Remotes /\ n \in Nat /\ late \in SUBSET (1 .. Remotes)
  BY <1>4, ProviderAssumption
<1>6. w \in TunnelType
  BY <1>2 DEF Follows, Sound
<1> HIDE DEF w, late
<1>7. t \in TunnelType
  <2>1. TRUE \in BOOLEAN
    OBVIOUS
  <2> QED BY <1>5, <1>6, <2>1, ZenonT(30) DEF TunnelType
<1>8. t.twice
  <2>1. t.twice = TRUE
    BY <1>6 DEF TunnelType
  <2> QED BY <2>1
<1>9. /\ t.sockets = w.sockets /\ t.socket = w.socket /\ t.reconnects = w.reconnects
      /\ SameStop(w, t) /\ SameSession(w, t)
  BY <1>6 DEF TunnelType, SameStop, SameSession
<1> HIDE DEF t
<1>10. Sound(t) /\ Idle(t)
  BY <1>2, <1>7, <1>8, <1>9 DEF Follows, Sound, Linked, Idle, SameSession
<1>11. Follows(tunnel, t)
  BY <1>2, <1>9, <1>10, FollowsTwice DEF Follows, SameSession
<1>12. Follows(t, tunnel')
  BY <1>3, <1>5, <1>8, <1>10, AnsweredFollows
<1> QED
  BY <1>11, <1>12, FollowsTwice, FollowsLeads DEF Inv

\* After a failed resolution the next endpoint, or remote.
LEMMA AfterDNSFailureLeads ==
  ASSUME Inv, AfterDNSFailure
  PROVE  Leads(tunnel, tunnel')
<1> DEFINE next == tunnel.next - 1
           t == [tunnel EXCEPT !.next = next]
           u == NextEndpoint(t)
<1>1. tunnel' = Connect(u) /\ tunnel.next > 0
  BY DEF AfterDNSFailure
<1> HIDE DEF u
<1>2. tunnel \in TunnelType /\ tunnel.next \in Nat /\ next \in Nat /\ next = tunnel.next - 1
  <2>1. tunnel \in TunnelType
    BY DEF Inv, Sound
  <2>2. tunnel.next \in Nat
    BY <2>1 DEF TunnelType
  <2> QED BY <1>1, <2>1, <2>2
<1> HIDE DEF next
<1>3. /\ t \in TunnelType /\ t.next = next /\ t.sockets = tunnel.sockets
      /\ t.socket = tunnel.socket /\ t.resolving = tunnel.resolving
      /\ t.reconnects = tunnel.reconnects /\ t.twice = tunnel.twice
  <2>1. t \in TunnelType
    BY <1>2, ZenonT(30) DEF TunnelType
  <2>2. /\ t.next = next /\ t.sockets = tunnel.sockets /\ t.socket = tunnel.socket
        /\ t.resolving = tunnel.resolving /\ t.reconnects = tunnel.reconnects /\ t.twice = tunnel.twice
    BY <1>2 DEF TunnelType
  <2> QED BY <2>1, <2>2
<1>4. SameStop(tunnel, t) /\ SameSession(tunnel, t)
  BY <1>2 DEF TunnelType, SameStop, SameSession
<1>5. SamePlace(tunnel, t)
  BY <1>2 DEF TunnelType, SamePlace
<1> HIDE DEF t
<1>6. Len(tunnel.resolving) \in Nat /\ Len(tunnel.reconnects) \in Nat
  BY <1>2 DEF TunnelType
<1>7. Pending(t) = Pending(tunnel) - 1
  BY <1>2, <1>3, <1>6 DEF Pending
<1>8. Sound(t) /\ Idle(t)
  <2>1. \A k \in 1 .. Len(t.reconnects) : t.reconnects[k] \in 0 .. Len(tunnel.sockets)
    BY <1>3 DEF Inv, Sound, Linked
  <2> QED BY <1>3, <1>4, <1>5, <1>7, <2>1, ResumedSound DEF Inv
<1>9. Follows(tunnel, t)
  BY <1>4, <1>8 DEF Follows, SameSession
<1>10. t.twice \/ t.skipped \/ Finished(t)
  <2> SUFFICES ASSUME ~t.twice, ~t.skipped PROVE Finished(t)
    OBVIOUS
  <2>1. Pending(t) = 0 /\ t.socket = NoSocket
    BY <1>8 DEF Idle
  <2>2. t.next = 0 /\ Len(t.resolving) = 0
    BY <1>2, <1>3, <1>6, <2>1, SMTT(30) DEF Pending
  <2>3. HasRemote(t) => t.endpoints[t.remote] = 0
    BY <1>1, <1>3, <1>5 DEF Inv, Sound, Progress, SamePlace, HasRemote
  <2> QED BY <2>1, <2>2, <2>3 DEF Finished
<1>11. Follows(t, u) /\ Idle(u)
  BY <1>8, <1>10, NextEndpointFollows DEF Idle, Pending, SameWork, u
<1>12. Follows(u, tunnel')
  BY <1>1, <1>11, ConnectFollows DEF Follows
<1> QED
  BY <1>9, <1>11, <1>12, FollowsTwice, FollowsLeads DEF Inv

\* A reconnection is due.
LEMMA ReconnectLeads ==
  ASSUME Inv, Reconnect
  PROVE  Leads(tunnel, tunnel')
<1> DEFINE q == Tail(tunnel.reconnects)
           s == Head(tunnel.reconnects)
           t == [tunnel EXCEPT !.reconnects = q]
<1>1. (tunnel' = t \/ tunnel' = ConnectUpgraded(t, s)) /\ tunnel.reconnects # <<>>
  BY DEF Reconnect
<1>2. /\ tunnel \in TunnelType /\ tunnel.reconnects \in Seq(Nat)
      /\ \A k \in 1 .. Len(tunnel.reconnects) :
            tunnel.reconnects[k] \in 0 .. Len(tunnel.sockets)
  BY ZenonT(30) DEF Inv, Sound, Linked, TunnelType
<1>3. /\ s \in 0 .. Len(tunnel.sockets) /\ q \in Seq(Nat) /\ Len(q) = Len(tunnel.reconnects) - 1
      /\ \A k \in 1 .. Len(q) : q[k] \in 0 .. Len(tunnel.sockets)
  <2>1. s \in 0 .. Len(tunnel.sockets)
    BY <1>1, <1>2
  <2>2. q \in Seq(Nat) /\ Len(q) = Len(tunnel.reconnects) - 1
    BY <1>1, <1>2
  <2>3. \A k \in 1 .. Len(q) : q[k] \in 0 .. Len(tunnel.sockets)
    <3>1. \A k \in 1 .. Len(q) : q[k] = tunnel.reconnects[k + 1]
      BY <1>1, <1>2
    <3> QED BY <1>2, <2>2, <3>1
  <2> QED BY <2>1, <2>2, <2>3
<1> HIDE DEF q, s
<1>4. /\ t \in TunnelType /\ t.reconnects = q /\ t.sockets = tunnel.sockets
      /\ t.socket = tunnel.socket /\ t.resolving = tunnel.resolving
      /\ t.next = tunnel.next /\ t.twice = tunnel.twice
  BY <1>2, <1>3, ZenonT(30) DEF TunnelType
<1>5. SameStop(tunnel, t) /\ SameSession(tunnel, t)
  BY <1>2 DEF TunnelType, SameStop, SameSession
<1>6. SamePlace(tunnel, t)
  BY <1>2 DEF TunnelType, SamePlace
<1> HIDE DEF t
<1>7. Pending(t) = Pending(tunnel) - 1
  <2>1. /\ Len(tunnel.resolving) \in Nat /\ Len(tunnel.reconnects) \in Nat /\ tunnel.next \in Nat
    BY <1>2 DEF TunnelType
  <2> QED BY <1>3, <1>4, <2>1 DEF Pending
<1>8. Sound(t) /\ Idle(t)
  BY <1>3, <1>4, <1>5, <1>6, <1>7, ResumedSound, ZenonT(30) DEF Inv
<1>9. Follows(tunnel, t)
  BY <1>5, <1>8 DEF Follows, SameSession
<1>10. CASE tunnel' = t
  BY <1>9, <1>10, FollowsLeads DEF Inv
<1>11. CASE tunnel' = ConnectUpgraded(t, s)
  BY <1>3, <1>4, <1>8, <1>9, <1>11, ConnectUpgradedFollows, FollowsTwice, FollowsLeads DEF Inv
<1> QED
  BY <1>1, <1>10, <1>11

\* A change of state of a socket is observed.
LEMMA ObserveStateLeads ==
  ASSUME Inv, NEW s \in Sockets, NEW upgraded \in BOOLEAN, ObserveState(s, upgraded)
  PROVE  Leads(tunnel, tunnel')
<1> DEFINE w == TunnelWith(upgraded)
           p == w.sockets[s]
           kvo == p.kvo - 1
           n == [p EXCEPT !.kvo = kvo]
           q == [w.sockets EXCEPT ![s] = n]
           t == [w EXCEPT !.sockets = q]
           a == [t.sockets[s] EXCEPT !.isActive = TRUE]
           actives == [t.sockets EXCEPT ![s] = a]
           active == [t EXCEPT !.sockets = actives]
           told == t.sockets[s].delegate
           seen == IF Closed(t.sockets[s].state)
                   THEN IF told THEN DidShutdown(t, s, upgraded) ELSE t
                   ELSE IF t.sockets[s].isActive THEN t
                   ELSE IF told THEN DidBecomeActive(active, s) ELSE active
<1>1. tunnel' = Freed(seen, s) /\ tunnel.sockets[s].kvo > 0
  BY DEF ObserveState
<1>2. Follows(tunnel, w) /\ w.sockets = tunnel.sockets
  BY TunnelWithIs DEF Inv, ObserveState, May
<1> HIDE DEF w
<1>3. w \in TunnelType /\ s \in 1 .. Len(w.sockets) /\ p \in Socket
  <2>1. w \in TunnelType /\ w.sockets \in Seq(Socket)
    BY <1>2, ZenonT(30) DEF Follows, Sound, TunnelType
  <2> QED BY <1>2, <2>1 DEF Sockets
<1>4. kvo \in Nat
  <2>1. p.kvo > 0
    BY <1>1, <1>2
  <2> HIDE DEF p
  <2>2. p.kvo \in Nat
    BY <1>3 DEF Socket
  <2> QED BY <2>1, <2>2
<1>5. Quieter(w, t) /\ t \in TunnelType /\ t.sockets[s] = n /\ n \in Socket
  <2> HIDE DEF kvo
  <2>1. n \in Socket /\ n.reliable = p.reliable /\ n.upgraded = p.upgraded
    <3> HIDE DEF p
    <3> QED BY <1>3, <1>4 DEF Socket
  <2>2. (n.delegate => p.delegate) /\ (n.timer => p.timer)
    <3> HIDE DEF p
    <3> QED BY <1>3, <1>4 DEF Socket
  <2> HIDE DEF n
  <2>3. Quieter(w, t) /\ t \in TunnelType
    BY <1>3, <2>1, <2>2, OneSocket, ZenonT(30)
  <2>4. t.sockets[s] = n
    BY <1>3, <2>1, <2>2, OneSocket
  <2> QED BY <2>1, <2>3, <2>4
<1> HIDE DEF n, t
<1>6. Follows(w, t) /\ Sound(t) /\ Len(t.sockets) = Len(w.sockets)
  <2>1. Follows(w, t)
    BY <1>2, <1>5, QuieterSound DEF Follows
  <2> QED BY <1>5, <2>1 DEF Follows, Quieter, Fewer
<1>7. Quieter(t, active) /\ active.sockets[s] = a /\ a.delegate = told
  <2> DEFINE o == t.sockets[s]
  <2>1. o \in Socket
    BY <1>5
  <2>2. a \in Socket
    <3>1. TRUE \in BOOLEAN
      OBVIOUS
    <3> HIDE DEF o
    <3>2. [o EXCEPT !.isActive = TRUE] \in Socket
      BY <2>1, <3>1, ZenonT(30) DEF Socket
    <3> QED BY <3>2 DEF o
  <2>3. a.reliable = o.reliable /\ a.upgraded = o.upgraded
    BY <2>1 DEF Socket
  <2>4. a.delegate = o.delegate /\ a.timer = o.timer
    BY <2>1 DEF Socket
  <2> HIDE DEF a
  <2>5. s \in 1 .. Len(t.sockets)
    BY <1>3, <1>6
  <2>6. /\ a.reliable = t.sockets[s].reliable /\ a.upgraded = t.sockets[s].upgraded
        /\ (a.delegate => t.sockets[s].delegate) /\ (a.timer => t.sockets[s].timer)
    BY <2>3, <2>4
  <2> HIDE DEF o
  <2>7. Quieter(t, active)
    BY <1>5, <2>2, <2>5, <2>6, OneSocket, ZenonT(30)
  <2>8. active.sockets[s] = a
    BY <1>5, <2>2, <2>5, <2>6, OneSocket
  <2> QED BY <2>4, <2>7, <2>8 DEF o
<1> HIDE DEF active, a
<1>8. Follows(t, active) /\ Sound(active) /\ Len(active.sockets) = Len(t.sockets)
  <2>1. Follows(t, active)
    BY <1>6, <1>7, QuieterSound
  <2> QED BY <1>7, <2>1 DEF Follows, Quieter, Fewer
<1>9. Follows(t, seen) /\ Len(seen.sockets) = Len(t.sockets)
  <2>1. CASE seen = t
    BY <1>6, <2>1, FollowsSame
  <2>2. CASE seen = active
    BY <1>8, <2>2
  <2>3. CASE told /\ seen = DidShutdown(t, s, upgraded)
    BY <1>3, <1>6, <2>3, DidShutdownFollows
  <2>4. CASE told /\ seen = DidBecomeActive(active, s)
    <3>1. s \in 1 .. Len(active.sockets) /\ active.sockets[s].delegate
      BY <1>3, <1>6, <1>7, <1>8, <2>4
    <3>2. Follows(active, seen) /\ seen.sockets = active.sockets
      BY <1>8, <2>4, <3>1, DidBecomeActiveFollows
    <3> QED BY <1>8, <3>2, FollowsTwice
  <2> HIDE DEF told
  <2> QED BY <2>1, <2>2, <2>3, <2>4
<1> HIDE DEF seen
<1>10. Follows(seen, tunnel')
  <2>1. seen \in TunnelType /\ s \in 0 .. Len(seen.sockets)
    BY <1>3, <1>6, <1>9 DEF Follows, Sound
  <2>2. Quieter(seen, tunnel')
    BY <1>1, <2>1, FreedIs
  <2> QED BY <1>9, <2>2, QuieterSound DEF Follows
<1> QED
  BY <1>2, <1>6, <1>9, <1>10, FollowsTwice, FollowsLeads DEF Inv

\* A socket times out: the one in use is given up, and its endpoint was tried.
LEMMA SocketTimerLeads ==
  ASSUME Inv, NEW s \in Sockets, SocketTimer(s)
  PROVE  Leads(tunnel, tunnel')
<1>1. PICK wrong \in BOOLEAN :
         /\ wrong = (~tunnel.sockets[s].isActive)
         /\ TunnelWith(~tunnel.sockets[s].isActive) = TunnelWith(wrong)
  <2>1. (~tunnel.sockets[s].isActive) \in BOOLEAN
    OBVIOUS
  <2> QED BY <2>1, Zenon
<1> DEFINE w == TunnelWith(wrong)
           p == w.sockets[s]
           n == [p EXCEPT !.timer = FALSE]
           q == [w.sockets EXCEPT ![s] = n]
           t == [w EXCEPT !.sockets = q]
           x == [t EXCEPT !.shouldReconnect = TRUE]
           y == Shutdown(x, s)
           skipped == y.skipped \/ t.sockets[s].upgraded
           z == [y EXCEPT !.skipped = skipped]
<1>2. /\ tunnel' = IF t.sockets[s].isActive \/ ~t.sockets[s].delegate THEN t
                   ELSE IF ~t.sockets[s].reliable THEN y ELSE TryNext(z)
      /\ tunnel.sockets[s].timer
  BY <1>1, SMTT(30) DEF SocketTimer
<1>3. /\ Follows(tunnel, w) /\ w.sockets = tunnel.sockets
  BY <1>1, TunnelWithIs, ZenonT(30) DEF Inv, SocketTimer, May
<1> HIDE DEF w
<1>4. w \in TunnelType /\ s \in 1 .. Len(w.sockets) /\ p \in Socket /\ p.timer /\ Sound(w)
  <2>1. w \in TunnelType /\ w.sockets \in Seq(Socket) /\ Sound(w)
    BY <1>3, ZenonT(30) DEF Follows, Sound, TunnelType
  <2> QED BY <1>2, <1>3, <2>1 DEF Sockets
<1>5. n \in Socket /\ n.reliable = p.reliable /\ n.upgraded = p.upgraded
  <2>1. FALSE \in BOOLEAN
    OBVIOUS
  <2> HIDE DEF p
  <2> QED BY <1>4, <2>1, ZenonT(30) DEF Socket
<1>6. n.delegate = p.delegate /\ ~n.timer
  <2> HIDE DEF p
  <2>1. n.delegate = p.delegate /\ n.timer = FALSE
    BY <1>4 DEF Socket
  <2> QED BY <2>1
<1> HIDE DEF n
<1>7. Quieter(w, t) /\ t \in TunnelType /\ t.sockets[s] = n
  <2>1. /\ n.reliable = w.sockets[s].reliable /\ n.upgraded = w.sockets[s].upgraded
        /\ (n.delegate => w.sockets[s].delegate) /\ (n.timer => w.sockets[s].timer)
    BY <1>5, <1>6
  <2> HIDE DEF p
  <2>2. Quieter(w, t) /\ t \in TunnelType
    BY <1>4, <1>5, <2>1, OneSocket, ZenonT(30)
  <2>3. t.sockets[s] = n
    BY <1>4, <1>5, <2>1, OneSocket
  <2> QED BY <2>2, <2>3
<1> HIDE DEF t
<1>8. /\ Follows(w, t) /\ Sound(t) /\ Len(t.sockets) = Len(w.sockets)
      /\ SameSession(w, t) /\ SameWork(w, t) /\ SamePlace(w, t) /\ t.socket = w.socket
  <2>1. Follows(w, t) /\ SameSession(w, t) /\ SameWork(w, t) /\ SamePlace(w, t)
        /\ t.socket = w.socket
    BY <1>4, <1>7, QuieterSound
  <2> QED BY <1>7, <2>1 DEF Follows, Quieter, Fewer
<1>9. CASE tunnel' = t
  BY <1>3, <1>8, <1>9, FollowsTwice, FollowsLeads DEF Inv
<1>10. /\ x \in TunnelType /\ x.sockets = t.sockets /\ x.socket = t.socket
       /\ SameStop(t, x) /\ SameSession(t, x)
  <2>1. TRUE \in BOOLEAN
    OBVIOUS
  <2>2. x \in TunnelType
    BY <1>7, <2>1, ZenonT(30) DEF TunnelType
  <2> QED BY <1>7, <2>2, ZenonT(30) DEF TunnelType, SameStop, SameSession
<1>11. SameWork(t, x) /\ SamePlace(t, x)
  BY <1>7 DEF TunnelType, SameWork, SamePlace
<1> HIDE DEF x
<1>12. Sound(x) /\ Follows(t, x)
  BY <1>8, <1>10, <1>11, SoundAside DEF Follows, SameSession
<1>13. Quieter(x, y)
  BY <1>4, <1>8, <1>10, ShutdownIs
<1> HIDE DEF y
<1>14. /\ Follows(x, y) /\ Sound(y) /\ y \in TunnelType /\ SameWork(x, y) /\ SamePlace(x, y)
       /\ y.socket = x.socket
  BY <1>12, <1>13, QuieterSound DEF Follows, Sound
<1>15. Follows(tunnel, y)
  BY <1>3, <1>8, <1>12, <1>14, FollowsTwice
<1>16. CASE tunnel' = y
  BY <1>15, <1>16, FollowsLeads DEF Inv
<1>17. CASE t.sockets[s].delegate /\ tunnel' = TryNext(z)
  <2>1. skipped \in BOOLEAN
    OBVIOUS
  <2>2. ~skipped => y.skipped = FALSE /\ ~p.upgraded
    <3>1. y.skipped \in BOOLEAN
      BY <1>14 DEF TunnelType
    <3> QED BY <1>5, <1>7, <3>1
  <2> HIDE DEF skipped
  <2>3. z \in TunnelType /\ z.sockets = y.sockets /\ z.socket = y.socket
    <3>1. z \in TunnelType
      BY <1>14, <2>1, ZenonT(30) DEF TunnelType
    <3>2. z.sockets = y.sockets /\ z.socket = y.socket
      BY <1>14, <2>1 DEF TunnelType
    <3> QED BY <3>1, <3>2
  <2>4. /\ z.remote = y.remote /\ z.endpoints = y.endpoints /\ z.endpoint = y.endpoint
        /\ z.tried = y.tried /\ z.skipped = skipped
    BY <1>14 DEF TunnelType
  <2>5. SameStop(y, z) /\ SameSession(y, z)
    BY <1>14 DEF TunnelType, SameStop, SameSession
  <2>6. SameWork(y, z)
    BY <1>14 DEF TunnelType, SameWork
  <2> HIDE DEF z
  <2>7. Linked(z) /\ (y.twice \/ Single(y) => z.twice \/ Single(z))
    BY <1>14, <2>3, <2>5, <2>6 DEF Sound, Linked, Single, Pending, SameWork, SameSession
  <2>8. z.twice \/ z.skipped \/ Progress(z)
    <3> SUFFICES ASSUME ~z.twice, ~z.skipped PROVE Progress(z)
      OBVIOUS
    <3>1. Progress(y)
      BY <1>14, <2>2, <2>4, <2>6 DEF Sound, SameWork
    <3> QED BY <2>3, <2>4, <2>6, <3>1 DEF Progress, SameWork, HasRemote, HasEndpoint
  <2>9. Sound(z)
    BY <1>14, <2>3, <2>7, <2>8 DEF Sound
  <2>10. z.twice \/ z.skipped \/ Finished(z)
    <3> SUFFICES ASSUME ~z.twice, ~z.skipped PROVE Finished(z)
      OBVIOUS
    <3>1. /\ z.remote = w.remote /\ z.endpoints = w.endpoints /\ z.endpoint = w.endpoint
          /\ z.tried = w.tried /\ y.skipped = w.skipped
      BY <1>8, <1>11, <1>14, <2>4 DEF SamePlace
    <3>2. z.resolving = w.resolving /\ z.next = w.next /\ z.twice = w.twice
      BY <1>8, <1>11, <1>14, <2>6 DEF SameWork
    <3>3. ~w.twice /\ ~w.skipped /\ ~p.upgraded
      BY <2>2, <2>4, <3>1, <3>2
    <3>4. Single(w) /\ Progress(w)
      BY <1>4, <3>3 DEF Sound
    <3>5. s = w.socket /\ s # NoSocket
      <4>1. p.delegate
        BY <1>6, <1>7, <1>17
      <4> QED BY <1>4, <3>4, <4>1 DEF Single, NoSocket
    <3>6. z.next = 0 /\ Len(z.resolving) = 0
      <4>1. Pending(w) = 0
        <5>1. Pending(w) # 0 => w.socket = NoSocket
          BY <3>4 DEF Single
        <5> QED BY <3>5, <5>1
      <4>2. Len(w.resolving) \in Nat /\ w.next \in Nat /\ Len(w.reconnects) \in Nat
        BY <1>4 DEF TunnelType
      <4> QED BY <3>2, <4>1, <4>2 DEF Pending
    <3>7. HasRemote(w) /\ <<w.remote, w.endpoint[w.remote]>> \in w.tried
      BY <1>4, <3>3, <3>4, <3>5 DEF Progress
    <3>8. z.socket = s /\ ~z.sockets[s].timer
      <4>1. y.sockets[s].timer => x.sockets[s].timer
        BY <1>4, <1>8, <1>10, <1>13 DEF Quieter, Fewer
      <4> QED BY <1>6, <1>7, <1>8, <1>10, <1>14, <2>3, <3>5, <4>1
    <3> QED BY <3>1, <3>6, <3>7, <3>8 DEF Finished
  <2>11. Follows(y, z)
    BY <2>5, <2>9 DEF Follows, SameSession
  <2>12. Follows(z, tunnel')
    BY <1>17, <2>9, <2>10, TryNextFollows
  <2> QED BY <1>15, <2>11, <2>12, FollowsTwice, FollowsLeads DEF Inv
<1> QED
  BY <1>2, <1>9, <1>16, <1>17

\* startTunnel connects.
LEMMA StartTunnelStarts ==
  ASSUME Inv, StartTunnel
  PROVE  Sound(tunnel') /\ StopOK(tunnel') /\ tunnel'.start # "none"
<1> DEFINE x == [tunnel EXCEPT !.start = "pending", !.session = "idle"]
<1>1. tunnel = NewTunnel /\ tunnel.start = "none"
  BY DEF Inv, Asleep, StartTunnel
<1>2. tunnel' = Connect(x)
  BY DEF StartTunnel
<1>3. Sound(tunnel) /\ tunnel \in TunnelType /\ Idle(tunnel) /\ tunnel.session = "none"
  BY <1>1, NewTunnelSound DEF Inv, Sound
<1>4. /\ x \in TunnelType /\ x.start = "pending" /\ x.session = "idle"
      /\ x.link = tunnel.link /\ x.sockets = tunnel.sockets /\ x.socket = tunnel.socket
  BY <1>3, ZenonT(30) DEF TunnelType
<1>5. SameWork(tunnel, x) /\ SamePlace(tunnel, x)
  BY <1>3 DEF TunnelType, SameWork, SamePlace
<1>6. SameStop(tunnel, x)
  BY <1>3 DEF TunnelType, SameStop
<1> HIDE DEF x
<1>7. Linked(x) /\ Fewer(tunnel.sockets, x.sockets)
  <2>1. tunnel.sockets \in Seq(Socket)
    BY <1>3 DEF TunnelType
  <2>2. Fewer(tunnel.sockets, x.sockets)
    BY <1>4, <2>1 DEF Fewer
  <2> QED BY <1>3, <1>4, <1>5, <2>2 DEF Sound, Linked, SameWork
<1>8. Sound(x) /\ Idle(x)
  <2>1. Sound(x)
    BY <1>3, <1>4, <1>5, <1>7, SoundKept
  <2> QED BY <1>3, <1>4, <1>5, <2>1 DEF Idle, Pending, SameWork
<1>9. Follows(x, tunnel')
  BY <1>2, <1>8, ConnectFollows
<1> QED
  BY <1>4, <1>6, <1>9 DEF Follows, Inv, StopOK, SameStop

\* Nothing else happens before.
LEMMA OnlyStart ==
  ASSUME Inv, tunnel.start = "none", Next
  PROVE  StartTunnel
<1>1. tunnel = NewTunnel
  BY DEF Inv, Asleep
<1>2. /\ tunnel.session = "none" /\ tunnel.sockets = <<>> /\ tunnel.resolving = <<>>
      /\ tunnel.late = {} /\ tunnel.next = 0 /\ tunnel.reconnects = <<>>
      /\ tunnel.disposals = 0 /\ tunnel.networkUp = 0 /\ tunnel.exit = "no"
      /\ ~tunnel.stopTimer
  BY <1>1, NewTunnelSound
<1>3. ~StopTunnel
  BY DEF StopTunnel
<1>4. ~Blocks /\ ~Twice
  BY <1>2 DEF Blocks, Twice, StopTimer, AfterDNSFailure, Reconnect, ReallyDispose, NetworkUp
<1>5. Sockets = {}
  BY <1>2 DEF Sockets
<1>6. ~Observe /\ ~Network
  BY <1>5 DEF Observe, Network
<1>7. ~Session
  BY <1>2 DEF Session, SessionStarts, SessionStops, ExitWritten
<1> QED
  BY <1>3, <1>4, <1>6, <1>7 DEF Next, Calls

\* Every step but the start.
LEMMA StepLeads ==
  ASSUME Inv, tunnel.start # "none", Next
  PROVE  Leads(tunnel, tunnel')
<1>1. ASSUME Calls PROVE Leads(tunnel, tunnel')
  BY <1>1, StopTunnelLeads DEF Calls, StartTunnel
<1>2. ASSUME Blocks PROVE Leads(tunnel, tunnel')
  <2>1. CASE StopTimer
    BY <2>1, StopTimerLeads
  <2>2. CASE AfterDNSFailure
    BY <2>2, AfterDNSFailureLeads
  <2>3. CASE Reconnect
    BY <2>3, ReconnectLeads
  <2>4. CASE ReallyDispose
    BY <2>4, ReallyDisposeLeads
  <2>5. ASSUME NEW i \in DOMAIN tunnel.resolving,
               NEW n \in 0 .. Endpoints[tunnel.resolving[i]], Resolved(i, n)
        PROVE  Leads(tunnel, tunnel')
    BY <2>5, ResolvedLeads
  <2>6. ASSUME NEW failed \in BOOLEAN, NetworkUp(failed) PROVE Leads(tunnel, tunnel')
    BY <2>6, NetworkUpLeads
  <2> QED BY <1>2, <2>1, <2>2, <2>3, <2>4, <2>5, <2>6 DEF Blocks
<1>3. ASSUME Observe PROVE Leads(tunnel, tunnel')
  <2>1. ASSUME NEW s \in Sockets, NEW upgraded \in BOOLEAN, ObserveState(s, upgraded)
        PROVE  Leads(tunnel, tunnel')
    BY <2>1, ObserveStateLeads
  <2> QED BY <1>3, <2>1, SocketTimerLeads, BetterPathLeads DEF Observe
<1>4. ASSUME Network PROVE Leads(tunnel, tunnel')
  BY <1>4, ReadyLeads, FailLeads DEF Network
<1>5. ASSUME Session PROVE Leads(tunnel, tunnel')
  BY <1>5, SessionStartsLeads, SessionStopsLeads, ExitWrittenLeads DEF Session
<1>6. ASSUME Twice PROVE Leads(tunnel, tunnel')
  BY <1>6, ResolvedTwiceLeads DEF Twice
<1> QED
  BY <1>1, <1>2, <1>3, <1>4, <1>5, <1>6 DEF Next

\* The invariant holds at first.
LEMMA InvInit ==
  ASSUME Init
  PROVE  Inv
  BY NewTunnelSound DEF Init, Inv, Asleep

\* Every step keeps it.
LEMMA InvNext ==
  ASSUME Inv, [Next]_tunnel
  PROVE  Inv'
<1>1. CASE UNCHANGED tunnel
  BY <1>1 DEF Inv
<1>2. CASE Next /\ tunnel.start = "none"
  <2>1. Sound(tunnel') /\ StopOK(tunnel') /\ tunnel'.start # "none"
    BY <1>2, OnlyStart, StartTunnelStarts
  <2> QED BY <2>1 DEF Inv, Asleep
<1>3. CASE Next /\ tunnel.start # "none"
  BY <1>3, StepLeads DEF Leads, Inv, Asleep
<1> QED
  BY <1>1, <1>2, <1>3

\* It holds always.
LEMMA Invariant ==
  Spec => []Inv
<1>1. Init => Inv
  BY InvInit
<1>2. Inv /\ [Next]_tunnel => Inv'
  BY InvNext
<1> QED
  BY <1>1, <1>2, PTL DEF Spec

-----------------------------------------------------------------------------
(* What the provider is meant to do.                                       *)

\* Every variable of the provider has its type: the session has a link exactly
\* while it is up, of a socket that exists, and the remote is one that is
\* configured or the one after them.
THEOREM Typed == Spec => []TypeOK
<1>1. ASSUME Inv PROVE TypeOK
  <2>1. tunnel \in TunnelType /\ Linked(tunnel) /\ tunnel.sockets \in Seq(Socket)
    BY <1>1, ZenonT(30) DEF Inv, Sound, TunnelType
  <2>2. /\ tunnel.start \in {"none", "pending", "ok", "failed", "dropped"}
        /\ tunnel.session \in {"none", "idle", "linked", "started"}
        /\ tunnel.exit \in {"no", "shutdown", "reconnect"}
    BY <2>1 DEF TunnelType
  <2>3. /\ tunnel.remote \in 1 .. Remotes + 1 /\ tunnel.wrong \in 0 .. MaxFaults
        /\ tunnel.stopCalls \in Nat /\ tunnel.next \in Nat
        /\ tunnel.disposals \in Nat /\ tunnel.networkUp \in Nat
    BY <2>1 DEF TunnelType
  <2>4. {tunnel.socket, tunnel.link} \subseteq {NoSocket} \cup Sockets
    <3>1. tunnel.socket \in 0 .. Len(tunnel.sockets) /\ tunnel.link \in 0 .. Len(tunnel.sockets)
      BY <2>1 DEF Linked
    <3>2. \A k \in 0 .. Len(tunnel.sockets) : k \in {NoSocket} \cup Sockets
      BY <2>1 DEF NoSocket, Sockets
    <3> QED BY <3>1, <3>2
  <2>5. \A s \in Sockets : tunnel.sockets[s].state \in {"preparing", "ready", "cancelled", "failed"}
    <3>1. \A s \in Sockets : tunnel.sockets[s] \in Socket
      BY <2>1 DEF Sockets
    <3> QED BY <3>1 DEF Socket, States
  <2>6. tunnel.link # NoSocket <=> tunnel.session \in {"linked", "started"}
    BY <2>1 DEF Linked
  <2> QED BY <2>2, <2>3, <2>4, <2>5, <2>6 DEF TypeOK
<1> QED
  BY <1>1, Invariant, PTL

\* The session never talks over a socket that was given up: setLink, finish and
\* sessionDidStop keep its link the socket that the provider observes.
THEOREM TalksOverSocket == Spec => []LinkOfSocket
<1>1. ASSUME Inv PROVE LinkOfSocket
  BY <1>1 DEF Inv, Sound, Single, LinkOfSocket
<1> QED
  BY <1>1, Invariant, PTL

\* Nor does the provider listen to another: connectTunnel observes a new socket only
\* after it has forgotten the one before.
THEOREM ObservesSocket == Spec => []OneObserved
<1>1. ASSUME Inv PROVE OneObserved
  BY <1>1 DEF Inv, Sound, Single, OneObserved, Sockets
<1> QED
  BY <1>1, Invariant, PTL

\* tryNextEndpoint gives no remote up before a socket was created for each of its
\* endpoints.
THEOREM TriesAll == Spec => []AllTried
<1>1. ASSUME Inv PROVE AllTried
  BY <1>1 DEF Inv, Sound, Progress, AllTried
<1> QED
  BY <1>1, Invariant, PTL

\* The disposal that answers stopTunnel answers once, unless the timer has.
THEOREM StopsOnce == Spec => []StopOnce
<1>1. ASSUME Inv PROVE StopOnce
  BY <1>1 DEF Inv, StopOK, StopOnce
<1> QED
  BY <1>1, Invariant, PTL

\* No late answer, timer or observation brings back a session that was let go of.
THEOREM RemainsDown == Spec => StaysDown
<1>1. ASSUME Inv, [Next]_tunnel
      PROVE  [tunnel.start # "none" /\ tunnel.session = "none" => tunnel'.session = "none"]_tunnel
  BY <1>1, StepLeads DEF Leads
<1> QED
  BY <1>1, Invariant, PTL DEF Spec, StaysDown
=============================================================================

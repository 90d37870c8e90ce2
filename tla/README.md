# TunnelKit in TLA+

TunnelKit is a VPN client library for Apple platforms: an OpenVPN client
written in Swift and Objective-C, a thin layer over WireGuard, and the code
that runs both inside a packet tunnel extension. This directory holds TLA+
modules that model its OpenVPN core, its WireGuard provider and the managers
that an application drives both with, configurations that model-check them with
TLC, and theorems proved with TLAPS. Every definition is translated from the
source; `PROJECT.json` names the lines each one stands for.

Contents

1. The system
2. Modules, and how they correspond to the code
3. Runs
4. Bounds
5. Fairness
6. Disagreements between the code and what it says of itself
7. Proofs
8. What is only model-checked, and what is not modelled
9. Plan

To check everything, parse a module with SANY, run
`tlc -config <run>.cfg <module>` for each run of `PROJECT.json`, and
`tlapm` on each of `ReplayProtectorProofs.tla`, `ControlChannelProofs.tla`,
`ControlLinkProofs.tla`, `OpenVPNSessionProofs.tla` (three minutes),
`DataPathProofs.tla`, `StreamLinkProofs.tla` (two minutes),
`TunnelProviderProofs.tla` and `VPNSystemProofs.tla`.

## 1. The system

Paths are below `src/Sources`.

| Component | State | Operations | Talks to |
|---|---|---|---|
| **Session** `TunnelKitOpenVPNProtocol/OpenVPNSession.swift`, `SessionKey.swift` | the link, the ring of keys, the state of each key, authenticator, push reply, scheduled ticks and pings, the stop under way | `setLink`, `loopNegotiation`, `receiveLink`, `handleControlPacket`, `pushRequest`, `softReset`, `ping`, `shutdown`, `reconnect`, `cleanup` | control channel and data path (calls), the link (reads, writes), the provider (delegate) |
| **Key ring** `OpenVPNSession.swift` | `keys`, `oldKeys`, `negotiationKeyIdx`, `currentKeyIdx`, `isRenegotiating` | hard reset, soft reset, transition, cleanup | part of the session |
| **Control channel** `ControlChannel.swift` | outbound and inbound queues, packet ids, pending acks | enqueue, write and retransmit, read acks, queue inbound, reset | session |
| **Serialization** `ControlChannelSerializer.swift`, `ControlPacket.m` | replay id and timestamp of tls-auth/tls-crypt | wrap and unwrap control packets | control channel |
| **Replay protection** `CTunnelKitOpenVPNProtocol/ReplayProtector.m` | the highest packet id, a bitmap of four words | `isReplayedPacketId` | data path |
| **Data path** `DataPath.m`, `CryptoAEAD.m`, `CryptoCBC.m`, ... | outbound packet id, packets of the running call, framing | `encryptPackets`, `decryptPackets` | session, replay protection, OpenSSL, LZO |
| **Tunnel provider** `TunnelKitOpenVPNAppExtension/OpenVPNTunnelProvider.swift` | socket, session, pending start and stop handlers, whether to reconnect | `startTunnel`, `stopTunnel`, connection, disposal, callbacks of sockets and session | everything |
| **Endpoint selection** `ConnectionStrategy.swift`, `ResolvedRemote` | remotes, resolved endpoints, two indexes | `tryNextEndpoint`, `createSocket` | provider, DNS resolver |
| **Sockets** `TunnelKitAppExtension/Transport/NE*Socket.swift` | active or not, shut down or not, activity timer | `observe`, `shutdown`, state changes | Network Extension, provider (delegate) |
| **Links** `NEUDPLink.swift`, `NETCPLink.swift`, `PacketStream.m`, `XOR.h`, `XORProcessor.swift` | the rest of a TCP stream | reads, writes, framing, scrambling | session |
| **DNS resolver** `TunnelKitCore/DNSResolver.swift` | whether the answer was given | resolve with timeout | provider |
| **Authenticator, push reply** | random material, parsed options | encode, parse | session |
| **Configuration**, **network settings** | parser state; none | parse; build | provider |
| **WireGuard provider** `TunnelKitWireGuardAppExtension/WireGuardTunnelProvider.swift` | whether the tunnel is started, scheduled refreshes; the data count and last error in shared preferences | `startTunnel`, `stopTunnel`, `refreshDataCount` | the adapter (requests, completions), the system |
| **VPN managers** `TunnelKitManager/NetworkExtensionVPN.swift` | none of its own: the preferences of the system | `install`, `reconnect`, `disconnect`, `uninstall` | NetworkExtension (awaits) |
| **Keychain**, **support code** | see section 8 | | |

How they interact. The operating system calls `startTunnel` and `stopTunnel`
on the provider. The provider resolves a remote, makes a socket, observes it,
and, when the socket is active, gives its link to the session. The session
sends a hard reset, does a TLS handshake and an exchange of keys inside control
packets, asks for the options, and reports the start; from then on it moves
data packets, renegotiates keys, and pings. All of these are blocks on one
dispatch queue, `tunnelQueue`. Control packets go over a link that may lose,
repeat and reorder; acknowledgement and retransmission are the control
channel's. The session reports its stop to the provider, which shuts the socket
down; the socket reports its shutdown to the provider, which reconnects or
disposes of the tunnel. On the other side of the system, the application's VPN
manager saves and removes configurations in the system's preferences and asks
for starts and stops; the system runs a provider accordingly. The WireGuard
provider hands the tunnel to an adapter and counts its data by a timer.

What is hard in this code, and where the properties aim:

* *Reentrancy.* A stop that can write no exit notification runs the delegate,
  and with it the whole clean-up of the session, inside the handler that asked
  for the stop. The handler goes on after that.
* *Blocks that outlive their purpose.* Ticks, pings, write completions and
  state changes of sockets are scheduled and run later, on a session or a
  socket that may have been cleaned up or replaced.
* *Overlapping negotiations.* Up to three keys are in use, ids wrap around, and
  both peers may start a renegotiation. Control packets of two negotiations
  share the ids, the session and the link.
* *An unreliable link*, under a protocol that must be reliable.
* *Completion handlers* that the operating system waits for.
* *A fixed bitmap* that stands for an unbounded history of packet ids.
* *A concurrent queue* under code that takes it to be serial.
* *Batches that fail half-way*, after state has changed for their first packets.
* *Two implementations of one conversion* (XOR), one for each kind of link.
* *Tasks that await between looking a manager up and saving it*, while other
  tasks and the system change the preferences.

What makes the components correct:

| Component | Correct when |
|---|---|
| Replay protection | no id passes twice; an id that is new and not too old always passes |
| Control channel | each direction of a negotiation is a reliable stream; nothing leaves the queue before the server has it; what is acknowledged is kept |
| Key ring | the current key and the one before it are in the ring while a third is negotiated, and their ids differ |
| Session | no fatal error; a negotiation always has a tick ahead and ends; a started session watches for a silent server; client and server agree on the key; the delegate hears once of a start and of a stop |
| Data path | the tunnel gets what the replay window let through, unchanged; no outbound id is used twice; a session stops only for a cause |
| Links | what is read is what was written, in order, wherever the stream is cut |
| VPN managers, WireGuard provider | what was disconnected stays down; one manager for an identifier; a data count that was cleared stays away, and one that is old is cleared |
| Provider | the session uses the socket that is observed; each endpoint is tried; the handlers of start and stop are called; a session that should be restarted is |

## 2. Modules, and how they correspond to the code

```
ReplayWindow  <== refines ==  ReplayProtector  <- ReplayProtectorProofs
                                   |
                  Framing ---- DataPath        <- MCDataPath, DataPathProofs

ReliableStream <= refines ==  ControlLink      <- MCControlLink, ControlLinkProofs
                                   |
                              ControlChannel   <- ControlChannelProofs
                                   |
          KeyRing ----------  SessionState --- OpenVPNSession  <- MCOpenVPNSession
                                                     |
                                             OpenVPNSessionProofs
                       TunnelProvider          <- MCTunnelProvider, TunnelProviderProofs

Scramble - PacketStream - StreamLink           <- MCStreamLink, StreamLinkProofs

NetworkExtension - NetworkExtensionVPN -+
                                        +- VPNSystem  <- MCVPNSystem, VPNSystemProofs
               WireGuardTunnelProvider -+
```

**ReplayProtector** models `ReplayProtector.m` and the checks that
`decryptPackets` makes around it. The bitmap is one set of bits per word; the
window test adds modulo `IdSpace`, as the C code does in 32 bits. Its abstract
specification, **ReplayWindow**, remembers every id ever delivered.

**Framing** has the four framings of `setCompressionFraming`: `Assemble` is
`assemblePayloadBlock`, `Parse` is `parsePayloadBlock` with the decompression
after it. A byte is its hexadecimal name. Under V2 the parser moves the start of
the payload by two bytes and its length by one, so that a byte from behind the
packet comes in; `Parse` therefore returns a set of outcomes.

**DataPath** composes both into the data path of one key, and adds the outbound
half. A call of `decryptPackets` is several steps: `BeginDecrypt`, a `Decrypt` or
`DecryptFails` for each packet, and `EndDecrypt`, which writes to the tunnel.
`Decrypt` makes the checks in the order of the code: range of the id, replay
window (which remembers the id at once), framing, keep-alive. A failure drops the
packets of the call and stops the session. `Encrypt` is a batch, with the id
looked at once before it. `PathSpec` implements `Spec` of `ReplayProtector`, and
with it `ReplayWindow`.

**Scramble** has the XOR methods twice, as `XOR.h` (in place, on buffers) and as
`XORProcessor.swift`. A byte is the set of its bits that are on, so the positions
that are mixed in wrap as they do in the code. **PacketStream** is the
framing of packets in a TCP stream, and **StreamLink** one direction of such a
link: writes, reads that return any number of bytes from two to the size of the
buffer, the rest kept in a buffer. The peer is external and uses the
other implementation, so that both are checked against each other.

**ControlChannel** has the queues of `ControlChannel.swift` as a record and its
methods as operators. A queue is a function from packet ids to contents. Two
modules use it. **ControlLink** drives it as the session does, over sets of
packets in flight, against a server that acknowledges and retransmits: this is
where losses and acknowledgements are. `handled` is what `handleControlPacket`
was given under each key; a packet of another key, which it drops, is in there
as `Dropped`, because it has taken the turn of one that is due.
**ReliableStream** is what one
direction promises: two counters.

**KeyRing** has the ring of keys as a record, and hard reset, soft reset and
transition as operators on it.

**SessionState** has a session as one record, and the methods of
`OpenVPNSession` as operators from a session to the session they leave behind,
composed in the order of the source: `Stop` is `deferStop`, `DidStop` what
`doShutdown` and the delegate do, `LoopNegotiation`, `PushRequest`,
`HandleControlPacket` and the rest bear the names of the source. A fatal error
is recorded in `crashed`. The negotiation of a key goes through
`hardReset`/`softReset`, `tls`, and then `preAuth`, `preIfConfig`, `connected`.
What may go wrong comes in two forms. An `Env` is what one handler finds: the
session id of the packet does not match, a TLS call or the set-up of a cipher
fails, there is no gateway. `failing` is what fails wherever it is called at the
moment: encrypting with the current key, when its packet ids have run out or its
cipher fails, and serializing a control packet. So `Stop`
waits for an exit notification only if it can be encrypted, and every
`Enqueue`, `Flush` and `SendAck` may stop the session in the middle of its caller,
which goes on as the code does.

**OpenVPNSession** has the blocks of the queue as actions, and an external
server that answers. A read handler is several steps (`Read`, one `ReceiveLink`
for each packet, one `HandleControl` for each control packet that is in order);
`Free` says that other blocks wait for it to finish, which the constant
`Concurrent` lifts. `Fail` changes `failing` at any time, until the session stops.
What is written to the link stays in `wire` until the server takes it. `back` is what
the server has sent; on UDP a read takes any of it, in any order, copies included. Contents are the names of the messages:
a TLS handshake is a `hello` each way and a `finished`.

**TunnelProvider** has the provider with its sockets, endpoints and pending
blocks as one record, the methods as operators, and as actions the calls of
the operating system, the blocks of the queue, what the framework does to a
connection, and what a session reports. The session is reduced to what the
provider can see of it: `idle`, `linked`, `started` or gone. What goes wrong is
one of `Faults`, and counted, so that any `MaxFaults` of them may come together.
The record has four histories: `twice` (a resolution has called its handler
twice), `skipped` (the upgrade of a TCP socket has timed out), `forced` (the
timer was the first to call the stop handler) and `tried`.

**NetworkExtension** is the framework as this code uses it, external: managers in
preferences, and one tunnel. A save of a manager that has changed since it was
loaded fails. **NetworkExtensionVPN** has the methods that an application calls,
each as a task with one step from an await to the next. What `loadAllFromPreferences`
returns is a set, as the framework promises no order, and the loops take its
members in any. `off` and `overlap` are
histories for the properties. **WireGuardTunnelProvider** has the provider on its
serial queue, with `dataCountInterval` above 0, and the adapter, external, that
answers requests one after the other. **VPNSystem** puts the two together: it starts and stops the provider as
the preferences and the calls ask, frees it when its tunnel is down, and starts
tunnels on demand.

The MC modules say which bounds they are checked with and why. Operators that
begin with *Mutant:* are wrong variants of the definition that follows. Each
property is tried against one of them, to see that it notices.

## 3. Runs

`CHECK_DEADLOCK FALSE` is in the runs of sessions and tunnels, because one that
has stopped does nothing more. The other systems never stop.

| Run | Question | Result |
|---|---|---|
| `control` | Do the queues lose, repeat or reorder packets over a lossy link and a renegotiation that starts when nothing of the former key is in flight? | `NothingForgotten`, `InOrder`, `AckedIsKept` hold |
| `control_live` | Does a negotiation get everything through? | each direction implements `ReliableStream`, and all arrives |
| `session_udp` | Over UDP, with two renegotiations from either side, reordering and copies, a link that is lost and another, stops, timeouts, a silent, restarting or refusing server, session ids, TLS data and ciphers that are refused, and calls that fail at any time: does the process end in an orderly session, is there a dead loop, a key that cannot be used or that the server does not have? | it ends only in the rest of a handler that a stop ran in; all else holds |
| `session_tcp` | Over TCP, with a server that answers: does the session connect, and does each of four renegotiations end, past the point where an id is used again, without a fatal error? | holds |
| `session_auth_failed` | Does a refused authentication stop the session in good order? | violated: fatal error |
| `session_replay` | Is a renegotiation always one that the server knows of, when a SOFT_RESET may come again after its negotiation? | violated |
| `session_concurrent` | Do the handlers tolerate the queue that the provider gives them? | violated: fatal error |
| `provider` | One remote over TCP and one over UDP, and any three of: a resolution that fails or answers twice, a socket that fails, is slow or has a better path, a session that stops, a missing gateway, settings that are refused; with a stop at any time. Is each endpoint tried, is the link that of the observed socket, does a session that was let go stay gone, and are both handlers answered, the one of the stop once? | holds, with the exemptions that section 6 explains |
| `provider_reconnect` | Is a session that asks to be restarted restarted? | violated |
| `data` | Under every framing, with ids in any order, batches that fail half-way, payloads that look like headers and a counter at its end: does the tunnel get each packet once and unchanged, and does the bitmap decide as the full history would? | holds; it implements `ReplayWindow` |
| `stream` | Are packets whole and in order after TCP has cut them anywhere, for every XOR method and both of its implementations? | holds |
| `vpn` | Two tasks of the application, the system and the WireGuard provider: does a tunnel that was disconnected stay down, is there one manager for an identifier, does an old data count go away and not come back? | holds |

The properties:

* `NoReplay`, `WindowInv`, `ImplementsWindow`: at most one delivery per id; the
  bitmap's bits are exactly the ids delivered within its words; the verdict on
  every packet is that of the full history.
* `OutIdsOnce`: no outbound id is used twice, nor 0. `TunnelGetsAll`: as long as
  the session runs, what was let through is what the tunnel got, byte by byte.
  It would fail if the session survived a batch that failed half-way: the
  ids of its first packets are remembered and their copies refused.
  `StopsForCause`: with payloads that V2 can tell from headers, the framing never
  stops a session.
* `InStep`: what was handed over, the buffer and what is on the way are always
  exactly what was sent. `Drains`: everything is handed over in the end, except
  that a last byte that comes alone waits for another.
* `OffStaysOff`, `NoTwins`, `NoGhostCount`, `CountCleared`: see the comments in
  `VPNSystem`. The first relates a task that has ended to tasks that sleep and
  to the rules on demand; the third relates three queues.
* `NothingForgotten`: a packet leaves the outbound queue only when the server
  has it under the key it was sent for. `InOrder`: what is handled is a prefix
  of what the server sent. `AckedIsKept`: the ack goes out before the packet is
  queued, so what was acknowledged must be in the queue or handled.
* `NoCrash`: none of the `fatalError` calls is reached. `CrashAfterStop`: when one
  is, the session had stopped, and what reached it is the rest of the handler
  that the stop ran in; no order of packets, ticks and failures leads an orderly
  session to one. `RingInv`: the ids in
  the ring, exactly, until the provider lets go of the session. `LoopAlive`, `PingAlive`: the two self-scheduling blocks
  have not been lost. `KeysUsable`, `OldKeyKept`: the current and the previous
  key have a data path, also across a renegotiation. `KeysAgree`: the client
  encrypts with a key the server has. `NoPhantom`: a renegotiation under way is
  one that the server knows of or will hear of, unless the session is stopping because
  it could not ask. `DelegateOnce`: one start and
  one stop for each link (proved, and checked by no run: see below). `Connects`, `Settles`: the handshake and every
  renegotiation end.
* `LinkOfSocket`, `OneObserved`, `AllTried`, `StaysDown`, `StopOnce`,
  `StartAnswered`, `StopAnswered`, `Restarted`: see the comments in
  `TunnelProvider`.

`NoCrash` itself holds over UDP only without the faults that stop the session inside
the handler of a packet, each of which ends as `session_auth_failed` shows:

* before there is a current key: `tls` and `tls_later` (TLS data is refused, lines
  765-778, 634), `mismatch` (the packet has the session id of another session, lines 742
  and 794; the next packet of the same read then finds no negotiation key at line
  718), `encryption`, `no_routes` and `auth_failed`;
* with a current key, too: `encrypt`, the exit notification cannot be
  encrypted (line 1261; the counter of packet ids is at its end, as in the run
  `data`, or the cipher fails). A RESTART handled then cleans the session up under
  `handleControlData`, and line 826 asks for the key;
* anywhere: `serialize`, a control packet or an acknowledgement cannot be serialized
  (lines 1007 and 1187).

`session_udp` has these faults (all but `no_routes`, which the handler treats like
`auth_failed`), and therefore checks `CrashAfterStop`. With none of them, that is with
`stop`, `link_lost`, `timeout`, `silence`, `restart`, `gateway` and `random` (no session id
can be drawn, line 548), `NoCrash` and `DelegateOnce` hold in its place; add
`mismatch`, `serialize` or `encrypt` to those and TLC finds `NoCrash` violated at once.
`NoFatalError` proves it for any number of keys, `session_tcp` checks it over TCP
without faults. `DelegateOnce` fails when a stop runs in a handler that stops the
session again (section 6); it is proved under the conditions of section 7.
`early_reset`, a server that asks for a renegotiation before the first push
reply, ends in the fatal error of `setupEncryption` (line 1046); no OpenVPN
server does that. The model has all of them, as `Faults`.

## 4. Bounds

* `data`: 3 words of 2 bits instead of 4 of 32, ids below 13, of which 8 may be
  used and 2 fit into the gap above. The window (4 ids) and the bitmap (6) are
  passed, so each word is reused. Calls of 2 packets are enough for one that
  fails after another that did not. The five payloads: an IPv4 packet, an IPv6 packet
  that LZO shortens, one whose first byte is a header of LZO, a keep-alive, and one
  whose first byte is the header of V2. The proofs cover every size and payload.
* `stream`: bytes of 2 bits, packets of 1, 2, 4 and 5 bytes, 3 packets in writes
  of up to 2, reads of up to 5 bytes. A length of 4 or 5 needs both bytes of its
  header; a reversal has no middle, or one, or one after a swap; a position is
  cut off at the width of a byte; a read ends at every byte of a header.
* `vpn`: two calls at a time, of five methods each; two identifiers; a
  manager that is there before, so that no call is spent on it. Two requests that
  wait for the adapter.
* `control`: 2 packets out, 3 in, 2 keys: a gap, its filling, a retransmission
  and one renegotiation. The retransmission limit is a choice, at each write,
  of the packets that were written a moment ago.
* `session_udp`: 4 key ids (the smallest ring that the ids allow), 2
  renegotiations (after which the first key has been removed), reads of 2
  packets, 2 links, 6 control packets per negotiation sent by ticks (two
  requests for the options, so that a reply may come late). The server says
  nothing more after AUTH_FAILED or RESTART. `Fail` stands still once the session is
  stopping.
  `session_tcp`: 4 renegotiations, so that key 1 is used a second time.
  Packets carry their key and id, so 2 packets in a read are enough for one to
  be handled in a state that the other one changed.
* The model drops from `wire`, when a negotiation starts, packets older than
  the former negotiation: key ids are used again, and a packet delayed over a
  whole turn of the ring is out of scope. The same goes for the way back: on UDP
  a read takes only what the server said for its present key and the one before
  (`server.sent` and `server.before` count these), copies of it only while a
  negotiation is under way, and a SOFT_RESET once. `Replays` lifts both: any packet may come at any time.
* `provider`: one remote of two endpoints over TCP and one of one over UDP are
  enough to go to the next endpoint, the next remote, another protocol and past
  the last one. Three faults (`MaxFaults`) are one more than it takes to exhaust
  a remote in the middle of something else; five sockets are more than three faults
  ever create, so `MaxSockets` cuts nothing off.
  `provider_reconnect`: one endpoint and one fault.

## 5. Fairness

* `ControlLink`: the tick of the negotiation is weakly fair, because
  `loopNegotiation` schedules itself while the negotiation lasts. So are the
  server's retransmissions. Delivery is strongly fair per packet: the link may
  lose any copy, but not all of infinitely many.
* `OpenVPNSession` (`FairSpec`): a dispatch queue runs what it holds, so ticks,
  reads, write completions and the loops over packets are weakly fair; the date
  of a push request passes; the server answers. Requests to stop, faults, the
  choice of when to renegotiate and pings are not fair.
* `TunnelProvider` (`FairSpec`): blocks and timers of the queue are weakly fair,
  each notification and timer of a socket on its own, and so is the timer of
  a stop; a session with a link is negotiated in the end (`Connects` of
  `OpenVPNSession`); the framework completes a write (`ExitWritten`). A connection
  gets ready unless it fails or is too slow, and both are counted faults. That
  a resolution answers a second time (`Twice`) is not fair: it may happen and
  need not.
* `StreamLink`: a read completes when there are two bytes. Nobody has to write.
* `VPNSystem`: the queue of the provider, its timer and the adapter. The system
  and the application are not fair: `CountCleared` holds whatever they do.

## 6. Disagreements between the code and what it says of itself

Four runs are expected to find a violation. `PROJECT.json` quotes the lines.

1. `session_auth_failed`: during the first negotiation (and on TCP always)
   there is no exit notification to write, so `deferStop` calls the delegate
   inside `handleControlMessage`; the provider cleans the session up, and the
   loop in `handleControlPacket` then asks for `negotiationKey`, a fatal error.
   Section 3 lists the other stops inside a handler that end this way. The code there logs that it will retry without local options.
2. `session_replay`: `receiveLink` starts a renegotiation for any SOFT_RESET
   outside of one, before it looks at key and packet id. A copy that comes
   after the renegotiation has ended starts one more, with a key the server
   knows nothing of; the negotiation timeout then ends the session.
3. `session_concurrent`: the provider's queue is concurrent. A stop between two
   packets of a read removes the keys under the handler.
4. `provider_reconnect`: `sessionDidStop` lets go of the session before it
   closes the socket, and `socket(_:didShutdownWithFailure:)` returns when there
   is no session; so the code that reconnects is not reached. `StartAnswered`
   exempts the state this leads to.

What else the code does that its authors may not expect. The models do it too;
where it would violate a property, the property names the exemption.

* *Late acks and packets of the former key* (`ControlChannel.swift:177`, "drop
  queued out packets if ack-ed"). A renegotiation starts over with packet id 0 in
  the same session, and `readAcks` compares session and packet ids only. A late ack
  of the former key removes a packet of the new one, which is never sent again.
  Likewise `enqueueInboundPacket` sees no key: a late packet of the former one takes
  the turn of the packet with its id, before `handleControlPacket` drops it. With
  `Orderly = FALSE` the configuration `control.cfg` finds `InOrder` and
  `NothingForgotten` violated within seconds.
* *Two stops for one link.* `deferStop` is guarded by `isStopping`, which the
  clean-up by the delegate clears (line 297). When a packet cannot be serialized in
  the middle of a handler, the rest of the handler may ask for another stop, and
  `sessionDidStop` is called again; a handler that was starting a renegotiation
  goes on to do so, in a session that was cleaned up.
* *A write that outlives its link.* The completion of the exit notification
  looks at no link (line 1256, unlike lines 1018 and 1195): when the link was lost and
  another one set in the meantime, the session on the new link is stopped.
* *A resolution that answers twice* (`DNSResolver.swift:42`). The timeout cancels
  the resolution and then calls the handler; the cancellation wakes the other
  queue, which finds `pendingHandler` not yet cleared, and its answer calls the
  captured handler again. The provider then moves on twice, and an endpoint
  is never tried; or it makes two sockets and observes both (`twice`).
* *A TCP socket that was upgraded and times out* moves on to the next endpoint a
  second time, once for each socket (`OpenVPNTunnelProvider.swift:526`); the one in
  between is skipped (`skipped`).
* *A forced stop* (line 292) leaves `pendingStopHandler` set, so a disposal that
  comes later calls the handler a second time (`forced`). On macOS the
  process has ended by then.
* `shouldReconnect`, set by the timeout of a socket, is not cleared by a later
  success; the next shutdown of a socket reconnects.
* The network settings may complete after the session has stopped (line 661):
  the handler reports a successful start of a tunnel without a session.
* When the last TCP endpoint times out (line 535), the tunnel is disposed of
  while the shutdown of its socket also schedules a reconnection.
* A name that resolves after a stop still makes a socket (line 381). It comes to
  nothing: `StaysDown`.
* *V2 framing* (`DataPath.m:178`): the assembler escapes only payloads that begin
  with 0x50, the parser also takes 0xfa, 0xfb and 0x66 for headers. 0x66 is the
  first byte of some IPv6 packets (traffic class); such a packet, without LZO,
  stops the session. After an escape the payload has one byte too many.
* *Two installations at a time* each make a manager when none is there
  (`overlap`).
* *A disconnection that meets a manager changed since it was loaded* stops the tunnel
  and fails to disable it; `try?` hides that (`NetworkExtensionVPN.swift:88`), and
  rules on demand may bring the tunnel up again.
* A WireGuard start that fails does not clear a data count that was left by
  a former tunnel.
* On TCP a single byte waits for another one (`readMinimumLength(2)`).

## 7. Proofs

**ReplayProtectorProofs** proves, for every size of bitmap and word and every
`IdSpace` that satisfy `ReplayAssumption`, and every order of packets:
`TypeCorrect`, `BitmapCorrect` (`WindowInv`), `ReplaySafe` (`NoReplay`) and
`WindowRefinement` (`ImplementsWindow`). The assumption that matters is
`MaxPacketId + ReplayWinsize < IdSpace`, the gap that `DataPath` leaves below
2^32: without it the sum in the window test wraps around. `NoReplay` is not
inductive. The invariant is `TypeOK`, `HighestSeen` (the highest id was
delivered, and 0 never was) and `BitmapExact` (bits are ids delivered, within
the last `BitmapLen` words). Lemmas about `div` and `%` show that the words
cleared when the window moves are exactly those that stand for new ids; the
window is one word narrower than the bitmap, so every id it lets through has a
bit of its own. Refinement follows step by step from the same invariant.

**OpenVPNSessionProofs** begins with the key ring, for every number of key ids of
at least four (`KeyRingAssumption`; the code has eight): `ThreeKeys`, that a key
and the two that follow it differ, so that a new key never replaces one in use;
`SoftResetKeepsRing` and `TransitionKeepsRing`, that these operations take a
ring that is `RingOK` to one that is, and what they keep. With three ids that
are not 0 the lemma is false, which is why the bound is four. `RingStaysSound`
below puts these steps together.

**ControlChannelProofs** has the lemmas about the queues that both users of them
need. `RunIsInterval`: the ids that `EnqueueInbound` takes off are the interval
from `nextIn` up to the first gap.

**ControlLinkProofs** proves every safety property of the runs `control` and
`control_live`, for every number of keys and of packets. Except for `Typed`
(`TypeOK`), the theorems assume `Separate`: `Orderly` holds or there is one key.
`Orderly` is used in one place, the start of the next negotiation
(`SoftResetKeeps`, `SoftResetKeepsIn`), and section 6 says why it cannot be left
out.

* `Retained` (`NothingForgotten`). The property speaks of what has left the
  queue; that it stays true when an ack comes in needs to be known of the acks
  in flight. `OutInv` adds that the queue holds packets of the key under
  negotiation, that nothing of another key is in flight on the way out or back
  as an ack, and that each ack is of a packet the server has.
* `HandledInOrder` (`InOrder`) and `AckedKept` (`AckedIsKept`). An ack says that
  the client keeps a packet, and the server stops repeating it when the ack
  comes; the packet may be handled much later. `InInv` follows it: what is on the
  way in or queued is of the key under negotiation and has been said by the server;
  what is acked, or no longer repeated, is queued or handled; and the next id to
  handle is the number of those handled.
* `UpReliable` and `DownReliable`: each direction of one negotiation implements
  `ReliableStream`, step by step; `UpImplements` and `DownImplements` state
  it of the properties of `control_live` without their fairness.

**OpenVPNSessionProofs**, in its main part, proves the properties of `session_udp` and
`session_tcp`,
for every number of key ids of at least four, of renegotiations, links, packets in
a read and on the wire. A block of the queue is a composition of a dozen operators
of `SessionState`, and most of them can end in `Stop`, which may clean the session up.
So the proof has one lemma for each operator, from `SetKey` and `Enqueue`
to `HandleControlPacket` and `LoopNegotiation`, that says what it makes of a sound
session (`Goes`: the negotiation moves on, `Keeps`, or the session stops). The
actions then combine these. There are four invariants; the other three are on top of the first,
and two of them need more of the link and of the peer. TLC, with sets that it can
enumerate in place of `Nat` and `Seq`, found none of them violated on the instances
of the runs that satisfy its hypotheses.

* `SessionInv` (`SessionSound`) is about the session alone. `Base`: its types; the
  shape of the ring (`Shape`, which is `RingOK` but for a completed renegotiation whose
  flag is still up); keys in use have a data path and are connected (`Usable`); the stage
  of a negotiation leaves behind what the next one needs, such as
  the credentials of the server before encryption is set up (`Stages`); a stopped session is
  not used again (`Ends`). `Ticking` and `Pinging` say what is scheduled on the queue,
  and `Softs` that a SOFT_RESET only comes to a session with a current key. It gives
  `SessionTyped` (`TypeOK`), `LoopStaysAlive` (`LoopAlive`), `PingStaysAlive`
  (`PingAlive`), `KeysStayUsable` (`KeysUsable`) and `OldKeyStaysKept` (`OldKeyKept`).
  The hypotheses are `Scope`. The queue is serial; `session_concurrent` shows that
  a concurrent one breaks it. The server renegotiates only a key in use. Control packets
  can be serialized. Where a stop runs inside a handler although there is a key
  (`Abrupt`: on TCP, and when exit notifications may fail to be encrypted), the peer's
  session id and TLS data are not refused: that would stop the session with the rest of
  the batch to come. For `OldKeyKept`
  the ciphers can be set up, too; without that,
  `OldKeyKeptInUse` still holds of a session that is not stopping.
* `Aftermath` says what becomes of a session without its keys: it has stopped, or no
  packet is left to be handled. It gives `CrashesAfterStop` (`CrashAfterStop`) under `Scope`:
  every fatal error is the end of a handler that a stop has run in. `SessionInv` has
  the rest, that a key under negotiation has what its next stage needs, so that
  `setupEncryption` in particular never finds an ingredient missing.
* `Synced` (`SessionSynced`) is about the session and its server. Of three keys that
  follow each other, `Used`, `Coming` and the one before, the server has one of the
  first two (`Near`). What it said last was for its key, and before that for the one
  before (`Recalled`). `WireKeys`, `Received` and `Holds` say what there may be on the wire,
  in the inbox and in the queues of the control channel for each of these; `WireSoft` and
  `OneSoft` that each side's SOFT_RESET for the next key is there at most once;
  `Asking` and `Handshake` that a server which
  does not negotiate the key yet will be asked to, and that the handshake is
  with one that does; `Lately`, that a server ahead of its client has said no more than
  its SOFT_RESET; `Arrives`, that TCP delivers in order. It gives
  `RingStaysSound` (`RingInv`), `KeysStayAgreed` (`KeysAgree`), `NoPhantomNegotiation`
  (`NoPhantom`) and `DelegateHearsOnce` (`DelegateOnce`): the first and the last because
  a PUSH_REPLY that comes to a renegotiation would complete it
  a second time, and it does not come. The hypothesis is `Timely`: on top of `Scope`,
  packets do not outlive their negotiation. `session_replay` shows that `NoPhantom`
  is false without it.
* `Sound` gives `NoFatalError` (`NoCrash`). A fatal error needs a handler that goes on
  after the session was cleaned up under it. `Sound` says that what is queued to be
  handled implies a link, that it holds no packet that stops the session at once
  (`Fit`), and that no PUSH_REPLY can come before the first one has been asked for. The
  hypotheses are `Calm`: UDP, where a stop with a current key waits for
  its exit notification to be written, which can be encrypted, and none of the failures
  that stop the session in a handler before there is such a key (section 3 lists them).
  `session_auth_failed` shows what happens with
  one of them; on TCP every stop in a handler is of that kind. What holds without `Calm` is
  `CrashesAfterStop`.

**DataPathProofs** proves every property of the run `data`, from
`ReplayAssumption` and `DataPathAssumption` (payloads are not empty, and the gap
above `MaxPacketId` takes a batch). `PathStepWindow` shows that each step of the data
path is one of the replay protector or leaves it alone, which gives
`PathNoReplay`, `PathBitmap` and `PathImplementsWindow`. `OutIdsUnique`: the
invariant `OutInv` says that no id above the counter has been used, and bounds
the counter by `MaxPacketId + MaxBatch`; without the assumption on the gap it would
wrap around inside a batch. `PathCarries` and `PathStops`: the invariant
`CarryInv` equates what the tunnel has and the running call holds with what the
window let through, as long as nothing has stopped the session and no
payload is ambiguous. For the packet that comes in this needs `FramingCarries`: for
every framing, with or without LZO, and every payload that is not `Ambiguous`,
what `Parse` makes of `Assemble` is the payload and no error; its lemmas say what
swapping back and decompression return, and `ParseOutcome` that an error is
`compression` or `lzo`, and why. That a failed call stops the session is what
keeps the equation when its packets go.

**TunnelProviderProofs** proves every safety property of the run `provider`, for
every list of remotes, any faults, any number of them and any number of sockets:
`Typed` (`TypeOK`), `TalksOverSocket` (`LinkOfSocket`), `ObservesSocket`
(`OneObserved`), `TriesAll` (`AllTried`), `StopsOnce` (`StopOnce`) and
`RemainsDown` (`StaysDown`). None of them is inductive, because each can
be broken by a block that is already scheduled. The invariant `Sound` says which
blocks there can be: `Single`, that at most one attempt to connect is pending
(a resolution, a next endpoint, or a reconnection), and then there is no socket, and
that only the current socket is observed; `Linked`, that the link is of the current
socket; `Progress`, that the endpoints before the current one were tried, that
later remotes are not resolved yet, and that a socket that may still time out is
of the current endpoint. The first and the third hold until a resolution
answers twice, the third until an upgraded socket times out: these are the exemptions
of section 6, and the invariant shows there are no others. `StopOK` relates the handler
of the stop to its timer. The proof follows the module: for each operator a
lemma says what it does to a sound tunnel (`Follows`, or `Leads` where the
stop is concerned), and the actions combine them.

**VPNSystemProofs** proves every safety property of the run `vpn`, for any set of
tasks and identifiers: `TurnedOff` (`OffStaysOff`), `OneManager` (`NoTwins`) and
`CountStaysAway` (`NoGhostCount`). For the first two the invariant is `AppInv`, on
the preferences and the tasks: a tunnel that runs is of an enabled manager; a task
that disconnects or uninstalls and has not failed still has every enabled manager
ahead of it (`Sweeps`), so that when it ends, none is; of two tasks that
overlap, no two hold a new manager for the same identifier (`Apart`). For the third
it is `ExtOK`, on the provider and its queues: a fetch that waits while the
adapter is up belongs to a tunnel that counts as started, so the count it brings
is not a ghost; a stop that has completed finds the adapter down; and a start
comes before everything else in the queue of requests.

**StreamLinkProofs** proves `InStep` (`StaysInStep`) for bytes of any number of
bits, any packets that are not empty and shorter than a header can tell, any
masks, and any way of cutting the stream. The invariant is `OnTheWay`: there are
packets `r` such that the packets sent are those handed over and then `r`, and
the bytes in the buffer and on the way are `r`, scrambled and framed. `InStep`
alone is not inductive: it speaks of what the reader would cut from the bytes
that are left, and not of what those bytes are. A write adds to `r` and a read takes
the first packets off, on the strength of two lemmas. `RoundTrip`: the in-place
C code and the Swift code are inverse to each other, by each method (the loop of
`xor_reverse`, whether it writes to fresh memory or to its own source, computes
the reverse of `XORProcessor`). `CutFrames`: of a stream of packets cut anywhere,
the loop of `packetsFromInboundStream` yields exactly the packets that are in the
first part in full, and stops where the last of them ends. The loops are recursive
functions; that such a function exists and what it computes is shown, without
induction, by the smallest argument for which it would fail (`LeastOf`). Powers of 2
are such a function as well (`Power`), since the provers know nothing of `2 ^ n`.

## 8. What is only model-checked, and what is not modelled

Every safety property of the passing runs has a theorem. Only model-checked: the
properties of `OpenVPNSession` outside of the hypotheses that section 7 gives. For
`session_udp` this is what goes past `Scope`: `serialize`, `random`, and `encrypt` together with
`mismatch` or `tls`; for `session_tcp`, `NoCrash` over TCP. Liveness under fairness (`Connects`, `Settles`, `UpArrives`, `StartAnswered`,
`StopAnswered`, `Restarted`, `Drains`, `CountCleared`) is out of TLAPS's reach and
stays so.

Not modelled:

* *Two calls of the data path at the same time.* Both use one buffer and one
  array; what they return is undefined. `session_concurrent` shows that the queue
  permits it.
* *A session's several data paths.* Each key has its own, and `DataPath` is one of
  them; which key a packet belongs to is the ring's matter.
* Packet layout, ciphers and TLS. The failures of native calls are inputs of the
  models. LZO is external. MSS clamping changes bytes of TCP SYN packets,
  without state.
* Push replies in several messages, and the counters of bytes.
* Configuration and network settings: pure functions over texts and values
  that nothing here tells apart. Serialization of control packets likewise.
* Keychain, logging, notifications, the mock of the manager and the demo have no
  states that TLC could tell apart.
* The headers of OpenSSL and minilzo, which are vendored and make up most of the
  lines of the repository.

## 9. Plan

Done, in this order, each with its runs: ReplayProtector and ReplayWindow; KeyRing,
ControlChannel, ControlLink and ReliableStream; SessionState and OpenVPNSession;
TunnelProvider with resolutions that race their timeout; Framing and DataPath;
Scramble, PacketStream and StreamLink; NetworkExtension, NetworkExtensionVPN,
WireGuardTunnelProvider and VPNSystem; and the proofs of section 7.

To come: theorems about the session with control packets that cannot be serialized,
the faults that `Scope` still excludes.

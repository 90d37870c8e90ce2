------------------------ MODULE OpenVPNSessionProofs ------------------------
(***************************************************************************)
(* A session on a serial queue (OpenVPNSession).  Four inductive           *)
(* invariants: SessionInv, of the session alone, and on top of it          *)
(* Aftermath, of what is left to a session without its keys; Synced, of    *)
(* what the session and its server know of each other; Sound, of what is   *)
(* left to be handled when a handler stops.                                *)
(* There is a lemma for each operator of SessionState, from the inner ones *)
(* to the handlers, and one for each action.                               *)
(***************************************************************************)
EXTENDS OpenVPNSession, ControlChannelProofs, SequenceTheorems, TLAPS

-----------------------------------------------------------------------------
(* The ring of data-channel keys stays in order for any number of key ids: *)
(* every operation on it keeps RingOK, under the conditions in which the   *)
(* session applies it.                                                     *)

\* The next key id is one of the ring, and never the initial one (softReset).
LEMMA FollowingId ==
    ASSUME NEW idx \in KeyIds
    PROVE  /\ Following(idx) \in KeyIds
           /\ Following(idx) # 0
           /\ Following(idx) = IF idx + 1 < NumberOfKeys THEN idx + 1 ELSE 1
<1>1. idx \in Nat /\ idx + 1 <= NumberOfKeys /\ NumberOfKeys >= 4 /\ NumberOfKeys \in Nat
  BY KeyRingAssumption DEF KeyIds
<1>2. CASE idx + 1 < NumberOfKeys
  <2>1. (idx + 1) % NumberOfKeys = idx + 1
    BY <1>1, <1>2
  <2> QED
    BY <1>1, <1>2, <2>1 DEF Following, KeyIds
<1>3. CASE idx + 1 = NumberOfKeys
  <2>1. (idx + 1) % NumberOfKeys = 0
    BY <1>1, <1>3
  <2> QED
    BY <1>1, <1>3, <2>1 DEF Following, KeyIds
<1> QED
  BY <1>1, <1>2, <1>3

\* Three keys that follow each other are three different keys: the one being
\* negotiated never takes the place of one that still decrypts.
THEOREM ThreeKeys ==
    ASSUME NEW idx \in KeyIds
    PROVE  /\ Following(idx) # idx
           /\ Following(Following(idx)) # Following(idx)
           /\ Following(Following(idx)) # idx
<1>1. NumberOfKeys >= 4 /\ NumberOfKeys \in Nat /\ idx \in Nat /\ idx < NumberOfKeys
  BY KeyRingAssumption DEF KeyIds
<1>2. Following(idx) = IF idx + 1 < NumberOfKeys THEN idx + 1 ELSE 1
  BY FollowingId
<1>3. Following(idx) \in KeyIds
  BY FollowingId
<1>4. Following(Following(idx)) = IF Following(idx) + 1 < NumberOfKeys
                                  THEN Following(idx) + 1 ELSE 1
  BY <1>3, FollowingId
<1>5. Following(idx) \in Nat
  BY <1>3 DEF KeyIds
<1> QED
  BY <1>1, <1>2, <1>4, <1>5

-----------------------------------------------------------------------------
\* The operations of the session on a ring.

Rings == [keys : SUBSET KeyIds, oldKeys : Seq(KeyIds), negotiationKeyIdx : KeyIds,
          currentKeyIdx : KeyIds \cup {NoIdx}, isRenegotiating : BOOLEAN]

\* The previous key is followed by the current one in oldKeys.
LEMMA AppendToOne ==
    ASSUME NEW S, NEW a \in S, NEW b \in S
    PROVE  LET all == Append(<<a>>, b)
           IN  Len(all) = 2 /\ Head(all) = a /\ Tail(all) = <<b>>
<1>1. <<a>> \in Seq(S) /\ <<a>> # <<>> /\ Len(<<a>>) = 1 /\ Head(<<a>>) = a
  OBVIOUS
<1>2. Tail(<<a>>) = <<>> /\ Append(<<>>, b) = <<b>>
  OBVIOUS
<1>3. /\ Head(Append(<<a>>, b)) = a
      /\ Tail(Append(<<a>>, b)) = Append(Tail(<<a>>), b)
  BY <1>1, HeadTailAppend
<1>4. Len(Append(<<a>>, b)) = 2
  BY <1>1
<1>5. Tail(Append(<<a>>, b)) = <<b>>
  BY <1>2, <1>3
<1> QED
  BY <1>3, <1>4, <1>5

\* Nothing negotiated, and the first negotiation (cleanup, hardReset).
LEMMA FirstNegotiation ==
    /\ EmptyRing \in Rings /\ RingOK(EmptyRing)
    /\ RingHardReset(EmptyRing) \in Rings /\ RingOK(RingHardReset(EmptyRing))
<1>1. 0 \in KeyIds
  BY KeyRingAssumption DEF KeyIds
<1>2. EmptyRing \in Rings /\ RingOK(EmptyRing)
  BY <1>1 DEF EmptyRing, Rings, RingOK
<1> DEFINE r == RingHardReset(EmptyRing)
<1>3. /\ r.keys = {0} /\ r.oldKeys = <<>> /\ r.negotiationKeyIdx = 0
      /\ r.currentKeyIdx = NoIdx /\ r.isRenegotiating = FALSE
  BY DEF RingHardReset, EmptyRing
<1>4. r \in Rings
  BY <1>1, <1>2 DEF RingHardReset, Rings
<1> QED
  BY <1>2, <1>3, <1>4 DEF RingOK

\* A renegotiation of an established ring (softReset): the next key joins the
\* ring, and the current one and the one before it stay what they were.
THEOREM SoftResetKeepsRing ==
    ASSUME NEW r \in Rings, RingOK(r), r.currentKeyIdx # NoIdx, ~r.isRenegotiating
    PROVE  /\ RingSoftReset(r) \in Rings /\ RingOK(RingSoftReset(r))
           /\ RingSoftReset(r).negotiationKeyIdx \notin r.keys
<1> DEFINE next == Following(r.negotiationKeyIdx)
           t == RingSoftReset(r)
<1>1. /\ r.currentKeyIdx \in KeyIds /\ r.negotiationKeyIdx = r.currentKeyIdx
      /\ r.keys = {r.negotiationKeyIdx} \cup Current(r) \cup Previous(r)
      /\ \/ r.oldKeys = <<>>
         \/ \E old \in KeyIds : r.oldKeys = <<old>> /\ r.currentKeyIdx = Following(old)
  BY DEF RingOK, EmptyRing
<1>2. /\ next \in KeyIds /\ next # 0 /\ next # r.currentKeyIdx
      /\ \A old \in KeyIds : r.currentKeyIdx = Following(old) => next # old
  BY <1>1, FollowingId, ThreeKeys
<1> HIDE DEF next
<1>3. /\ t.keys = r.keys \cup {next} /\ t.negotiationKeyIdx = next
      /\ t.isRenegotiating = TRUE /\ t.currentKeyIdx = r.currentKeyIdx
      /\ t.oldKeys = r.oldKeys /\ t \in Rings
  BY <1>2 DEF RingSoftReset, Rings, next
<1>4. Previous(t) = Previous(r) /\ Current(t) = Current(r)
  BY <1>3 DEF Previous, Current
<1>5. RingOK(t)
  <2>1. t.keys = {t.negotiationKeyIdx} \cup Current(t) \cup Previous(t)
    <3>1. r.negotiationKeyIdx \in Current(r)
      BY <1>1, KeyRingAssumption DEF Current, NoIdx, KeyIds
    <3> QED
      BY <1>1, <1>3, <1>4, <3>1
  <2> QED
    BY <1>1, <1>2, <1>3, <2>1 DEF RingOK, next
<1>6. next \notin r.keys
  <2>1. CASE r.oldKeys = <<>>
    BY <1>1, <1>2, <2>1 DEF Previous, Current
  <2>2. ASSUME NEW old \in KeyIds, r.oldKeys = <<old>>, r.currentKeyIdx = Following(old)
        PROVE  next \notin r.keys
    BY <1>1, <1>2, <2>2 DEF Previous, Current
  <2> QED
    BY <1>1, <2>1, <2>2
<1> QED
  BY <1>3, <1>5, <1>6

\* A completed negotiation (transitionKeys and cleanKeys, and pushRequest, which
\* ends the renegotiation): the new key is current, the one that was current can
\* still decrypt, and every other key is removed.
THEOREM TransitionKeepsRing ==
    ASSUME NEW r \in Rings, RingOK(r), r.keys # {},
           r.isRenegotiating \/ r.currentKeyIdx = NoIdx
    PROVE  LET t == [Transition(r) EXCEPT !.isRenegotiating = FALSE]
           IN  /\ t \in Rings /\ RingOK(t)
               /\ t.currentKeyIdx = r.negotiationKeyIdx
               /\ t.keys = {r.negotiationKeyIdx} \cup Current(r)
<1> DEFINE t == [Transition(r) EXCEPT !.isRenegotiating = FALSE]
<1>1. CASE r.currentKeyIdx = NoIdx
  <2>1. /\ r.keys = {0} /\ r.negotiationKeyIdx = 0 /\ 0 \in KeyIds
        /\ r.oldKeys = <<>> /\ r.isRenegotiating = FALSE
    BY <1>1, KeyRingAssumption DEF RingOK, EmptyRing, KeyIds, NoIdx
  <2>2. /\ t.keys = {0} /\ t.oldKeys = <<>> /\ t.negotiationKeyIdx = 0
        /\ t.currentKeyIdx = 0 /\ t.isRenegotiating = FALSE /\ t \in Rings
    <3>1. ~(Len(r.oldKeys) > 1)
      BY <2>1
    <3>2. Transition(r) = [r EXCEPT !.keys = r.keys, !.oldKeys = r.oldKeys,
                                    !.currentKeyIdx = r.negotiationKeyIdx]
      BY <1>1, <3>1 DEF Transition
    <3> QED
      BY <2>1, <3>2 DEF Rings
  <2>3. t \in Rings /\ RingOK(t)
    <3>1. Current(t) = {0} /\ Previous(t) = {}
      BY <2>2 DEF Current, Previous, NoIdx
    <3> QED
      BY <2>1, <2>2, <3>1 DEF RingOK
  <2>4. Current(r) = {}
    BY <1>1 DEF Current
  <2> QED
    BY <2>1, <2>2, <2>3, <2>4
<1>2. CASE r.currentKeyIdx # NoIdx
  <2> DEFINE cur == r.currentKeyIdx
             neg == r.negotiationKeyIdx
  <2>1. /\ cur \in KeyIds /\ neg = Following(cur) /\ neg # 0 /\ neg \in KeyIds
        /\ r.keys = {neg} \cup Current(r) \cup Previous(r)
        /\ \/ r.oldKeys = <<>>
           \/ \E old \in KeyIds : r.oldKeys = <<old>> /\ cur = Following(old)
    BY <1>2, FollowingId DEF RingOK, EmptyRing
  <2>2. neg # cur /\ cur # NoIdx /\ Current(r) = {cur}
    BY <1>2, <2>1, ThreeKeys DEF Current
  <2>3. t.oldKeys = <<cur>> /\ t.keys = {neg, cur}
    <3>1. CASE r.oldKeys = <<>>
      <4>1. Append(r.oldKeys, cur) = <<cur>> /\ Len(<<cur>>) = 1 /\ Previous(r) = {}
        BY <3>1 DEF Previous
      <4> QED
        BY <1>2, <2>1, <2>2, <4>1 DEF Transition, Rings
    <3>2. ASSUME NEW old \in KeyIds, r.oldKeys = <<old>>, cur = Following(old)
          PROVE  t.oldKeys = <<cur>> /\ t.keys = {neg, cur}
      <4> DEFINE all == Append(r.oldKeys, cur)
      <4>5. Len(all) = 2 /\ Head(all) = old /\ Tail(all) = <<cur>>
        BY <2>1, <3>2, AppendToOne
      <4>1. Previous(r) = {old}
        BY <3>2 DEF Previous
      <4>2. old # cur /\ old # neg
        BY <2>1, <3>2, ThreeKeys
      <4>3. r.keys \ {old} = {neg, cur}
        BY <2>1, <2>2, <4>1, <4>2
      <4> QED
        BY <1>2, <4>3, <4>5 DEF Transition, Rings
    <3> QED
      BY <2>1, <3>1, <3>2
  <2>4. /\ t.negotiationKeyIdx = neg /\ t.currentKeyIdx = neg
        /\ t.isRenegotiating = FALSE
    BY DEF Transition, Rings
  <2>5. t \in Rings
    <3>1. <<cur>> \in Seq(KeyIds) /\ {neg, cur} \in SUBSET KeyIds
      BY <2>1
    <3>2. t = [r EXCEPT !.keys = t.keys, !.oldKeys = t.oldKeys,
                        !.currentKeyIdx = t.currentKeyIdx, !.isRenegotiating = FALSE]
      BY DEF Transition, Rings
    <3> QED
      BY <2>1, <2>3, <2>4, <3>1, <3>2 DEF Rings
  <2>6. Current(t) = {neg} /\ Previous(t) = {cur}
    BY <2>1, <2>3, <2>4, KeyRingAssumption DEF Current, Previous, KeyIds, NoIdx
  <2>7. RingOK(t)
    BY <2>1, <2>3, <2>4, <2>6 DEF RingOK
  <2> QED
    BY <2>2, <2>3, <2>4, <2>5, <2>7
<1> QED
  BY <1>1, <1>2

-----------------------------------------------------------------------------
(* The types of a session.                                                 *)

\* What the server says, and what is said at all.
Said   == {"HARD_RESET", "SOFT_RESET", "hello", "auth_reply", "PUSH_REPLY",
           "PUSH_REPLY without routes", "AUTH_FAILED", "RESTART"}
Bodies == Said \cup {"finished", "auth", "PUSH_REQUEST"}
Packet == [key : KeyIds, id : Nat, body : Bodies]
Answer == [key : KeyIds, id : Nat, body : Said]

\* Nothing is queued that was handled, and the queue ends.
Bounded(ch) == \E limit \in Nat : /\ ch.nextIn <= limit
                                  /\ DOMAIN ch.inbound \subseteq ch.nextIn + 1 .. limit - 1

Channels == {ch \in [outbound : UNION {[ids -> Bodies] : ids \in SUBSET Nat}, nextOut : Nat,
                     pendingAcks : SUBSET Nat,
                     inbound : UNION {[ids -> Answer] : ids \in SUBSET Nat}, nextIn : Nat] :
                Bounded(ch)}

SessionKeys == [state : {"invalid", "hardReset", "softReset", "tls"},
                controlState : {"none", "preAuth", "preIfConfig", "connected"},
                isTLSConnected : BOOLEAN, dataPath : BOOLEAN]

SessionType ==
    [link : BOOLEAN, isStopping : BOOLEAN, ring : Rings, key : [KeyIds -> SessionKeys],
     authenticator : {"none", "sent", "authenticated", "reset"}, pushReply : BOOLEAN,
     nextPushRequestDate : BOOLEAN, channel : Channels,
     inbox : Seq(Answer), due : Seq(Answer), ticks : Nat, pings : Nat, exit : {"no", "pending"},
     wire : SUBSET Packet, failing : SUBSET ({"encrypt"} \cap Faults), alive : BOOLEAN, starts : Nat, stops : Nat, resets : Nat,
     crashed : {"no", "no server randoms", "no PUSH_REPLY", "no negotiation key",
                "no remote address"}]

LEMMA FreshChannelType == FreshChannel \in Channels
<1>1. <<>> \in [{} -> Bodies] /\ <<>> \in [{} -> Answer] /\ DOMAIN <<>> = {}
  OBVIOUS
<1>2. {} \in SUBSET Nat
  OBVIOUS
<1>3. /\ <<>> \in UNION {[ids -> Bodies] : ids \in SUBSET Nat}
      /\ <<>> \in UNION {[ids -> Answer] : ids \in SUBSET Nat}
  BY <1>1, <1>2, ZenonT(30)
<1>4. Bounded(FreshChannel)
  BY <1>1 DEF Bounded, FreshChannel
<1> QED
  BY <1>3, <1>4, ZenonT(30) DEF FreshChannel, Channels

\* enqueueOutboundPackets, for one packet.
LEMMA EnqueueOutboundType ==
  ASSUME NEW ch \in Channels, NEW body \in Bodies
  PROVE  LET u == EnqueueOutbound(ch, <<body>>)
         IN  /\ u \in Channels /\ u.nextOut = ch.nextOut + 1
             /\ u.inbound = ch.inbound /\ u.nextIn = ch.nextIn
<1> DEFINE fresh == ch.nextOut .. ch.nextOut + Len(<<body>>) - 1
           out == [id \in DOMAIN ch.outbound \cup fresh |->
                     IF id \in fresh THEN <<body>>[id - ch.nextOut + 1] ELSE ch.outbound[id]]
           next == ch.nextOut + Len(<<body>>)
           u == [ch EXCEPT !.outbound = out, !.nextOut = next]
<1>1. EnqueueOutbound(ch, <<body>>) = u
  BY DEF EnqueueOutbound
<1>2. Len(<<body>>) = 1 /\ <<body>>[1] = body /\ ch.nextOut \in Nat
  BY DEF Channels
<1>3. fresh = {ch.nextOut} /\ next = ch.nextOut + 1 /\ next \in Nat
  BY <1>2
<1>4. PICK ids \in SUBSET Nat : ch.outbound \in [ids -> Bodies]
  BY DEF Channels
<1>5. out \in [ids \cup {ch.nextOut} -> Bodies] /\ ids \cup {ch.nextOut} \in SUBSET Nat
  <2>1. \A id \in fresh : <<body>>[id - ch.nextOut + 1] = body
    BY <1>2, <1>3
  <2>2. DOMAIN ch.outbound = ids /\ \A id \in ids : ch.outbound[id] \in Bodies
    BY <1>4
  <2> HIDE DEF fresh
  <2> QED BY <1>2, <1>3, <2>1, <2>2, ZenonT(30)
<1>6. out \in UNION {[s -> Bodies] : s \in SUBSET Nat}
  BY <1>5, ZenonT(30)
<1> HIDE DEF out, next
<1>7. /\ u.nextOut = ch.nextOut + 1 /\ u.inbound = ch.inbound /\ u.nextIn = ch.nextIn
      /\ u \in [outbound : UNION {[s -> Bodies] : s \in SUBSET Nat}, nextOut : Nat,
               pendingAcks : SUBSET Nat,
               inbound : UNION {[s -> Answer] : s \in SUBSET Nat}, nextIn : Nat]
  BY <1>3, <1>6, ZenonT(30) DEF Channels
<1>8. Bounded(u)
  BY <1>7 DEF Channels, Bounded
<1> QED
  BY <1>1, <1>7, <1>8, ZenonT(30) DEF Channels

\* enqueueInboundPacket: the queue and what it hands over.
LEMMA EnqueueInboundType ==
  ASSUME NEW ch \in Channels, NEW packet \in Answer
  PROVE  LET u == EnqueueInbound(ch, packet.id, packet)
             due == Handled(ch, packet.id, packet)
         IN  /\ u \in Channels /\ due \in Seq(Answer) /\ u.nextOut = ch.nextOut
             /\ \A i \in 1 .. Len(due) :
                    due[i] = packet \/ \E id \in DOMAIN ch.inbound : due[i] = ch.inbound[id]
             /\ \A id \in DOMAIN u.inbound :
                    u.inbound[id] = packet
                    \/ (id \in DOMAIN ch.inbound /\ u.inbound[id] = ch.inbound[id])
<1> DEFINE queue == Joined(ch, packet.id, packet)
           run == Run(queue, ch.nextIn)
           due == Handled(ch, packet.id, packet)
           l == ch.nextIn + Cardinality(run)
           rest == Without(queue, run)
           u == [ch EXCEPT !.inbound = rest, !.nextIn = l]
<1>1. EnqueueInbound(ch, packet.id, packet) = u
  BY DEF EnqueueInbound
<1>2. packet.id \in Nat /\ ch.nextIn \in Nat
  BY DEF Channels, Answer
<1>3. PICK top \in Nat : ch.nextIn <= top /\ DOMAIN ch.inbound \subseteq ch.nextIn + 1 .. top - 1
  BY DEF Channels, Bounded
<1> DEFINE limit == IF packet.id < top THEN top ELSE packet.id + 1
<1>4. /\ limit \in Nat /\ packet.id \in 0 .. limit - 1 /\ ch.nextIn \in 0 .. limit
      /\ DOMAIN ch.inbound \subseteq ch.nextIn + 1 .. limit - 1
  BY <1>2, <1>3
<1> HIDE DEF limit
<1>5. /\ l \in ch.nextIn .. limit
      /\ run = ch.nextIn .. l - 1
      /\ l \notin DOMAIN queue
      /\ ch.nextIn .. l - 1 \subseteq DOMAIN queue
      /\ DOMAIN queue \subseteq ch.nextIn .. limit - 1
      /\ DOMAIN due = 1 .. l - ch.nextIn
      /\ \A n \in 1 .. l - ch.nextIn : due[n] = queue[ch.nextIn + n - 1]
  BY <1>4, InboundStep
<1>6. \A id \in DOMAIN queue : queue[id] \in Answer
         /\ (queue[id] = packet \/ (id \in DOMAIN ch.inbound /\ queue[id] = ch.inbound[id]))
  <2>1. PICK ids \in SUBSET Nat : ch.inbound \in [ids -> Answer]
    BY DEF Channels
  <2> QED BY <2>1, ZenonT(30) DEF Joined
<1> HIDE DEF queue, run, due, l
<1>7. \A n \in 1 .. l - ch.nextIn : ch.nextIn + n - 1 \in DOMAIN queue
  BY <1>2, <1>5
<1>8. due \in Seq(Answer) /\ Len(due) = l - ch.nextIn
  <2>1. \A n \in DOMAIN due : due[n] \in Answer
    BY <1>5, <1>6, <1>7
  <2>2. l - ch.nextIn \in Nat
    BY <1>2, <1>5
  <2>3. due = [n \in 1 .. l - ch.nextIn |-> due[n]]
    BY <1>5 DEF due, Handled
  <2> DEFINE m == l - ch.nextIn
  <2>4. due \in [1 .. m -> Answer]
    BY <1>5, <2>1, <2>3
  <2> HIDE DEF m
  <2>5. m \in Nat => due \in Seq(Answer) /\ Len(due) = m
    BY <2>4
  <2> QED BY <2>2, <2>5 DEF m
<1>9. \A i \in 1 .. Len(due) :
         due[i] = packet \/ \E id \in DOMAIN ch.inbound : due[i] = ch.inbound[id]
  BY <1>5, <1>6, <1>7, <1>8, ZenonT(30)
<1>10. /\ DOMAIN rest \subseteq l + 1 .. limit - 1 /\ l \in Nat /\ l <= limit
       /\ \A id \in DOMAIN rest : rest[id] = queue[id] /\ id \in DOMAIN queue
  BY <1>2, <1>4, <1>5 DEF Without
<1>11. rest \in UNION {[s -> Answer] : s \in SUBSET Nat}
  <2>1. rest \in [DOMAIN queue \ run -> Answer]
    BY <1>6 DEF Without
  <2>2. DOMAIN queue \ run \in SUBSET Nat
    BY <1>2, <1>4, <1>5
  <2> QED BY <2>1, <2>2
<1> HIDE DEF rest
<1>12. /\ u \in [outbound : UNION {[s -> Bodies] : s \in SUBSET Nat}, nextOut : Nat,
               pendingAcks : SUBSET Nat,
               inbound : UNION {[s -> Answer] : s \in SUBSET Nat}, nextIn : Nat]
       /\ u.inbound = rest /\ u.nextIn = l /\ u.nextOut = ch.nextOut
  BY <1>10, <1>11, ZenonT(30) DEF Channels
<1>13. Bounded(u)
  BY <1>4, <1>10, <1>12 DEF Bounded
<1>14. u \in Channels
  BY <1>12, <1>13 DEF Channels
<1>15. \A id \in DOMAIN rest : rest[id] = packet
                    \/ (id \in DOMAIN ch.inbound /\ rest[id] = ch.inbound[id])
  BY <1>6, <1>10
<1> QED
  <2> HIDE DEF u
  <2> QED BY <1>1, <1>8, <1>9, <1>12, <1>14, <1>15 DEF due

LEMMA FreshSessionType == FreshSession \in SessionType
<1>1. NoKey \in SessionKeys
  BY DEF NoKey, NewKey, SessionKeys
<1>2. [k \in KeyIds |-> NoKey] \in [KeyIds -> SessionKeys]
  BY <1>1
<1>3. <<>> \in Seq(Answer) /\ {} \in SUBSET Packet /\ {} \in SUBSET ({"encrypt"} \cap Faults)
  OBVIOUS
<1>4. 0 \in Nat /\ FALSE \in BOOLEAN /\ TRUE \in BOOLEAN
  OBVIOUS
<1>5. EmptyRing \in Rings
  BY FirstNegotiation
<1>6. FreshChannel \in Channels
  BY FreshChannelType
<1>7. "none" \in {"none", "sent", "authenticated", "reset"} /\ "no" \in {"no", "pending"}
    /\ "no" \in {"no", "no server randoms", "no PUSH_REPLY", "no negotiation key",
                "no remote address"}
  OBVIOUS
<1> HIDE DEF NoKey
<1> QED
  BY <1>2, <1>3, <1>4, <1>5, <1>6, <1>7, ZenonT(30) DEF FreshSession, SessionType

\* A session of this type can serialize.
LEMMA FailingIs ==
  ASSUME NEW s \in SessionType
  PROVE  /\ "serialize" \notin s.failing
         /\ "encrypt" \in s.failing => "encrypt" \in Faults
         /\ Flush(s) = s /\ SendAck(s) = s
<1>1. s.failing \in SUBSET ({"encrypt"} \cap Faults)
  BY ZenonT(30) DEF SessionType
<1> QED
  BY <1>1 DEF Flush, SendAck

-----------------------------------------------------------------------------
(* The ring of a session.                                                  *)

Settled(r) == [r EXCEPT !.isRenegotiating = FALSE]
InUse(r)   == Current(r) \cup Previous(r)

\* In order, or a renegotiation that a PUSH_REPLY has completed: the flag stays.
Shape(r) == \/ RingOK(r)
            \/ /\ r.isRenegotiating /\ r.negotiationKeyIdx = r.currentKeyIdx
               /\ RingOK(Settled(r))

LEMMA SettledIs ==
  ASSUME NEW r \in Rings
  PROVE  LET t == Settled(r)
         IN  /\ t \in Rings /\ t.keys = r.keys /\ t.oldKeys = r.oldKeys
             /\ t.negotiationKeyIdx = r.negotiationKeyIdx
             /\ t.currentKeyIdx = r.currentKeyIdx /\ ~t.isRenegotiating
             /\ InUse(t) = InUse(r) /\ Current(t) = Current(r)
             /\ ~r.isRenegotiating => t = r
  BY ZenonT(30) DEF Settled, Rings, InUse, Current, Previous

\* What a ring that is RingOK looks like.
LEMMA RingIs ==
  ASSUME NEW r \in Rings, RingOK(r)
  PROVE  /\ r.keys = {} => r = EmptyRing
         /\ r.keys # {} => r.negotiationKeyIdx \in r.keys
         /\ r.currentKeyIdx # NoIdx =>
               /\ r.keys = {r.negotiationKeyIdx} \cup InUse(r)
               /\ r.currentKeyIdx \in InUse(r)
               /\ IF r.isRenegotiating
                  THEN /\ r.negotiationKeyIdx = Following(r.currentKeyIdx)
                       /\ r.negotiationKeyIdx \notin InUse(r)
                  ELSE r.negotiationKeyIdx = r.currentKeyIdx
         /\ r.currentKeyIdx = NoIdx => /\ InUse(r) = {} /\ ~r.isRenegotiating
                                       /\ r.negotiationKeyIdx = 0
                                       /\ r.keys # {} => r.keys = {0}
<1>1. CASE r = EmptyRing
  BY <1>1 DEF EmptyRing, InUse, Current, Previous
<1>2. CASE r.currentKeyIdx = NoIdx /\ r # EmptyRing
  BY <1>2, KeyRingAssumption DEF RingOK, InUse, Current, Previous, NoIdx, KeyIds
<1>3. CASE r.currentKeyIdx # NoIdx /\ r # EmptyRing
  <2>1. /\ r.currentKeyIdx \in KeyIds
        /\ r.keys = {r.negotiationKeyIdx} \cup InUse(r)
        /\ IF r.isRenegotiating THEN r.negotiationKeyIdx = Following(r.currentKeyIdx)
           ELSE r.negotiationKeyIdx = r.currentKeyIdx
    BY <1>3 DEF RingOK, InUse
  <2>2. r.currentKeyIdx \in InUse(r) /\ Current(r) = {r.currentKeyIdx}
    BY <1>3 DEF InUse, Current
  <2>3. Following(r.currentKeyIdx) \notin InUse(r)
    <3>1. Following(r.currentKeyIdx) # r.currentKeyIdx
      BY <2>1, ThreeKeys
    <3>2. CASE r.oldKeys = <<>>
      BY <2>2, <3>1, <3>2 DEF InUse, Previous
    <3>3. ASSUME NEW old \in KeyIds, r.oldKeys = <<old>>, r.currentKeyIdx = Following(old)
          PROVE  Following(r.currentKeyIdx) \notin InUse(r)
      <4>1. Previous(r) = {old}
        BY <3>3 DEF Previous
      <4>2. Following(Following(old)) # old
        BY ThreeKeys
      <4> QED BY <2>2, <3>1, <3>3, <4>1, <4>2 DEF InUse
    <3> QED BY <1>3, <3>2, <3>3 DEF RingOK
  <2> QED BY <1>3, <2>1, <2>2, <2>3
<1> QED
  BY <1>1, <1>2, <1>3

LEMMA ShapeIs ==
  ASSUME NEW r \in Rings, Shape(r)
  PROVE  /\ r.keys = {} => r = EmptyRing
         /\ r.keys # {} => r.negotiationKeyIdx \in r.keys
         /\ InUse(r) \subseteq KeyIds
         /\ r.currentKeyIdx # NoIdx =>
               /\ r.keys = {r.negotiationKeyIdx} \cup InUse(r)
               /\ r.currentKeyIdx \in InUse(r)
         /\ r.currentKeyIdx = NoIdx => InUse(r) = {}
         /\ r.negotiationKeyIdx # r.currentKeyIdx => RingOK(r)
         /\ ~r.isRenegotiating => RingOK(r)
<1>1. InUse(r) \subseteq KeyIds
  <2>1. Previous(r) \subseteq KeyIds
    BY DEF Previous, Rings
  <2> QED BY <2>1 DEF InUse, Current, Rings
<1>2. CASE RingOK(r)
  BY <1>1, <1>2, RingIs
<1>3. CASE ~RingOK(r)
  <2>1. r.isRenegotiating /\ r.negotiationKeyIdx = r.currentKeyIdx /\ RingOK(Settled(r))
    BY <1>3 DEF Shape
  <2>2. r.currentKeyIdx # NoIdx
    BY <2>1, KeyRingAssumption DEF Rings, KeyIds, NoIdx
  <2>3. Settled(r) # EmptyRing /\ Settled(r).keys # {}
    BY <2>1, <2>2, SettledIs, RingIs DEF EmptyRing
  <2> QED BY <1>1, <2>1, <2>2, <2>3, SettledIs, RingIs
<1> QED
  BY <1>2, <1>3

-----------------------------------------------------------------------------
(* What holds of a session at every step of a handler.                     *)

\* The keys that encrypt or decrypt can do so.
Usable(s) ==
    \A k \in InUse(s.ring) : /\ s.key[k].controlState = "connected"
                             /\ ~s.isStopping \/ "encryption" \notin Faults
                                   => s.key[k].dataPath

\* What a negotiation leaves behind on its way.
Stages(s) ==
    /\ \A k \in KeyIds : /\ s.key[k].controlState # "none" => s.key[k].isTLSConnected
                         /\ s.key[k].isTLSConnected => s.key[k].state = "tls"
    /\ s.ring.isRenegotiating => NegotiationKey(s).state \in {"softReset", "tls"}
    /\ s.ring.currentKeyIdx # NoIdx => s.pushReply
    /\ s.link /\ NegotiationKey(s).controlState = "preIfConfig"
          => s.authenticator = "authenticated"
    /\ s.link /\ s.starts > 0 => s.ring.currentKeyIdx # NoIdx
    /\ IF s.ring.negotiationKeyIdx = 0 THEN NegotiationKey(s).state # "softReset"
       ELSE HasRemoteSessionId(s)

\* A session that has stopped is not used again.
Ends(s) == IF s.alive THEN s.stops = 0 ELSE s.stops = 1 /\ ~s.link

Base(s) == /\ s \in SessionType /\ Shape(s.ring)
           /\ s.link <=> s.ring.keys # {}
           /\ Usable(s) /\ Stages(s) /\ Ends(s)
           /\ s.crashed = "no" \/ ~s.link

Live(s) == Base(s) /\ s.link /\ s.crashed = "no"

\* What is left alone inside a handler.
SameWork(s, u) == /\ u.inbox = s.inbox /\ u.due = s.due /\ u.ticks = s.ticks
                  /\ u.resets = s.resets

\* What is written meanwhile, under the ids that come next.
Writes(s, u, bodies) ==
    /\ s.wire \subseteq u.wire
    /\ s.channel.nextOut <= u.channel.nextOut
    /\ \A p \in u.wire \ s.wire : /\ p.key = s.ring.negotiationKeyIdx
                                  /\ s.channel.nextOut <= p.id /\ p.id < u.channel.nextOut
                                  /\ p.body \in bodies

\* What a negotiation writes before it completes, and before it can ask for a reply
\* to its push request.
Greetings   == {"hello", "finished", "auth"}
Asks(r)     == Greetings \cup (IF r.isRenegotiating THEN {} ELSE {"PUSH_REQUEST"})
Greeting(s) == NegotiationKey(s).controlState \in {"none", "preAuth"}

\* A negotiation moves on.
Keeps(s, u) ==
    /\ u.crashed = "no" /\ (s.isStopping => u.isStopping)
    /\ u.ring = s.ring
    /\ \A k \in KeyIds : k # s.ring.negotiationKeyIdx => u.key[k] = s.key[k]
    /\ NegotiationKey(s).controlState = "connected"
          => NegotiationKey(u).controlState = "connected"
    /\ Greeting(u) => Greeting(s) /\ Writes(s, u, Greetings)
    /\ NegotiationKey(u).state \in {NegotiationKey(s).state, "tls"}
    /\ u.channel.inbound = s.channel.inbound
    /\ Writes(s, u, Asks(s.ring))

\* Where a stop may run inside a handler although there is a key that encrypts.
Abrupt == Reliable \/ "encrypt" \in Faults

\* Or the session stops.
Goes(s, u) ==
    /\ Base(u) /\ SameWork(s, u) /\ u.starts = s.starts /\ u.pings = s.pings
    /\ IF u.link THEN Keeps(s, u)
       ELSE /\ ~u.alive
            /\ u.crashed # "no" \/ Abrupt \/ s.ring.currentKeyIdx = NoIdx

LEMMA WritesTwice ==
  ASSUME NEW s, Live(s), NEW v, Live(v), NEW u, Base(u), v.ring = s.ring, NEW bodies,
         Writes(s, v, bodies), Writes(v, u, bodies)
  PROVE  Writes(s, u, bodies)
<1>1. /\ s.channel.nextOut \in Nat /\ v.channel.nextOut \in Nat /\ u.channel.nextOut \in Nat
      /\ u.wire \in SUBSET Packet /\ v.wire \in SUBSET Packet
  BY ZenonT(30) DEF Live, Base, SessionType, Channels
<1>2. \A p \in Packet : p.id \in Nat
  BY DEF Packet
<1> QED
  BY <1>1, <1>2 DEF Writes

LEMMA GoesTwice ==
  ASSUME NEW s, Live(s), NEW v, v.link, Goes(s, v), NEW u, Goes(v, u)
  PROVE  Goes(s, u)
<1>1. Live(v) /\ Keeps(s, v)
  BY DEF Goes, Keeps, Live
<1>2. SameWork(s, u) /\ u.starts = s.starts /\ u.pings = s.pings /\ Base(u)
  BY DEF Goes, SameWork
<1>3. CASE u.link
  <2>1. Keeps(v, u)
    BY <1>3 DEF Goes
  <2>2. Writes(s, u, Asks(s.ring))
    BY <1>1, <1>2, <2>1, WritesTwice DEF Keeps
  <2>3. Greeting(u) => Greeting(s) /\ Writes(s, u, Greetings)
    BY <1>1, <1>2, <2>1, WritesTwice DEF Keeps
  <2> QED BY <1>1, <1>2, <1>3, <2>1, <2>2, <2>3 DEF Goes, Keeps, NegotiationKey
<1>4. CASE ~u.link
  BY <1>1, <1>2, <1>4 DEF Goes, Keeps
<1> QED
  BY <1>3, <1>4

LEMMA GoesSame == ASSUME NEW s, Live(s) PROVE Goes(s, s)
<1>1. s.channel.nextOut \in Nat
  BY ZenonT(30) DEF Live, Base, SessionType, Channels
<1> QED
  BY <1>1 DEF Live, Goes, SameWork, Keeps, Writes

\* cleanup, and the stop of the session that the delegate is told of.
LEMMA NoKeys == [k \in KeyIds |-> NoKey] \in [KeyIds -> SessionKeys]
  BY DEF NoKey, NewKey, SessionKeys

LEMMA CleanupIs ==
  ASSUME NEW s \in SessionType
  PROVE  LET u == Cleanup(s)
         IN  /\ u \in SessionType /\ u.ring = EmptyRing /\ ~u.link /\ ~u.isStopping
             /\ u.key = [k \in KeyIds |-> NoKey]
             /\ SameWork(s, u) /\ u.starts = s.starts /\ u.pings = s.pings
             /\ u.stops = s.stops /\ u.alive = s.alive /\ u.crashed = s.crashed
             /\ u.exit = s.exit /\ u.wire = s.wire
<1> DEFINE keys == [k \in KeyIds |-> NoKey]
           u == [s EXCEPT !.ring = EmptyRing, !.key = keys, !.nextPushRequestDate = FALSE,
                          !.authenticator = "none", !.pushReply = FALSE, !.link = FALSE,
                          !.isStopping = FALSE]
<1>1. keys \in [KeyIds -> SessionKeys] /\ EmptyRing \in Rings
  BY NoKeys, FirstNegotiation
<1>2. Cleanup(s) = u
  BY DEF Cleanup
<1> HIDE DEF keys
<1>3. u \in SessionType
  BY <1>1, ZenonT(30) DEF SessionType
<1>4. /\ u.ring = EmptyRing /\ ~u.link /\ ~u.isStopping /\ u.key = keys
      /\ u.starts = s.starts /\ u.pings = s.pings /\ u.stops = s.stops /\ u.alive = s.alive
      /\ u.crashed = s.crashed /\ u.exit = s.exit /\ u.wire = s.wire
  BY ZenonT(30) DEF SessionType
<1>5. SameWork(s, u)
  BY ZenonT(30) DEF SessionType, SameWork
<1> HIDE DEF u
<1> QED
  BY <1>2, <1>3, <1>4, <1>5 DEF keys

LEMMA CleanBase ==
  ASSUME NEW u \in SessionType, u.ring = EmptyRing, ~u.link, u.key = [k \in KeyIds |-> NoKey],
         Ends(u)
  PROVE  Base(u)
<1>1. /\ RingOK(EmptyRing) /\ EmptyRing.keys = {} /\ EmptyRing.currentKeyIdx = NoIdx
      /\ InUse(EmptyRing) = {} /\ ~EmptyRing.isRenegotiating
  BY DEF RingOK, EmptyRing, InUse, Current, Previous
<1>2. \A k \in KeyIds : u.key[k].controlState = "none" /\ ~u.key[k].isTLSConnected
  BY DEF NoKey, NewKey
<1>3. EmptyRing.negotiationKeyIdx = 0 /\ NegotiationKey(u).state # "softReset"
  BY KeyRingAssumption DEF EmptyRing, NegotiationKey, NoKey, NewKey, KeyIds
<1> QED
  BY <1>1, <1>2, <1>3 DEF Base, Shape, Usable, Stages

LEMMA DidStopIs ==
  ASSUME NEW s \in SessionType, s.stops = 0
  PROVE  LET u == DidStop(s)
         IN  /\ Base(u) /\ u.ring = EmptyRing /\ ~u.link /\ ~u.isStopping
             /\ SameWork(s, u) /\ u.starts = s.starts /\ u.pings = s.pings
             /\ u.crashed = s.crashed /\ u.exit = s.exit /\ ~u.alive
<1> DEFINE v == Cleanup(s)
           stops == v.stops + 1
           u == [v EXCEPT !.stops = stops, !.alive = FALSE]
<1>1. DidStop(s) = u
  BY DEF DidStop
<1>2. /\ v \in SessionType /\ v.ring = EmptyRing /\ ~v.link /\ ~v.isStopping
      /\ v.key = [k \in KeyIds |-> NoKey]
      /\ SameWork(s, v) /\ v.starts = s.starts /\ v.pings = s.pings
      /\ v.stops = 0 /\ v.crashed = s.crashed /\ v.exit = s.exit
  BY CleanupIs
<1> HIDE DEF v
<1>3. stops = 1 /\ stops \in Nat
  BY <1>2
<1> HIDE DEF stops
<1>4. u \in SessionType
  BY <1>2, <1>3, ZenonT(30) DEF SessionType
<1>5. /\ u.ring = EmptyRing /\ ~u.link /\ ~u.isStopping /\ u.key = [k \in KeyIds |-> NoKey]
      /\ u.starts = s.starts /\ u.pings = s.pings /\ u.crashed = s.crashed /\ u.exit = s.exit
      /\ u.stops = 1 /\ ~u.alive
  BY <1>2, <1>3, ZenonT(30) DEF SessionType
<1>6. SameWork(s, u)
  BY <1>2, ZenonT(30) DEF SessionType, SameWork
<1> HIDE DEF u
<1>7. Base(u)
  BY <1>4, <1>5, CleanBase DEF Ends
<1> QED
  BY <1>1, <1>5, <1>6, <1>7

\* deferStop.  Over UDP a session that can encrypt goes on until its exit
\* notification is written.
LEMMA StopIs ==
  ASSUME NEW s, Base(s), s.alive
  PROVE  LET u == Stop(s)
         IN  /\ Base(u) /\ SameWork(s, u) /\ u.starts = s.starts /\ u.pings = s.pings
             /\ u.crashed = s.crashed
             /\ IF u.link
                THEN /\ s.link /\ u.isStopping /\ u.ring = s.ring /\ u.key = s.key
                     /\ u.channel = s.channel /\ u.wire = s.wire
                     /\ u.authenticator = s.authenticator /\ u.pushReply = s.pushReply
                     /\ u.alive = s.alive
                ELSE /\ ~s.link \/ ~u.alive
                     /\ ~s.link \/ Abrupt \/ s.ring.currentKeyIdx = NoIdx
<1>1. s \in SessionType /\ s.stops = 0
  BY DEF Base, Ends
<1>2. CASE s.isStopping
  BY <1>2, <1>1, ZenonT(30) DEF Stop, SameWork, Base
<1> DEFINE deferred == /\ s.link /\ ~Reliable /\ HasCurrentKey(s)
                       /\ s.key[s.ring.currentKeyIdx].dataPath /\ "encrypt" \notin s.failing
<1>3. CASE ~s.isStopping /\ deferred
  <2> DEFINE u == [s EXCEPT !.isStopping = TRUE, !.exit = "pending"]
  <2>1. Stop(s) = u
    BY <1>3 DEF Stop
  <2>2. u \in SessionType
    BY <1>1, ZenonT(30) DEF SessionType
  <2>3. /\ u.link /\ u.isStopping /\ u.ring = s.ring /\ u.key = s.key
        /\ u.channel = s.channel /\ u.wire = s.wire /\ u.authenticator = s.authenticator
        /\ u.pushReply = s.pushReply /\ u.starts = s.starts /\ u.pings = s.pings
        /\ u.crashed = s.crashed /\ u.alive = s.alive /\ u.stops = s.stops
    BY <1>1, <1>3, ZenonT(30) DEF SessionType
  <2>4. SameWork(s, u)
    BY <1>1, ZenonT(30) DEF SessionType, SameWork
  <2> HIDE DEF u
  <2>5. Base(u)
    BY <2>2, <2>3, <1>3 DEF Base, Usable, Stages, Ends, NegotiationKey, HasRemoteSessionId
  <2> QED BY <1>3, <2>1, <2>3, <2>4, <2>5
<1>4. CASE ~s.isStopping /\ ~deferred
  <2> DEFINE v == [s EXCEPT !.isStopping = TRUE]
  <2>1. Stop(s) = DidStop(v)
    BY <1>4 DEF Stop
  <2>2. v \in SessionType
    BY <1>1, ZenonT(30) DEF SessionType
  <2>3. v.stops = 0 /\ v.starts = s.starts /\ v.pings = s.pings /\ v.crashed = s.crashed
    BY <1>1, ZenonT(30) DEF SessionType
  <2>4. SameWork(s, v)
    BY <1>1, ZenonT(30) DEF SessionType, SameWork
  <2> HIDE DEF v
  <2>5. s.link /\ ~Abrupt => s.ring.currentKeyIdx = NoIdx
    <3>1. s.ring.currentKeyIdx # NoIdx => HasCurrentKey(s) /\ s.ring.currentKeyIdx \in InUse(s.ring)
      BY <1>1, ShapeIs, ZenonT(30) DEF Base, SessionType, HasCurrentKey
    <3>2. ~Abrupt => ~Reliable /\ "encrypt" \notin s.failing
      BY <1>1, FailingIs DEF Abrupt
    <3> QED BY <1>4, <3>1, <3>2 DEF Base, Usable
  <2> QED BY <2>1, <2>2, <2>3, <2>4, <2>5, DidStopIs, ZenonT(30) DEF SameWork
<1> QED
  BY <1>2, <1>3, <1>4, ZenonT(30)

LEMMA StopGoes ==
  ASSUME NEW s, Live(s)
  PROVE  /\ Goes(s, Stop(s)) /\ Stop(s).crashed = "no"
         /\ Stop(s).link => /\ Stop(s).key = s.key /\ Stop(s).isStopping
                            /\ Stop(s).channel = s.channel /\ Stop(s).wire = s.wire
                            /\ Stop(s).authenticator = s.authenticator
                            /\ Stop(s).pushReply = s.pushReply /\ Stop(s).alive
<1> DEFINE u == Stop(s)
<1>1. Base(s) /\ s.alive
  BY DEF Live, Base, Ends
<1>2. /\ Base(u) /\ SameWork(s, u) /\ u.starts = s.starts /\ u.pings = s.pings
      /\ u.crashed = "no"
      /\ IF u.link
         THEN /\ s.link /\ u.isStopping /\ u.ring = s.ring /\ u.key = s.key
              /\ u.channel = s.channel /\ u.wire = s.wire
              /\ u.authenticator = s.authenticator /\ u.pushReply = s.pushReply
              /\ u.alive
         ELSE /\ ~s.link \/ ~u.alive
              /\ ~s.link \/ Abrupt \/ s.ring.currentKeyIdx = NoIdx
  BY <1>1, StopIs DEF Live
<1> HIDE DEF u
<1>3. s.channel.nextOut \in Nat
  BY <1>1, ZenonT(30) DEF Base, SessionType, Channels
<1>4. Goes(s, u)
  BY <1>2, <1>3 DEF Live, Goes, Keeps, Greeting, NegotiationKey, Writes
<1> QED
  BY <1>2, <1>4 DEF u

\* A packet is written under the key being negotiated.
LEMMA EnqueueIs ==
  ASSUME NEW s \in SessionType, NEW body \in Bodies, s.link
  PROVE  LET u == Enqueue(s, body)
         IN  /\ u \in SessionType /\ SameWork(s, u)
             /\ u.link /\ u.ring = s.ring /\ u.key = s.key /\ u.isStopping = s.isStopping
             /\ u.authenticator = s.authenticator /\ u.pushReply = s.pushReply
             /\ u.nextPushRequestDate = s.nextPushRequestDate
             /\ u.starts = s.starts /\ u.pings = s.pings /\ u.crashed = s.crashed
             /\ u.alive = s.alive /\ u.stops = s.stops /\ u.exit = s.exit
             /\ u.channel.inbound = s.channel.inbound /\ u.channel.nextIn = s.channel.nextIn
             /\ u.channel.nextOut = s.channel.nextOut + 1 /\ s.channel.nextOut \in Nat
             /\ u.wire = s.wire \cup {[key |-> s.ring.negotiationKeyIdx,
                                      id |-> s.channel.nextOut, body |-> body]}
<1> DEFINE ch == EnqueueOutbound(s.channel, <<body>>)
           wire == s.wire \cup {[key |-> s.ring.negotiationKeyIdx, id |-> s.channel.nextOut,
                                body |-> body]}
           u == [s EXCEPT !.channel = ch, !.wire = wire]
<1>1. Enqueue(s, body) = u
  BY FailingIs DEF Enqueue
<1>2. s.channel \in Channels /\ s.channel.nextOut \in Nat
  BY ZenonT(30) DEF SessionType, Channels
<1>3. /\ ch \in Channels /\ ch.nextOut = s.channel.nextOut + 1
      /\ ch.inbound = s.channel.inbound /\ ch.nextIn = s.channel.nextIn
  BY <1>2, EnqueueOutboundType
<1>4. wire \in SUBSET Packet
  <2>1. s.ring.negotiationKeyIdx \in KeyIds /\ s.wire \in SUBSET Packet
    BY ZenonT(30) DEF SessionType, Rings
  <2> QED BY <1>2, <2>1 DEF Packet
<1> HIDE DEF ch, wire
<1>5. u \in SessionType
  BY <1>3, <1>4, ZenonT(30) DEF SessionType
<1>6. /\ u.link /\ u.ring = s.ring /\ u.key = s.key /\ u.isStopping = s.isStopping
      /\ u.authenticator = s.authenticator /\ u.pushReply = s.pushReply
      /\ u.nextPushRequestDate = s.nextPushRequestDate
      /\ u.starts = s.starts /\ u.pings = s.pings /\ u.crashed = s.crashed
      /\ u.alive = s.alive /\ u.stops = s.stops /\ u.exit = s.exit
      /\ u.channel = ch /\ u.wire = wire
  BY ZenonT(30) DEF SessionType
<1>7. SameWork(s, u)
  BY ZenonT(30) DEF SessionType, SameWork
<1> HIDE DEF u
<1> QED
  BY <1>1, <1>2, <1>3, <1>5, <1>6, <1>7 DEF wire

LEMMA EnqueueBase ==
  ASSUME NEW s, Live(s), NEW body \in Bodies
  PROVE  LET u == Enqueue(s, body)
         IN  Live(u) /\ Writes(s, u, {body}) /\ u.ring = s.ring /\ u.key = s.key
<1> DEFINE u == Enqueue(s, body)
<1>1. s \in SessionType /\ s.link
  BY DEF Live, Base
<1>2. /\ u \in SessionType /\ u.link /\ u.ring = s.ring /\ u.key = s.key
      /\ u.isStopping = s.isStopping /\ u.authenticator = s.authenticator
      /\ u.pushReply = s.pushReply /\ u.starts = s.starts /\ u.crashed = s.crashed
      /\ u.alive = s.alive /\ u.stops = s.stops
      /\ u.channel.nextOut = s.channel.nextOut + 1 /\ s.channel.nextOut \in Nat
      /\ u.wire = s.wire \cup {[key |-> s.ring.negotiationKeyIdx,
                               id |-> s.channel.nextOut, body |-> body]}
  BY <1>1, EnqueueIs
<1> HIDE DEF u
<1>3. Base(u)
  BY <1>2 DEF Live, Base, Usable, Stages, Ends, NegotiationKey, HasRemoteSessionId
<1>4. Writes(s, u, {body})
  BY <1>2 DEF Writes
<1> QED
  BY <1>2, <1>3, <1>4 DEF Live, u

LEMMA EnqueueGoes ==
  ASSUME NEW s, Live(s), NEW body \in Asks(s.ring), body \in Greetings \/ ~Greeting(s)
  PROVE  LET u == Enqueue(s, body)
         IN  /\ Goes(s, u) /\ Live(u) /\ u.key = s.key /\ u.ring = s.ring
             /\ u.authenticator = s.authenticator
<1> DEFINE u == Enqueue(s, body)
<1>1. body \in Bodies
  BY ZenonT(30) DEF Bodies, Said, Asks, Greetings
<1>2. s \in SessionType /\ s.link /\ s.crashed = "no"
  BY DEF Live, Base
<1>3. /\ SameWork(s, u) /\ u.link /\ u.isStopping = s.isStopping /\ u.starts = s.starts
      /\ u.pings = s.pings /\ u.crashed = s.crashed /\ u.channel.inbound = s.channel.inbound
      /\ u.authenticator = s.authenticator
  BY <1>1, <1>2, EnqueueIs
<1>4. Live(u) /\ Writes(s, u, {body}) /\ u.ring = s.ring /\ u.key = s.key
  BY <1>1, EnqueueBase
<1> HIDE DEF u
<1>5. Writes(s, u, Asks(s.ring))
  BY <1>4 DEF Writes, Asks
<1>6. Keeps(s, u)
  <2>1. Greeting(u) => Greeting(s) /\ Writes(s, u, Greetings)
    BY <1>4 DEF Greeting, NegotiationKey, Writes
  <2> QED BY <1>2, <1>3, <1>4, <1>5, <2>1 DEF Keeps, NegotiationKey
<1>7. Goes(s, u)
  BY <1>3, <1>4, <1>6 DEF Goes, Live
<1> QED
  BY <1>3, <1>4, <1>7 DEF u

\* Everything but the keys, and what goes with their stages.
SameLink(s, u) ==
    /\ u.link = s.link /\ u.isStopping = s.isStopping /\ u.ring = s.ring
    /\ u.channel = s.channel /\ u.wire = s.wire /\ u.alive = s.alive
    /\ u.starts = s.starts /\ u.stops = s.stops /\ u.pings = s.pings
    /\ u.crashed = s.crashed /\ u.exit = s.exit

LEMMA NegotiationKeyIs ==
  ASSUME NEW s, Live(s)
  PROVE  /\ s.ring.negotiationKeyIdx \in KeyIds /\ HasNegotiationKey(s)
         /\ NegotiationKey(s) \in SessionKeys
         /\ s.ring \in Rings /\ Shape(s.ring)
         /\ s.ring.negotiationKeyIdx \in InUse(s.ring)
               => NegotiationKey(s).controlState = "connected"
  BY ShapeIs, ZenonT(30) DEF Live, Base, Usable, SessionType, Rings, HasNegotiationKey, NegotiationKey

\* The key under negotiation comes to its next stage.
LEMMA KeyGoes ==
  ASSUME NEW s, Live(s), NEW key \in SessionKeys, NEW u \in SessionType,
         SameWork(s, u), SameLink(s, u),
         u.key = [s.key EXCEPT ![s.ring.negotiationKeyIdx] = key],
         key.controlState # "none" => key.isTLSConnected, key.isTLSConnected => key.state = "tls",
         key.state \in {NegotiationKey(s).state, "tls"},
         key.dataPath = NegotiationKey(s).dataPath,
         NegotiationKey(s).controlState = "connected" => key.controlState = "connected",
         key.controlState \in {"none", "preAuth"} => Greeting(s),
         s.ring.currentKeyIdx # NoIdx => u.pushReply,
         key.controlState = "preIfConfig" => u.authenticator = "authenticated"
  PROVE  /\ Goes(s, u) /\ Live(u) /\ NegotiationKey(u) = key
<1> DEFINE neg == s.ring.negotiationKeyIdx
<1>1. /\ neg \in KeyIds /\ s.key \in [KeyIds -> SessionKeys] /\ s.channel.nextOut \in Nat
      /\ s.ring \in Rings /\ Shape(s.ring)
  BY ZenonT(30) DEF Live, Base, SessionType, Rings, Channels
<1>2. /\ NegotiationKey(u) = key
      /\ \A k \in KeyIds : k # neg => u.key[k] = s.key[k]
  BY <1>1 DEF SameLink, NegotiationKey
<1>3. Usable(u)
  <2>1. InUse(s.ring) \subseteq KeyIds
    BY <1>1, ShapeIs
  <2> QED BY <1>1, <1>2, <2>1 DEF Usable, SameLink, Live, Base, NegotiationKey
<1>4. Stages(u)
  <2>1. IF neg = 0 THEN NegotiationKey(u).state # "softReset" ELSE HasRemoteSessionId(u)
    BY <1>1, <1>2, KeyRingAssumption DEF Stages, Live, Base, HasRemoteSessionId, KeyIds
  <2> QED BY <1>2, <2>1 DEF Stages, SameLink, Live, Base, NegotiationKey
<1>5. Base(u)
  BY <1>3, <1>4 DEF Live, Base, SameLink, Ends
<1>6. Keeps(s, u)
  BY <1>1, <1>2 DEF Keeps, Live, SameLink, Writes, Greeting
<1> QED
  BY <1>2, <1>5, <1>6 DEF Goes, Live, SameLink

LEMMA SetKeyIs ==
  ASSUME NEW s \in SessionType, NEW key \in SessionKeys, NEW u,
         u = [s EXCEPT !.key = [s.key EXCEPT ![s.ring.negotiationKeyIdx] = key]]
  PROVE  /\ u \in SessionType /\ SameWork(s, u) /\ SameLink(s, u)
         /\ u.key = [s.key EXCEPT ![s.ring.negotiationKeyIdx] = key]
         /\ u.authenticator = s.authenticator /\ u.pushReply = s.pushReply
         /\ u.nextPushRequestDate = s.nextPushRequestDate
<1> DEFINE keys == [s.key EXCEPT ![s.ring.negotiationKeyIdx] = key]
<1>1. s.key \in [KeyIds -> SessionKeys]
  BY ZenonT(30) DEF SessionType
<1>2. u = [s EXCEPT !.key = keys]
  OBVIOUS
<1>3. keys \in [KeyIds -> SessionKeys]
  BY <1>1, ZenonT(30)
<1> HIDE DEF keys
<1>4. u \in SessionType
  BY <1>2, <1>3, ZenonT(30) DEF SessionType
<1>5. SameWork(s, u) /\ SameLink(s, u)
  BY <1>2, ZenonT(30) DEF SessionType, SameWork, SameLink
<1>6. u.key = keys /\ u.authenticator = s.authenticator /\ u.pushReply = s.pushReply
      /\ u.nextPushRequestDate = s.nextPushRequestDate
  BY <1>2, ZenonT(30) DEF SessionType
<1> QED
  BY <1>4, <1>5, <1>6 DEF keys

\* handleControlPacket starts TLS, once.
LEMMA StartTLSGoes ==
  ASSUME NEW s, Live(s), NEW env
  PROVE  LET u == StartTLS(s, env)
         IN  /\ Goes(s, u)
             /\ u.link => NegotiationKey(u).isTLSConnected = NegotiationKey(s).isTLSConnected
             /\ env.fault \notin {"tls", "mismatch"} => u.link
             /\ u.crashed = "no"
<1> DEFINE key == [NegotiationKey(s) EXCEPT !["state"] = "tls"]
           v == SetNegotiationKey(s, "state", "tls")
<1>1. NegotiationKey(s) \in SessionKeys /\ s \in SessionType
  BY NegotiationKeyIs DEF Live, Base
<1>2. /\ key \in SessionKeys /\ key.state = "tls" /\ key.dataPath = NegotiationKey(s).dataPath
      /\ key.controlState = NegotiationKey(s).controlState
      /\ key.isTLSConnected = NegotiationKey(s).isTLSConnected
  BY <1>1 DEF SessionKeys
<1>3. /\ v \in SessionType /\ SameWork(s, v) /\ SameLink(s, v)
      /\ v.key = [s.key EXCEPT ![s.ring.negotiationKeyIdx] = key]
      /\ v.authenticator = s.authenticator /\ v.pushReply = s.pushReply
  <2>1. v = [s EXCEPT !.key = [s.key EXCEPT ![s.ring.negotiationKeyIdx] = key]]
    BY DEF SetNegotiationKey, NegotiationKey
  <2> HIDE DEF key, v
  <2> QED BY <1>1, <1>2, <2>1, SetKeyIs, ZenonT(60)
<1> HIDE DEF v, key
<1>4. Goes(s, v) /\ Live(v) /\ NegotiationKey(v) = key
  <2>1. s.ring.currentKeyIdx # NoIdx => s.pushReply
    BY DEF Live, Base, Stages
  <2>2. /\ key.controlState # "none" => key.isTLSConnected
        /\ key.controlState = "preIfConfig" => s.authenticator = "authenticated"
    BY <1>2, NegotiationKeyIs DEF Live, Base, Stages, NegotiationKey
  <2>3. key.controlState \in {"none", "preAuth"} => Greeting(s)
    BY <1>2 DEF Greeting
  <2> QED BY <1>2, <1>3, <2>1, <2>2, <2>3, KeyGoes
<1> DEFINE refused == NegotiationKey(s).state = "softReset" /\ env.fault = "mismatch"
<1>0. StartTLS(s, env) = IF refused THEN Stop(s)
                         ELSE IF env.fault = "tls" THEN Stop(v) ELSE Enqueue(v, "hello")
  BY DEF StartTLS, v, Live, Base, Stages
<1>7. CASE refused
  BY <1>0, <1>7, StopGoes DEF Goes, Keeps, NegotiationKey
<1>5. CASE ~refused /\ env.fault = "tls"
  <2>1. StartTLS(s, env) = Stop(v)
    BY <1>0, <1>5
  <2>2. /\ Goes(v, Stop(v)) /\ Stop(v).crashed = "no"
        /\ Stop(v).link => Stop(v).key = v.key
    BY <1>4, StopGoes
  <2>3. Goes(s, Stop(v))
    BY <1>4, <2>2, GoesTwice DEF Live
  <2>4. Stop(v).link => NegotiationKey(Stop(v)) = NegotiationKey(v)
    BY <2>2 DEF Goes, Keeps, NegotiationKey
  <2> QED BY <1>2, <1>4, <1>5, <2>1, <2>2, <2>3, <2>4
<1>6. CASE ~refused /\ env.fault # "tls"
  <2> DEFINE u == Enqueue(v, "hello")
  <2>1. StartTLS(s, env) = u
    BY <1>0, <1>6
  <2>2. Goes(v, u) /\ Live(u) /\ u.key = v.key /\ u.ring = v.ring
    BY <1>4, EnqueueGoes DEF Asks, Greetings
  <2> HIDE DEF u
  <2>3. Goes(s, u)
    BY <1>4, <2>2, GoesTwice DEF Live
  <2> QED BY <1>2, <1>4, <2>1, <2>2, <2>3 DEF Live, NegotiationKey
<1> QED
  BY <1>5, <1>6, <1>7

\* onTLSConnect, after the last message of the handshake.
LEMMA OnTLSConnectGoes ==
  ASSUME NEW s, Live(s), NEW env, ~NegotiationKey(s).isTLSConnected,
         NegotiationKey(s).state = "tls"
  PROVE  LET t == SetNegotiationKey(s, "isTLSConnected", TRUE)
             u == OnTLSConnect(Enqueue(t, "finished"), env)
         IN  /\ Goes(s, u) /\ u.crashed = "no" /\ HasNegotiationKey(Enqueue(t, "finished"))
             /\ env.fault \notin TLSFaults => u.link
<1> DEFINE key == [NegotiationKey(s) EXCEPT !["isTLSConnected"] = TRUE]
           t == SetNegotiationKey(s, "isTLSConnected", TRUE)
           v == Enqueue(t, "finished")
<1>1. /\ NegotiationKey(s) \in SessionKeys /\ s \in SessionType
      /\ NegotiationKey(s).controlState = "none"
  BY NegotiationKeyIs DEF Live, Base, Stages, NegotiationKey
<1>2. /\ key \in SessionKeys /\ key.state = NegotiationKey(s).state
      /\ key.dataPath = NegotiationKey(s).dataPath
      /\ key.controlState = "none" /\ key.isTLSConnected
  BY <1>1, ZenonT(30) DEF SessionKeys
<1>3. /\ t \in SessionType /\ SameWork(s, t) /\ SameLink(s, t)
      /\ t.key = [s.key EXCEPT ![s.ring.negotiationKeyIdx] = key]
      /\ t.authenticator = s.authenticator /\ t.pushReply = s.pushReply
  <2>1. t = [s EXCEPT !.key = [s.key EXCEPT ![s.ring.negotiationKeyIdx] = key]]
    BY DEF SetNegotiationKey, NegotiationKey
  <2> HIDE DEF key, t
  <2>2. key \in SessionKeys /\ s \in SessionType
    BY <1>1, <1>2
  <2> QED BY <2>1, <2>2, SetKeyIs, ZenonT(30)
<1> HIDE DEF t, key
<1>4. Goes(s, t) /\ Live(t) /\ NegotiationKey(t) = key
  <2>1. Greeting(s)
    BY <1>1 DEF Greeting
  <2> QED BY <1>1, <1>2, <1>3, <2>1, KeyGoes DEF Live, Base, Stages
<1>5. Goes(t, v) /\ Live(v) /\ NegotiationKey(v) = key /\ HasNegotiationKey(v)
  BY <1>4, EnqueueGoes, NegotiationKeyIs DEF NegotiationKey, Asks, Greetings
<1> HIDE DEF v
<1>6. Goes(s, v)
  BY <1>4, <1>5, GoesTwice DEF Live
<1> DEFINE auth == [NegotiationKey(v) EXCEPT !["controlState"] = "preAuth"]
           w == SetNegotiationKey(v, "controlState", "preAuth")
           x == [w EXCEPT !.authenticator = "sent"]
<1>7. /\ auth \in SessionKeys /\ auth.state = NegotiationKey(v).state
      /\ auth.dataPath = NegotiationKey(v).dataPath
      /\ auth.controlState = "preAuth" /\ auth.isTLSConnected
  BY <1>2, <1>5 DEF SessionKeys
<1>8. /\ w \in SessionType /\ SameWork(v, w) /\ SameLink(v, w)
      /\ w.key = [v.key EXCEPT ![v.ring.negotiationKeyIdx] = auth]
      /\ w.pushReply = v.pushReply
  <2>1. v \in SessionType /\ auth \in SessionKeys
    BY <1>5, <1>7 DEF Live, Base
  <2>2. w = [v EXCEPT !.key = [v.key EXCEPT ![v.ring.negotiationKeyIdx] = auth]]
    BY DEF SetNegotiationKey, NegotiationKey
  <2> HIDE DEF auth, w
  <2> QED BY <2>1, <2>2, SetKeyIs, ZenonT(30)
<1> HIDE DEF w, auth
<1>9. x \in SessionType
  BY <1>8, ZenonT(30) DEF SessionType
<1>10. x.key = w.key /\ x.pushReply = w.pushReply /\ x.authenticator = "sent"
  BY <1>8, ZenonT(30) DEF SessionType
<1>11. SameWork(w, x) /\ SameLink(w, x)
  BY <1>8, ZenonT(30) DEF SessionType, SameWork, SameLink
<1> HIDE DEF x
<1>12. SameWork(v, x) /\ SameLink(v, x)
  BY <1>8, <1>11 DEF SameWork, SameLink
<1>13. Goes(v, x) /\ Live(x)
  <2>1. Greeting(v)
    BY <1>2, <1>5 DEF Greeting
  <2> QED BY <1>2, <1>5, <1>7, <1>8, <1>9, <1>10, <1>12, <2>1, KeyGoes DEF Live, Base, Stages
<1>14. Goes(s, x)
  BY <1>5, <1>6, <1>13, GoesTwice DEF Live
<1>15. Goes(x, Stop(x)) /\ Stop(x).crashed = "no" /\ Goes(x, Enqueue(x, "auth")) /\ Live(Enqueue(x, "auth"))
  BY <1>13, StopGoes, EnqueueGoes DEF Asks, Greetings
<1>16. OnTLSConnect(v, env) = IF env.fault \in TLSFaults THEN Stop(x) ELSE Enqueue(x, "auth")
  BY DEF OnTLSConnect, w, x
<1>17. \A u \in {Stop(x), Enqueue(x, "auth")} : Goes(s, u) /\ u.crashed = "no"
  BY <1>13, <1>14, <1>15, GoesTwice DEF Live
<1>18. Enqueue(x, "auth").link
  BY <1>15 DEF Live
<1> QED
  BY <1>5, <1>16, <1>17, <1>18, ZenonT(30) DEF v, t

\* The negotiated key takes over.
Completed(s, u) ==
    /\ NegotiationKey(s).controlState # "connected"
    /\ u.ring.negotiationKeyIdx = s.ring.negotiationKeyIdx
    /\ u.ring.currentKeyIdx = s.ring.negotiationKeyIdx
    /\ Current(s.ring) \subseteq u.ring.keys
    /\ \A k \in KeyIds : k # s.ring.negotiationKeyIdx => u.key[k] = s.key[k]
    /\ NegotiationKey(u).controlState = "connected"
    /\ NegotiationKey(u).state = NegotiationKey(s).state
    /\ NegotiationKey(u).isTLSConnected = NegotiationKey(s).isTLSConnected
    /\ s.isStopping => u.isStopping
    /\ u.channel.inbound = s.channel.inbound
    /\ Writes(s, u, {"PUSH_REQUEST"})

\* transitionKeys, for a negotiation under way: the flag is not its concern.
LEMMA TransitionIs ==
  ASSUME NEW s, Live(s), NegotiationKey(s).controlState # "connected"
  PROVE  LET r == s.ring
             t == Transition(r)
         IN  /\ t \in Rings /\ Shape(t) /\ Settled(t) \in Rings /\ RingOK(Settled(t))
             /\ t.currentKeyIdx = r.negotiationKeyIdx /\ t.negotiationKeyIdx = r.negotiationKeyIdx
             /\ t.isRenegotiating = r.isRenegotiating
             /\ t.keys = {r.negotiationKeyIdx} \cup Current(r)
             /\ InUse(t) \subseteq {r.negotiationKeyIdx} \cup InUse(r)
             /\ r.isRenegotiating \/ r.currentKeyIdx = NoIdx
<1> DEFINE r == s.ring
           t == Transition(r)
           u == [t EXCEPT !.isRenegotiating = FALSE]
<1>1. r \in Rings /\ Shape(r) /\ r.keys # {} /\ r.negotiationKeyIdx \notin InUse(r)
  BY NegotiationKeyIs DEF HasNegotiationKey
<1>2. RingOK(r) /\ (r.isRenegotiating \/ r.currentKeyIdx = NoIdx)
  <2>1. r.currentKeyIdx # NoIdx => r.currentKeyIdx \in InUse(r)
    BY <1>1, ShapeIs
  <2>2. CASE r.currentKeyIdx = NoIdx
    <3>1. r.negotiationKeyIdx # r.currentKeyIdx
      BY <1>1, <2>2, KeyRingAssumption DEF Rings, KeyIds, NoIdx
    <3> QED BY <1>1, <2>2, <3>1, ShapeIs
  <2>3. CASE r.currentKeyIdx # NoIdx
    <3>1. r.negotiationKeyIdx # r.currentKeyIdx
      BY <1>1, <2>1, <2>3
    <3>2. RingOK(r)
      BY <1>1, <3>1, ShapeIs
    <3> QED BY <1>1, <2>3, <3>1, <3>2, RingIs
  <2> QED BY <2>2, <2>3
<1>3. /\ u \in Rings /\ RingOK(u) /\ u.currentKeyIdx = r.negotiationKeyIdx
      /\ u.keys = {r.negotiationKeyIdx} \cup Current(r)
  BY <1>1, <1>2, TransitionKeepsRing
<1>4. /\ t.isRenegotiating = r.isRenegotiating /\ t.negotiationKeyIdx = r.negotiationKeyIdx
      /\ t.currentKeyIdx = r.negotiationKeyIdx
      /\ t = [r EXCEPT !.keys = t.keys, !.oldKeys = t.oldKeys, !.currentKeyIdx = t.currentKeyIdx]
  BY <1>1 DEF Transition, Rings
<1>5. t.keys = u.keys /\ t.oldKeys = u.oldKeys
  BY <1>1 DEF Transition, Rings
<1> HIDE DEF t
<1>6. t \in Rings /\ Settled(t) = u
  <2>1. t.keys \in SUBSET KeyIds /\ t.oldKeys \in Seq(KeyIds) /\ t.currentKeyIdx \in KeyIds \cup {NoIdx}
    BY <1>1, <1>3, <1>4, <1>5 DEF Rings
  <2> QED BY <1>1, <1>4, <2>1, ZenonT(30) DEF Rings, Settled
<1>7. Shape(t)
  <2>1. CASE r.isRenegotiating
    BY <1>3, <1>4, <1>6, <2>1 DEF Shape
  <2>2. CASE ~r.isRenegotiating
    <3>1. Settled(t) = t
      BY <1>4, <1>6, <2>2, SettledIs
    <3>2. u = t
      BY <1>6, <3>1
    <3> HIDE DEF u
    <3> QED BY <1>3, <3>2 DEF Shape
  <2> QED BY <2>1, <2>2
<1>8. InUse(t) \subseteq {r.negotiationKeyIdx} \cup InUse(r)
  <2>1. InUse(u) \subseteq u.keys
    BY <1>3, RingIs, ZenonT(30) DEF EmptyRing
  <2>2. InUse(t) = InUse(u)
    BY <1>6, SettledIs, ZenonT(30)
  <2>3. Current(r) \subseteq InUse(r)
    BY DEF InUse
  <2> QED BY <1>3, <2>1, <2>2, <2>3, ZenonT(30)
<1> QED
  BY <1>2, <1>3, <1>4, <1>5, <1>6, <1>7, <1>8 DEF t

\* completeConnection, once encryption is set up.
Connect(s) == [SetNegotiationKey(s, "controlState", "connected")
                 EXCEPT !.ring = Transition(@), !.authenticator = "reset"]

LEMMA ConnectedIs ==
  ASSUME NEW s, Live(s), NegotiationKey(s).controlState = "preIfConfig",
         ~s.isStopping \/ "encryption" \notin Faults => NegotiationKey(s).dataPath,
         s.pushReply
  PROVE  LET u == Connect(s)
         IN  /\ Base(u) /\ SameWork(s, u) /\ Completed(s, u)
             /\ u.link /\ u.ring = Transition(s.ring) /\ u.pushReply
             /\ u.channel = s.channel /\ u.wire = s.wire /\ u.isStopping = s.isStopping
             /\ u.starts = s.starts /\ u.pings = s.pings /\ u.crashed = "no"
             /\ u.alive /\ u.stops = 0
<1> DEFINE neg == s.ring.negotiationKeyIdx
           key == [NegotiationKey(s) EXCEPT !["controlState"] = "connected"]
           t == SetNegotiationKey(s, "controlState", "connected")
           ring == Transition(t.ring)
           u == [t EXCEPT !.ring = ring, !.authenticator = "reset"]
<1>1. /\ s \in SessionType /\ s.alive /\ s.link /\ s.crashed = "no" /\ Base(s)
      /\ NegotiationKey(s) \in SessionKeys /\ neg \in KeyIds /\ s.stops = 0
      /\ s.channel.nextOut \in Nat
  BY NegotiationKeyIs, ZenonT(30) DEF Live, Base, Ends, SessionType, Channels
<1>2. /\ key \in SessionKeys /\ key.state = NegotiationKey(s).state
      /\ key.dataPath = NegotiationKey(s).dataPath /\ key.controlState = "connected"
      /\ key.isTLSConnected = NegotiationKey(s).isTLSConnected
  BY <1>1 DEF SessionKeys
<1>3. /\ t \in SessionType /\ SameWork(s, t) /\ SameLink(s, t)
      /\ t.key = [s.key EXCEPT ![s.ring.negotiationKeyIdx] = key]
      /\ t.pushReply = s.pushReply
  <2>1. t = [s EXCEPT !.key = [s.key EXCEPT ![s.ring.negotiationKeyIdx] = key]]
    BY DEF SetNegotiationKey, NegotiationKey
  <2>2. key \in SessionKeys /\ s \in SessionType
    BY <1>1, <1>2
  <2> HIDE DEF key, t
  <2> QED BY <2>1, <2>2, SetKeyIs, ZenonT(60)
<1> HIDE DEF key, t
<1>4. t.ring = s.ring /\ s.key \in [KeyIds -> SessionKeys]
  BY <1>1, <1>3, ZenonT(30) DEF SameLink, SessionType
<1>5. /\ ring \in Rings /\ Shape(ring)
      /\ ring.currentKeyIdx = neg /\ ring.negotiationKeyIdx = neg
      /\ ring.isRenegotiating = s.ring.isRenegotiating
      /\ ring.keys = {neg} \cup Current(s.ring)
      /\ InUse(ring) \subseteq {neg} \cup InUse(s.ring)
      /\ ring = Transition(s.ring)
  BY <1>4, TransitionIs
<1> HIDE DEF ring
<1>6. u \in SessionType
  BY <1>3, <1>5, ZenonT(30) DEF SessionType
<1>7. /\ u.ring = ring /\ u.key = t.key /\ u.pushReply = t.pushReply
      /\ u.link = t.link /\ u.isStopping = t.isStopping /\ u.channel = t.channel
      /\ u.wire = t.wire /\ u.alive = t.alive /\ u.starts = t.starts /\ u.stops = t.stops
      /\ u.pings = t.pings /\ u.crashed = t.crashed
  BY <1>3, ZenonT(30) DEF SessionType
<1>8. SameWork(s, u)
  BY <1>3, ZenonT(30) DEF SessionType, SameWork
<1> HIDE DEF u
<1>9. /\ u.link /\ u.pushReply /\ u.channel = s.channel /\ u.wire = s.wire
      /\ u.isStopping = s.isStopping /\ u.starts = s.starts /\ u.pings = s.pings
      /\ u.crashed = "no" /\ u.alive /\ u.stops = 0
  BY <1>1, <1>3, <1>7 DEF SameLink
<1>10. /\ NegotiationKey(u) = key /\ u.key[neg] = key
       /\ \A k \in KeyIds : k # neg => u.key[k] = s.key[k]
  BY <1>1, <1>3, <1>4, <1>5, <1>7 DEF NegotiationKey
<1>11. Usable(u)
  <2> SUFFICES ASSUME NEW k \in InUse(u.ring)
               PROVE  /\ u.key[k].controlState = "connected"
                      /\ ~u.isStopping \/ "encryption" \notin Faults => u.key[k].dataPath
    BY DEF Usable
  <2>1. CASE k = neg
    BY <1>2, <1>9, <1>10, <2>1
  <2>2. CASE k # neg
    <3>1. k \in InUse(s.ring) /\ k \in KeyIds
      BY <1>5, <1>7, <2>2, NegotiationKeyIs, ShapeIs
    <3> QED BY <1>1, <1>9, <1>10, <2>2, <3>1 DEF Base, Usable
  <2> QED BY <2>1, <2>2
<1>12. Stages(u)
  <2>1. \A k \in KeyIds : /\ u.key[k].controlState # "none" => u.key[k].isTLSConnected
                          /\ u.key[k].isTLSConnected => u.key[k].state = "tls"
    <3>1. NegotiationKey(s).isTLSConnected /\ NegotiationKey(s).state = "tls"
      BY <1>1 DEF Base, Stages, NegotiationKey
    <3> QED BY <1>1, <1>2, <1>10, <3>1, ZenonT(30) DEF Base, Stages
  <2>2. u.ring.currentKeyIdx # NoIdx
    BY <1>1, <1>5, <1>7, KeyRingAssumption DEF KeyIds, NoIdx
  <2>3. u.ring.isRenegotiating => NegotiationKey(u).state \in {"softReset", "tls"}
    BY <1>1, <1>2, <1>5, <1>7, <1>10 DEF Base, Stages
  <2>4. IF u.ring.negotiationKeyIdx = 0 THEN NegotiationKey(u).state # "softReset"
        ELSE HasRemoteSessionId(u)
    BY <1>1, <1>2, <1>5, <1>7, <1>10, KeyRingAssumption
       DEF Base, Stages, HasRemoteSessionId, KeyIds
  <2> QED BY <1>2, <1>9, <1>10, <2>1, <2>2, <2>3, <2>4 DEF Stages
<1>13. Base(u)
  <2>1. Ends(u)
    BY <1>9 DEF Ends
  <2> QED BY <1>5, <1>6, <1>7, <1>9, <1>11, <1>12, <2>1 DEF Base
<1>14. Writes(s, u, {"PUSH_REQUEST"})
  BY <1>1, <1>9 DEF Writes
<1>15. Completed(s, u)
  BY <1>2, <1>5, <1>7, <1>9, <1>10, <1>14 DEF Completed
<1> QED
  BY <1>5, <1>7, <1>8, <1>9, <1>13, <1>15 DEF u, ring, t, Connect

\* A fatal error, in a session without a link.
Fatal == {"no server randoms", "no PUSH_REPLY", "no negotiation key", "no remote address"}

LEMMA CrashIs ==
  ASSUME NEW s, Base(s), ~s.link, NEW why \in Fatal
  PROVE  LET u == Crash(s, why)
         IN  /\ Base(u) /\ SameWork(s, u) /\ u.crashed # "no" /\ ~u.link
             /\ u.ring = EmptyRing /\ s.ring = EmptyRing /\ ~HasNegotiationKey(s)
             /\ u.starts = s.starts /\ u.pings = s.pings /\ u.alive = s.alive
<1> DEFINE u == [s EXCEPT !.crashed = why]
<1>1. s \in SessionType /\ s.ring = EmptyRing /\ ~HasNegotiationKey(s)
  BY ShapeIs, ZenonT(30) DEF Base, SessionType, HasNegotiationKey
<1>2. CASE s.crashed # "no"
  BY <1>1, <1>2 DEF Crash, SameWork
<1>3. CASE s.crashed = "no"
  <2>1. Crash(s, why) = u
    BY <1>3 DEF Crash
  <2>2. u \in SessionType
    BY <1>1, ZenonT(30) DEF SessionType, Fatal
  <2>3. /\ ~u.link /\ u.crashed # "no" /\ u.ring = s.ring /\ u.key = s.key
        /\ u.isStopping = s.isStopping /\ u.starts = s.starts /\ u.pings = s.pings
        /\ u.stops = s.stops /\ u.alive = s.alive /\ u.pushReply = s.pushReply
    BY <1>1, ZenonT(30) DEF SessionType, Fatal
  <2>4. SameWork(s, u)
    BY <1>1, ZenonT(30) DEF SessionType, SameWork
  <2> HIDE DEF u
  <2>5. Base(u)
    BY <2>2, <2>3 DEF Base, Usable, Stages, Ends, NegotiationKey, HasRemoteSessionId
  <2> QED BY <1>1, <2>1, <2>3, <2>4, <2>5
<1> QED
  BY <1>2, <1>3

\* setupEncryption, when the cipher is there.
LEMMA DataPathIs ==
  ASSUME NEW s, Live(s), NegotiationKey(s).controlState = "preIfConfig"
  PROVE  LET u == SetNegotiationKey(s, "dataPath", TRUE)
         IN  /\ Live(u) /\ SameWork(s, u) /\ SameLink(s, u) /\ u.pushReply = s.pushReply
             /\ NegotiationKey(u).dataPath
             /\ NegotiationKey(u).controlState = NegotiationKey(s).controlState
             /\ NegotiationKey(u).state = NegotiationKey(s).state
             /\ NegotiationKey(u).isTLSConnected = NegotiationKey(s).isTLSConnected
             /\ \A k \in KeyIds : k # s.ring.negotiationKeyIdx => u.key[k] = s.key[k]
<1> DEFINE neg == s.ring.negotiationKeyIdx
           key == [NegotiationKey(s) EXCEPT !["dataPath"] = TRUE]
           u == SetNegotiationKey(s, "dataPath", TRUE)
<1>1. /\ s \in SessionType /\ s.link /\ s.crashed = "no" /\ Base(s)
      /\ NegotiationKey(s) \in SessionKeys /\ neg \in KeyIds
      /\ s.key \in [KeyIds -> SessionKeys] /\ neg \notin InUse(s.ring)
  BY NegotiationKeyIs, ZenonT(30) DEF Live, Base, SessionType
<1>2. /\ key \in SessionKeys /\ key.state = NegotiationKey(s).state
      /\ key.dataPath /\ key.controlState = NegotiationKey(s).controlState
      /\ key.isTLSConnected = NegotiationKey(s).isTLSConnected
  BY <1>1, ZenonT(30) DEF SessionKeys
<1>3. /\ u \in SessionType /\ SameWork(s, u) /\ SameLink(s, u)
      /\ u.key = [s.key EXCEPT ![s.ring.negotiationKeyIdx] = key]
      /\ u.pushReply = s.pushReply /\ u.authenticator = s.authenticator
  <2>1. u = [s EXCEPT !.key = [s.key EXCEPT ![s.ring.negotiationKeyIdx] = key]]
    BY DEF SetNegotiationKey, NegotiationKey
  <2>2. key \in SessionKeys /\ s \in SessionType
    BY <1>1, <1>2
  <2> HIDE DEF key, u
  <2> QED BY <2>1, <2>2, SetKeyIs, ZenonT(30)
<1> HIDE DEF key, u
<1>4. /\ NegotiationKey(u) = key /\ u.key[neg] = key
      /\ \A k \in KeyIds : k # neg => u.key[k] = s.key[k]
  BY <1>1, <1>3 DEF SameLink, NegotiationKey
<1>5. Usable(u)
  <2>1. InUse(s.ring) \subseteq KeyIds
    BY NegotiationKeyIs, ShapeIs
  <2> QED BY <1>1, <1>3, <1>4, <2>1 DEF Usable, Base, SameLink
<1>6. Stages(u)
  <2>1. IF neg = 0 THEN NegotiationKey(u).state # "softReset" ELSE HasRemoteSessionId(u)
    BY <1>1, <1>2, <1>4, KeyRingAssumption DEF Base, Stages, HasRemoteSessionId, KeyIds
  <2> QED BY <1>1, <1>2, <1>3, <1>4, <2>1 DEF Stages, Base, SameLink, NegotiationKey
<1>7. Base(u)
  BY <1>1, <1>3, <1>5, <1>6 DEF Base, SameLink, Ends
<1> QED
  BY <1>1, <1>2, <1>3, <1>4, <1>7, ZenonT(30) DEF Live, SameLink, u

\* completeConnection, with everything it needs there.
LEMMA CompleteIs ==
  ASSUME NEW s, Live(s), NEW env \in Envs, NegotiationKey(s).controlState = "preIfConfig",
         s.pushReply
  PROVE  LET u == CompleteConnection(s, env)
         IN  /\ Base(u) /\ SameWork(s, u) /\ u.starts = s.starts /\ u.pings = s.pings
             /\ \/ /\ u.crashed # "no" /\ u.ring = EmptyRing /\ env.fault = "encryption"
                   /\ ~u.alive
                \/ /\ u.link /\ u.crashed = "no" /\ Completed(s, u)
                   /\ u.ring = Transition(s.ring) /\ u.pushReply
                   /\ u.alive /\ u.stops = 0
<1> DEFINE ready == SetupEncryption(s, env)
           key == NegotiationKey(s)
<1>1. /\ s \in SessionType /\ s.alive /\ s.link /\ s.crashed = "no" /\ Base(s)
      /\ s.authenticator = "authenticated" /\ HasNegotiationKey(s)
      /\ key \in SessionKeys /\ s.ring.negotiationKeyIdx \in KeyIds
      /\ s.stops = 0
  BY NegotiationKeyIs DEF Live, Base, Stages, Ends
<1>2. CASE env.fault = "encryption"
  <2>1. ready = Stop(s)
    BY <1>1, <1>2 DEF SetupEncryption
  <2>2. /\ Goes(s, ready) /\ ready.crashed = "no"
        /\ ready.link => /\ ready.key = s.key /\ ready.isStopping /\ ready.wire = s.wire
                         /\ ready.channel = s.channel /\ ready.pushReply = s.pushReply
    BY <2>1, StopGoes, ZenonT(30)
  <2>3. Base(ready) /\ SameWork(s, ready) /\ ready.starts = s.starts /\ ready.pings = s.pings
    BY <2>2 DEF Goes
  <2>4. "encryption" \in Faults
    BY <1>2 DEF Envs, Env
  <2> HIDE DEF ready
  <2>5. CASE ~ready.link
    <3> DEFINE u == Crash(ready, "no negotiation key")
    <3>1. /\ Base(u) /\ SameWork(ready, u) /\ u.crashed # "no" /\ u.ring = EmptyRing
          /\ u.starts = ready.starts /\ u.pings = ready.pings /\ ~HasNegotiationKey(ready)
          /\ u.alive = ready.alive
      BY <2>3, <2>5, CrashIs, ZenonT(30) DEF Fatal
    <3>2. CompleteConnection(s, env) = u
      BY <2>2, <3>1, ZenonT(30) DEF CompleteConnection, ready
    <3> HIDE DEF u
    <3>3. ~ready.alive
      BY <2>2, <2>5 DEF Goes
    <3> QED BY <1>2, <2>3, <3>1, <3>2, <3>3 DEF SameWork
  <2>6. CASE ready.link
    <3> DEFINE u == Connect(ready)
    <3>1. Live(ready) /\ ready.ring = s.ring /\ NegotiationKey(ready) = key
      BY <2>2, <2>3, <2>6 DEF Live, Goes, Keeps, NegotiationKey
    <3>2. /\ Base(u) /\ SameWork(ready, u) /\ Completed(ready, u) /\ u.ring = Transition(s.ring)
          /\ u.link /\ u.pushReply /\ u.channel = s.channel /\ u.wire = s.wire
          /\ u.isStopping /\ u.starts = s.starts /\ u.pings = s.pings /\ u.crashed = "no"
          /\ u.alive /\ u.stops = 0
      BY <2>2, <2>3, <2>4, <2>6, <3>1, ConnectedIs, ZenonT(30) DEF Connect
    <3>3. CompleteConnection(s, env) = u
      <4>1. HasNegotiationKey(ready)
        BY <3>1, NegotiationKeyIs
      <4> QED BY <2>2, <4>1 DEF CompleteConnection, ready, Connect
    <3> HIDE DEF u
    <3>4. Completed(s, u)
      BY <1>1, <2>2, <2>6, <3>1, <3>2 DEF Completed, NegotiationKey, Writes
    <3> QED BY <2>3, <3>2, <3>3, <3>4 DEF SameWork
  <2> QED BY <2>5, <2>6
<1>3. CASE env.fault # "encryption"
  <2>1. ready = SetNegotiationKey(s, "dataPath", TRUE)
    BY <1>1, <1>3 DEF SetupEncryption
  <2> HIDE DEF ready
  <2>2. /\ Live(ready) /\ SameWork(s, ready) /\ SameLink(s, ready) /\ ready.pushReply = s.pushReply
        /\ NegotiationKey(ready).dataPath
        /\ NegotiationKey(ready).controlState = NegotiationKey(s).controlState
        /\ NegotiationKey(ready).state = NegotiationKey(s).state
        /\ NegotiationKey(ready).isTLSConnected = NegotiationKey(s).isTLSConnected
        /\ \A k \in KeyIds : k # s.ring.negotiationKeyIdx => ready.key[k] = s.key[k]
    BY <2>1, DataPathIs, ZenonT(30)
  <2> DEFINE u == Connect(ready)
  <2>3. /\ Base(u) /\ SameWork(ready, u) /\ Completed(ready, u) /\ u.ring = Transition(s.ring)
        /\ u.link /\ u.pushReply /\ u.channel = s.channel /\ u.wire = s.wire
        /\ u.isStopping = s.isStopping
        /\ u.starts = s.starts /\ u.pings = s.pings /\ u.crashed = "no"
        /\ u.alive /\ u.stops = 0
    BY <2>2, ConnectedIs, ZenonT(30) DEF Connect, SameLink
  <2>4. CompleteConnection(s, env) = u
    <3>1. HasNegotiationKey(ready) /\ ready.crashed = "no"
      BY <2>2, NegotiationKeyIs DEF Live
    <3> QED BY <3>1 DEF CompleteConnection, ready, Connect
  <2> HIDE DEF u
  <2>5. Completed(s, u)
    BY <1>1, <2>2, <2>3 DEF Completed, NegotiationKey, Writes, SameLink
  <2> QED BY <2>2, <2>3, <2>4, <2>5 DEF SameWork
<1> QED
  BY <1>2, <1>3

\* A renegotiation that a push request completes, and a negotiation that a
\* PUSH_REPLY completes.
Rekeys(s, u) ==
    /\ Base(u) /\ SameWork(s, u) /\ u.starts = s.starts /\ u.pings = s.pings
    /\ u.link /\ Completed(s, u)
    /\ s.ring.isRenegotiating /\ ~u.ring.isRenegotiating

Opens(s, u) ==
    /\ Base(u) /\ SameWork(s, u) /\ u.starts = s.starts + 1 /\ u.pings = s.pings + 1
    /\ IF u.link THEN Completed(s, u) /\ u.ring.isRenegotiating = s.ring.isRenegotiating
       ELSE Abrupt /\ ~u.alive
    /\ NegotiationKey(s).controlState = "preIfConfig"

LEMMA ForgetIs ==
  ASSUME NEW s, Base(s), RingOK(Settled(s.ring))
  PROVE  LET u == [s EXCEPT !.ring.isRenegotiating = FALSE, !.nextPushRequestDate = TRUE]
         IN  /\ Base(u) /\ SameWork(s, u) /\ u.link = s.link /\ u.isStopping = s.isStopping
             /\ u.ring = Settled(s.ring) /\ u.key = s.key /\ u.channel = s.channel
             /\ u.wire = s.wire /\ u.starts = s.starts /\ u.pings = s.pings
             /\ u.crashed = s.crashed /\ u.alive = s.alive
<1> DEFINE ring == Settled(s.ring)
           u == [s EXCEPT !.ring = ring, !.nextPushRequestDate = TRUE]
<1>1. [s EXCEPT !.ring.isRenegotiating = FALSE, !.nextPushRequestDate = TRUE] = u
  BY DEF Settled
<1>2. s \in SessionType /\ s.ring \in Rings
  BY ZenonT(30) DEF Base, SessionType
<1>3. /\ ring \in Rings /\ RingOK(ring) /\ ring.keys = s.ring.keys
      /\ ring.negotiationKeyIdx = s.ring.negotiationKeyIdx
      /\ ring.currentKeyIdx = s.ring.currentKeyIdx /\ ~ring.isRenegotiating
      /\ InUse(ring) = InUse(s.ring)
  BY <1>2, SettledIs
<1> HIDE DEF ring
<1>4. u \in SessionType
  BY <1>2, <1>3, ZenonT(30) DEF SessionType
<1>5. /\ u.link = s.link /\ u.isStopping = s.isStopping
      /\ u.ring = ring /\ u.key = s.key /\ u.channel = s.channel
      /\ u.wire = s.wire /\ u.starts = s.starts /\ u.stops = s.stops /\ u.pings = s.pings
      /\ u.alive = s.alive /\ u.crashed = s.crashed /\ u.pushReply = s.pushReply
      /\ u.authenticator = s.authenticator
  BY <1>2, ZenonT(30) DEF SessionType
<1>6. SameWork(s, u)
  BY <1>2, ZenonT(30) DEF SessionType, SameWork
<1> HIDE DEF u
<1>7. Base(u)
  BY <1>3, <1>4, <1>5 DEF Base, Shape, Usable, Stages, Ends, NegotiationKey, HasRemoteSessionId
<1> QED
  BY <1>1, <1>5, <1>6, <1>7, ZenonT(30) DEF ring

\* pushRequest.
LEMMA PushRequestIs ==
  ASSUME NEW s, Live(s), NEW env \in Envs
  PROVE  LET u == PushRequest(s, env)
         IN  /\ Goes(s, u) \/ Rekeys(s, u)
             /\ env.fault \notin TLSFaults \cup {"encryption"} => u.link
             /\ NegotiationKey(s).controlState # "preIfConfig" => u = s
             /\ u.link => /\ NegotiationKey(u).state = NegotiationKey(s).state
                          /\ NegotiationKey(u).isTLSConnected = NegotiationKey(s).isTLSConnected
<1> DEFINE u == PushRequest(s, env)
           asked == Enqueue(s, "PUSH_REQUEST")
<1>1. /\ HasNegotiationKey(s) /\ s.ring.negotiationKeyIdx \in KeyIds /\ s.ring \in Rings
      /\ Shape(s.ring)
  BY NegotiationKeyIs
<1>2. CASE u = s
  BY <1>2, GoesSame DEF Live
<1>3. CASE u = Stop(s) /\ env.fault \in TLSFaults
  <2>1. Goes(s, u) /\ (u.link => u.key = s.key)
    BY <1>3, StopGoes
  <2>2. NegotiationKey(s).controlState # "preIfConfig" => u = s
    BY <1>1 DEF PushRequest
  <2> HIDE DEF u
  <2> QED BY <1>3, <2>1, <2>2 DEF Goes, Keeps, NegotiationKey, u
<1>4. CASE /\ u # s /\ env.fault \notin TLSFaults
  <2>1. /\ NegotiationKey(s).controlState = "preIfConfig"
        /\ u = IF s.ring.isRenegotiating
               THEN [CompleteConnection(asked, env) EXCEPT !.ring.isRenegotiating = FALSE,
                                                           !.nextPushRequestDate = TRUE]
               ELSE asked
    <3>1. asked.ring = s.ring
      BY EnqueueIs, ZenonT(30) DEF Bodies, Said, Live, Base
    <3> QED BY <1>1, <1>4, <3>1 DEF PushRequest
  <2>2. CASE ~s.ring.isRenegotiating
    <3>1. u = asked /\ "PUSH_REQUEST" \in Asks(s.ring) /\ ~Greeting(s)
      BY <2>1, <2>2 DEF Asks, Greeting
    <3>2. Goes(s, asked) /\ Live(asked) /\ asked.key = s.key /\ asked.ring = s.ring
      BY <3>1, EnqueueGoes
    <3> HIDE DEF u, asked
    <3> QED BY <2>1, <3>1, <3>2, ZenonT(30) DEF NegotiationKey, Live, u
  <2>3. CASE s.ring.isRenegotiating
    <3> DEFINE v == CompleteConnection(asked, env)
    <3>1. u = [v EXCEPT !.ring.isRenegotiating = FALSE, !.nextPushRequestDate = TRUE]
      BY <2>1, <2>3
    <3>2. /\ Live(asked) /\ Writes(s, asked, {"PUSH_REQUEST"})
          /\ asked.ring = s.ring /\ asked.key = s.key
      BY EnqueueBase, ZenonT(30) DEF Bodies, Said
    <3>3. /\ SameWork(s, asked) /\ asked.starts = s.starts /\ asked.pings = s.pings
          /\ asked.isStopping = s.isStopping /\ asked.channel.inbound = s.channel.inbound
      BY EnqueueIs, ZenonT(30) DEF Bodies, Said, Live, Base
    <3> HIDE DEF asked
    <3>4. NegotiationKey(asked) = NegotiationKey(s)
      BY <3>2 DEF NegotiationKey
    <3>5. asked.pushReply
      <4>1. s.ring.currentKeyIdx # NoIdx
        <5>1. s.ring.negotiationKeyIdx \notin InUse(s.ring)
          BY <2>1, NegotiationKeyIs
        <5>2. s.ring.currentKeyIdx # NoIdx => s.ring.currentKeyIdx \in InUse(s.ring)
          BY <1>1, ShapeIs
        <5>3. CASE s.ring.currentKeyIdx = NoIdx
          <6>1. s.ring.negotiationKeyIdx # s.ring.currentKeyIdx
            BY <1>1, <5>3, KeyRingAssumption DEF KeyIds, NoIdx
          <6> QED BY <1>1, <2>3, <6>1, ShapeIs, RingIs
        <5> QED BY <5>3
      <4> QED BY <3>2, <4>1 DEF Live, Base, Stages
    <3>6. /\ Base(v) /\ SameWork(asked, v) /\ v.starts = asked.starts /\ v.pings = asked.pings
          /\ \/ /\ v.crashed # "no" /\ v.ring = EmptyRing /\ env.fault = "encryption"
                /\ ~v.alive
             \/ /\ v.link /\ v.crashed = "no" /\ Completed(asked, v)
                /\ v.ring = Transition(asked.ring)
      BY <2>1, <3>2, <3>4, <3>5, CompleteIs
    <3> HIDE DEF v
    <3>7. RingOK(Settled(v.ring))
      <4>1. CASE v.ring = EmptyRing
        <5>1. Settled(EmptyRing) = EmptyRing
          <6>1. EmptyRing \in Rings /\ ~EmptyRing.isRenegotiating
            BY FirstNegotiation DEF EmptyRing
          <6> QED BY <6>1, SettledIs
        <5> QED BY <4>1, <5>1, FirstNegotiation
      <4>2. CASE v.ring = Transition(asked.ring)
        BY <2>1, <3>2, <3>4, <4>2, TransitionIs
      <4> QED BY <3>6, <4>1, <4>2
    <3>8. /\ Base(u) /\ SameWork(v, u) /\ u.link = v.link /\ u.isStopping = v.isStopping
          /\ u.ring = Settled(v.ring) /\ u.key = v.key /\ u.channel = v.channel
          /\ u.wire = v.wire /\ u.starts = v.starts /\ u.pings = v.pings
          /\ u.crashed = v.crashed /\ u.alive = v.alive
      BY <3>1, <3>6, <3>7, ForgetIs, ZenonT(30)
    <3> HIDE DEF u
    <3>9. SameWork(s, u) /\ u.starts = s.starts /\ u.pings = s.pings
      BY <3>3, <3>6, <3>8 DEF SameWork
    <3>10. CASE ~u.link
      <4>1. u.crashed # "no" /\ ~u.alive /\ env.fault = "encryption"
        BY <3>6, <3>8, <3>10
      <4> QED BY <2>1, <3>8, <3>9, <3>10, <4>1 DEF Goes, u
    <3>11. CASE u.link
      <4>1. Completed(asked, v)
        BY <3>6, <3>8, <3>11 DEF Base
      <4>2. /\ u.ring.keys = v.ring.keys /\ ~u.ring.isRenegotiating
            /\ u.ring.negotiationKeyIdx = v.ring.negotiationKeyIdx
            /\ u.ring.currentKeyIdx = v.ring.currentKeyIdx
        <5>1. v.ring \in Rings
          BY <3>6, ZenonT(30) DEF Base, SessionType
        <5> QED BY <3>8, <5>1, SettledIs
      <4>3. Writes(s, u, {"PUSH_REQUEST"})
        <5>1. Writes(asked, u, {"PUSH_REQUEST"})
          BY <3>8, <4>1 DEF Completed, Writes
        <5> QED BY <3>2, <3>8, <5>1, WritesTwice
      <4>4. Completed(s, u)
        BY <3>2, <3>3, <3>4, <3>8, <4>1, <4>2, <4>3 DEF Completed, NegotiationKey
      <4>5. Rekeys(s, u)
        BY <2>3, <3>8, <3>9, <3>11, <4>2, <4>4 DEF Rekeys
      <4> QED BY <2>1, <3>11, <4>4, <4>5 DEF Completed, u
    <3> QED BY <3>10, <3>11
  <2> QED BY <2>2, <2>3
<1>5. u = s \/ (env.fault \in TLSFaults => u = Stop(s))
  BY <1>1 DEF PushRequest
<1> QED
  BY <1>2, <1>3, <1>4, <1>5

\* Counters, blocks, packets: what holds of a session depends on none of them.
SameBase(s, u) ==
    /\ u.link = s.link /\ u.isStopping = s.isStopping /\ u.ring = s.ring /\ u.key = s.key
    /\ u.authenticator = s.authenticator /\ u.pushReply = s.pushReply
    /\ u.alive = s.alive /\ u.stops = s.stops /\ u.crashed = s.crashed

LEMMA SameBaseIs ==
  ASSUME NEW s, Base(s), NEW u \in SessionType, SameBase(s, u),
         u.starts = s.starts \/ s.ring.currentKeyIdx # NoIdx
  PROVE  Base(u)
BY DEF Base, Usable, Stages, Ends, NegotiationKey, SameBase, HasRemoteSessionId

\* handleControlMessage, on a PUSH_REPLY with routes: done is the session once its
\* connection is complete.
LEMMA StartedIs ==
  ASSUME NEW s, Live(s), s.ring.currentKeyIdx # NoIdx, NEW env
  PROVE  LET started == [s EXCEPT !.starts = @ + 1]
             up == IF env.fault = "gateway" THEN Stop(started) ELSE started
             u == [up EXCEPT !.pings = @ + 1]
         IN  /\ Base(u) /\ SameWork(s, u) /\ u.starts = s.starts + 1 /\ u.pings = s.pings + 1
             /\ IF u.link
                THEN /\ u.ring = s.ring /\ u.key = s.key /\ (s.isStopping => u.isStopping)
                     /\ u.channel = s.channel /\ u.wire = s.wire
                ELSE Abrupt /\ ~u.alive
<1> DEFINE starts == s.starts + 1
           started == [s EXCEPT !.starts = starts]
           up == IF env.fault = "gateway" THEN Stop(started) ELSE started
           pings == up.pings + 1
           u == [up EXCEPT !.pings = pings]
<1>1. s \in SessionType /\ s.link /\ s.crashed = "no" /\ starts \in Nat /\ s.alive
  <2>1. s \in SessionType /\ s.link /\ s.crashed = "no" /\ s.alive
    BY DEF Live, Base, Ends
  <2>2. s.starts \in Nat
    BY <2>1, ZenonT(30) DEF SessionType
  <2> QED BY <2>1, <2>2
<1> HIDE DEF starts
<1>2. started \in SessionType
  BY <1>1, ZenonT(30) DEF SessionType
<1>3. /\ started.starts = starts /\ started.link = s.link /\ started.isStopping = s.isStopping
      /\ started.ring = s.ring /\ started.key = s.key /\ started.channel = s.channel
      /\ started.wire = s.wire /\ started.authenticator = s.authenticator
      /\ started.pushReply = s.pushReply /\ started.alive = s.alive
      /\ started.stops = s.stops /\ started.crashed = s.crashed /\ started.pings = s.pings
  BY <1>1, ZenonT(30) DEF SessionType
<1>4. SameWork(s, started)
  BY <1>1, ZenonT(30) DEF SessionType, SameWork
<1> HIDE DEF started
<1>5. Live(started)
  BY <1>2, <1>3, SameBaseIs, ZenonT(30) DEF SameBase, Live
<1>6. /\ Base(up) /\ SameWork(s, up) /\ up.starts = starts /\ up.pings = s.pings
      /\ up.crashed = "no"
      /\ IF up.link
         THEN /\ up.ring = s.ring /\ up.key = s.key /\ (s.isStopping => up.isStopping)
              /\ up.channel = s.channel /\ up.wire = s.wire
         ELSE Abrupt /\ ~up.alive
  <2>1. CASE env.fault = "gateway"
    <3>1. up = Stop(started)
      BY <2>1
    <3>2. started.alive /\ Base(started)
      BY <1>5 DEF Live, Base, Ends
    <3> HIDE DEF up
    <3> QED BY <1>1, <1>3, <1>4, <3>1, <3>2, StopIs, ZenonT(30) DEF SameWork
  <2>2. CASE env.fault # "gateway"
    BY <1>1, <1>3, <1>4, <1>5, <2>2 DEF Live
  <2> QED BY <2>1, <2>2
<1> HIDE DEF up
<1>7. up \in SessionType /\ pings \in Nat /\ pings = s.pings + 1
  <2>1. up \in SessionType
    BY <1>6 DEF Base
  <2>2. up.pings \in Nat
    BY <2>1, ZenonT(30) DEF SessionType
  <2> QED BY <1>6, <2>1, <2>2
<1> HIDE DEF pings
<1>8. u \in SessionType
  BY <1>7, ZenonT(30) DEF SessionType
<1>9. /\ u.starts = up.starts /\ u.link = up.link /\ u.isStopping = up.isStopping
      /\ u.ring = up.ring /\ u.key = up.key /\ u.channel = up.channel
      /\ u.wire = up.wire /\ u.authenticator = up.authenticator
      /\ u.pushReply = up.pushReply /\ u.alive = up.alive
      /\ u.stops = up.stops /\ u.crashed = up.crashed /\ u.pings = pings
  BY <1>7, ZenonT(30) DEF SessionType
<1>10. SameWork(up, u)
  BY <1>7, ZenonT(30) DEF SessionType, SameWork
<1> HIDE DEF u
<1>11. Base(u)
  <2>1. Base(up) /\ SameBase(up, u)
    BY <1>6, <1>9 DEF SameBase
  <2> QED BY <1>8, <1>9, <2>1, SameBaseIs
<1>12. SameWork(s, u)
  BY <1>6, <1>10 DEF SameWork
<1> QED
  BY <1>6, <1>7, <1>9, <1>11, <1>12 DEF u, pings, up, started, starts

\* A reply to the push request is kept.
LEMMA PushReplyIs ==
  ASSUME NEW s, Live(s)
  PROVE  LET u == [s EXCEPT !.pushReply = TRUE]
         IN  /\ Goes(s, u) /\ Live(u) /\ u.pushReply /\ u.key = s.key /\ u.ring = s.ring
             /\ SameWork(s, u) /\ SameLink(s, u)
<1> DEFINE u == [s EXCEPT !.pushReply = TRUE]
<1>1. s \in SessionType /\ s.channel.nextOut \in Nat
  BY ZenonT(30) DEF Live, Base, SessionType, Channels
<1>2. u \in SessionType
  BY <1>1, ZenonT(30) DEF SessionType
<1>3. SameWork(s, u) /\ SameLink(s, u) /\ u.key = s.key /\ u.authenticator = s.authenticator
      /\ u.pushReply
  BY <1>1, ZenonT(30) DEF SessionType, SameWork, SameLink
<1> HIDE DEF u
<1>4. Base(u)
  BY <1>2, <1>3 DEF Live, Base, Usable, Stages, Ends, NegotiationKey, SameLink, HasRemoteSessionId
<1>5. Keeps(s, u)
  BY <1>1, <1>3 DEF Keeps, Writes, SameLink, NegotiationKey, Greeting, Live
<1> QED
  BY <1>3, <1>4, <1>5, ZenonT(30) DEF Goes, Live, SameLink, u

\* Neither the handshake nor TLS is concerned.
SameTLS(s, u) == u.link => /\ NegotiationKey(u).state = NegotiationKey(s).state
                           /\ NegotiationKey(u).isTLSConnected = NegotiationKey(s).isTLSConnected

\* handleControlMessage.
LEMMA HandleControlMessageIs ==
  ASSUME NEW s, Live(s), NEW env \in Envs,
         NEW body \in Said \ {"HARD_RESET", "SOFT_RESET", "hello", "auth_reply"}
  PROVE  LET u == HandleControlMessage(s, body, env)
         IN  /\ Goes(s, u) \/ (Opens(s, u) /\ body = "PUSH_REPLY")
             /\ SameTLS(s, u)
<1> DEFINE v == [s EXCEPT !.pushReply = TRUE]
           u == HandleControlMessage(s, body, env)
<1>1. HasNegotiationKey(s)
  BY NegotiationKeyIs
<1>2. /\ Goes(s, v) /\ Live(v) /\ v.pushReply /\ v.key = s.key /\ v.ring = s.ring
      /\ SameWork(s, v) /\ SameLink(s, v)
  BY PushReplyIs
<1>3. NegotiationKey(v) = NegotiationKey(s)
  BY <1>2 DEF NegotiationKey
<1> HIDE DEF v
<1>4. CASE u = s
  BY <1>4, GoesSame DEF SameTLS
<1>5. CASE u = Stop(s)
  BY <1>5, StopGoes DEF SameTLS, Goes, Keeps, NegotiationKey
<1>6. CASE u = Stop(v)
  <2>1. Goes(v, Stop(v)) /\ (Stop(v).link => Stop(v).key = v.key)
    BY <1>2, StopGoes
  <2>2. Goes(s, Stop(v))
    BY <1>2, <2>1, GoesTwice DEF Live
  <2>3. Stop(v).link => NegotiationKey(Stop(v)) = NegotiationKey(s)
    BY <1>2, <2>1, <2>2 DEF Goes, Keeps, NegotiationKey
  <2> QED BY <1>6, <2>2, <2>3 DEF SameTLS
<1>7. CASE u # s /\ u # Stop(s) /\ u # Stop(v)
  <2> DEFINE done == CompleteConnection(v, env)
             started == [done EXCEPT !.starts = @ + 1]
             up == IF env.fault = "gateway" THEN Stop(started) ELSE started
  <2>1. /\ NegotiationKey(s).controlState = "preIfConfig" /\ body = "PUSH_REPLY"
        /\ u = IF done.crashed # "no" THEN done
               ELSE IF ~done.link THEN Crash(done, "no remote address")
               ELSE [up EXCEPT !.pings = @ + 1]
    BY <1>1, <1>7, ZenonT(30) DEF HandleControlMessage, Said, v
  <2>2. /\ Base(done) /\ SameWork(v, done) /\ done.starts = v.starts /\ done.pings = v.pings
        /\ \/ done.crashed # "no" /\ done.ring = EmptyRing /\ ~done.alive
           \/ /\ done.link /\ done.crashed = "no" /\ Completed(v, done)
              /\ done.ring = Transition(v.ring)
    BY <1>2, <1>3, <2>1, CompleteIs, ZenonT(30)
  <2> HIDE DEF done
  <2>3. SameWork(s, done) /\ done.starts = s.starts /\ done.pings = s.pings
    BY <1>2, <2>2 DEF SameWork, SameLink
  <2>4. CASE done.crashed # "no"
    <3>1. u = done /\ ~done.link
      BY <2>1, <2>2, <2>4 DEF Base
    <3> QED BY <2>2, <2>3, <2>4, <3>1 DEF Goes, SameTLS
  <2>5. CASE done.crashed = "no"
    <3>1. /\ done.link /\ Completed(v, done) /\ done.ring = Transition(v.ring) /\ Live(done)
      BY <2>2, <2>5 DEF Live
    <3>2. done.ring.currentKeyIdx # NoIdx /\ done.ring.isRenegotiating = s.ring.isRenegotiating
      <4>1. done.ring.currentKeyIdx \in KeyIds
        BY <1>2, <3>1, NegotiationKeyIs DEF Completed
      <4>2. done.ring.isRenegotiating = s.ring.isRenegotiating
        BY <1>2, <1>3, <2>1, <3>1, TransitionIs
      <4> QED BY <4>1, <4>2, KeyRingAssumption DEF KeyIds, NoIdx
    <3>3. u = [up EXCEPT !.pings = @ + 1]
      BY <2>1, <2>5, <3>1
    <3>4. /\ Base(u) /\ SameWork(done, u) /\ u.starts = done.starts + 1
          /\ u.pings = done.pings + 1
          /\ IF u.link
             THEN /\ u.ring = done.ring /\ u.key = done.key /\ (done.isStopping => u.isStopping)
                  /\ u.channel = done.channel /\ u.wire = done.wire
             ELSE Abrupt /\ ~u.alive
      BY <3>1, <3>2, <3>3, StartedIs
    <3> HIDE DEF u, up
    <3>5. SameWork(s, u) /\ u.starts = s.starts + 1 /\ u.pings = s.pings + 1
      BY <2>3, <3>4 DEF SameWork
    <3>6. u.link => Completed(s, u)
      BY <1>2, <1>3, <3>1, <3>4 DEF Completed, NegotiationKey, SameLink, Writes
    <3>7. u.link => u.ring.isRenegotiating = s.ring.isRenegotiating
      BY <3>2, <3>4
    <3>8. Opens(s, u)
      BY <2>1, <3>4, <3>5, <3>6, <3>7, ZenonT(30) DEF Opens
    <3> QED BY <2>1, <3>6, <3>8, ZenonT(30) DEF SameTLS, Completed, u
  <2> QED BY <2>4, <2>5
<1> QED
  BY <1>4, <1>5, <1>6, <1>7

\* handleControlData, on the reply to the credentials.
LEMMA AuthenticatedIs ==
  ASSUME NEW s, Live(s), NegotiationKey(s).controlState = "preAuth"
  PROVE  LET u == [SetNegotiationKey(s, "controlState", "preIfConfig")
                     EXCEPT !.authenticator = "authenticated", !.nextPushRequestDate = TRUE]
         IN  /\ Goes(s, u) /\ Live(u) /\ SameTLS(s, u)
             /\ u.channel = s.channel /\ u.wire = s.wire
<1> DEFINE key == [NegotiationKey(s) EXCEPT !["controlState"] = "preIfConfig"]
           t == SetNegotiationKey(s, "controlState", "preIfConfig")
           u == [t EXCEPT !.authenticator = "authenticated", !.nextPushRequestDate = TRUE]
<1>1. /\ NegotiationKey(s) \in SessionKeys /\ s \in SessionType
      /\ NegotiationKey(s).isTLSConnected /\ NegotiationKey(s).state = "tls"
      /\ s.ring.currentKeyIdx # NoIdx => s.pushReply
  BY NegotiationKeyIs DEF Live, Base, Stages, NegotiationKey
<1>2. /\ key \in SessionKeys /\ key.state = NegotiationKey(s).state
      /\ key.dataPath = NegotiationKey(s).dataPath /\ key.controlState = "preIfConfig"
      /\ key.isTLSConnected = NegotiationKey(s).isTLSConnected
  BY <1>1, ZenonT(30) DEF SessionKeys
<1>3. /\ t \in SessionType /\ SameWork(s, t) /\ SameLink(s, t)
      /\ t.key = [s.key EXCEPT ![s.ring.negotiationKeyIdx] = key]
      /\ t.pushReply = s.pushReply
  <2>1. t = [s EXCEPT !.key = [s.key EXCEPT ![s.ring.negotiationKeyIdx] = key]]
    BY DEF SetNegotiationKey, NegotiationKey
  <2>2. key \in SessionKeys /\ s \in SessionType
    BY <1>1, <1>2
  <2> HIDE DEF key, t
  <2> QED BY <2>1, <2>2, SetKeyIs, ZenonT(30)
<1> HIDE DEF key, t
<1>4. u \in SessionType
  BY <1>3, ZenonT(30) DEF SessionType
<1>5. u.key = t.key /\ u.pushReply = t.pushReply /\ u.authenticator = "authenticated"
  BY <1>3, ZenonT(30) DEF SessionType
<1>6. SameWork(s, u) /\ SameLink(s, u)
  BY <1>3, ZenonT(30) DEF SessionType, SameWork, SameLink
<1> HIDE DEF u
<1>7. Goes(s, u) /\ Live(u) /\ NegotiationKey(u) = key
  <2>1. key.isTLSConnected /\ key.state = "tls"
    BY <1>1, <1>2
  <2>2. u.key = [s.key EXCEPT ![s.ring.negotiationKeyIdx] = key]
    BY <1>3, <1>5
  <2>3. s.ring.currentKeyIdx # NoIdx => u.pushReply
    BY <1>1, <1>3, <1>5
  <2> QED BY <1>2, <1>4, <1>5, <1>6, <2>1, <2>2, <2>3, KeyGoes
<1> QED
  BY <1>2, <1>6, <1>7 DEF SameLink, SameTLS, u, t

LEMMA HandleControlDataIs ==
  ASSUME NEW s, Live(s), NEW env \in Envs,
         NEW body \in Said \ {"HARD_RESET", "SOFT_RESET", "hello"}
  PROVE  LET u == HandleControlData(s, body, env)
         IN  /\ Goes(s, u) \/ Rekeys(s, u) \/ (Opens(s, u) /\ body = "PUSH_REPLY")
             /\ SameTLS(s, u)
<1> DEFINE v == [SetNegotiationKey(s, "controlState", "preIfConfig")
                   EXCEPT !.authenticator = "authenticated", !.nextPushRequestDate = TRUE]
           u == HandleControlData(s, body, env)
<1>1. CASE u = s
  BY <1>1, GoesSame DEF SameTLS
<1>2. CASE u = Stop(s)
  BY <1>2, StopGoes DEF SameTLS, Goes, Keeps, NegotiationKey
<1>3. CASE u = HandleControlMessage(s, body, env) /\ body # "auth_reply"
  BY <1>3, HandleControlMessageIs
<1>4. CASE u = PushRequest(v, env) /\ NegotiationKey(s).controlState = "preAuth"
  <2> DEFINE w == PushRequest(v, env)
  <2>1. /\ Goes(s, v) /\ Live(v) /\ SameTLS(s, v)
        /\ v.channel = s.channel /\ v.wire = s.wire
    BY <1>4, AuthenticatedIs, ZenonT(30)
  <2> HIDE DEF v
  <2>2. /\ Goes(v, w) \/ Rekeys(v, w)
        /\ w.link => /\ NegotiationKey(w).state = NegotiationKey(v).state
                     /\ NegotiationKey(w).isTLSConnected = NegotiationKey(v).isTLSConnected
    BY <2>1, PushRequestIs
  <2>3. v.link /\ s.link
    BY <2>1 DEF Live
  <2>4. SameTLS(s, w)
    BY <2>1, <2>2, <2>3 DEF SameTLS
  <2>5. CASE Goes(v, w)
    <3>1. Goes(s, w)
      BY <2>1, <2>3, <2>5, GoesTwice
    <3> QED BY <1>4, <2>4, <3>1
  <2>6. CASE Rekeys(v, w)
    <3>1. Keeps(s, v) /\ SameWork(s, v) /\ v.starts = s.starts /\ v.pings = s.pings
      BY <2>1, <2>3 DEF Goes
    <3>2. SameWork(s, w)
      BY <2>6, <3>1 DEF SameWork, Rekeys
    <3>3. Completed(s, w)
      BY <2>1, <2>3, <2>6, <3>1 DEF Rekeys, Completed, Keeps, SameTLS, Writes, NegotiationKey
    <3>4. Rekeys(s, w)
      BY <2>6, <3>1, <3>2, <3>3 DEF Rekeys, Keeps
    <3> QED BY <1>4, <2>4, <3>4
  <2> QED BY <2>2, <2>5, <2>6
<1>5. \/ u = s \/ u = Stop(s) \/ (u = HandleControlMessage(s, body, env) /\ body # "auth_reply")
      \/ (u = PushRequest(v, env) /\ NegotiationKey(s).controlState = "preAuth")
  BY DEF HandleControlData
<1> HIDE DEF u, v
<1> QED
  BY <1>1, <1>2, <1>3, <1>4, <1>5 DEF u

\* What a control packet makes of a session that is there.
Steps(s, packet, u) ==
    /\ Base(u)
    /\ Goes(s, u) \/ Rekeys(s, u) \/ (Opens(s, u) /\ packet.body = "PUSH_REPLY")
    /\ packet.key # s.ring.negotiationKeyIdx => u = s
    /\ u.link => /\ \/ NegotiationKey(u).state = NegotiationKey(s).state
                    \/ StartsTLS(s, packet)
                 /\ \/ NegotiationKey(u).isTLSConnected = NegotiationKey(s).isTLSConnected
                    \/ packet.body = "hello"
    /\ ~u.link => u.crashed # "no" \/ s.ring.currentKeyIdx = NoIdx

\* What these theorems are about: a serial queue, a server that renegotiates the
\* key in use, packets that can be serialized, and, where a stop runs inside its
\* handler, a peer whose session id and TLS data are never refused.
Scope == /\ ~Concurrent
         /\ "early_reset" \notin Faults
         /\ "serialize" \notin Faults /\ "random" \notin Faults
         /\ Abrupt => "tls" \notin Faults /\ "mismatch" \notin Faults

\* Taking the crash of a session for a stop of its own.
LEMMA CrashSteps ==
  ASSUME NEW s, NEW u, NEW v, Base(v), SameWork(u, v), v.starts = u.starts, v.pings = u.pings,
         v.alive = u.alive, v.crashed # "no", ~v.link, ~u.link
  PROVE  /\ Goes(s, u) => Goes(s, v)
         /\ ~Rekeys(s, u)
         /\ Opens(s, u) => Opens(s, v)
BY DEF Goes, Rekeys, Opens, SameWork

\* handleControlPacket, up to the TLS exchange and with it.
LEMMA ExchangeTLSIs ==
  ASSUME Scope, NEW s, Live(s), NEW env \in Envs, NEW packet \in Answer,
         packet.key = s.ring.negotiationKeyIdx,
         packet.body \notin {"HARD_RESET", "SOFT_RESET"}, NegotiationKey(s).state = "tls"
  PROVE  Steps(s, packet, ExchangeTLS(s, packet, env))
<1> DEFINE finished == Enqueue(SetNegotiationKey(s, "isTLSConnected", TRUE), "finished")
           after == IF ShouldOnTLSConnect(s, packet)
                    THEN IF HasNegotiationKey(finished) THEN OnTLSConnect(finished, env)
                                                        ELSE finished
                    ELSE IF packet.body = "hello" THEN s
                    ELSE HandleControlData(s, packet.body, env)
           u == ExchangeTLS(s, packet, env)
<1>1. s.link /\ packet.body \in Said
  BY DEF Live, Answer
<1>2. CASE env.fault \in {"mismatch", "tls"}
  <2>1. u = Stop(s) /\ ~Abrupt
    BY <1>2 DEF ExchangeTLS, Scope, Envs, Env
  <2>2. /\ Goes(s, u) /\ (u.link => u.key = s.key)
    BY <2>1, StopGoes
  <2> HIDE DEF u
  <2> QED BY <2>1, <2>2 DEF Steps, Goes, Keeps, NegotiationKey, u
<1>3. CASE env.fault \notin {"mismatch", "tls"}
  <2>1. /\ Goes(s, after) \/ Rekeys(s, after) \/ (Opens(s, after) /\ packet.body = "PUSH_REPLY")
        /\ packet.body # "hello" => SameTLS(s, after)
        /\ after.link => NegotiationKey(after).state = NegotiationKey(s).state
    <3>1. CASE ShouldOnTLSConnect(s, packet)
      <4>1. packet.body = "hello" /\ ~NegotiationKey(s).isTLSConnected
        BY <3>1 DEF ShouldOnTLSConnect
      <4>2. Goes(s, after)
        BY <3>1, <4>1, OnTLSConnectGoes, ZenonT(30)
      <4> HIDE DEF after
      <4> QED BY <4>1, <4>2 DEF Goes, Keeps
    <3>2. CASE ~ShouldOnTLSConnect(s, packet) /\ packet.body = "hello"
      BY <3>2, GoesSame
    <3>3. CASE packet.body # "hello"
      <4>1. after = HandleControlData(s, packet.body, env)
        BY <3>3 DEF ShouldOnTLSConnect
      <4>2. packet.body \in Said \ {"HARD_RESET", "SOFT_RESET", "hello"}
        BY <1>1, <3>3
      <4> HIDE DEF after
      <4>3. /\ Goes(s, after) \/ Rekeys(s, after)
               \/ (Opens(s, after) /\ packet.body = "PUSH_REPLY")
            /\ SameTLS(s, after)
        BY <4>1, <4>2, HandleControlDataIs
      <4> QED BY <4>3 DEF SameTLS
    <3> QED BY <3>1, <3>2, <3>3, ZenonT(30)
  <2>2. u = IF HasNegotiationKey(after) THEN after ELSE Crash(after, "no negotiation key")
    BY <1>3 DEF ExchangeTLS
  <2> HIDE DEF after, u
  <2>3. Base(after)
    BY <2>1 DEF Goes, Rekeys, Opens
  <2>4. CASE after.link
    <3>1. u = after
      BY <2>2, <2>3, <2>4, NegotiationKeyIs, ShapeIs, ZenonT(30) DEF Base, HasNegotiationKey, SessionType
    <3> QED BY <2>1, <2>3, <2>4, <3>1 DEF Steps, SameTLS, u
  <2>5. CASE ~after.link
    <3> DEFINE v == Crash(after, "no negotiation key")
    <3>1. /\ Base(v) /\ SameWork(after, v) /\ v.crashed # "no" /\ ~v.link
          /\ ~HasNegotiationKey(after) /\ v.starts = after.starts /\ v.pings = after.pings
          /\ v.alive = after.alive
      BY <2>3, <2>5, CrashIs, ZenonT(30) DEF Fatal
    <3>2. u = v
      BY <2>2, <3>1, ZenonT(30)
    <3> HIDE DEF v
    <3>3. Goes(s, u) \/ (Opens(s, u) /\ packet.body = "PUSH_REPLY")
      BY <2>1, <2>5, <3>1, <3>2, CrashSteps
    <3> QED BY <3>1, <3>2, <3>3 DEF Steps, u
  <2> QED BY <2>4, <2>5
<1> QED
  BY <1>2, <1>3

LEMMA HandleControlPacketIs ==
  ASSUME Scope, NEW s, Live(s), NEW env \in Envs, NEW packet \in Answer
  PROVE  Steps(s, packet, HandleControlPacket(s, packet, env))
<1> DEFINE u == HandleControlPacket(s, packet, env)
<1>1. HasNegotiationKey(s) /\ s.link
  BY NegotiationKeyIs DEF Live
<1>2. CASE u = s
  <2>1. Base(s)
    BY DEF Live
  <2> QED BY <1>1, <1>2, <2>1, GoesSame DEF Steps
<1>3. CASE u = StartTLS(s, env) /\ StartsTLS(s, packet) /\ packet.key = s.ring.negotiationKeyIdx
  <2> DEFINE v == StartTLS(s, env)
  <2>1. /\ Goes(s, v)
        /\ v.link => NegotiationKey(v).isTLSConnected = NegotiationKey(s).isTLSConnected
        /\ env.fault \notin {"tls", "mismatch"} => v.link
    BY StartTLSGoes
  <2>2. ~v.link => ~Abrupt
    BY <2>1 DEF Scope, Envs, Env
  <2> HIDE DEF v
  <2>3. Steps(s, packet, v)
    BY <1>3, <2>1, <2>2 DEF Steps, Goes
  <2> QED BY <1>3, <2>3 DEF v
<1>4. CASE /\ u = ExchangeTLS(s, packet, env) /\ packet.key = s.ring.negotiationKeyIdx
           /\ packet.body \notin {"HARD_RESET", "SOFT_RESET"}
           /\ NegotiationKey(s).state = "tls"
  BY <1>4, ExchangeTLSIs
<1> QED
  BY <1>1, <1>2, <1>3, <1>4 DEF HandleControlPacket
-----------------------------------------------------------------------------
(* The methods that the blocks of the queue are made of.                   *)

\* Another tick is scheduled, or one has run.
LEMMA TicksIs ==
  ASSUME NEW s, Base(s), NEW ticks \in Nat
  PROVE  LET u == [s EXCEPT !.ticks = ticks]
         IN  /\ Base(u) /\ u.ticks = ticks /\ u.inbox = s.inbox /\ u.due = s.due
             /\ u.resets = s.resets /\ u.starts = s.starts /\ u.pings = s.pings
             /\ SameBase(s, u) /\ u.channel = s.channel /\ u.wire = s.wire
<1> DEFINE u == [s EXCEPT !.ticks = ticks]
<1>1. s \in SessionType
  BY DEF Base
<1>2. u \in SessionType
  BY <1>1, ZenonT(30) DEF SessionType
<1>3. /\ u.ticks = ticks /\ u.inbox = s.inbox /\ u.due = s.due
      /\ u.resets = s.resets /\ u.starts = s.starts /\ u.pings = s.pings
      /\ SameBase(s, u) /\ u.channel = s.channel /\ u.wire = s.wire
  BY <1>1, ZenonT(30) DEF SessionType, SameBase
<1> HIDE DEF u
<1>4. Base(u)
  BY <1>2, <1>3, SameBaseIs
<1> QED
  BY <1>3, <1>4 DEF u

\* The negotiation of a session with a link, from one block to the next.
Moves(s, u) ==
    \/ Keeps(s, u)
    \/ Completed(s, u) /\ s.ring.isRenegotiating /\ ~u.ring.isRenegotiating

\* loopNegotiation.
Loops(s, u) ==
    /\ Base(u) /\ u.inbox = s.inbox /\ u.due = s.due /\ u.resets = s.resets
    /\ u.starts = s.starts /\ u.pings = s.pings
    /\ IF u.link THEN /\ s.link /\ Moves(s, u) /\ SameTLS(s, u)
                      /\ NegotiationKey(u).controlState # "connected" => u.ticks > 0
       ELSE s.link => ~u.alive

LEMMA LoopNegotiationIs ==
  ASSUME NEW s, Base(s), s.crashed = "no", s.alive, NEW late \in BOOLEAN, NEW env \in Envs
  PROVE  LET u == LoopNegotiation(s, late, env)
         IN  /\ Loops(s, u)
             /\ env.fault \notin TLSFaults \cup {"encryption"} => u.crashed = "no"
<1> DEFINE u == LoopNegotiation(s, late, env)
<1>1. s \in SessionType /\ s.ticks \in Nat /\ s.stops = 0
  BY ZenonT(30) DEF Base, SessionType, Ends
<1>2. CASE ~s.link
  <2>1. u = s
    BY <1>2 DEF LoopNegotiation
  <2> QED BY <1>2, <2>1 DEF Loops
<1>3. CASE s.link /\ u = DidStop(s)
  <2>1. /\ Base(u) /\ SameWork(s, u) /\ u.starts = s.starts /\ u.pings = s.pings /\ ~u.link
        /\ u.crashed = "no" /\ ~u.alive
    BY <1>1, <1>3, DidStopIs
  <2> QED BY <2>1 DEF Loops, SameWork
<1>4. CASE s.link /\ u # DidStop(s)
  <2> DEFINE asked == PushRequest(s, env)
  <2>1. Live(s) /\ s.ring.keys # {}
    BY <1>4 DEF Live, Base
  <2>2. /\ (Goes(s, asked) \/ Rekeys(s, asked)) /\ SameTLS(s, asked)
        /\ env.fault \notin TLSFaults \cup {"encryption"} => asked.link
    BY <2>1, PushRequestIs DEF SameTLS
  <2>3. Base(asked) /\ SameWork(s, asked) /\ asked.starts = s.starts /\ asked.pings = s.pings
    BY <2>2 DEF Goes, Rekeys
  <2>4. asked.link => Moves(s, asked)
    BY <2>2 DEF Goes, Rekeys, Moves
  <2>0. Flush(asked) = asked
    BY <2>3, FailingIs DEF Base
  <2>5. u = IF asked.crashed # "no" THEN asked
            ELSE IF ~HasNegotiationKey(asked) THEN Crash(asked, "no negotiation key")
            ELSE IF NegotiationKey(asked).controlState = "connected" THEN asked
            ELSE [asked EXCEPT !.ticks = @ + 1]
    BY <1>4, <2>0, <2>1, ZenonT(30) DEF LoopNegotiation
  <2> HIDE DEF asked, u
  <2>6. CASE ~asked.link
    <3>1. /\ Base(u) /\ SameWork(asked, u) /\ u.starts = asked.starts /\ u.pings = asked.pings
          /\ ~u.link /\ u.alive = asked.alive
      BY <2>3, <2>5, <2>6, CrashIs, ZenonT(30) DEF Fatal, SameWork
    <3>2. ~asked.alive
      BY <2>2, <2>6 DEF Goes, Rekeys
    <3> QED BY <2>2, <2>3, <2>6, <3>1, <3>2, ZenonT(30) DEF Loops, SameWork, u
  <2>7. CASE asked.link /\ u = asked
    <3>1. NegotiationKey(asked).controlState = "connected"
      <4>1. asked.crashed = "no"
        BY <2>3, <2>7 DEF Base
      <4>2. HasNegotiationKey(asked) /\ asked.ticks \in Nat
        BY <2>3, <2>7, <4>1, NegotiationKeyIs, ZenonT(30) DEF Live, Base, SessionType
      <4>3. [asked EXCEPT !.ticks = asked.ticks + 1] # asked
        <5>1. asked.ticks + 1 \in Nat /\ asked.ticks + 1 # asked.ticks
          BY <4>2
        <5>2. [asked EXCEPT !.ticks = asked.ticks + 1].ticks = asked.ticks + 1
          BY <2>3, <5>1, TicksIs
        <5> QED BY <5>1, <5>2, ZenonT(30)
      <4> QED BY <2>5, <2>7, <4>1, <4>2, <4>3
    <3> QED BY <2>2, <2>3, <2>4, <2>7, <2>1, <3>1 DEF Loops, SameWork, Live, Base, u
  <2>8. CASE asked.link /\ u # asked
    <3> DEFINE ticks == asked.ticks + 1
    <3>1. asked.crashed = "no"
      BY <2>3, <2>8 DEF Base
    <3>2. HasNegotiationKey(asked)
      BY <2>3, <2>8, <3>1, NegotiationKeyIs DEF Live
    <3>3. u = [asked EXCEPT !.ticks = ticks]
      BY <2>5, <2>8, <3>1, <3>2
    <3>4. ticks \in Nat /\ ticks > 0
      <4>1. asked.ticks \in Nat
        BY <2>3, ZenonT(30) DEF Base, SessionType
      <4> QED BY <4>1
    <3> HIDE DEF ticks
    <3>5. /\ Base(u) /\ u.ticks = ticks /\ u.inbox = asked.inbox /\ u.due = asked.due
          /\ u.resets = asked.resets /\ u.starts = asked.starts /\ u.pings = asked.pings
          /\ SameBase(asked, u) /\ u.channel = asked.channel /\ u.wire = asked.wire
      BY <2>3, <3>3, <3>4, TicksIs, SMTT(30)
    <3>6. Moves(s, u)
      BY <2>4, <2>8, <3>5 DEF Moves, Keeps, Completed, SameBase, Writes, Greeting, NegotiationKey
    <3>7. SameTLS(s, u)
      BY <2>2, <2>8, <3>5 DEF SameTLS, SameBase, NegotiationKey
    <3>8. u.link
      BY <2>8, <3>5 DEF SameBase
    <3> QED BY <1>4, <2>3, <3>1, <3>4, <3>5, <3>6, <3>7, <3>8 DEF Loops, SameWork, SameBase, u
  <2> QED BY <2>6, <2>7, <2>8
<1> QED
  BY <1>2, <1>3, <1>4

\* A negotiation that starts has its first tick, and its first packet if the
\* client is the one to speak.
LEMMA NewKeyIs ==
  ASSUME NEW state \in {"hardReset", "softReset"}
  PROVE  LET key == NewKey(state)
         IN  /\ key \in SessionKeys /\ key.state = state /\ key.controlState = "none"
             /\ ~key.isTLSConnected
BY DEF NewKey, SessionKeys

Begins(s, u) ==
    /\ Live(u) /\ u.inbox = s.inbox /\ u.due = s.due /\ u.resets = s.resets
    /\ u.starts = s.starts /\ u.pings = s.pings /\ u.ticks > 0
    /\ u.ring = s.ring /\ u.key = s.key /\ u.isStopping = s.isStopping

LEMMA BeginsIs ==
  ASSUME NEW s, Live(s), NegotiationKey(s).controlState = "none", s.channel = FreshChannel,
         NEW body \in Bodies
  PROVE  LET loop == LoopNegotiation(s, FALSE, Env(FALSE, "none"))
             said == Enqueue(loop, body)
         IN  /\ Begins(s, loop) /\ loop.wire = s.wire /\ loop.channel = FreshChannel
             /\ Begins(s, said) /\ said.channel.inbound = <<>> /\ said.channel.nextOut = 1
             /\ said.wire = s.wire \cup {[key |-> s.ring.negotiationKeyIdx, id |-> 0, body |-> body]}
<1> DEFINE ticks == s.ticks + 1
           loop == [s EXCEPT !.ticks = ticks]
           said == Enqueue(loop, body)
<1>1. HasNegotiationKey(s) /\ s.link /\ s.crashed = "no" /\ s.ring.keys # {} /\ Base(s)
  BY NegotiationKeyIs DEF Live, Base
<1>2. PushRequest(s, Env(FALSE, "none")) = s
  BY <1>1 DEF PushRequest
<1>3. LoopNegotiation(s, FALSE, Env(FALSE, "none")) = loop
  <2>1. Flush(s) = s
    BY <1>1, FailingIs DEF Base
  <2> QED BY <1>1, <1>2, <2>1, ZenonT(30) DEF LoopNegotiation
<1>4. s.ticks \in Nat
  BY <1>1, ZenonT(30) DEF Base, SessionType
<1>5. ticks \in Nat /\ ticks > 0
  BY <1>4
<1> HIDE DEF ticks
<1>6. /\ Base(loop) /\ loop.ticks = ticks /\ loop.inbox = s.inbox /\ loop.due = s.due
      /\ loop.resets = s.resets /\ loop.starts = s.starts /\ loop.pings = s.pings
      /\ SameBase(s, loop) /\ loop.channel = s.channel /\ loop.wire = s.wire
  BY <1>1, <1>5, TicksIs
<1> HIDE DEF loop
<1>7. Live(loop)
  BY <1>1, <1>6 DEF Live, SameBase
<1>8. Begins(s, loop)
  BY <1>5, <1>6, <1>7 DEF Begins, SameBase
<1>9. loop \in SessionType /\ loop.link
  BY <1>7 DEF Live, Base
<1>10. /\ SameWork(loop, said) /\ said.ring = loop.ring /\ said.key = loop.key
       /\ said.isStopping = loop.isStopping
       /\ said.starts = loop.starts /\ said.pings = loop.pings
       /\ said.channel.inbound = loop.channel.inbound
       /\ said.channel.nextOut = loop.channel.nextOut + 1
       /\ said.wire = loop.wire \cup {[key |-> loop.ring.negotiationKeyIdx,
                                      id |-> loop.channel.nextOut, body |-> body]}
  BY <1>9, EnqueueIs
<1>11. Live(said)
  BY <1>7, EnqueueBase, ZenonT(30)
<1> HIDE DEF said
<1>12. Begins(s, said)
  BY <1>8, <1>10, <1>11 DEF Begins, SameWork
<1>13. FreshChannel.inbound = <<>> /\ FreshChannel.nextOut = 0
  BY DEF FreshChannel
<1>14. /\ loop.wire = s.wire /\ loop.channel = FreshChannel
       /\ said.channel.inbound = <<>> /\ said.channel.nextOut = 1
       /\ said.wire = s.wire \cup {[key |-> s.ring.negotiationKeyIdx, id |-> 0, body |-> body]}
  BY <1>6, <1>10, <1>13 DEF SameBase
<1> QED
  BY <1>3, <1>8, <1>12, <1>14, ZenonT(30) DEF said

\* hardReset, when the link is set.
LEMMA HardResetIs ==
  ASSUME NEW s, Base(s), ~s.link, s.crashed = "no", s.alive
  PROVE  LET u == HardReset([s EXCEPT !.link = TRUE, !.wire = {}, !.starts = 0, !.stops = 0], TRUE)
         IN  /\ Live(u) /\ u.inbox = s.inbox /\ u.due = s.due /\ u.resets = s.resets
             /\ u.starts = 0 /\ u.ticks > 0 /\ u.isStopping = s.isStopping
             /\ u.ring = RingHardReset(EmptyRing) /\ u.ring.negotiationKeyIdx = 0
             /\ u.ring.currentKeyIdx = NoIdx /\ ~u.ring.isRenegotiating
             /\ NegotiationKey(u) = NewKey("hardReset")
             /\ u.channel.inbound = <<>> /\ u.channel.nextOut = 1
             /\ u.wire = {[key |-> 0, id |-> 0, body |-> "HARD_RESET"]}
<1> DEFINE v == [s EXCEPT !.link = TRUE, !.wire = {}, !.starts = 0, !.stops = 0]
           ring == RingHardReset(EmptyRing)
           key == [s.key EXCEPT ![0] = NewKey("hardReset")]
           reset == [s EXCEPT !.link = TRUE, !.wire = {}, !.starts = 0, !.stops = 0,
                              !.authenticator = "none", !.channel = FreshChannel,
                              !.pushReply = FALSE, !.ring = ring, !.key = key]
           loop == LoopNegotiation(reset, FALSE, Env(FALSE, "none"))
           u == Enqueue(loop, "HARD_RESET")
<1>1. s \in SessionType /\ s.ring = EmptyRing /\ s.key \in [KeyIds -> SessionKeys] /\ 0 \in KeyIds
  <2>1. s \in SessionType /\ s.ring.keys = {} /\ Shape(s.ring)
    BY DEF Base
  <2>2. s.ring \in Rings /\ s.key \in [KeyIds -> SessionKeys]
    BY <2>1, ZenonT(30) DEF SessionType
  <2>3. s.ring = EmptyRing
    BY <2>1, <2>2, ShapeIs
  <2> QED BY <2>1, <2>2, <2>3, KeyRingAssumption DEF KeyIds
<1>2. /\ ring \in Rings /\ RingOK(ring) /\ ring.negotiationKeyIdx = 0 /\ ring.keys = {0}
      /\ ring.currentKeyIdx = NoIdx /\ ~ring.isRenegotiating /\ InUse(ring) = {}
  <2>1. ring \in Rings /\ RingOK(ring)
    BY FirstNegotiation
  <2>2. /\ ring.negotiationKeyIdx = 0 /\ ring.keys = {0} /\ ring.currentKeyIdx = NoIdx
        /\ ~ring.isRenegotiating
    BY DEF RingHardReset, EmptyRing
  <2> HIDE DEF ring
  <2> QED BY <2>1, <2>2, RingIs
<1>3. HardReset(v, TRUE) = u
  <2>1. v.ring = EmptyRing /\ v.key = s.key
    BY <1>1, ZenonT(30) DEF SessionType
  <2>2. HardReset(v, TRUE) = Enqueue(LoopNegotiation(
            [[v EXCEPT !.channel = FreshChannel]
               EXCEPT !.authenticator = "none", !.pushReply = FALSE,
                      !.ring = RingHardReset(v.ring),
                      !.key = [v.key EXCEPT ![0] = NewKey("hardReset")]],
            FALSE, Env(FALSE, "none")), "HARD_RESET")
    BY <2>1, ZenonT(30) DEF HardReset
  <2> QED BY <2>1, <2>2
<1>4. /\ key \in [KeyIds -> SessionKeys] /\ key[0] = NewKey("hardReset")
      /\ \A k \in KeyIds : k # 0 => key[k] = s.key[k]
  BY <1>1, NewKeyIs
<1> HIDE DEF ring, key
<1>5. reset \in SessionType
  BY <1>1, <1>2, <1>4, FreshChannelType, ZenonT(30) DEF SessionType
<1>6. /\ reset.link /\ reset.wire = {} /\ reset.starts = 0 /\ reset.stops = 0
      /\ reset.channel = FreshChannel /\ reset.ring = ring /\ reset.key = key
      /\ reset.alive = s.alive /\ reset.crashed = s.crashed /\ reset.isStopping = s.isStopping
      /\ reset.inbox = s.inbox /\ reset.due = s.due /\ reset.resets = s.resets
  BY <1>1, ZenonT(30) DEF SessionType
<1> HIDE DEF reset
<1>7. NegotiationKey(reset) = NewKey("hardReset")
  BY <1>2, <1>4, <1>6 DEF NegotiationKey
<1>8. Stages(reset)
  <2>1. \A k \in KeyIds : /\ reset.key[k].controlState # "none" => reset.key[k].isTLSConnected
                          /\ reset.key[k].isTLSConnected => reset.key[k].state = "tls"
    BY <1>4, <1>6, NewKeyIs DEF Base, Stages
  <2> QED BY <1>2, <1>6, <1>7, <2>1, NewKeyIs DEF Stages
<1>9. Live(reset)
  <2>1. Usable(reset) /\ Ends(reset) /\ Shape(reset.ring) /\ reset.ring.keys # {}
    BY <1>2, <1>6 DEF Usable, Ends, Shape
  <2> QED BY <1>5, <1>6, <1>8, <2>1 DEF Live, Base
<1>10. /\ Begins(reset, u) /\ u.channel.inbound = <<>> /\ u.channel.nextOut = 1
       /\ u.wire = {} \cup {[key |-> 0, id |-> 0, body |-> "HARD_RESET"]}
  <2>1. "HARD_RESET" \in Bodies
    BY DEF Bodies, Said
  <2>2. NegotiationKey(reset).controlState = "none"
    BY <1>7, NewKeyIs
  <2>3. reset.ring.negotiationKeyIdx = 0 /\ reset.wire = {}
    BY <1>2, <1>6
  <2>4. /\ Begins(reset, u) /\ u.channel.inbound = <<>> /\ u.channel.nextOut = 1
        /\ u.wire = reset.wire \cup {[key |-> reset.ring.negotiationKeyIdx, id |-> 0,
                                      body |-> "HARD_RESET"]}
    BY <1>6, <1>9, <2>1, <2>2, BeginsIs, ZenonT(30)
  <2> HIDE DEF u
  <2> QED BY <2>3, <2>4
<1> HIDE DEF u
<1>11. NegotiationKey(u) = NewKey("hardReset")
  BY <1>7, <1>10 DEF Begins, NegotiationKey
<1> QED
  BY <1>2, <1>3, <1>6, <1>10, <1>11, ZenonT(30) DEF Begins, ring, u, v

\* softReset, of a session that uses the key negotiated last.
LEMMA SoftResetIs ==
  ASSUME NEW s, Live(s), s.ring.currentKeyIdx # NoIdx, ~s.ring.isRenegotiating,
         NEW byServer \in BOOLEAN
  PROVE  LET u == SoftReset(s, byServer)
             next == Following(s.ring.negotiationKeyIdx)
         IN  /\ Live(u) /\ u.inbox = s.inbox /\ u.due = s.due /\ u.resets = s.resets + 1
             /\ u.starts = s.starts /\ u.pings = s.pings /\ u.ticks > 0
             /\ u.isStopping = s.isStopping
             /\ u.ring = RingSoftReset(s.ring) /\ u.ring.negotiationKeyIdx = next
             /\ s.ring.negotiationKeyIdx = s.ring.currentKeyIdx
             /\ u.ring.currentKeyIdx = s.ring.currentKeyIdx /\ u.ring.isRenegotiating
             /\ next \notin s.ring.keys /\ NegotiationKey(u) = NewKey("softReset")
             /\ \A k \in KeyIds : k # next => u.key[k] = s.key[k]
             /\ u.channel.inbound = <<>>
             /\ u.wire = Recent(s) \cup
                   (IF byServer THEN {} ELSE {[key |-> next, id |-> 0, body |-> "SOFT_RESET"]})
             /\ ~byServer => u.channel.nextOut = 1
<1> DEFINE next == Following(s.ring.negotiationKeyIdx)
           ring == RingSoftReset(s.ring)
           key == [s.key EXCEPT ![next] = NewKey("softReset")]
           resets == s.resets + 1
           wire == Recent(s)
           reset == [s EXCEPT !.authenticator = "none", !.channel = FreshChannel,
                              !.ring = ring, !.key = key, !.wire = wire, !.resets = resets]
           loop == LoopNegotiation(reset, FALSE, Env(FALSE, "none"))
           u == IF byServer THEN loop ELSE Enqueue(loop, "SOFT_RESET")
<1>1. /\ s \in SessionType /\ Base(s) /\ s.link /\ s.crashed = "no"
      /\ s.ring \in Rings /\ RingOK(s.ring) /\ s.ring.negotiationKeyIdx \in KeyIds
  BY NegotiationKeyIs, ShapeIs DEF Live, Base
<1>2. s.key \in [KeyIds -> SessionKeys] /\ s.resets \in Nat /\ s.wire \in SUBSET Packet
  BY <1>1, ZenonT(30) DEF SessionType
<1>3. resets \in Nat /\ wire \in SUBSET Packet /\ next \in KeyIds
  BY <1>1, <1>2, FollowingId DEF Recent
<1>4. /\ ring \in Rings /\ RingOK(ring) /\ ring.negotiationKeyIdx = next
      /\ ring.currentKeyIdx = s.ring.currentKeyIdx /\ ring.isRenegotiating
      /\ next \notin s.ring.keys /\ InUse(ring) = InUse(s.ring) /\ ring.keys # {}
      /\ s.ring.negotiationKeyIdx = s.ring.currentKeyIdx
      /\ InUse(s.ring) \subseteq s.ring.keys
  <2>1. ring \in Rings /\ RingOK(ring) /\ ring.negotiationKeyIdx \notin s.ring.keys
    BY <1>1, SoftResetKeepsRing
  <2>2. /\ ring.negotiationKeyIdx = next /\ ring.currentKeyIdx = s.ring.currentKeyIdx
        /\ ring.isRenegotiating /\ ring.oldKeys = s.ring.oldKeys
        /\ ring.keys = s.ring.keys \cup {next}
    BY <1>1 DEF RingSoftReset, Rings
  <2>3. /\ s.ring.negotiationKeyIdx = s.ring.currentKeyIdx
        /\ s.ring.keys = {s.ring.negotiationKeyIdx} \cup InUse(s.ring)
    BY <1>1, RingIs
  <2> HIDE DEF ring
  <2> QED BY <2>1, <2>2, <2>3 DEF InUse, Current, Previous
<1>5. SoftReset(s, byServer) = u
  BY <1>1 DEF SoftReset
<1>6. /\ key \in [KeyIds -> SessionKeys] /\ key[next] = NewKey("softReset")
      /\ \A k \in KeyIds : k # next => key[k] = s.key[k]
  BY <1>2, <1>3, NewKeyIs
<1> HIDE DEF ring, key, next, wire, resets
<1>7. reset \in SessionType
  BY <1>1, <1>3, <1>4, <1>6, FreshChannelType, ZenonT(30) DEF SessionType
<1>8. /\ reset.link = s.link /\ reset.wire = wire /\ reset.starts = s.starts
      /\ reset.stops = s.stops /\ reset.pings = s.pings /\ reset.pushReply = s.pushReply
      /\ reset.channel = FreshChannel /\ reset.ring = ring /\ reset.key = key
      /\ reset.alive = s.alive /\ reset.crashed = s.crashed /\ reset.isStopping = s.isStopping
      /\ reset.inbox = s.inbox /\ reset.due = s.due /\ reset.resets = resets
  BY <1>1, ZenonT(30) DEF SessionType
<1> HIDE DEF reset
<1>9. NegotiationKey(reset) = NewKey("softReset")
  BY <1>4, <1>6, <1>8 DEF NegotiationKey
<1>10. NegotiationKey(reset).controlState = "none" /\ NegotiationKey(reset).state = "softReset"
  BY <1>9, NewKeyIs
<1>11. Stages(reset)
  <2>1. \A k \in KeyIds : /\ reset.key[k].controlState # "none" => reset.key[k].isTLSConnected
                          /\ reset.key[k].isTLSConnected => reset.key[k].state = "tls"
    BY <1>1, <1>6, <1>8, NewKeyIs DEF Base, Stages
  <2>2. next # 0 /\ HasRemoteSessionId(reset)
    <3>1. next # 0 /\ 0 \in KeyIds
      BY <1>1, KeyRingAssumption DEF next, Following, KeyIds
    <3>2. s.key[s.ring.negotiationKeyIdx].state = "tls"
      <4>1. s.ring.negotiationKeyIdx \in InUse(s.ring)
        BY <1>1, <1>4, RingIs
      <4> QED BY <1>1, <4>1 DEF Base, Usable, Stages
    <3>3. s.key[0].state # "hardReset"
      BY <1>1, <3>2 DEF Base, Stages, HasRemoteSessionId
    <3> QED BY <1>6, <1>8, <3>1, <3>3 DEF HasRemoteSessionId
  <2> QED BY <1>1, <1>4, <1>8, <1>10, <2>1, <2>2 DEF Base, Stages
<1>12. Usable(reset)
  <2>1. InUse(s.ring) \subseteq KeyIds
    BY <1>1, NegotiationKeyIs, ShapeIs
  <2> QED BY <1>1, <1>4, <1>6, <1>8, <2>1 DEF Base, Usable
<1>13. Live(reset)
  BY <1>1, <1>4, <1>7, <1>8, <1>11, <1>12 DEF Live, Base, Ends, Shape
<1>14. "SOFT_RESET" \in Bodies
  BY DEF Bodies, Said
<1> DEFINE said == Enqueue(loop, "SOFT_RESET")
<1>15. /\ Begins(reset, loop) /\ loop.wire = reset.wire /\ loop.channel = FreshChannel
       /\ Begins(reset, said) /\ said.channel.inbound = <<>> /\ said.channel.nextOut = 1
       /\ said.wire = reset.wire \cup {[key |-> reset.ring.negotiationKeyIdx, id |-> 0,
                                        body |-> "SOFT_RESET"]}
  BY <1>8, <1>10, <1>13, <1>14, BeginsIs, ZenonT(30)
<1>16. u \in {loop, said} /\ (byServer => u = loop) /\ (~byServer => u = said)
  BY ZenonT(30)
<1> HIDE DEF loop, said, u
<1>17. /\ Begins(reset, u) /\ u.channel.inbound = <<>> /\ (~byServer => u.channel.nextOut = 1)
       /\ u.wire = reset.wire \cup
              (IF byServer THEN {} ELSE {[key |-> reset.ring.negotiationKeyIdx, id |-> 0,
                                          body |-> "SOFT_RESET"]})
  BY <1>15, <1>16 DEF FreshChannel
<1>18. NegotiationKey(u) = NewKey("softReset") /\ u.key = key /\ u.ring = ring
  BY <1>8, <1>9, <1>17 DEF Begins, NegotiationKey
<1>19. /\ Live(u) /\ u.inbox = s.inbox /\ u.due = s.due /\ u.resets = s.resets + 1
       /\ u.starts = s.starts /\ u.pings = s.pings /\ u.ticks > 0
       /\ u.isStopping = s.isStopping
  BY <1>8, <1>17 DEF Begins, resets
<1>20. u.wire = Recent(s) \cup
              (IF byServer THEN {} ELSE {[key |-> next, id |-> 0, body |-> "SOFT_RESET"]})
  BY <1>4, <1>8, <1>17 DEF wire
<1> QED
  BY <1>4, <1>5, <1>6, <1>17, <1>18, <1>19, <1>20 DEF next, ring
-----------------------------------------------------------------------------
(* What holds of a session between two blocks: it is sound, what it waits  *)
(* for has been scheduled, and a SOFT_RESET is for a session in use.       *)

Ticking(s) == s.link /\ NegotiationKey(s).controlState # "connected" => s.ticks > 0
Pinging(s) == s.link /\ s.starts > 0 /\ ~s.isStopping => s.pings > 0

InUseNow(s)   == s.ring.currentKeyIdx # NoIdx
SoftIn(said)  == \E i \in DOMAIN said : said[i].body = "SOFT_RESET"
SoftSent(s)   == \E packet \in s.wire : packet.body = "SOFT_RESET"

Softs(s, said) ==
    /\ s.link /\ (SoftSent(s) \/ SoftIn(said)) => InUseNow(s)
    /\ s.crashed = "no" /\ SoftIn(s.inbox) => s.link /\ InUseNow(s)

Served == /\ server \in [key : KeyIds, next : Nat, sent : Nat, before : Nat]
          /\ back \in Seq(Answer) /\ read \subseteq 1 .. Len(back) /\ links \in Nat

SessionInv == /\ Base(session) /\ Served
              /\ Ticking(session) /\ Pinging(session) /\ Softs(session, back)

\* What the handlers change besides.
LEMMA InboxIs ==
  ASSUME NEW s, Base(s), NEW inbox \in Seq(Answer)
  PROVE  LET u == [s EXCEPT !.inbox = inbox]
         IN  /\ Base(u) /\ SameBase(s, u) /\ u.inbox = inbox /\ u.due = s.due
             /\ u.ticks = s.ticks /\ u.pings = s.pings /\ u.starts = s.starts
             /\ u.wire = s.wire /\ u.channel = s.channel /\ u.resets = s.resets
<1> DEFINE u == [s EXCEPT !.inbox = inbox]
<1>1. s \in SessionType
  BY DEF Base
<1>2. u \in SessionType
  BY <1>1, ZenonT(30) DEF SessionType
<1>3. /\ SameBase(s, u) /\ u.inbox = inbox /\ u.due = s.due
      /\ u.ticks = s.ticks /\ u.pings = s.pings /\ u.starts = s.starts
      /\ u.wire = s.wire /\ u.channel = s.channel /\ u.resets = s.resets
  BY <1>1, ZenonT(30) DEF SessionType, SameBase
<1> HIDE DEF u
<1>4. Base(u)
  BY <1>2, <1>3, SameBaseIs
<1> QED
  BY <1>3, <1>4 DEF u

SameRest(s, u) == /\ SameBase(s, u) /\ u.inbox = s.inbox /\ u.ticks = s.ticks
                  /\ u.pings = s.pings /\ u.starts = s.starts /\ u.wire = s.wire
                  /\ u.resets = s.resets

Queued(s, channel, due) == [s EXCEPT !.channel = channel, !.due = due]

LEMMA ChannelIs ==
  ASSUME NEW s, Base(s), NEW due \in Seq(Answer), NEW channel \in Channels
  PROVE  LET u == Queued(s, channel, due)
         IN  Base(u) /\ SameRest(s, u) /\ u.due = due /\ u.channel = channel
<1> DEFINE u == Queued(s, channel, due)
<1>1. s \in SessionType
  BY DEF Base
<1>2. u \in SessionType
  BY <1>1, ZenonT(30) DEF SessionType, Queued
<1>3. SameRest(s, u) /\ u.due = due /\ u.channel = channel
  BY <1>1, ZenonT(30) DEF SessionType, SameRest, SameBase, Queued
<1> HIDE DEF u
<1>4. Base(u)
  BY <1>2, <1>3, SameBaseIs DEF SameRest
<1> QED
  BY <1>3, <1>4 DEF u

LEMMA DueIs ==
  ASSUME NEW s, Base(s), NEW due \in Seq(Answer)
  PROVE  LET u == [s EXCEPT !.due = due]
         IN  /\ Base(u) /\ SameBase(s, u) /\ u.inbox = s.inbox /\ u.due = due
             /\ u.ticks = s.ticks /\ u.pings = s.pings /\ u.starts = s.starts
             /\ u.wire = s.wire /\ u.channel = s.channel /\ u.resets = s.resets
<1> DEFINE u == [s EXCEPT !.due = due]
<1>1. s \in SessionType
  BY DEF Base
<1>2. u \in SessionType
  BY <1>1, ZenonT(30) DEF SessionType
<1>3. /\ SameBase(s, u) /\ u.inbox = s.inbox /\ u.due = due
      /\ u.ticks = s.ticks /\ u.pings = s.pings /\ u.starts = s.starts
      /\ u.wire = s.wire /\ u.channel = s.channel /\ u.resets = s.resets
  BY <1>1, ZenonT(30) DEF SessionType, SameBase
<1> HIDE DEF u
<1>4. Base(u)
  BY <1>2, <1>3, SameBaseIs
<1> QED
  BY <1>3, <1>4 DEF u

LEMMA WireIs ==
  ASSUME NEW s, Base(s), NEW wire \in SUBSET Packet
  PROVE  LET u == [s EXCEPT !.wire = wire]
         IN  /\ Base(u) /\ SameBase(s, u) /\ u.inbox = s.inbox /\ u.due = s.due
             /\ u.ticks = s.ticks /\ u.pings = s.pings /\ u.starts = s.starts
             /\ u.wire = wire /\ u.channel = s.channel /\ u.resets = s.resets
<1> DEFINE u == [s EXCEPT !.wire = wire]
<1>1. s \in SessionType
  BY DEF Base
<1>2. u \in SessionType
  BY <1>1, ZenonT(30) DEF SessionType
<1>3. /\ SameBase(s, u) /\ u.inbox = s.inbox /\ u.due = s.due
      /\ u.ticks = s.ticks /\ u.pings = s.pings /\ u.starts = s.starts
      /\ u.wire = wire /\ u.channel = s.channel /\ u.resets = s.resets
  BY <1>1, ZenonT(30) DEF SessionType, SameBase
<1> HIDE DEF u
<1>4. Base(u)
  BY <1>2, <1>3, SameBaseIs
<1> QED
  BY <1>3, <1>4 DEF u

LEMMA PingsIs ==
  ASSUME NEW s, Base(s), NEW pings \in Nat
  PROVE  LET u == [s EXCEPT !.pings = pings]
         IN  /\ Base(u) /\ SameBase(s, u) /\ u.inbox = s.inbox /\ u.due = s.due
             /\ u.ticks = s.ticks /\ u.pings = pings /\ u.starts = s.starts
             /\ u.wire = s.wire /\ u.channel = s.channel /\ u.resets = s.resets
<1> DEFINE u == [s EXCEPT !.pings = pings]
<1>1. s \in SessionType
  BY DEF Base
<1>2. u \in SessionType
  BY <1>1, ZenonT(30) DEF SessionType
<1>3. /\ SameBase(s, u) /\ u.inbox = s.inbox /\ u.due = s.due
      /\ u.ticks = s.ticks /\ u.pings = pings /\ u.starts = s.starts
      /\ u.wire = s.wire /\ u.channel = s.channel /\ u.resets = s.resets
  BY <1>1, ZenonT(30) DEF SessionType, SameBase
<1> HIDE DEF u
<1>4. Base(u)
  BY <1>2, <1>3, SameBaseIs
<1> QED
  BY <1>3, <1>4 DEF u

\* What fails has changed.
LEMMA FailIs ==
  ASSUME Scope, Base(session), Fail
  PROVE  /\ Base(session') /\ SameRest(session, session') /\ session'.due = session.due
         /\ session'.channel = session.channel /\ session.crashed = "no"
         /\ UNCHANGED <<server, back, read, links>>
<1>1. PICK calls \in SUBSET (Faults \cap CallFaults) : session' = [session EXCEPT !.failing = calls]
  BY DEF Fail
<1>2. calls \in SUBSET ({"encrypt"} \cap Faults)
  BY <1>1, ZenonT(30) DEF Scope, CallFaults
<1>3. session \in SessionType /\ session.crashed = "no" /\ UNCHANGED <<server, back, read, links>>
  BY DEF Base, Fail, Runs
<1>4. session' \in SessionType
  BY <1>1, <1>2, <1>3, ZenonT(30) DEF SessionType
<1>5. /\ SameRest(session, session') /\ session'.due = session.due
      /\ session'.channel = session.channel
  BY <1>1, <1>3, ZenonT(30) DEF SessionType, SameRest, SameBase
<1>6. Base(session')
  BY <1>4, <1>5, SameBaseIs DEF SameRest
<1> QED
  BY <1>3, <1>5, <1>6

\* A block of the queue ends in a stop: of a ping, those that cannot be encrypted do.
Stopped == Free /\ session' = Stop(session) /\ UNCHANGED <<server, back, read, links>>
Pinged  == \E silent \in BOOLEAN : Ping(silent, FALSE)

LEMMA StoppedIs ==
  ASSUME PingSome \/ StopRequest
  PROVE  Pinged \/ Stopped
<1>1. ASSUME NEW silent \in BOOLEAN, Ping(silent, TRUE) PROVE Ping(silent, FALSE) \/ Stopped
  BY <1>1 DEF Ping, Stopped
<1> QED
  BY <1>1 DEF PingSome, StopRequest, Stopped, Pinged

LEMMA ExitIs ==
  ASSUME NEW s, Base(s), s.alive, s.exit = "pending"
  PROVE  LET u == DidStop([s EXCEPT !.exit = "no"])
         IN  /\ Base(u) /\ SameWork(s, u) /\ ~u.link /\ u.crashed = s.crashed
             /\ u.starts = s.starts
<1> DEFINE v == [s EXCEPT !.exit = "no"]
<1>1. s \in SessionType /\ s.stops = 0
  BY DEF Base, Ends
<1>2. v \in SessionType
  BY <1>1, ZenonT(30) DEF SessionType
<1>3. SameWork(s, v) /\ v.crashed = s.crashed /\ v.starts = s.starts /\ v.stops = 0
  BY <1>1, ZenonT(30) DEF SessionType, SameWork
<1> HIDE DEF v
<1>4. LET u == DidStop(v)
      IN  /\ Base(u) /\ SameWork(v, u) /\ ~u.link /\ u.crashed = v.crashed
          /\ u.starts = v.starts
  BY <1>2, <1>3, DidStopIs
<1> QED
  BY <1>3, <1>4 DEF SameWork, v

LEMMA MovesKeep ==
  ASSUME NEW s, Live(s), NEW u, u.link, Keeps(s, u) \/ Completed(s, u)
  PROVE  /\ InUseNow(s) => InUseNow(u)
         /\ SoftSent(u) => SoftSent(s)
         /\ NegotiationKey(u).controlState # "connected"
               => NegotiationKey(s).controlState # "connected"
         /\ s.isStopping => u.isStopping
<1>1. CASE Keeps(s, u)
  <2>1. SoftSent(u) => SoftSent(s)
    BY <1>1 DEF Keeps, Writes, Asks, Greetings, SoftSent
  <2> QED BY <1>1, <2>1 DEF Keeps, InUseNow
<1>2. CASE Completed(s, u)
  <2>1. SoftSent(u) => SoftSent(s)
    BY <1>2 DEF Completed, Writes, SoftSent
  <2>2. InUseNow(u)
    BY <1>2, NegotiationKeyIs, KeyRingAssumption DEF Completed, InUseNow, KeyIds, NoIdx
  <2> QED BY <1>2, <2>1, <2>2 DEF Completed
<1> QED
  BY <1>1, <1>2

\* A session id is drawn for the link that is set.
LEMMA SetLinkIs ==
  ASSUME Scope, SetLink
  PROVE  /\ Free /\ ~session.link /\ links < MaxLinks
         /\ session' = HardReset([session EXCEPT !.link = TRUE, !.wire = {},
                                                 !.starts = 0, !.stops = 0], TRUE)
         /\ server' = NewServer /\ back' = <<>> /\ read' = {} /\ links' = links + 1
<1>1. PICK drawn \in BOOLEAN :
         /\ ~drawn => "random" \in Faults
         /\ session' = HardReset([session EXCEPT !.link = TRUE, !.wire = {},
                                                 !.starts = 0, !.stops = 0], drawn)
  BY DEF SetLink
<1>2. drawn = TRUE
  BY <1>1 DEF Scope
<1> QED
  BY <1>1, <1>2 DEF SetLink

LEMMA SetLinkKeeps ==
  ASSUME SessionInv, Scope, SetLink PROVE SessionInv'
<1> DEFINE u == HardReset([session EXCEPT !.link = TRUE, !.wire = {}, !.starts = 0, !.stops = 0], TRUE)
<1>1. /\ Base(session) /\ ~session.link /\ session.crashed = "no" /\ session.alive
      /\ session.inbox = <<>> /\ session' = u
      /\ server' = NewServer /\ back' = <<>> /\ read' = {} /\ links' = links + 1
      /\ links \in Nat
  BY SetLinkIs DEF SessionInv, Scope, Free, Runs, Reading, Served
<1>2. /\ Live(u) /\ u.inbox = <<>> /\ u.starts = 0 /\ u.ticks > 0
      /\ u.wire = {[key |-> 0, id |-> 0, body |-> "HARD_RESET"]}
  BY <1>1, HardResetIs, ZenonT(30)
<1> HIDE DEF u
<1>3. Served'
  <2>1. 0 \in KeyIds
    BY KeyRingAssumption DEF KeyIds
  <2>2. back' \in Seq(Answer) /\ Len(back') = 0 /\ links' \in Nat
    BY <1>1
  <2>3. server' \in [key : KeyIds, next : Nat, sent : Nat, before : Nat]
    BY <1>1, <2>1 DEF NewServer
  <2> QED BY <1>1, <2>2, <2>3 DEF Served
<1>4. Softs(session, back)'
  <2>1. ~SoftIn(back)' /\ ~SoftIn(session'.inbox)
    BY <1>1, <1>2 DEF SoftIn
  <2>2. ~SoftSent(session')
    BY <1>1, <1>2 DEF SoftSent
  <2> QED BY <2>1, <2>2 DEF Softs
<1> QED
  BY <1>1, <1>2, <1>3, <1>4 DEF SessionInv, Ticking, Pinging, Live

LEMMA LinkLostKeeps ==
  ASSUME SessionInv, Scope, LinkLost PROVE SessionInv'
<1>1. /\ Base(session) /\ session \in SessionType /\ session.alive
      /\ session.inbox = <<>> /\ session' = Cleanup(session)
      /\ UNCHANGED <<server, back, read, links>>
  BY DEF SessionInv, Scope, LinkLost, Free, Runs, Reading, Served, Base
<1>2. /\ Base(session') /\ ~session'.link /\ session'.inbox = <<>>
  BY <1>1, CleanupIs, CleanBase DEF SameWork, Base, Ends
<1> QED
  BY <1>1, <1>2 DEF SessionInv, Ticking, Pinging, Softs, SoftIn, Served

\* A batch hands out what the server has sent.
LEMMA BatchIs ==
  ASSUME Served, NEW batch \in Batches
  PROVE  LET inbox == [i \in DOMAIN batch |-> back[batch[i]]]
         IN  /\ inbox \in Seq(Answer) /\ DOMAIN inbox = DOMAIN batch
             /\ \A i \in DOMAIN batch : batch[i] \in 1 .. Len(back)
<1> DEFINE some == {i \in 1 .. Len(back) : Deliverable(i)}
           from == IF Reliable THEN (1 .. Len(back)) \ read ELSE some
           inbox == [i \in DOMAIN batch |-> back[batch[i]]]
<1>1. batch \in UNION {[1 .. n -> from] : n \in 1 .. MaxBatch}
  BY DEF Batches
<1>2. from \subseteq 1 .. Len(back)
  OBVIOUS
<1> HIDE DEF from
<1>3. PICK n \in 1 .. MaxBatch : batch \in [1 .. n -> from]
  BY <1>1
<1>4. /\ DOMAIN batch = 1 .. n /\ n \in Nat
      /\ \A i \in 1 .. n : batch[i] \in 1 .. Len(back)
  <2>1. n \in Nat
    OBVIOUS
  <2>2. DOMAIN batch = 1 .. n /\ \A i \in 1 .. n : batch[i] \in from
    BY <1>3
  <2> QED BY <1>2, <2>1, <2>2, ZenonT(30)
<1>5. \A i \in 1 .. Len(back) : back[i] \in Answer
  BY DEF Served
<1>6. inbox \in [1 .. n -> Answer]
  BY <1>4, <1>5
<1>7. inbox \in Seq(Answer)
  BY <1>4, <1>6
<1> QED
  BY <1>4, <1>7

LEMMA MaybeRenegotiateIs ==
  ASSUME NEW s, Live(s), NEW due \in BOOLEAN
  PROVE  LET u == MaybeRenegotiate(s, due)
         IN  /\ Live(u)
             /\ u = s \/ (u = SoftReset(s, FALSE) /\ InUseNow(s) /\ ~s.ring.isRenegotiating)
<1> DEFINE u == MaybeRenegotiate(s, due)
<1>1. u = s \/ (u = SoftReset(s, FALSE) /\ s.ring.negotiationKeyIdx = s.ring.currentKeyIdx)
  BY ZenonT(30) DEF MaybeRenegotiate
<1>2. CASE u = s
  BY <1>2
<1>3. CASE s.ring.isRenegotiating /\ u = SoftReset(s, FALSE)
  BY <1>3 DEF SoftReset
<1>4. CASE /\ ~s.ring.isRenegotiating /\ u = SoftReset(s, FALSE)
           /\ s.ring.negotiationKeyIdx = s.ring.currentKeyIdx
  <2>1. InUseNow(s)
    BY <1>4, NegotiationKeyIs, KeyRingAssumption DEF InUseNow, KeyIds, NoIdx
  <2>2. Live(u)
    BY <1>4, <2>1, SoftResetIs, ZenonT(30) DEF InUseNow
  <2> QED BY <1>4, <2>1, <2>2, ZenonT(30)
<1> QED
  BY <1>1, <1>2, <1>3, <1>4, ZenonT(30)

\* A negotiation that the client or the server has started.
LEMMA SoftResetKeeps ==
  ASSUME NEW s, Live(s), InUseNow(s), ~s.ring.isRenegotiating, NEW byServer \in BOOLEAN,
         Pinging(s)
  PROVE  LET u == SoftReset(s, byServer)
         IN  /\ Live(u) /\ Ticking(u) /\ Pinging(u) /\ InUseNow(u)
             /\ u.inbox = s.inbox /\ u.due = s.due
BY SoftResetIs DEF InUseNow, Ticking, Pinging, Live

LEMMA ReadKeeps ==
  ASSUME SessionInv, Scope, NEW batch \in Batches, NEW due \in BOOLEAN, Read(batch, due)
  PROVE  SessionInv'
<1> DEFINE s == MaybeRenegotiate(session, due)
           inbox == [i \in DOMAIN batch |-> back[batch[i]]]
           read2 == [s EXCEPT !.inbox = inbox]
<1>1. /\ Live(session) /\ Served /\ Ticking(session) /\ Pinging(session) /\ Softs(session, back)
      /\ session.inbox = <<>> /\ session' = IF s.isStopping \/ s.ring.keys = {} THEN s ELSE read2
      /\ UNCHANGED <<server, back, links>>
      /\ read' = read \cup {batch[i] : i \in DOMAIN batch}
  BY DEF SessionInv, Read, Runs, Reading, Live
<1>2. /\ inbox \in Seq(Answer) /\ DOMAIN inbox = DOMAIN batch
      /\ \A i \in DOMAIN batch : batch[i] \in 1 .. Len(back)
  BY <1>1, BatchIs
<1>3. SoftIn(inbox) => SoftIn(back)
  BY <1>1, <1>2 DEF SoftIn, Served
<1>4. Served'
  BY <1>1, <1>2 DEF Served
<1>5. /\ Live(s) /\ Ticking(s) /\ Pinging(s) /\ s.inbox = <<>>
      /\ InUseNow(session) => InUseNow(s)
      /\ SoftSent(s) => InUseNow(s)
  <2>1. Live(s) /\ (s = session \/ (s = SoftReset(session, FALSE) /\ InUseNow(session)
                                    /\ ~session.ring.isRenegotiating))
    BY <1>1, MaybeRenegotiateIs, ZenonT(30)
  <2>2. CASE s = session
    BY <1>1, <2>2 DEF Softs, Live
  <2>3. CASE s = SoftReset(session, FALSE) /\ InUseNow(session) /\ ~session.ring.isRenegotiating
    BY <1>1, <2>3, SoftResetKeeps, ZenonT(30)
  <2> QED BY <2>1, <2>2, <2>3, ZenonT(30)
<1> HIDE DEF s, inbox
<1>6. SoftIn(back) => InUseNow(s)
  BY <1>1, <1>5 DEF Softs, Live
<1>7. CASE session' = s
  <2>1. ~SoftIn(s.inbox)
    BY <1>5 DEF SoftIn
  <2> QED BY <1>1, <1>4, <1>5, <1>6, <1>7, <2>1, ZenonT(30) DEF SessionInv, Softs, Live
<1>8. CASE session' = read2
  <2>1. /\ Base(read2) /\ SameBase(s, read2) /\ read2.inbox = inbox
        /\ read2.ticks = s.ticks /\ read2.pings = s.pings /\ read2.starts = s.starts
        /\ read2.wire = s.wire
    BY <1>2, <1>5, InboxIs DEF Live
  <2> HIDE DEF read2
  <2>2. Ticking(read2) /\ Pinging(read2)
    BY <1>5, <2>1 DEF Ticking, Pinging, SameBase, NegotiationKey
  <2>3. Softs(read2, back)
    BY <1>3, <1>5, <1>6, <2>1 DEF Softs, SoftSent, InUseNow, SameBase, Live
  <2> QED BY <1>1, <1>4, <1>8, <2>1, <2>2, <2>3 DEF SessionInv
<1> QED
  BY <1>1, <1>7, <1>8

\* A turn of the loop over the packets of a read; the ack changes nothing.
LEMMA ReceiveLinkIs ==
  ASSUME SessionInv, Scope, ReceiveLink
  PROVE  LET packet == Head(session.inbox)
             rest   == [session EXCEPT !.inbox = Tail(session.inbox)]
             starts == packet.body = "SOFT_RESET" /\ ~session.ring.isRenegotiating
             s      == IF starts THEN SoftReset(rest, TRUE) ELSE rest
         IN  \/ session' = Stop([session EXCEPT !.inbox = <<>>]) /\ session.ring.isRenegotiating
             \/ session' = [s EXCEPT !.channel = EnqueueInbound(s.channel, packet.id, packet),
                                     !.due = Handled(s.channel, packet.id, packet)]
<1> DEFINE packet == Head(session.inbox)
           rest == [session EXCEPT !.inbox = Tail(session.inbox)]
           starts == packet.body = "SOFT_RESET" /\ ~session.ring.isRenegotiating
           s == IF starts THEN SoftReset(rest, TRUE) ELSE rest
<1>1. /\ Base(session) /\ Softs(session, back)
      /\ session.inbox \in Seq(Answer) /\ session.inbox # <<>> /\ session.crashed = "no"
  BY ZenonT(30) DEF SessionInv, ReceiveLink, Base, SessionType
<1>2. /\ Tail(session.inbox) \in Seq(Answer)
      /\ packet.body = "SOFT_RESET" => SoftIn(session.inbox)
  BY <1>1 DEF SoftIn
<1>3. Base(rest) /\ SameBase(session, rest)
  BY <1>1, <1>2, InboxIs, ZenonT(30)
<1>4. \/ session' = Stop([session EXCEPT !.inbox = <<>>]) /\ session.ring.isRenegotiating
      \/ session' = [SendAck(s) EXCEPT !.channel = EnqueueInbound(@, packet.id, packet),
                                       !.due = Handled(SendAck(s).channel, packet.id, packet)]
  BY DEF ReceiveLink
<1> HIDE DEF rest
<1>5. s \in SessionType
  <2>1. CASE starts
    <3>1. Live(rest) /\ rest.ring.currentKeyIdx # NoIdx /\ ~rest.ring.isRenegotiating
      BY <1>1, <1>2, <1>3, <2>1 DEF Softs, Live, SameBase, InUseNow
    <3>2. Live(SoftReset(rest, TRUE))
      BY <3>1, SoftResetIs, ZenonT(30)
    <3> QED BY <2>1, <3>2, ZenonT(30) DEF Live, Base
  <2>2. CASE ~starts
    BY <1>3, <2>2, ZenonT(30) DEF Base
  <2> QED BY <2>1, <2>2
<1> HIDE DEF s
<1>6. SendAck(s) = s
  BY <1>5, FailingIs
<1> QED
  BY <1>4, <1>6, ZenonT(30) DEF rest, s

LEMMA ReceiveLinkKeeps ==
  ASSUME SessionInv, Scope, ReceiveLink PROVE SessionInv'
<1> DEFINE packet == Head(session.inbox)
           rest == [session EXCEPT !.inbox = Tail(session.inbox)]
           starts == packet.body = "SOFT_RESET" /\ ~session.ring.isRenegotiating
           s == IF starts THEN SoftReset(rest, TRUE) ELSE rest
           channel == EnqueueInbound(s.channel, packet.id, packet)
           due == Handled(s.channel, packet.id, packet)
<1>1. /\ Base(session) /\ Served /\ Ticking(session) /\ Pinging(session) /\ Softs(session, back)
      /\ session.inbox \in Seq(Answer) /\ session.inbox # <<>> /\ session.crashed = "no"
      /\ UNCHANGED <<server, back, read, links>> /\ session \in SessionType
  BY ZenonT(30) DEF SessionInv, ReceiveLink, Base, SessionType
<1>2. Served'
  BY <1>1 DEF Served
<1>3. /\ packet \in Answer /\ Tail(session.inbox) \in Seq(Answer)
      /\ packet.body = "SOFT_RESET" => SoftIn(session.inbox)
      /\ SoftIn(Tail(session.inbox)) => SoftIn(session.inbox)
  BY <1>1 DEF SoftIn
<1>4. CASE session' = Stop([session EXCEPT !.inbox = <<>>]) /\ session.ring.isRenegotiating
  <2> DEFINE v == [session EXCEPT !.inbox = <<>>]
  <2>1. <<>> \in Seq(Answer)
    OBVIOUS
  <2>2. /\ Base(v) /\ SameBase(session, v) /\ v.inbox = <<>>
        /\ v.ticks = session.ticks /\ v.pings = session.pings /\ v.starts = session.starts
        /\ v.wire = session.wire
    BY <1>1, <2>1, InboxIs, ZenonT(30)
  <2> HIDE DEF v
  <2>3. Live(v)
    <3>1. session.ring.keys # {}
      <4>1. session.ring \in Rings /\ Shape(session.ring)
        BY <1>1, ZenonT(30) DEF Base, SessionType
      <4> QED BY <1>4, <4>1, ShapeIs DEF EmptyRing
    <3> QED BY <1>1, <2>2, <3>1 DEF Live, Base, SameBase
  <2> DEFINE u == Stop(v)
  <2>4. /\ Goes(v, u) /\ u.crashed = "no"
        /\ u.link => u.key = v.key /\ u.isStopping /\ u.wire = v.wire
    BY <2>3, StopGoes
  <2> HIDE DEF u
  <2>5. Base(u) /\ Ticking(u) /\ Pinging(u) /\ Softs(u, back)
    BY <1>1, <2>2, <2>3, <2>4
       DEF Goes, Keeps, Ticking, Pinging, Softs, SoftSent, SoftIn, InUseNow, SameWork,
           SameBase, NegotiationKey, Live
  <2> QED BY <1>2, <1>4, <1>1, <2>5 DEF SessionInv, u, v
<1>5. CASE session' = [s EXCEPT !.channel = channel, !.due = due]
  <2>1. /\ Base(rest) /\ SameBase(session, rest) /\ rest.inbox = Tail(session.inbox)
        /\ rest.ticks = session.ticks /\ rest.pings = session.pings
        /\ rest.starts = session.starts /\ rest.wire = session.wire
    BY <1>1, <1>3, InboxIs, ZenonT(30)
  <2> HIDE DEF rest
  <2>2. Ticking(rest) /\ Pinging(rest) /\ Softs(rest, back)
    BY <1>1, <1>3, <2>1 DEF Ticking, Pinging, Softs, SoftSent, InUseNow, SameBase, NegotiationKey
  <2>3. starts => Live(rest) /\ InUseNow(rest) /\ ~rest.ring.isRenegotiating
    BY <1>1, <1>3, <2>1 DEF Softs, Live, SameBase, InUseNow
  <2>4. Base(s) /\ Ticking(s) /\ Pinging(s) /\ Softs(s, back)
    <3>1. CASE starts
      <4>1. s = SoftReset(rest, TRUE)
        BY <3>1
      <4>2. /\ Live(s) /\ Ticking(s) /\ Pinging(s) /\ InUseNow(s)
        BY <2>2, <2>3, <3>1, <4>1, SoftResetKeeps, ZenonT(30)
      <4> HIDE DEF s
      <4> QED BY <4>2 DEF Live, Softs
    <3>2. CASE ~starts
      BY <2>1, <2>2, <3>2, ZenonT(30)
    <3> QED BY <3>1, <3>2, ZenonT(30)
  <2> HIDE DEF s
  <2>5. s.channel \in Channels
    BY <2>4, ZenonT(30) DEF Base, SessionType
  <2>6. channel \in Channels /\ due \in Seq(Answer)
    BY <1>3, <2>5, EnqueueInboundType, ZenonT(30)
  <2> HIDE DEF channel, due, packet
  <2> DEFINE u == Queued(s, channel, due)
  <2>7. Base(u) /\ SameRest(s, u)
    BY <2>4, <2>6, ChannelIs
  <2> HIDE DEF u
  <2>8. Ticking(u) /\ Pinging(u) /\ Softs(u, back)
    BY <2>4, <2>7
       DEF Ticking, Pinging, Softs, SoftSent, InUseNow, SameRest, SameBase, NegotiationKey
  <2>9. session' = u
    BY <1>5 DEF u, Queued
  <2> QED BY <1>1, <1>2, <2>7, <2>8, <2>9 DEF SessionInv
<1>6. \/ session' = Stop([session EXCEPT !.inbox = <<>>]) /\ session.ring.isRenegotiating
      \/ session' = [s EXCEPT !.channel = channel, !.due = due]
  BY ReceiveLinkIs
<1> QED
  BY <1>4, <1>5, <1>6

LEMMA HandleControlKeeps ==
  ASSUME SessionInv, Scope, NEW env \in Envs, HandleControl(env) PROVE SessionInv'
<1> DEFINE packet == Head(session.due)
           rest == Tail(session.due)
           s == [session EXCEPT !.due = rest]
           u == HandleControlPacket(s, packet, env)
<1>1. /\ Base(session) /\ Served /\ Ticking(session) /\ Pinging(session) /\ Softs(session, back)
      /\ session.due \in Seq(Answer) /\ session.due # <<>> /\ session.crashed = "no"
      /\ UNCHANGED <<server, back, read, links>>
  BY ZenonT(30) DEF SessionInv, HandleControl, Base, SessionType
<1>2. session' = u
  BY DEF HandleControl
<1>3. packet \in Answer /\ rest \in Seq(Answer)
  BY <1>1
<1>4. Served'
  BY <1>1 DEF Served
<1> HIDE DEF packet, rest
<1>5. /\ Base(s) /\ SameBase(session, s) /\ s.inbox = session.inbox
      /\ s.ticks = session.ticks /\ s.pings = session.pings
      /\ s.starts = session.starts /\ s.wire = session.wire
  BY <1>1, <1>3, DueIs
<1> HIDE DEF s
<1>6. Ticking(s) /\ Pinging(s) /\ Softs(s, back) /\ s.crashed = "no"
  BY <1>1, <1>5 DEF Ticking, Pinging, Softs, SoftSent, InUseNow, SameBase, NegotiationKey
<1>7. CASE ~s.link
  <2>1. u = Crash(s, "no negotiation key")
    BY <1>5, <1>7, CrashIs, ZenonT(30) DEF HandleControlPacket, Fatal
  <2>2. Base(u) /\ ~u.link /\ u.crashed # "no"
    BY <1>5, <1>7, <2>1, CrashIs, ZenonT(30) DEF Fatal
  <2> HIDE DEF u
  <2> QED BY <1>2, <1>4, <2>2 DEF SessionInv, Ticking, Pinging, Softs
<1>8. CASE s.link
  <2>1. Live(s)
    BY <1>5, <1>6, <1>8 DEF Live
  <2>2. Steps(s, packet, u)
    BY <1>3, <2>1, HandleControlPacketIs
  <2> HIDE DEF u
  <2>3. Base(u) /\ SameWork(s, u)
    BY <2>2 DEF Steps, Goes, Rekeys, Opens
  <2>4. CASE ~u.link
    BY <1>2, <1>4, <1>6, <2>2, <2>3, <2>4
       DEF Steps, SessionInv, Ticking, Pinging, Softs, InUseNow, SameWork
  <2>5. CASE u.link
    <3>1. /\ Keeps(s, u) \/ Completed(s, u)
          /\ \/ u.starts = s.starts /\ u.pings = s.pings
             \/ u.pings = s.pings + 1
      BY <2>2, <2>5 DEF Steps, Goes, Rekeys, Opens
    <3>2. /\ InUseNow(s) => InUseNow(u)
          /\ SoftSent(u) => SoftSent(s)
          /\ NegotiationKey(u).controlState # "connected"
               => NegotiationKey(s).controlState # "connected"
          /\ s.isStopping => u.isStopping
      BY <2>1, <2>5, <3>1, MovesKeep
    <3>3. Ticking(u)
      BY <1>6, <1>8, <2>3, <3>2 DEF Ticking, SameWork
    <3>4. Pinging(u)
      <4>1. s.pings \in Nat
        BY <1>5, ZenonT(30) DEF Base, SessionType
      <4> QED BY <1>6, <1>8, <3>1, <3>2, <4>1 DEF Pinging
    <3>5. Softs(u, back)
      BY <1>6, <1>8, <2>3, <2>5, <3>2 DEF Softs, SameWork
    <3> QED BY <1>1, <1>2, <1>4, <2>3, <3>3, <3>4, <3>5 DEF SessionInv
  <2> QED BY <2>4, <2>5
<1> QED
  BY <1>7, <1>8

LEMMA TickKeeps ==
  ASSUME SessionInv, Scope, NEW late \in BOOLEAN, NEW env \in Envs, Tick(late, env)
  PROVE  SessionInv'
<1> DEFINE ticks == session.ticks - 1
           s == [session EXCEPT !.ticks = ticks]
           u == LoopNegotiation(s, late, env)
<1>1. /\ Base(session) /\ Served /\ Pinging(session) /\ Softs(session, back)
      /\ session.inbox = <<>> /\ session.crashed = "no" /\ session.alive
      /\ UNCHANGED <<server, back, read, links>> /\ session' = u
  BY DEF SessionInv, Tick, Free, Runs, Reading, Scope
<1>2. ticks \in Nat
  <2>1. session.ticks \in Nat /\ session.ticks > 0
    BY ZenonT(30) DEF SessionInv, Tick, Base, SessionType
  <2> QED BY <2>1
<1> HIDE DEF ticks
<1>3. /\ Base(s) /\ s.inbox = session.inbox /\ s.starts = session.starts
      /\ s.pings = session.pings /\ SameBase(session, s) /\ s.wire = session.wire
  BY <1>1, <1>2, TicksIs
<1> HIDE DEF s
<1>4. Pinging(s) /\ Softs(s, back) /\ s.crashed = "no" /\ s.alive
  BY <1>1, <1>3 DEF Pinging, Softs, SoftSent, InUseNow, SameBase
<1>5. Loops(s, u)
  BY <1>3, <1>4, LoopNegotiationIs
<1> HIDE DEF u
<1>6. Base(u) /\ Ticking(u) /\ u.inbox = <<>>
  BY <1>1, <1>3, <1>5 DEF Loops, Ticking
<1>7. ~SoftIn(u.inbox)
  BY <1>6 DEF SoftIn
<1>8. u.link => /\ s.link /\ (InUseNow(s) => InUseNow(u)) /\ (SoftSent(u) => SoftSent(s))
                /\ s.isStopping => u.isStopping
  <2> SUFFICES ASSUME u.link
               PROVE  /\ s.link /\ (InUseNow(s) => InUseNow(u)) /\ (SoftSent(u) => SoftSent(s))
                      /\ s.isStopping => u.isStopping
    OBVIOUS
  <2>1. Live(s) /\ (Keeps(s, u) \/ Completed(s, u))
    BY <1>3, <1>4, <1>5 DEF Live, Loops, Moves
  <2> QED BY <2>1, MovesKeep DEF Live
<1>9. Pinging(u) /\ Softs(u, back)
  BY <1>4, <1>5, <1>7, <1>8 DEF Loops, Pinging, Softs
<1> QED
  BY <1>1, <1>6, <1>9 DEF SessionInv, Served

LEMMA PingKeeps ==
  ASSUME SessionInv, Scope, NEW silent \in BOOLEAN, Ping(silent, FALSE) PROVE SessionInv'
<1> DEFINE pings == session.pings - 1
           s == [session EXCEPT !.pings = pings]
<1>1. /\ Base(session) /\ Served /\ Ticking(session) /\ Pinging(session) /\ Softs(session, back)
      /\ session.inbox = <<>> /\ session.crashed = "no" /\ session.alive
      /\ UNCHANGED <<server, back, read, links>>
      /\ session' = IF ~HasCurrentKey(s) \/ s.key[s.ring.currentKeyIdx].controlState # "connected"
                    THEN s ELSE IF silent THEN Stop(s) ELSE session
  BY DEF SessionInv, Ping, Free, Runs, Reading, Scope
<1>2. pings \in Nat
  <2>1. session.pings \in Nat /\ session.pings > 0
    BY ZenonT(30) DEF SessionInv, Ping, Base, SessionType
  <2> QED BY <2>1
<1> HIDE DEF pings
<1>3. /\ Base(s) /\ SameBase(session, s) /\ s.inbox = session.inbox /\ s.ticks = session.ticks
      /\ s.starts = session.starts /\ s.wire = session.wire
  BY <1>1, <1>2, PingsIs
<1> HIDE DEF s
<1>4. Ticking(s) /\ Softs(s, back) /\ ~SoftIn(s.inbox) /\ s.alive /\ s.crashed = "no"
  BY <1>1, <1>3 DEF Ticking, Softs, SoftSent, SoftIn, InUseNow, SameBase, NegotiationKey
<1>5. CASE session' = session
  BY <1>1, <1>5 DEF SessionInv, Served
<1>6. CASE session' = s /\ (~HasCurrentKey(s) \/ s.key[s.ring.currentKeyIdx].controlState # "connected")
  <2>1. s.link => s.starts = 0
    <3>1. s.ring \in Rings /\ s.starts \in Nat /\ Shape(s.ring)
      BY <1>3, ZenonT(30) DEF Base, SessionType
    <3>2. InUseNow(s) => s.ring.currentKeyIdx \in InUse(s.ring) /\ HasCurrentKey(s)
      BY <3>1, ShapeIs DEF InUseNow, HasCurrentKey
    <3>3. ~InUseNow(s)
      BY <1>3, <1>6, <3>2 DEF Base, Usable
    <3> QED BY <1>3, <3>1, <3>3 DEF Base, Stages, InUseNow
  <2>2. Pinging(s)
    BY <2>1 DEF Pinging
  <2> QED BY <1>1, <1>3, <1>4, <1>6, <2>2 DEF SessionInv, Served
<1>7. CASE session' = Stop(s)
  <2> DEFINE u == Stop(s)
  <2>1. /\ Base(u) /\ SameWork(s, u)
        /\ u.link => /\ s.link /\ u.isStopping /\ u.ring = s.ring /\ u.key = s.key
                     /\ u.wire = s.wire
    BY <1>3, <1>4, StopIs
  <2> HIDE DEF u
  <2>2. Ticking(u) /\ Pinging(u) /\ Softs(u, back)
    BY <1>4, <2>1 DEF Ticking, Pinging, Softs, SoftSent, InUseNow, SameWork, NegotiationKey
  <2> QED BY <1>1, <1>7, <2>1, <2>2 DEF SessionInv, Served, u
<1> QED
  BY <1>1, <1>5, <1>6, <1>7

LEMMA StoppedKeeps ==
  ASSUME SessionInv, Scope, Stopped PROVE SessionInv'
<1> DEFINE u == Stop(session)
<1>1. /\ Base(session) /\ Served /\ Ticking(session) /\ Softs(session, back)
      /\ session.inbox = <<>> /\ session.alive
      /\ UNCHANGED <<server, back, read, links>> /\ session' = u
  BY DEF SessionInv, Stopped, Free, Runs, Reading, Scope
<1>2. /\ Base(u) /\ SameWork(session, u)
      /\ u.link => /\ session.link /\ u.isStopping /\ u.ring = session.ring
                   /\ u.key = session.key /\ u.wire = session.wire
  BY <1>1, StopIs
<1> HIDE DEF u
<1>3. ~SoftIn(u.inbox)
  BY <1>1, <1>2 DEF SoftIn, SameWork
<1>4. Ticking(u) /\ Pinging(u) /\ Softs(u, back)
  BY <1>1, <1>2, <1>3 DEF Ticking, Pinging, Softs, SoftSent, InUseNow, SameWork, NegotiationKey
<1> QED
  BY <1>1, <1>2, <1>4 DEF SessionInv, Served

LEMMA ExitWrittenKeeps ==
  ASSUME SessionInv, Scope, ExitWritten PROVE SessionInv'
<1> DEFINE u == DidStop([session EXCEPT !.exit = "no"])
<1>1. /\ Base(session) /\ Served /\ session.inbox = <<>> /\ session.alive
      /\ session.exit = "pending"
      /\ UNCHANGED <<server, back, read, links>> /\ session' = u
  BY DEF SessionInv, ExitWritten, Free, Runs, Reading, Scope
<1>2. Base(u) /\ SameWork(session, u) /\ ~u.link
  BY <1>1, ExitIs
<1> HIDE DEF u
<1>3. ~SoftIn(u.inbox)
  BY <1>1, <1>2 DEF SoftIn, SameWork
<1> QED
  BY <1>1, <1>2, <1>3 DEF SessionInv, Served, Ticking, Pinging, Softs

\* What the server takes and what it says.
LEMMA TakeIs ==
  ASSUME SessionInv, NEW packet \in session.wire, Take(packet)
  PROVE  /\ packet \in Packet /\ session.link /\ session.crashed = "no"
         /\ Base(session') /\ SameBase(session, session')
         /\ session'.inbox = session.inbox /\ session'.due = session.due
         /\ session'.ticks = session.ticks /\ session'.pings = session.pings
         /\ session'.starts = session.starts /\ session'.wire = session.wire \ {packet}
         /\ session'.channel = session.channel /\ session'.resets = session.resets
<1> DEFINE wire == session.wire \ {packet}
<1>1. /\ Base(session) /\ session.wire \in SUBSET Packet /\ session.link
      /\ session.crashed = "no" /\ session' = [session EXCEPT !.wire = wire]
  BY ZenonT(30) DEF SessionInv, Base, SessionType, Take, Up
<1>2. wire \in SUBSET Packet /\ packet \in Packet
  BY <1>1
<1> HIDE DEF wire
<1>3. LET u == [session EXCEPT !.wire = wire]
      IN  /\ Base(u) /\ SameBase(session, u) /\ u.inbox = session.inbox /\ u.due = session.due
          /\ u.ticks = session.ticks /\ u.pings = session.pings /\ u.starts = session.starts
          /\ u.wire = wire /\ u.channel = session.channel /\ u.resets = session.resets
  BY <1>1, <1>2, WireIs
<1> QED
  BY <1>1, <1>2, <1>3 DEF wire

LEMMA SayIs ==
  ASSUME Served, NEW key \in KeyIds, NEW body \in Said, server'.sent \in Nat, server'.sent > 0,
         Say(key, body)
  PROVE  /\ back' \in Seq(Answer) /\ Len(back') = Len(back) + 1
         /\ \A i \in 1 .. Len(back) : back'[i] = back[i]
         /\ back'[Len(back) + 1] = [key |-> key, id |-> server'.sent - 1, body |-> body]
         /\ read \subseteq 1 .. Len(back')
<1> DEFINE said == [key |-> key, id |-> server'.sent - 1, body |-> body]
<1>1. back \in Seq(Answer) /\ said \in Answer /\ back' = Append(back, said) /\ read \subseteq 1 .. Len(back)
  BY DEF Served, Say, Answer
<1> HIDE DEF said
<1>2. /\ back' \in Seq(Answer) /\ Len(back') = Len(back) + 1
      /\ \A i \in 1 .. Len(back) : back'[i] = back[i]
      /\ back'[Len(back) + 1] = said
  BY <1>1
<1> QED
  BY <1>1, <1>2 DEF said

\* The session is left alone, but for a packet on the wire.
SessionKept ==
    /\ Base(session') /\ SameBase(session, session') /\ session'.inbox = session.inbox
    /\ session'.ticks = session.ticks /\ session'.pings = session.pings
    /\ session'.starts = session.starts /\ session'.wire \subseteq session.wire

LEMMA SessionKeptIs ==
  ASSUME SessionInv, SessionKept, Served',
         SoftIn(back') => SoftIn(back) \/ InUseNow(session)
  PROVE  SessionInv'
<1>1. Ticking(session') /\ Pinging(session')
  BY DEF SessionInv, SessionKept, SameBase, Ticking, Pinging, NegotiationKey
<1>2. SoftSent(session') => SoftSent(session)
  BY DEF SessionKept, SoftSent
<1>3. Softs(session', back')
  BY <1>2 DEF SessionInv, SessionKept, SameBase, Softs, InUseNow
<1> QED
  BY <1>1, <1>3 DEF SessionInv, SessionKept

LEMMA ServerKeeps ==
  ASSUME SessionInv, Scope, Server PROVE SessionInv'
<1>1. /\ Served /\ Base(session)
      /\ server.key \in KeyIds /\ server.next \in Nat /\ server.sent \in Nat /\ server.before \in Nat
      /\ server.sent + 1 \in Nat /\ server.next + 1 \in Nat
  BY DEF SessionInv, Served
<1>2. ASSUME NEW key \in KeyIds, NEW body \in Said, Say(key, body), SessionKept,
             server' \in [key : KeyIds, next : Nat, sent : Nat, before : Nat],
             server'.sent > 0, UNCHANGED <<read, links>>,
             body = "SOFT_RESET" => InUseNow(session)
      PROVE  SessionInv'
  <2>1. /\ back' \in Seq(Answer) /\ Len(back') = Len(back) + 1
        /\ \A i \in 1 .. Len(back) : back'[i] = back[i]
        /\ back'[Len(back) + 1] = [key |-> key, id |-> server'.sent - 1, body |-> body]
        /\ read \subseteq 1 .. Len(back')
    BY <1>1, <1>2, SayIs
  <2>2. Served'
    BY <1>1, <1>2, <2>1 DEF Served
  <2>3. SoftIn(back') => SoftIn(back) \/ InUseNow(session)
    <3>1. back \in Seq(Answer)
      BY <1>1 DEF Served
    <3> QED BY <1>2, <2>1, <3>1 DEF SoftIn
  <2> QED BY <1>2, <2>2, <2>3, SessionKeptIs
<1>3. CASE ServerAnswers
  <2>1. PICK packet \in session.wire, answer \in Said \ {"SOFT_RESET"} :
           /\ Take(packet) /\ Say(server.key, answer)
           /\ server' = [server EXCEPT !.next = @ + 1, !.sent = @ + 1]
    <3>1. \A body \in Bodies : Answers(body) \subseteq Said \ {"SOFT_RESET"}
      BY ZenonT(30) DEF Answers, Said, Bodies
    <3>2. \A packet \in session.wire : packet.body \in Bodies
      BY <1>1, ZenonT(30) DEF Base, SessionType, Packet
    <3> QED BY <1>3, <3>1, <3>2 DEF ServerAnswers
  <2>2. SessionKept /\ UNCHANGED <<read, links>>
    BY <2>1, TakeIs DEF SessionKept, Take
  <2>3. /\ server' \in [key : KeyIds, next : Nat, sent : Nat, before : Nat]
        /\ server'.sent > 0
    <3>1. server \in [key : KeyIds, next : Nat, sent : Nat, before : Nat]
      BY <1>1 DEF Served
    <3> DEFINE next == server.next + 1
               sent == server.sent + 1
    <3>2. server' = [server EXCEPT !.next = next, !.sent = sent] /\ sent > 0
      BY <1>1, <2>1
    <3>3. next \in Nat /\ sent \in Nat
      BY <1>1
    <3> HIDE DEF next, sent
    <3>4. server' \in [key : KeyIds, next : Nat, sent : Nat, before : Nat]
      BY <3>1, <3>2, <3>3, ZenonT(30)
    <3>5. server'.sent = sent
      BY <3>1, <3>2
    <3> QED BY <3>2, <3>4, <3>5
  <2> QED BY <1>1, <1>2, <2>1, <2>2, <2>3
<1>4. CASE ServerTakes
  <2>1. PICK packet \in session.wire :
           /\ Take(packet) /\ UNCHANGED back
           /\ server' = [server EXCEPT !.next = @ + 1]
    BY <1>4 DEF ServerTakes
  <2>2. SessionKept /\ UNCHANGED <<read, links>>
    BY <2>1, TakeIs DEF SessionKept, Take
  <2>3. Served'
    BY <1>1, <2>1, <2>2, ZenonT(30) DEF Served
  <2> QED BY <2>1, <2>2, <2>3, SessionKeptIs
<1>5. CASE ServerFollows
  <2>1. PICK packet \in session.wire :
           /\ packet.body = "SOFT_RESET" /\ Take(packet) /\ Say(packet.key, "SOFT_RESET")
           /\ server' = [key |-> packet.key, next |-> 1, sent |-> 1, before |-> server.sent]
    BY <1>5 DEF ServerFollows
  <2>2. SessionKept /\ UNCHANGED <<read, links>> /\ packet \in Packet /\ session.link
    BY <2>1, TakeIs DEF SessionKept, Take
  <2>3. InUseNow(session)
    BY <2>1, <2>2 DEF SessionInv, Softs, SoftSent
  <2>4. packet.key \in KeyIds
    BY <2>2 DEF Packet
  <2>5. /\ server' \in [key : KeyIds, next : Nat, sent : Nat, before : Nat]
        /\ server'.sent > 0
    BY <1>1, <2>1, <2>4
  <2>6. "SOFT_RESET" \in Said
    BY DEF Said
  <2> QED BY <1>2, <2>1, <2>2, <2>3, <2>4, <2>5, <2>6
<1>6. CASE ServerRenegotiates
  <2> DEFINE next == Following(server.key)
  <2>1. /\ session.ring.currentKeyIdx = server.key /\ UNCHANGED <<session, read, links>>
        /\ server' = [key |-> next, next |-> 0, sent |-> 1, before |-> server.sent]
        /\ Say(next, "SOFT_RESET")
    BY <1>6 DEF ServerRenegotiates, Scope
  <2>2. InUseNow(session)
    BY <1>1, <2>1, KeyRingAssumption DEF InUseNow, KeyIds, NoIdx
  <2>3. next \in KeyIds
    BY <1>1, FollowingId
  <2> HIDE DEF next
  <2>4. SessionKept
    BY <1>1, <2>1 DEF SessionKept, SameBase
  <2>5. /\ server' \in [key : KeyIds, next : Nat, sent : Nat, before : Nat]
        /\ server'.sent > 0
    BY <1>1, <2>1, <2>3
  <2>6. "SOFT_RESET" \in Said
    BY DEF Said
  <2> QED BY <1>2, <2>1, <2>2, <2>3, <2>4, <2>5, <2>6
<1>7. CASE ServerRestarts
  <2>1. /\ UNCHANGED <<session, read, links>> /\ Say(server.key, "RESTART")
        /\ server' = [server EXCEPT !.sent = @ + 1]
    BY <1>7 DEF ServerRestarts
  <2>2. SessionKept
    BY <1>1, <2>1 DEF SessionKept, SameBase
  <2>3. /\ server' \in [key : KeyIds, next : Nat, sent : Nat, before : Nat]
        /\ server'.sent > 0
    BY <1>1, <2>1 DEF Served
  <2>4. "RESTART" \in Said
    BY DEF Said
  <2> QED BY <1>1, <1>2, <2>1, <2>2, <2>3, <2>4
<1> QED
  BY <1>3, <1>4, <1>5, <1>6, <1>7 DEF Server
-----------------------------------------------------------------------------
(* The invariant, and what it says of the properties of the runs.          *)

LEMMA SessionInit == Init => SessionInv
<1> SUFFICES ASSUME Init PROVE SessionInv
  OBVIOUS
<1>1. session = FreshSession /\ server = NewServer /\ back = <<>> /\ read = {} /\ links = 0
  BY DEF Init
<1>2. /\ session \in SessionType /\ session.ring = EmptyRing /\ ~session.link
      /\ session.key = [k \in KeyIds |-> NoKey] /\ session.alive /\ session.stops = 0
      /\ session.inbox = <<>>
  BY <1>1, FreshSessionType DEF FreshSession
<1>3. Base(session)
  BY <1>2, CleanBase DEF Ends
<1>4. Served
  BY <1>1, KeyRingAssumption DEF Served, NewServer, KeyIds
<1>5. ~SoftIn(session.inbox)
  BY <1>2 DEF SoftIn
<1> QED
  BY <1>2, <1>3, <1>4, <1>5 DEF SessionInv, Ticking, Pinging, Softs

LEMMA SessionStep ==
  ASSUME SessionInv, Scope, [Next]_vars PROVE SessionInv'
<1>1. CASE UNCHANGED vars
  BY <1>1 DEF SessionInv, Served, vars
<1>2. CASE SetLink
  BY <1>2, SetLinkKeeps
<1>3. CASE LinkLost
  BY <1>3, LinkLostKeeps
<1>4. CASE ReadSome
  <2>1. PICK batch \in Batches, due \in BOOLEAN : Read(batch, due)
    BY <1>4 DEF ReadSome
  <2> QED BY <2>1, ReadKeeps
<1>5. CASE ReceiveLink
  BY <1>5, ReceiveLinkKeeps
<1>6. CASE HandleOne
  <2>1. PICK env \in Envs : HandleControl(env)
    BY <1>6 DEF HandleOne
  <2> QED BY <2>1, HandleControlKeeps
<1>7. CASE TickSome
  <2>1. PICK late \in BOOLEAN, env \in Envs : Tick(late, env)
    BY <1>7 DEF TickSome
  <2> QED BY <2>1, TickKeeps
<1>8. CASE Pinged
  <2>1. PICK silent \in BOOLEAN : Ping(silent, FALSE)
    BY <1>8 DEF Pinged
  <2> QED BY <2>1, PingKeeps
<1>9. CASE ExitWritten
  BY <1>9, ExitWrittenKeeps
<1>10. CASE Stopped
  BY <1>10, StoppedKeeps
<1>11. CASE Fail
  <2>1. Base(session) /\ Served
    BY DEF SessionInv
  <2>2. /\ Base(session') /\ SameRest(session, session')
        /\ UNCHANGED <<server, back, read, links>>
    BY <1>11, <2>1, FailIs
  <2>3. SessionKept /\ Served'
    BY <2>1, <2>2 DEF SessionKept, SameRest, Served
  <2> QED BY <2>2, <2>3, SessionKeptIs
<1>12. CASE Server
  BY <1>12, ServerKeeps
<1> QED
  BY <1>1, <1>2, <1>3, <1>4, <1>5, <1>6, <1>7, <1>8, <1>9, <1>10, <1>11, <1>12, StoppedIs
     DEF Next

\* Whatever the link, the server and the provider do, a session on a serial queue
\* is sound between two steps of its handlers: its keys, its stages and its end,
\* and what it has scheduled on the queue (OpenVPNSession).
THEOREM SessionSound ==
  ASSUME Scope
  PROVE  Spec => []SessionInv
<1>1. SessionInv /\ [Next]_vars => SessionInv'
  BY SessionStep
<1> QED
  BY SessionInit, <1>1, PTL DEF Spec

\* Every variable of the session and of its server holds what it is declared to.
THEOREM SessionTyped ==
  ASSUME Scope
  PROVE  Spec => []TypeOK
<1>1. SessionInv => TypeOK
  <2> SUFFICES ASSUME SessionInv PROVE TypeOK
    OBVIOUS
  <2>1. session \in SessionType /\ Served
    BY DEF SessionInv, Base
  <2>2. session.ring.keys \subseteq KeyIds /\ session.ring.oldKeys \in Seq(KeyIds)
    BY <2>1, ZenonT(30) DEF SessionType, Rings
  <2>3. /\ session.key \in [KeyIds -> SessionKeys]
        /\ session.authenticator \in {"none", "sent", "authenticated", "reset"}
        /\ session.exit \in {"no", "pending"}
        /\ session.failing \in SUBSET ({"encrypt"} \cap Faults)
        /\ {session.ticks, session.pings, session.starts, session.stops,
            session.resets} \subseteq Nat
    BY <2>1, ZenonT(30) DEF SessionType
  <2>4. /\ server.key \in KeyIds /\ read \subseteq 1 .. Len(back)
        /\ {server.next, server.sent, server.before, links} \subseteq Nat
    BY <2>1 DEF Served
  <2> QED BY <2>2, <2>3, <2>4 DEF TypeOK, SessionKeys, CallFaults
<1> QED
  BY SessionSound, <1>1, PTL

\* A negotiation that is not over has a tick scheduled, whatever was received,
\* stopped or started again in between (loopNegotiation).
THEOREM LoopStaysAlive ==
  ASSUME Scope
  PROVE  Spec => []LoopAlive
<1>1. SessionInv => LoopAlive
  BY DEF SessionInv, Ticking, LoopAlive
<1> QED
  BY SessionSound, <1>1, PTL

\* A session that was reported as started has a ping scheduled until it stops: it
\* cannot come to use a server that is gone (scheduleNextPing).
THEOREM PingStaysAlive ==
  ASSUME Scope
  PROVE  Spec => []PingAlive
<1>1. SessionInv => PingAlive
  BY DEF SessionInv, Pinging, PingAlive
<1> QED
  BY SessionSound, <1>1, PTL

\* The current key and the previous one have been negotiated to the end, and have
\* the cipher that a packet of theirs is for (setupEncryption, transitionKeys).
THEOREM KeysStayUsable ==
  ASSUME Scope
  PROVE  Spec => []KeysUsable
<1>1. SessionInv => KeysUsable
  <2> SUFFICES ASSUME SessionInv, ~session.isStopping, NEW k \in KeyIds,
                      \/ k = session.ring.currentKeyIdx
                      \/ \E i \in DOMAIN session.ring.oldKeys : k = session.ring.oldKeys[i]
               PROVE  session.key[k].dataPath /\ session.key[k].controlState = "connected"
    BY DEF KeysUsable
  <2>1. k \in InUse(session.ring)
    BY KeyRingAssumption DEF InUse, Current, Previous, KeyIds, NoIdx
  <2> QED BY <2>1 DEF SessionInv, Base, Usable
<1> QED
  BY SessionSound, <1>1, PTL
-----------------------------------------------------------------------------
(* The key that was current when another one takes over.                   *)

KeptBy(s, u) ==
    LET k == s.ring.currentKeyIdx
    IN  k # NoIdx /\ u.ring.currentKeyIdx \notin {k, NoIdx}
           => k \in u.ring.keys /\ u.key[k].dataPath

\* A key takes over when its negotiation completes, and only then.
TakesOver(s, u) == \/ u.ring.currentKeyIdx \in {s.ring.currentKeyIdx, NoIdx}
                   \/ s.ring.currentKeyIdx = NoIdx
                   \/ Completed(s, u)

LEMMA NoLinkNoKey ==
  ASSUME NEW s, Base(s), ~s.link
  PROVE  s.ring.currentKeyIdx = NoIdx
<1>1. s.ring \in Rings /\ Shape(s.ring) /\ s.ring.keys = {}
  BY ZenonT(30) DEF Base, SessionType
<1> QED
  BY <1>1, ShapeIs DEF EmptyRing

LEMMA TakesOverIs ==
  ASSUME NEW s, Base(s), NEW u, TakesOver(s, u), ~s.isStopping \/ "encryption" \notin Faults
  PROVE  KeptBy(s, u)
<1> DEFINE k == s.ring.currentKeyIdx
<1>1. s.ring \in Rings /\ Shape(s.ring)
  BY ZenonT(30) DEF Base, SessionType
<1>2. CASE Completed(s, u) /\ k # NoIdx /\ k # s.ring.negotiationKeyIdx
  <2>1. k \in KeyIds /\ k \in InUse(s.ring) /\ k \in Current(s.ring)
    BY <1>1, <1>2, ShapeIs DEF Rings, Current
  <2>2. s.key[k].dataPath
    BY <2>1 DEF Base, Usable
  <2>3. k \in u.ring.keys /\ u.key[k] = s.key[k]
    BY <1>2, <2>1 DEF Completed
  <2> QED BY <2>2, <2>3 DEF KeptBy
<1> QED
  BY <1>2 DEF TakesOver, KeptBy, Completed

LEMMA SessionTakesOver ==
  ASSUME SessionInv, SessionInv', Scope, [Next]_vars
  PROVE  TakesOver(session, session')
<1>1. Base(session) /\ Base(session')
  BY DEF SessionInv
<1>2. ASSUME ~session'.link PROVE TakesOver(session, session')
  BY <1>1, <1>2, NoLinkNoKey DEF TakesOver
<1>3. ASSUME ~session.link PROVE TakesOver(session, session')
  BY <1>1, <1>3, NoLinkNoKey DEF TakesOver
<1>4. ASSUME NEW s, session'.ring = s.ring, s.ring = session.ring
      PROVE  TakesOver(session, session')
  BY <1>4 DEF TakesOver
<1>5. CASE UNCHANGED vars
  BY <1>5 DEF TakesOver, vars
<1>6. CASE SetLink \/ LinkLost
  <2>1. ~session.link \/ session' = Cleanup(session)
    BY <1>6 DEF SetLink, LinkLost
  <2>2. session \in SessionType
    BY <1>1 DEF Base
  <2> QED BY <1>2, <1>3, <2>1, <2>2, CleanupIs
<1>7. CASE ReadSome
  <2>1. PICK batch \in Batches, due \in BOOLEAN : Read(batch, due)
    BY <1>7 DEF ReadSome
  <2> DEFINE s == MaybeRenegotiate(session, due)
             inbox == [i \in DOMAIN batch |-> back[batch[i]]]
             read2 == [s EXCEPT !.inbox = inbox]
  <2>2. Live(session) /\ (session' = s \/ session' = read2)
    BY <1>1, <2>1 DEF Read, Runs, Live
  <2>3. inbox \in Seq(Answer)
    BY BatchIs DEF SessionInv
  <2>4. /\ Live(s)
        /\ s = session \/ (s = SoftReset(session, FALSE) /\ InUseNow(session)
                           /\ ~session.ring.isRenegotiating)
    BY <2>2, MaybeRenegotiateIs, ZenonT(30)
  <2>5. s.ring.currentKeyIdx = session.ring.currentKeyIdx
    BY <2>2, <2>4, SoftResetIs, ZenonT(30) DEF InUseNow
  <2> HIDE DEF s, inbox
  <2>6. Base(s)
    BY <2>4 DEF Live
  <2>7. SameBase(s, read2)
    BY <2>3, <2>6, InboxIs
  <2> HIDE DEF read2
  <2> QED BY <2>2, <2>5, <2>7 DEF TakesOver, SameBase
<1>8. CASE ReceiveLink
  <2> DEFINE packet == Head(session.inbox)
             rest == [session EXCEPT !.inbox = Tail(session.inbox)]
             starts == packet.body = "SOFT_RESET" /\ ~session.ring.isRenegotiating
             s == IF starts THEN SoftReset(rest, TRUE) ELSE rest
             channel == EnqueueInbound(s.channel, packet.id, packet)
             due == Handled(s.channel, packet.id, packet)
             u == [s EXCEPT !.channel = channel, !.due = due]
             v == [session EXCEPT !.inbox = <<>>]
  <2>1. session' = u \/ session' = Stop(v)
    BY <1>1, <1>8, ReceiveLinkIs
  <2>2. /\ session.inbox \in Seq(Answer) /\ session.inbox # <<>> /\ session.crashed = "no"
        /\ Softs(session, back)
    BY <1>1, <1>8, ZenonT(30) DEF SessionInv, ReceiveLink, Base, SessionType
  <2>3. /\ packet \in Answer /\ Tail(session.inbox) \in Seq(Answer) /\ <<>> \in Seq(Answer)
        /\ packet.body = "SOFT_RESET" => SoftIn(session.inbox)
    BY <2>2 DEF SoftIn
  <2>4. Base(rest) /\ SameBase(session, rest)
    BY <1>1, <2>3, InboxIs, ZenonT(30)
  <2>5. Base(v) /\ SameBase(session, v)
    BY <1>1, <2>3, InboxIs, ZenonT(30)
  <2> HIDE DEF rest, v
  <2>6. CASE session' = Stop(v)
    <3>1. v.alive \/ ~session.link
      BY <1>1, <2>5 DEF Base, Ends, SameBase
    <3>2. CASE v.alive
      <4>1. session'.link => session'.ring = v.ring
        BY <2>5, <2>6, <3>2, StopIs
      <4> QED BY <1>2, <2>5, <4>1 DEF TakesOver, SameBase
    <3> QED BY <1>3, <3>1, <3>2
  <2>7. CASE session' = u
    <3>1. starts => Live(rest) /\ InUseNow(rest) /\ ~rest.ring.isRenegotiating
      BY <2>2, <2>3, <2>4 DEF Softs, Live, SameBase, InUseNow
    <3>2. Base(s) /\ s.ring.currentKeyIdx = session.ring.currentKeyIdx
      <4>1. CASE starts
        <5>1. s = SoftReset(rest, TRUE)
          BY <4>1
        <5>2. Live(s) /\ s.ring.currentKeyIdx = rest.ring.currentKeyIdx
          BY <3>1, <4>1, <5>1, SoftResetIs, ZenonT(30) DEF InUseNow
        <5> QED BY <2>4, <5>2, ZenonT(30) DEF Live, SameBase
      <4>2. CASE ~starts
        BY <2>4, <4>2, ZenonT(30) DEF SameBase
      <4> QED BY <4>1, <4>2, ZenonT(30)
    <3> HIDE DEF s
    <3>3. s.channel \in Channels
      BY <3>2, ZenonT(30) DEF Base, SessionType
    <3>4. channel \in Channels /\ due \in Seq(Answer)
      BY <2>3, <3>3, EnqueueInboundType, ZenonT(30)
    <3> HIDE DEF channel, due
    <3>5. SameRest(s, u)
      <4>1. u = Queued(s, channel, due)
        BY DEF Queued
      <4> QED BY <3>2, <3>4, <4>1, ChannelIs
    <3> HIDE DEF u
    <3> QED BY <2>7, <3>2, <3>5 DEF TakesOver, SameRest, SameBase
  <2> QED BY <2>1, <2>6, <2>7
<1>9. CASE HandleOne
  <2>1. PICK env \in Envs : HandleControl(env)
    BY <1>9 DEF HandleOne
  <2> DEFINE packet == Head(session.due)
             rest == Tail(session.due)
             s == [session EXCEPT !.due = rest]
             u == HandleControlPacket(s, packet, env)
  <2>2. /\ session.due \in Seq(Answer) /\ session.due # <<>> /\ session.crashed = "no"
        /\ session' = u
    BY <1>1, <2>1, ZenonT(30) DEF HandleControl, Base, SessionType
  <2>3. packet \in Answer /\ rest \in Seq(Answer)
    BY <2>2
  <2> HIDE DEF packet, rest
  <2>4. Base(s) /\ SameBase(session, s) /\ s.wire = session.wire /\ s.channel = session.channel
    BY <1>1, <2>3, DueIs
  <2> HIDE DEF s
  <2>5. CASE session.link /\ session'.link
    <3>1. Live(s)
      BY <2>2, <2>4, <2>5 DEF Live, SameBase
    <3>2. Steps(s, packet, u)
      BY <2>3, <3>1, HandleControlPacketIs
    <3> HIDE DEF u
    <3>3. u.link
      BY <2>2, <2>5
    <3>4. Keeps(s, u) \/ Completed(s, u)
      BY <3>2, <3>3 DEF Steps, Goes, Rekeys, Opens
    <3>5. TakesOver(s, u)
      BY <3>4 DEF Keeps, TakesOver
    <3> QED BY <2>2, <2>4, <3>5 DEF TakesOver, SameBase, Completed, NegotiationKey, Writes
  <2> QED BY <1>2, <1>3, <2>5
<1>10. CASE TickSome
  <2>1. PICK late \in BOOLEAN, env \in Envs : Tick(late, env)
    BY <1>10 DEF TickSome
  <2> DEFINE ticks == session.ticks - 1
             s == [session EXCEPT !.ticks = ticks]
             u == LoopNegotiation(s, late, env)
  <2>2. /\ session.ticks \in Nat /\ session.ticks > 0 /\ session.crashed = "no"
        /\ session.alive /\ session' = u
    BY <1>1, <2>1, ZenonT(30) DEF Tick, Free, Runs, Base, SessionType
  <2>3. ticks \in Nat
    BY <2>2
  <2> HIDE DEF ticks
  <2>4. Base(s) /\ SameBase(session, s) /\ s.wire = session.wire /\ s.channel = session.channel
    BY <1>1, <2>3, TicksIs
  <2> HIDE DEF s
  <2>5. Loops(s, u)
    BY <2>2, <2>4, LoopNegotiationIs, ZenonT(30) DEF SameBase
  <2> HIDE DEF u
  <2>6. CASE session'.link
    <3>1. Keeps(s, u) \/ Completed(s, u)
      BY <2>2, <2>5, <2>6 DEF Loops, Moves
    <3>2. TakesOver(s, u)
      BY <3>1 DEF Keeps, TakesOver
    <3> QED BY <2>2, <2>4, <3>2 DEF TakesOver, SameBase, Completed, NegotiationKey, Writes
  <2> QED BY <1>2, <2>6
<1>11. CASE Pinged
  <2>1. PICK silent \in BOOLEAN : Ping(silent, FALSE)
    BY <1>11 DEF Pinged
  <2> DEFINE pings == session.pings - 1
             s == [session EXCEPT !.pings = pings]
  <2>2. /\ session.pings \in Nat /\ session.pings > 0 /\ session.alive
        /\ session' \in {session, s, Stop(s)}
    BY <1>1, <2>1, ZenonT(30) DEF Ping, Free, Runs, Base, SessionType
  <2>3. pings \in Nat
    BY <2>2
  <2> HIDE DEF pings
  <2>4. Base(s) /\ SameBase(session, s)
    BY <1>1, <2>3, PingsIs
  <2> HIDE DEF s
  <2>5. session' = Stop(s) /\ session'.link => session'.ring = s.ring
    BY <2>2, <2>4, StopIs, ZenonT(30) DEF SameBase
  <2> QED BY <1>2, <2>2, <2>4, <2>5 DEF TakesOver, SameBase
<1>12. CASE ExitWritten
  <2>1. /\ session' = DidStop([session EXCEPT !.exit = "no"]) /\ session.alive
        /\ session.exit = "pending"
    BY <1>12 DEF ExitWritten, Free, Runs
  <2>2. ~session'.link
    BY <1>1, <2>1, ExitIs
  <2> QED BY <1>2, <2>2
<1>13. CASE Stopped
  <2>1. session' = Stop(session) /\ session.alive
    BY <1>13 DEF Stopped, Free, Runs
  <2>2. session'.link => session'.ring = session.ring
    BY <1>1, <2>1, StopIs
  <2> QED BY <1>2, <2>2 DEF TakesOver
<1>14. CASE Server
  <2>1. UNCHANGED session \/ \E packet \in session.wire : Take(packet)
    BY <1>14 DEF Server, ServerAnswers, ServerTakes, ServerFollows, ServerRenegotiates,
                 ServerRestarts
  <2>2. session'.ring = session.ring
    <3>1. ASSUME NEW packet \in session.wire, Take(packet) PROVE session'.ring = session.ring
      BY <3>1, TakeIs DEF SameBase
    <3> QED BY <2>1, <3>1
  <2> QED BY <2>2 DEF TakesOver
<1>15. CASE Fail
  BY <1>1, <1>15, FailIs DEF TakesOver, SameRest, SameBase
<1> QED
  BY <1>5, <1>6, <1>7, <1>8, <1>9, <1>10, <1>11, <1>12, <1>13, <1>14, <1>15, StoppedIs
     DEF Next

\* As long as the session is not stopping, the key that was current can still
\* decrypt when another one takes over (transitionKeys, cleanKeys).
THEOREM OldKeyKeptInUse ==
  ASSUME Scope
  PROVE  Spec => [][~session.isStopping => KeptBy(session, session')]_vars
<1>1. SessionInv /\ SessionInv' /\ [Next]_vars
      => [~session.isStopping => KeptBy(session, session')]_vars
  BY SessionTakesOver, TakesOverIs DEF SessionInv
<1> QED
  BY SessionSound, <1>1, PTL DEF Spec

\* And whether it is stopping or not, unless a cipher could not be set up.
THEOREM OldKeyStaysKept ==
  ASSUME Scope, "encryption" \notin Faults
  PROVE  Spec => OldKeyKept
<1>1. SessionInv /\ SessionInv' /\ [Next]_vars
      => [LET k == session.ring.currentKeyIdx
          IN  /\ k # NoIdx
              /\ session'.ring.currentKeyIdx \notin {k, NoIdx}
              => k \in session'.ring.keys /\ session'.key[k].dataPath]_vars
  BY SessionTakesOver, TakesOverIs DEF SessionInv, KeptBy
<1> QED
  BY SessionSound, <1>1, PTL DEF Spec, OldKeyKept

-----------------------------------------------------------------------------
(* Where a fatal error can be reached at all.                              *)

\* A session that has lost its keys has nothing left to handle, or has stopped.
Unhandled(s) == s.crashed # "no" \/ s.inbox # <<>> \/ s.due # <<>>
Aftermath(s) == s.link \/ ~s.alive \/ ~Unhandled(s)

LEMMA AftermathStep ==
  ASSUME SessionInv, Scope, Aftermath(session), [Next]_vars
  PROVE  Aftermath(session')
<1>1. Base(session) /\ session \in SessionType
  BY DEF SessionInv, Base
<1>2. Free => session.alive /\ ~Unhandled(session)
  BY DEF Free, Runs, Reading, Scope, Unhandled
<1>3. CASE UNCHANGED vars
  BY <1>3 DEF vars
<1>4. CASE SetLink
  <2>1. Live(session')
    BY <1>1, <1>2, <1>4, SetLinkIs, HardResetIs, ZenonT(30) DEF Unhandled
  <2> QED BY <2>1 DEF Live, Aftermath
<1>5. CASE LinkLost
  <2>1. session' = Cleanup(session) /\ ~Unhandled(session)
    BY <1>2, <1>5 DEF LinkLost
  <2>2. SameWork(session, session') /\ session'.crashed = session.crashed
    BY <1>1, <2>1, CleanupIs
  <2> QED BY <2>1, <2>2 DEF SameWork, Aftermath, Unhandled
<1>6. CASE ReadSome
  <2>1. PICK batch \in Batches, due \in BOOLEAN : Read(batch, due)
    BY <1>6 DEF ReadSome
  <2> DEFINE s == MaybeRenegotiate(session, due)
             inbox == [i \in DOMAIN batch |-> back[batch[i]]]
             u == [s EXCEPT !.inbox = inbox]
  <2>2. Live(session) /\ (session' = s \/ session' = u)
    BY <1>1, <2>1 DEF Read, Runs, Live
  <2>3. inbox \in Seq(Answer)
    BY BatchIs DEF SessionInv
  <2>4. Base(s) /\ s.link
    BY <2>2, MaybeRenegotiateIs, ZenonT(30) DEF Live
  <2> HIDE DEF s, inbox
  <2>5. u.link = s.link
    BY <2>3, <2>4, InboxIs DEF SameBase
  <2> HIDE DEF u
  <2> QED BY <2>2, <2>4, <2>5 DEF Aftermath
<1>7. CASE ReceiveLink
  <2> DEFINE packet == Head(session.inbox)
             rest == [session EXCEPT !.inbox = Tail(session.inbox)]
             starts == packet.body = "SOFT_RESET" /\ ~session.ring.isRenegotiating
             s == IF starts THEN SoftReset(rest, TRUE) ELSE rest
             channel == EnqueueInbound(s.channel, packet.id, packet)
             due == Handled(s.channel, packet.id, packet)
             u == [s EXCEPT !.channel = channel, !.due = due]
             v == [session EXCEPT !.inbox = <<>>]
  <2>1. session' = u \/ (session' = Stop(v) /\ session.ring.isRenegotiating)
    BY <1>1, <1>7, ReceiveLinkIs
  <2>2. /\ session.inbox \in Seq(Answer) /\ session.inbox # <<>> /\ session.crashed = "no"
        /\ Softs(session, back)
    BY <1>1, <1>7, ZenonT(30) DEF SessionInv, ReceiveLink, SessionType
  <2>3. /\ packet \in Answer /\ Tail(session.inbox) \in Seq(Answer) /\ <<>> \in Seq(Answer)
        /\ packet.body = "SOFT_RESET" => SoftIn(session.inbox)
    BY <2>2 DEF SoftIn
  <2>4. Base(rest) /\ SameBase(session, rest)
    BY <1>1, <2>3, InboxIs, ZenonT(30)
  <2>5. Base(v) /\ SameBase(session, v)
    BY <1>1, <2>3, InboxIs, ZenonT(30)
  <2>6. session.link \/ ~session.alive
    BY <2>2 DEF Aftermath, Unhandled
  <2> HIDE DEF rest, v
  <2>7. CASE session' = Stop(v) /\ session.ring.isRenegotiating
    <3>1. session.link
      <4>1. session.ring \in Rings /\ Shape(session.ring)
        BY <1>1, ZenonT(30) DEF Base, SessionType
      <4> QED BY <1>1, <2>7, <4>1, ShapeIs DEF Base, EmptyRing
    <3>2. v.link /\ v.alive
      BY <2>5, <3>1 DEF Base, Ends, SameBase
    <3> QED BY <2>5, <2>7, <3>2, StopIs DEF Aftermath
  <2>8. CASE session' = u
    <3>1. starts => Live(rest) /\ InUseNow(rest) /\ ~rest.ring.isRenegotiating
      BY <2>2, <2>3, <2>4 DEF Softs, Live, SameBase, InUseNow
    <3>2. Base(s) /\ (s.link \/ ~s.alive)
      <4>1. CASE starts
        <5>1. s = SoftReset(rest, TRUE)
          BY <4>1
        <5>2. Live(s)
          BY <3>1, <4>1, <5>1, SoftResetIs, ZenonT(30) DEF InUseNow
        <5> QED BY <5>2, ZenonT(30) DEF Live
      <4>2. CASE ~starts
        BY <2>4, <2>6, <4>2, ZenonT(30) DEF SameBase
      <4> QED BY <4>1, <4>2, ZenonT(30)
    <3> HIDE DEF s
    <3>3. s.channel \in Channels
      BY <3>2, ZenonT(30) DEF Base, SessionType
    <3>4. channel \in Channels /\ due \in Seq(Answer)
      BY <2>3, <3>3, EnqueueInboundType, ZenonT(30)
    <3> HIDE DEF channel, due
    <3>5. SameRest(s, u)
      <4>1. u = Queued(s, channel, due)
        BY DEF Queued
      <4> QED BY <3>2, <3>4, <4>1, ChannelIs
    <3> HIDE DEF u
    <3> QED BY <2>8, <3>2, <3>5 DEF Aftermath, SameRest, SameBase
  <2> QED BY <2>1, <2>7, <2>8
<1>8. CASE HandleOne
  <2>1. PICK env \in Envs : HandleControl(env)
    BY <1>8 DEF HandleOne
  <2> DEFINE packet == Head(session.due)
             rest == Tail(session.due)
             s == [session EXCEPT !.due = rest]
             u == HandleControlPacket(s, packet, env)
  <2>2. /\ session.due \in Seq(Answer) /\ session.due # <<>> /\ session.crashed = "no"
        /\ session' = u
    BY <1>1, <2>1, ZenonT(30) DEF HandleControl, SessionType
  <2>3. packet \in Answer /\ rest \in Seq(Answer)
    BY <2>2
  <2> HIDE DEF packet, rest
  <2>4. Base(s) /\ SameBase(session, s)
    BY <1>1, <2>3, DueIs
  <2>5. s.link \/ ~s.alive
    BY <2>2, <2>4 DEF Aftermath, Unhandled, SameBase
  <2> HIDE DEF s
  <2>6. CASE s.link
    <3>1. Live(s)
      BY <2>2, <2>4, <2>6 DEF Live, SameBase
    <3>2. Steps(s, packet, u)
      BY <2>3, <3>1, HandleControlPacketIs
    <3> HIDE DEF u
    <3>3. u.link \/ ~u.alive
      BY <3>2 DEF Steps, Goes, Rekeys, Opens
    <3> QED BY <2>2, <3>3 DEF Aftermath
  <2>7. CASE ~s.link
    <3>1. u = Crash(s, "no negotiation key")
      BY <2>4, <2>7, CrashIs, ZenonT(30) DEF HandleControlPacket, Fatal
    <3>2. u.alive = s.alive
      BY <2>4, <2>7, <3>1, CrashIs, ZenonT(30) DEF Fatal
    <3> QED BY <2>2, <2>5, <2>7, <3>2 DEF Aftermath
  <2> QED BY <2>6, <2>7
<1>9. CASE TickSome
  <2>1. PICK late \in BOOLEAN, env \in Envs : Tick(late, env)
    BY <1>9 DEF TickSome
  <2> DEFINE ticks == session.ticks - 1
             s == [session EXCEPT !.ticks = ticks]
             u == LoopNegotiation(s, late, env)
  <2>2. /\ session.ticks \in Nat /\ session.ticks > 0 /\ session.crashed = "no"
        /\ session.alive /\ ~Unhandled(session) /\ session' = u
    BY <1>1, <1>2, <2>1, ZenonT(30) DEF Tick, Free, Runs, SessionType
  <2>3. ticks \in Nat
    BY <2>2
  <2> HIDE DEF ticks
  <2>4. Base(s) /\ SameBase(session, s) /\ s.inbox = session.inbox /\ s.due = session.due
    BY <1>1, <2>3, TicksIs
  <2> HIDE DEF s
  <2>5. Loops(s, u) /\ (~s.link => u = s)
    BY <2>2, <2>4, LoopNegotiationIs, ZenonT(30) DEF SameBase, LoopNegotiation
  <2> HIDE DEF u
  <2>6. CASE s.link
    BY <2>2, <2>5, <2>6 DEF Loops, Aftermath
  <2>7. CASE ~s.link
    BY <2>2, <2>4, <2>5, <2>7 DEF Aftermath, Unhandled, SameBase
  <2> QED BY <2>6, <2>7
<1>10. CASE Pinged
  <2>1. PICK silent \in BOOLEAN : Ping(silent, FALSE)
    BY <1>10 DEF Pinged
  <2> DEFINE pings == session.pings - 1
             s == [session EXCEPT !.pings = pings]
  <2>2. /\ session.pings \in Nat /\ session.pings > 0 /\ session.alive /\ ~Unhandled(session)
        /\ session' \in {session, s, Stop(s)}
    BY <1>1, <1>2, <2>1, ZenonT(30) DEF Ping, SessionType
  <2>3. pings \in Nat
    BY <2>2
  <2> HIDE DEF pings
  <2>4. Base(s) /\ SameBase(session, s) /\ s.inbox = session.inbox /\ s.due = session.due
    BY <1>1, <2>3, PingsIs
  <2> HIDE DEF s
  <2>5. ~Unhandled(s) /\ s.alive
    BY <2>2, <2>4 DEF Unhandled, SameBase
  <2>6. ~Unhandled(Stop(s))
    BY <2>4, <2>5, StopIs DEF Unhandled, SameWork
  <2> QED BY <2>2, <2>5, <2>6 DEF Aftermath
<1>11. CASE Stopped
  <2>1. session' = Stop(session) /\ session.alive /\ ~Unhandled(session)
    BY <1>2, <1>11 DEF Stopped
  <2>2. SameWork(session, session') /\ session'.crashed = session.crashed
    BY <1>1, <2>1, StopIs
  <2> QED BY <2>1, <2>2 DEF SameWork, Aftermath, Unhandled
<1>12. CASE ExitWritten
  <2>1. /\ session' = DidStop([session EXCEPT !.exit = "no"]) /\ session.alive
        /\ session.exit = "pending" /\ ~Unhandled(session)
    BY <1>2, <1>12 DEF ExitWritten
  <2>2. SameWork(session, session') /\ session'.crashed = session.crashed
    BY <1>1, <2>1, ExitIs
  <2> QED BY <2>1, <2>2 DEF SameWork, Aftermath, Unhandled
<1>13. CASE Fail
  <2>1. SameRest(session, session') /\ session'.due = session.due
    BY <1>1, <1>13, FailIs
  <2> QED BY <2>1 DEF SameRest, SameBase, Aftermath, Unhandled
<1>14. CASE Server
  <2>1. UNCHANGED session \/ \E packet \in session.wire : Take(packet)
    BY <1>14 DEF Server, ServerAnswers, ServerTakes, ServerFollows, ServerRenegotiates,
                 ServerRestarts
  <2>2. ASSUME NEW packet \in session.wire, Take(packet) PROVE Aftermath(session')
    BY <2>2, TakeIs DEF SameBase, Aftermath
  <2> QED BY <2>1, <2>2
<1> QED
  BY <1>3, <1>4, <1>5, <1>6, <1>7, <1>8, <1>9, <1>10, <1>11, <1>12, <1>13, <1>14, StoppedIs
     DEF Next

\* A fatal error ends a session only after it has stopped: whatever is refused or
\* fails, it is the rest of the handler that a stop has run in, over TCP or when the
\* exit notification cannot be written first (CrashAfterStop).
THEOREM CrashesAfterStop ==
  ASSUME Scope
  PROVE  Spec => []CrashAfterStop
<1>1. Init => Aftermath(session)
  BY DEF Init, FreshSession, Aftermath, Unhandled
<1>2. SessionInv /\ Aftermath(session) /\ [Next]_vars => Aftermath(session)'
  BY AftermathStep
<1>3. SessionInv /\ Aftermath(session) => CrashAfterStop
  BY DEF SessionInv, Base, Aftermath, Unhandled, CrashAfterStop
<1> QED
  BY <1>1, <1>2, <1>3, SessionSound, PTL DEF Spec

-----------------------------------------------------------------------------
(* With packets that do not come after their negotiation: what the session *)
(* and its server know of each other.                                      *)

\* Over TCP packets come in order and once.  Over UDP a packet may be doubled and
\* overtaken, but what follows needs that it does not outlive its negotiation.
Timely == Scope /\ (Reliable \/ ~Replays)

\* The key negotiated last to the end, or the first one, and the one after it.
Used(s)   == IF s.ring.isRenegotiating THEN s.ring.currentKeyIdx ELSE s.ring.negotiationKeyIdx
Coming(s) == Following(Used(s))

Soft(p)      == p.body = "SOFT_RESET"
InInbox(s, p) == \E j \in DOMAIN s.inbox : p = s.inbox[j]
IsHeld(s, p) == \/ \E j \in DOMAIN s.due : p = s.due[j]
                \/ \E id \in DOMAIN s.channel.inbound : p = s.channel.inbound[id]

\* The server v uses the key of the session, or the next one.
Near(s, v) == v.key \in {Used(s), Coming(s)}

\* What the server said last was for its key, and before that for the one before.
Latest(i, v, b)   == i \in 1 .. Len(b) /\ i > Len(b) - v.sent
Relevant(i, v, b) == i \in 1 .. Len(b) /\ i > Len(b) - v.sent - v.before

Recalled(v, b) ==
    /\ v.sent + v.before <= Len(b)
    /\ \A i \in 1 .. Len(b) :
          IF Latest(i, v, b) THEN b[i].key = v.key
          ELSE Relevant(i, v, b) => Following(b[i].key) = v.key

\* The next key is on the wire only while it is negotiated; the client's SOFT_RESET
\* is the first packet of it, and gone when the server has taken that one.
WireKeys(s) ==
    \A p \in s.wire :
        /\ IF s.ring.isRenegotiating THEN p.key \in {Used(s), Coming(s)}
           ELSE p.key = Used(s) \/ Following(p.key) = Used(s)
        /\ p.key = s.ring.negotiationKeyIdx => p.id < s.channel.nextOut
        /\ p.key = Coming(s) => p.body # "PUSH_REQUEST"

WireSoft(s, v) ==
    \A p \in s.wire : Soft(p) =>
        /\ s.ring.isRenegotiating /\ p.key = Coming(s) /\ p.id = 0
        /\ v.key = Coming(s) => v.next = 0
        /\ \A q \in s.wire : q.key = Coming(s) /\ q.id = 0 => q = p

\* A server that does not negotiate yet will be asked to.
Asking(s, v) == s.ring.isRenegotiating /\ v.key = Used(s) => \E p \in s.wire : Soft(p)

\* The handshake of the next key goes on with a server that negotiates it, and has
\* taken the first packet.
Handshake(s, v) ==
    s.ring.isRenegotiating =>
        /\ NegotiationKey(s).state # "softReset" => v.key = Coming(s)
        /\ NegotiationKey(s).isTLSConnected => v.key = Coming(s) /\ v.next > 0

\* So does what has been received of it.  It was not asked to push a reply.
Heard(s, v, p) ==
    s.ring.isRenegotiating /\ p.key = s.ring.negotiationKeyIdx =>
        /\ v.key = Coming(s) /\ p.body # "PUSH_REPLY"
        /\ ~Soft(p) => v.next > 0

Received(s, v) ==
    \A p : InInbox(s, p) =>
        /\ \/ p.key = s.ring.negotiationKeyIdx \/ Following(p.key) = s.ring.negotiationKeyIdx
           \/ p.key = Following(s.ring.negotiationKeyIdx)
        /\ p.key = Following(s.ring.negotiationKeyIdx) =>
              /\ ~s.ring.isRenegotiating /\ Soft(p) /\ v.key = Coming(s)
              /\ \A q : InInbox(s, q) => Following(q.key) # s.ring.negotiationKeyIdx
        /\ Heard(s, v, p)

\* What the server said for the next key, before the session negotiates it and after.
Lately(s, v, b) ==
    v.key = Coming(s) =>
        /\ ~s.ring.isRenegotiating => v.next = 0
        /\ \A i \in 1 .. Len(b) : Latest(i, v, b) =>
              IF s.ring.isRenegotiating THEN b[i].body # "PUSH_REPLY" /\ (~Soft(b[i]) => v.next > 0)
              ELSE Soft(b[i])

\* Of the server's SOFT_RESETs there is at most one left to come, for the next key.
Unread(i, v, b, r) == Relevant(i, v, b) /\ i \notin r /\ Soft(b[i])
NoSoft(s, v, b, r) == /\ \A i \in 1 .. Len(b) : ~Unread(i, v, b, r)
                      /\ \A j \in DOMAIN s.inbox : ~Soft(s.inbox[j])

OneSoft(s, v, b, r) ==
    /\ \A i \in 1 .. Len(b) : Unread(i, v, b, r) =>
          /\ b[i].key = Coming(s) /\ v.key = Coming(s)
          /\ \A k \in 1 .. Len(b) : Unread(k, v, b, r) => k = i
          /\ \A j \in DOMAIN s.inbox : ~Soft(s.inbox[j])
    /\ \A j \in DOMAIN s.inbox : Soft(s.inbox[j]) =>
          /\ s.inbox[j].key = Coming(s) /\ v.key = Coming(s)
          /\ \A l \in DOMAIN s.inbox : Soft(s.inbox[l]) => l = j
    /\ s.ring.isRenegotiating /\ NegotiationKey(s).state # "softReset" => NoSoft(s, v, b, r)

\* A packet that has left the inbox.
Fits(s, v, b, r, p) ==
    /\ p.key # Following(s.ring.negotiationKeyIdx)
    /\ Heard(s, v, p)
    /\ s.ring.isRenegotiating /\ Soft(p) /\ p.key = s.ring.negotiationKeyIdx => NoSoft(s, v, b, r)

Holds(s, v, b, r) == \A p : IsHeld(s, p) => Fits(s, v, b, r, p)

\* Over TCP everything is read in order: what is left is for the key of the server,
\* or for the one before it until its SOFT_RESET has been read.
Interval(r) == \E k \in Nat : r = 1 .. k

Arrives(s, v, b, r) ==
    Reliable =>
        /\ Interval(r)
        /\ \A i \in 1 .. Len(b) : i \notin r =>
              \/ Latest(i, v, b)
              \/ Relevant(i, v, b) /\ v.key = Coming(s) /\ b[i].key = Used(s)
        /\ v.key = Coming(s) => v.sent > 0 /\ Soft(b[Len(b) + 1 - v.sent])

Agree(s, v, b, r) ==
    /\ Near(s, v) /\ Recalled(v, b) /\ WireKeys(s) /\ WireSoft(s, v) /\ Asking(s, v)
    /\ Handshake(s, v) /\ Received(s, v) /\ Holds(s, v, b, r) /\ Lately(s, v, b)
    /\ OneSoft(s, v, b, r) /\ Arrives(s, v, b, r)

LEMMA PlaceIs ==
  ASSUME NEW s, Live(s), RingOK(s.ring)
  PROVE  /\ s.ring.negotiationKeyIdx \in KeyIds /\ Used(s) \in KeyIds /\ Coming(s) \in KeyIds
         /\ Coming(s) = Following(Used(s))
         /\ Coming(s) # Used(s) /\ Following(Coming(s)) \notin {Used(s), Coming(s)}
         /\ IF s.ring.isRenegotiating
            THEN s.ring.negotiationKeyIdx = Coming(s) /\ s.ring.currentKeyIdx = Used(s)
            ELSE s.ring.negotiationKeyIdx = Used(s) /\ s.ring.currentKeyIdx \in {Used(s), NoIdx}
<1>1. s.ring \in Rings /\ s.ring.negotiationKeyIdx \in KeyIds /\ s.ring.keys # {}
  BY NegotiationKeyIs DEF HasNegotiationKey
<1>2. s.ring.currentKeyIdx # NoIdx => s.ring.currentKeyIdx \in KeyIds
  BY <1>1 DEF Rings
<1>3. IF s.ring.isRenegotiating
      THEN s.ring.currentKeyIdx # NoIdx
           /\ s.ring.negotiationKeyIdx = Following(s.ring.currentKeyIdx)
      ELSE s.ring.currentKeyIdx \in {s.ring.negotiationKeyIdx, NoIdx}
  BY <1>1, RingIs
<1>4. Used(s) \in KeyIds
  BY <1>1, <1>2, <1>3 DEF Used
<1>5. Coming(s) \in KeyIds /\ Coming(s) # Used(s) /\ Following(Coming(s)) \notin {Used(s), Coming(s)}
  BY <1>4, FollowingId, ThreeKeys DEF Coming
<1> QED
  BY <1>1, <1>3, <1>4, <1>5 DEF Used, Coming

\* A session that moves on within the negotiation, or stays as it is.
Moved(s, u, v, b, r) ==
    /\ u.ring.isRenegotiating = s.ring.isRenegotiating
    /\ u.ring.negotiationKeyIdx = s.ring.negotiationKeyIdx /\ Used(u) = Used(s)
    /\ \/ u.inbox \in {s.inbox, <<>>}
       \/ s.inbox # <<>> /\ u.inbox = Tail(s.inbox)
    /\ \A p : IsHeld(u, p) => IsHeld(s, p) \/ Fits(s, v, b, r, p)
    /\ Writes(s, u, Asks(s.ring))
    /\ s.ring.isRenegotiating =>
          /\ \/ NegotiationKey(u).state = NegotiationKey(s).state
             \/ v.key = Coming(s) /\ NoSoft(s, v, b, r)
          /\ \/ NegotiationKey(u).isTLSConnected = NegotiationKey(s).isTLSConnected
             \/ v.key = Coming(s) /\ v.next > 0

\* An inbox with fewer packets, of which no two were one.
LEMMA FewerIs ==
  ASSUME NEW s, NEW u, s.inbox \in Seq(Answer),
         \/ u.inbox \in {s.inbox, <<>>}
         \/ s.inbox # <<>> /\ u.inbox = Tail(s.inbox)
  PROVE  /\ \A p : InInbox(u, p) => InInbox(s, p)
         /\ \A j \in DOMAIN u.inbox : \E l \in DOMAIN s.inbox : u.inbox[j] = s.inbox[l]
         /\ \A v, b, r : NoSoft(s, v, b, r) => NoSoft(u, v, b, r)
         /\ (\A i, l \in DOMAIN s.inbox : Soft(s.inbox[i]) /\ Soft(s.inbox[l]) => i = l)
            => \A i, l \in DOMAIN u.inbox : Soft(u.inbox[i]) /\ Soft(u.inbox[l]) => i = l
<1>1. \A j \in DOMAIN u.inbox : \E l \in DOMAIN s.inbox : u.inbox[j] = s.inbox[l]
  <2>1. CASE s.inbox # <<>> /\ u.inbox = Tail(s.inbox)
    <3>1. \A j \in DOMAIN u.inbox : j + 1 \in DOMAIN s.inbox /\ u.inbox[j] = s.inbox[j + 1]
      BY <2>1
    <3> QED BY <3>1
  <2>2. CASE u.inbox \in {s.inbox, <<>>}
    BY <2>2
  <2> QED BY <2>1, <2>2
<1>2. ASSUME NEW j \in DOMAIN u.inbox, NEW k \in DOMAIN u.inbox, Soft(u.inbox[j]), Soft(u.inbox[k]),
             \A i, l \in DOMAIN s.inbox : Soft(s.inbox[i]) /\ Soft(s.inbox[l]) => i = l
      PROVE  j = k
  <2>1. CASE u.inbox = s.inbox
    BY <1>2, <2>1
  <2>2. CASE s.inbox # <<>> /\ u.inbox = Tail(s.inbox)
    <3>1. /\ j + 1 \in DOMAIN s.inbox /\ u.inbox[j] = s.inbox[j + 1]
          /\ k + 1 \in DOMAIN s.inbox /\ u.inbox[k] = s.inbox[k + 1]
          /\ j \in Nat /\ k \in Nat
      BY <2>2
    <3>2. j + 1 = k + 1
      BY <1>2, <3>1, ZenonT(30)
    <3> QED BY <3>1, <3>2
  <2>3. CASE u.inbox = <<>>
    BY <2>3
  <2> QED BY <2>1, <2>2, <2>3
<1>3. \A v, b, r : NoSoft(s, v, b, r) => NoSoft(u, v, b, r)
  BY <1>1 DEF NoSoft
<1>4. \A p : InInbox(u, p) => InInbox(s, p)
  BY <1>1 DEF InInbox
<1> QED
  BY <1>1, <1>2, <1>3, <1>4

LEMMA MovedAgrees ==
  ASSUME NEW s, Live(s), RingOK(s.ring), NEW u, Live(u), NEW v, NEW b, NEW r,
         Agree(s, v, b, r), Moved(s, u, v, b, r)
  PROVE  Agree(u, v, b, r)
<1> DEFINE n == s.ring.negotiationKeyIdx
<1>1. /\ Coming(u) = Coming(s) /\ Used(u) = Used(s) /\ u.ring.negotiationKeyIdx = n
      /\ u.ring.isRenegotiating = s.ring.isRenegotiating
  BY DEF Moved, Coming
<1>2. /\ \A p : InInbox(u, p) => InInbox(s, p)
      /\ \A j \in DOMAIN u.inbox : \E l \in DOMAIN s.inbox : u.inbox[j] = s.inbox[l]
      /\ NoSoft(s, v, b, r) => NoSoft(u, v, b, r)
  <2>1. s.inbox \in Seq(Answer)
    BY ZenonT(30) DEF Live, Base, SessionType
  <2>2. \/ u.inbox \in {s.inbox, <<>>}
        \/ s.inbox # <<>> /\ u.inbox = Tail(s.inbox)
    BY DEF Moved
  <2> QED BY <2>1, <2>2, FewerIs
<1>3. /\ n \in KeyIds /\ Coming(s) # Used(s) /\ n \in {Used(s), Coming(s)}
      /\ s.ring.isRenegotiating <=> n = Coming(s)
  BY PlaceIs
<1>4. /\ s.channel.nextOut \in Nat /\ u.channel.nextOut \in Nat /\ s.channel.nextOut <= u.channel.nextOut
      /\ \A p \in s.wire : p.id \in Nat
      /\ \A p \in u.wire : p.id \in Nat
      /\ \A p \in u.wire : p \in s.wire \/ (/\ p.key = n /\ s.channel.nextOut <= p.id
                                            /\ p.id < u.channel.nextOut
                                            /\ p.body \in Asks(s.ring))
      /\ s.wire \subseteq u.wire
  BY ZenonT(30) DEF Moved, Writes, Live, Base, SessionType, Channels, Packet
<1>5. \A body \in Asks(s.ring) : /\ body # "SOFT_RESET"
                                 /\ s.ring.isRenegotiating => body # "PUSH_REQUEST"
  BY DEF Asks, Greetings
<1>6. WireKeys(u)
  <2>1. \A p \in s.wire :
           /\ IF s.ring.isRenegotiating THEN p.key \in {Used(s), Coming(s)}
              ELSE p.key = Used(s) \/ Following(p.key) = Used(s)
           /\ p.key = n => p.id < s.channel.nextOut
           /\ p.key = Coming(s) => p.body # "PUSH_REQUEST"
    BY DEF Agree, WireKeys
  <2>2. \A p \in u.wire \ s.wire : /\ p.key = n /\ p.id < u.channel.nextOut
                                   /\ p.key = Coming(s) => p.body # "PUSH_REQUEST"
    BY <1>3, <1>4, <1>5
  <2>3. \A p \in s.wire : p.key = n => p.id < u.channel.nextOut
    BY <1>4, <2>1
  <2> QED BY <1>1, <1>3, <2>1, <2>2, <2>3 DEF WireKeys
<1>7. WireSoft(u, v)
  <2> SUFFICES ASSUME NEW p \in u.wire, Soft(p)
               PROVE  /\ u.ring.isRenegotiating /\ p.key = Coming(u) /\ p.id = 0
                      /\ v.key = Coming(u) => v.next = 0
                      /\ \A q \in u.wire : q.key = Coming(u) /\ q.id = 0 => q = p
    BY DEF WireSoft
  <2>1. p \in s.wire
    BY <1>4, <1>5 DEF Soft
  <2>2. /\ s.ring.isRenegotiating /\ p.key = Coming(s) /\ p.id = 0
        /\ v.key = Coming(s) => v.next = 0
        /\ \A q \in s.wire : q.key = Coming(s) /\ q.id = 0 => q = p
    BY <2>1 DEF Agree, WireSoft
  <2>3. s.channel.nextOut > 0
    <3>1. p.key = n => p.id < s.channel.nextOut
      BY <2>1 DEF Agree, WireKeys
    <3> QED BY <1>3, <1>4, <2>2, <3>1
  <2> QED BY <1>1, <1>4, <2>2, <2>3
<1>8. Asking(u, v)
  BY <1>1, <1>4 DEF Agree, Asking
<1>9. Handshake(u, v)
  BY <1>1 DEF Agree, Handshake, Moved
<1>10. \A p : Heard(s, v, p) => Heard(u, v, p)
  BY <1>1 DEF Heard
<1>11. Received(u, v)
  BY <1>1, <1>2, <1>10 DEF Agree, Received
<1>12. Holds(u, v, b, r)
  <2>1. \A p : Fits(s, v, b, r, p) => Fits(u, v, b, r, p)
    BY <1>1, <1>2, <1>10 DEF Fits
  <2> QED BY <2>1 DEF Agree, Holds, Moved
<1>13. Lately(u, v, b)
  BY <1>1 DEF Agree, Lately
<1>14. OneSoft(u, v, b, r)
  <2>1. ASSUME NEW i \in 1 .. Len(b), Unread(i, v, b, r)
        PROVE  /\ b[i].key = Coming(u) /\ v.key = Coming(u)
               /\ \A k \in 1 .. Len(b) : Unread(k, v, b, r) => k = i
               /\ \A j \in DOMAIN u.inbox : ~Soft(u.inbox[j])
    BY <1>1, <1>2, <2>1 DEF Agree, OneSoft
  <2>2. ASSUME NEW j \in DOMAIN u.inbox, Soft(u.inbox[j])
        PROVE  /\ u.inbox[j].key = Coming(u) /\ v.key = Coming(u)
               /\ \A l \in DOMAIN u.inbox : Soft(u.inbox[l]) => l = j
    <3>1. \A i, l \in DOMAIN s.inbox : Soft(s.inbox[i]) /\ Soft(s.inbox[l]) => i = l
      BY DEF Agree, OneSoft
    <3>2. s.inbox \in Seq(Answer)
      BY ZenonT(30) DEF Live, Base, SessionType
    <3>3. \A l \in DOMAIN u.inbox : Soft(u.inbox[l]) => l = j
      BY <2>2, <3>1, <3>2, FewerIs, ZenonT(30) DEF Moved
    <3> QED BY <1>1, <1>2, <2>2, <3>3 DEF Agree, OneSoft
  <2>3. u.ring.isRenegotiating /\ NegotiationKey(u).state # "softReset" => NoSoft(u, v, b, r)
    BY <1>1, <1>2 DEF Agree, OneSoft, Moved
  <2> QED BY <2>1, <2>2, <2>3 DEF OneSoft
<1>15. Arrives(u, v, b, r)
  BY <1>1 DEF Agree, Arrives
<1> QED
  BY <1>1, <1>6, <1>7, <1>8, <1>9, <1>11, <1>12, <1>13, <1>14, <1>15 DEF Agree, Near

\* The key under negotiation takes over.
LEMMA RekeyAgrees ==
  ASSUME NEW s, Live(s), RingOK(s.ring), NEW u, Live(u), RingOK(u.ring), NEW v, NEW b, NEW r,
         Agree(s, v, b, r), s.ring.isRenegotiating, ~u.ring.isRenegotiating,
         u.ring.negotiationKeyIdx = s.ring.negotiationKeyIdx, u.inbox = s.inbox,
         \A p : IsHeld(u, p) => IsHeld(s, p),
         Writes(s, u, {"PUSH_REQUEST"}), NegotiationKey(s).isTLSConnected,
         Len(b) \in Nat, v.sent \in Nat, v.before \in Nat
  PROVE  Agree(u, v, b, r)
<1> DEFINE n == s.ring.negotiationKeyIdx
<1>1. /\ Coming(s) = Following(Used(s)) /\ Coming(s) # Used(s) /\ n = Coming(s)
      /\ Used(u) = n /\ Coming(u) = Following(n) /\ Coming(u) \notin {Used(s), n}
  BY PlaceIs
<1>2. v.key = n /\ v.next > 0
  BY <1>1 DEF Agree, Handshake
<1>3. NoSoft(s, v, b, r)
  <2>1. NegotiationKey(s).state = "tls"
    BY NegotiationKeyIs DEF Live, Base, Stages, NegotiationKey
  <2> QED BY <2>1 DEF Agree, OneSoft
<1>4. NoSoft(u, v, b, r)
  BY <1>3 DEF NoSoft
<1>5. \A p \in s.wire : /\ p.key \in {Used(s), n} /\ ~Soft(p)
                        /\ p.key = n => p.id < s.channel.nextOut
  BY <1>1, <1>2 DEF Agree, WireKeys, WireSoft
<1>6. /\ s.channel.nextOut \in Nat /\ u.channel.nextOut \in Nat /\ s.channel.nextOut <= u.channel.nextOut
      /\ \A p \in s.wire : p.id \in Nat
      /\ \A p \in u.wire \ s.wire : p.key = n /\ p.id < u.channel.nextOut /\ p.body = "PUSH_REQUEST"
  BY ZenonT(30) DEF Writes, Live, Base, SessionType, Channels, Packet
<1>7. \A p \in u.wire : /\ p.key \in {Used(s), n} /\ ~Soft(p)
                        /\ p.key = n => p.id < u.channel.nextOut
  BY <1>5, <1>6 DEF Soft
<1>8. WireKeys(u) /\ WireSoft(u, v)
  BY <1>1, <1>7 DEF WireKeys, WireSoft
<1>9. Received(u, v)
  <2>1. \A p : InInbox(u, p) => InInbox(s, p)
    BY DEF InInbox
  <2> QED BY <1>1, <2>1 DEF Agree, Received, Heard
<1>10. Holds(u, v, b, r)
  BY <1>1 DEF Agree, Holds, Fits, Heard
<1>11. OneSoft(u, v, b, r)
  BY <1>4 DEF OneSoft, NoSoft
<1>12. Arrives(u, v, b, r)
  <2> SUFFICES ASSUME Reliable, NEW i \in 1 .. Len(b), i \notin r
               PROVE  Latest(i, v, b)
    BY <1>1, <1>2 DEF Agree, Arrives
  <2> DEFINE first == Len(b) + 1 - v.sent
  <2>1. v.sent > 0 /\ Soft(b[first]) /\ v.sent <= Len(b)
    BY <1>1, <1>2 DEF Agree, Arrives, Recalled
  <2>2. first \in 1 .. Len(b) /\ Relevant(first, v, b)
    BY <2>1 DEF Relevant
  <2>3. first \in r
    BY <1>3, <2>1, <2>2 DEF NoSoft, Unread
  <2>4. PICK k \in Nat : r = 1 .. k
    BY DEF Agree, Arrives, Interval
  <2> QED BY <2>2, <2>3, <2>4 DEF Latest
<1> QED
  BY <1>1, <1>2, <1>8, <1>9, <1>10, <1>11, <1>12 DEF Agree, Near, Asking, Handshake, Lately

\* A negotiation starts: the server is asked, or asked for it.
LEMMA ResetAgrees ==
  ASSUME NEW s, Live(s), RingOK(s.ring), NEW u, Live(u), RingOK(u.ring), NEW v, NEW b, NEW r,
         Agree(s, v, b, r), ~s.ring.isRenegotiating, u.ring.isRenegotiating, Used(u) = Used(s),
         NegotiationKey(u).state = "softReset", ~NegotiationKey(u).isTLSConnected,
         u.inbox = s.inbox, \A p : ~IsHeld(u, p),
         \A p : InInbox(s, p) => p.key \in {s.ring.negotiationKeyIdx, Coming(s)},
         NEW asked, u.wire = Recent(s) \cup asked,
         \/ asked = {} /\ v.key = Coming(s)
         \/ /\ asked = {[key |-> u.ring.negotiationKeyIdx, id |-> 0, body |-> "SOFT_RESET"]}
            /\ u.channel.nextOut = 1
  PROVE  Agree(u, v, b, r)
<1> DEFINE y == Used(s)
           x == Coming(s)
<1>1. /\ x = Following(y) /\ x # y /\ s.ring.negotiationKeyIdx = y
      /\ Used(u) = y /\ Coming(u) = x /\ u.ring.negotiationKeyIdx = x
      /\ Following(x) \notin {y, x}
  BY PlaceIs DEF Coming
<1> HIDE DEF y, x
<1>2. \A p \in u.wire \ asked : p \in s.wire /\ p.key = y
  BY <1>1 DEF Recent
<1>3. \A p \in asked : /\ p.key = x /\ p.id = 0 /\ p.body = "SOFT_RESET" /\ u.channel.nextOut = 1
                       /\ asked = {p}
  BY <1>1
<1>4. \A p \in u.wire : ~Soft(p) \/ p \in asked
  BY <1>2 DEF Agree, WireSoft
<1>5. WireKeys(u)
  BY <1>1, <1>2, <1>3 DEF WireKeys
<1>6. v.key = x => v.next = 0
  BY DEF Agree, Lately, x
<1>7. WireSoft(u, v)
  <2> SUFFICES ASSUME NEW p \in u.wire, Soft(p)
               PROVE  /\ u.ring.isRenegotiating /\ p.key = Coming(u) /\ p.id = 0
                      /\ v.key = Coming(u) => v.next = 0
                      /\ \A q \in u.wire : q.key = Coming(u) /\ q.id = 0 => q = p
    BY DEF WireSoft
  <2>1. p \in asked /\ p.key = x /\ p.id = 0 /\ asked = {p}
    BY <1>3, <1>4
  <2>2. \A q \in u.wire : q.key = x => q = p
    BY <1>1, <1>2, <2>1
  <2> QED BY <1>1, <1>6, <2>1, <2>2
<1>8. Asking(u, v)
  <2>1. ASSUME v.key = y PROVE \E p \in u.wire : Soft(p)
    <3>1. asked = {[key |-> u.ring.negotiationKeyIdx, id |-> 0, body |-> "SOFT_RESET"]}
      BY <1>1, <2>1 DEF x
    <3>2. \E p \in asked : p.body = "SOFT_RESET"
      BY <3>1
    <3> QED BY <3>2 DEF Soft
  <2> QED BY <1>1, <2>1 DEF Asking
<1>9. Handshake(u, v)
  BY DEF Handshake
<1>10. Received(u, v)
  <2>1. \A p : InInbox(u, p) => InInbox(s, p)
    BY DEF InInbox
  <2>2. \A p : InInbox(s, p) => p.key = y \/ (p.key = x /\ Soft(p) /\ v.key = x)
    <3> SUFFICES ASSUME NEW p, InInbox(s, p)
                 PROVE  p.key = y \/ (p.key = x /\ Soft(p) /\ v.key = x)
      OBVIOUS
    <3>1. p.key = Following(s.ring.negotiationKeyIdx) => Soft(p) /\ v.key = Coming(s)
      BY DEF Agree, Received
    <3>2. p.key \in {s.ring.negotiationKeyIdx, Coming(s)}
      OBVIOUS
    <3> QED BY <1>1, <3>1, <3>2 DEF x
  <2> QED BY <1>1, <2>1, <2>2 DEF Received, Heard, Soft
<1>11. Holds(u, v, b, r)
  BY DEF Holds
<1>12. Lately(u, v, b)
  BY <1>1 DEF Agree, Lately, Soft, x
<1>13. OneSoft(u, v, b, r)
  BY <1>1 DEF Agree, OneSoft, x
<1>14. Arrives(u, v, b, r)
  BY <1>1 DEF Agree, Arrives, x, y
<1> QED
  BY <1>1, <1>5, <1>7, <1>8, <1>9, <1>10, <1>11, <1>12, <1>13, <1>14 DEF Agree, Near, x, y

\* What has been read does not come as what was not.
LEMMA MoreReadAgrees ==
  ASSUME NEW s, NEW v, NEW b, NEW r, Agree(s, v, b, r), NEW q, r \subseteq q,
         Reliable => Interval(q)
  PROVE  Agree(s, v, b, q)
<1>1. \A i : Unread(i, v, b, q) => Unread(i, v, b, r)
  BY DEF Unread
<1>2. NoSoft(s, v, b, r) => NoSoft(s, v, b, q)
  BY <1>1 DEF NoSoft
<1>3. Holds(s, v, b, q)
  BY <1>2 DEF Agree, Holds, Fits
<1>4. OneSoft(s, v, b, q)
  BY <1>1, <1>2 DEF Agree, OneSoft
<1>5. Arrives(s, v, b, q)
  BY DEF Agree, Arrives
<1> QED
  BY <1>3, <1>4, <1>5 DEF Agree

\* A packet that a read returns, to a session that may have started a negotiation.
Came(s, v, b, r, i) ==
    /\ Relevant(i, v, b) /\ (Soft(b[i]) => i \notin r)
    /\ \/ b[i].key = s.ring.negotiationKeyIdx
       \/ Latest(i, v, b) /\ b[i].key = Following(s.ring.negotiationKeyIdx)
       \/ s.ring.isRenegotiating /\ Following(b[i].key) = s.ring.negotiationKeyIdx

\* A read fills the inbox.
LEMMA FetchAgrees ==
  ASSUME NEW s, Live(s), RingOK(s.ring), s.inbox = <<>>, NEW v, NEW b \in Seq(Answer), NEW r,
         Agree(s, v, b, r),
         NEW u, u.ring = s.ring, u.key = s.key, u.wire = s.wire, u.channel = s.channel,
         u.due = s.due,
         NEW n \in Nat, NEW batch, \A i \in 1 .. n : batch[i] \in 1 .. Len(b),
         \A i, j \in 1 .. n : batch[i] = batch[j] => i = j,
         DOMAIN u.inbox = 1 .. n, \A i \in 1 .. n : u.inbox[i] = b[batch[i]],
         \A i \in 1 .. n : Came(s, v, b, r, batch[i]),
         NEW q, r \subseteq q, \A i \in 1 .. n : batch[i] \in q, Reliable => Interval(q)
  PROVE  Agree(u, v, b, q)
<1> DEFINE neg == s.ring.negotiationKeyIdx
<1>1. Used(u) = Used(s) /\ Coming(u) = Coming(s) /\ NegotiationKey(u) = NegotiationKey(s)
  BY DEF Used, Coming, NegotiationKey
<1>2. /\ neg \in KeyIds /\ Following(neg) # neg /\ Following(Following(neg)) # neg
      /\ s.ring.isRenegotiating => neg = Coming(s)
      /\ ~s.ring.isRenegotiating => neg = Used(s) /\ Following(neg) = Coming(s)
      /\ Following(Coming(s)) \notin {Used(s), Coming(s)}
  BY PlaceIs, FollowingId, ThreeKeys
<1>3. DOMAIN u.inbox = 1 .. n /\ \A j \in 1 .. n : u.inbox[j] = b[batch[j]] /\ batch[j] \in 1 .. Len(b)
  OBVIOUS
<1>4. \A i \in 1 .. Len(b) : b[i].key \in KeyIds
  <2>1. \A i \in 1 .. Len(b) : b[i] \in Answer
    OBVIOUS
  <2> QED BY <2>1 DEF Answer
<1> HIDE DEF neg
<1>5. ASSUME NEW j \in 1 .. n
      PROVE  /\ b[batch[j]].key = Following(neg) =>
                   /\ ~s.ring.isRenegotiating /\ Soft(b[batch[j]]) /\ v.key = Coming(s)
             /\ Heard(s, v, b[batch[j]])
  <2> DEFINE i == batch[j]
  <2>1. i \in 1 .. Len(b) /\ b[i].key \in KeyIds /\ Came(s, v, b, r, i)
    BY <1>3, <1>4
  <2> HIDE DEF i
  <2>2. IF Latest(i, v, b) THEN b[i].key = v.key ELSE Following(b[i].key) = v.key
    BY <2>1 DEF Agree, Recalled, Came
  <2>3. ASSUME b[i].key = Following(neg)
        PROVE  ~s.ring.isRenegotiating /\ Soft(b[i]) /\ v.key = Coming(s)
    <3>1. Latest(i, v, b)
      BY <1>2, <2>1, <2>3 DEF Came, neg
    <3>2. v.key = Following(neg)
      BY <2>2, <2>3, <3>1
    <3>3. ~s.ring.isRenegotiating
      BY <1>2, <3>2 DEF Agree, Near
    <3> QED BY <1>2, <2>1, <3>1, <3>2, <3>3 DEF Agree, Lately
  <2>4. ASSUME s.ring.isRenegotiating, b[i].key = neg
        PROVE  v.key = Coming(s) /\ b[i].body # "PUSH_REPLY" /\ (~Soft(b[i]) => v.next > 0)
    <3>1. Latest(i, v, b) /\ v.key = Coming(s)
      BY <1>2, <2>2, <2>4 DEF Agree, Near
    <3> QED BY <2>1, <2>4, <3>1 DEF Agree, Lately
  <2> QED BY <2>3, <2>4 DEF Heard, i, neg
<1>6. Received(u, v)
  <2> SUFFICES ASSUME NEW j \in 1 .. n
               PROVE  /\ \/ b[batch[j]].key = neg \/ Following(b[batch[j]].key) = neg
                         \/ b[batch[j]].key = Following(neg)
                      /\ b[batch[j]].key = Following(neg) =>
                            /\ ~s.ring.isRenegotiating /\ Soft(b[batch[j]]) /\ v.key = Coming(s)
                            /\ \A l \in 1 .. n : Following(b[batch[l]].key) # neg
                      /\ Heard(s, v, b[batch[j]])
    BY <1>1, <1>3 DEF Received, InInbox, Heard, neg
  <2>1. b[batch[j]].key = neg \/ Following(b[batch[j]].key) = neg \/ b[batch[j]].key = Following(neg)
    BY DEF Came, neg
  <2>2. ASSUME ~s.ring.isRenegotiating, NEW l \in 1 .. n PROVE Following(b[batch[l]].key) # neg
    BY <1>2, <2>2 DEF Came, neg
  <2> QED BY <1>5, <2>1, <2>2
<1>7. \A i : Unread(i, v, b, q) => Unread(i, v, b, r) /\ \A j \in 1 .. n : batch[j] # i
  BY DEF Unread
<1>8. \A j \in 1 .. n : Soft(b[batch[j]]) => Unread(batch[j], v, b, r)
  BY DEF Unread, Came
<1>9. NoSoft(s, v, b, r) => NoSoft(u, v, b, q)
  BY <1>3, <1>7, <1>8 DEF NoSoft
<1>10. Holds(u, v, b, q)
  BY <1>1, <1>9 DEF Agree, Holds, Fits, Heard, IsHeld
<1>11. OneSoft(u, v, b, q)
  <2>1. \A i \in 1 .. Len(b) : Unread(i, v, b, r) =>
           /\ b[i].key = Coming(s) /\ v.key = Coming(s)
           /\ \A k \in 1 .. Len(b) : Unread(k, v, b, r) => k = i
    BY DEF Agree, OneSoft
  <2>2. ASSUME NEW i \in 1 .. Len(b), Unread(i, v, b, q)
        PROVE  /\ b[i].key = Coming(s) /\ v.key = Coming(s)
               /\ \A k \in 1 .. Len(b) : Unread(k, v, b, q) => k = i
               /\ \A j \in 1 .. n : ~Soft(b[batch[j]])
    BY <1>3, <1>7, <1>8, <2>1, <2>2
  <2>3. ASSUME NEW j \in 1 .. n, Soft(b[batch[j]])
        PROVE  /\ b[batch[j]].key = Coming(s) /\ v.key = Coming(s)
               /\ \A l \in 1 .. n : Soft(b[batch[l]]) => l = j
    <3>1. Unread(batch[j], v, b, r) /\ batch[j] \in 1 .. Len(b)
      BY <1>3, <1>8, <2>3
    <3>2. ASSUME NEW l \in 1 .. n, Soft(b[batch[l]]) PROVE l = j
      <4>1. Unread(batch[l], v, b, r) /\ batch[l] \in 1 .. Len(b)
        BY <1>3, <1>8, <3>2
      <4>2. batch[l] = batch[j]
        BY <2>1, <3>1, <4>1
      <4> QED BY <4>2
    <3> QED BY <2>1, <3>1, <3>2
  <2>4. s.ring.isRenegotiating /\ NegotiationKey(s).state # "softReset" => NoSoft(u, v, b, q)
    BY <1>9 DEF Agree, OneSoft
  <2> QED BY <1>1, <1>3, <2>2, <2>3, <2>4 DEF OneSoft
<1>12. Arrives(u, v, b, q)
  BY <1>1 DEF Agree, Arrives
<1> QED
  BY <1>1, <1>6, <1>10, <1>11, <1>12
     DEF Agree, Near, WireKeys, WireSoft, Asking, Handshake, Lately

\* softReset.
LEMMA StartAgrees ==
  ASSUME NEW s, Live(s), RingOK(s.ring), InUseNow(s), ~s.ring.isRenegotiating, s.due = <<>>,
         NEW v, NEW b, NEW r, Agree(s, v, b, r), NEW byServer \in BOOLEAN,
         byServer => v.key = Coming(s),
         \A p : InInbox(s, p) => p.key \in {s.ring.negotiationKeyIdx, Coming(s)}
  PROVE  LET u == SoftReset(s, byServer)
         IN  /\ Live(u) /\ RingOK(u.ring) /\ Agree(u, v, b, r)
             /\ u.inbox = s.inbox /\ u.due = <<>> /\ u.channel.inbound = <<>>
             /\ u.ring.isRenegotiating
             /\ u.ring.negotiationKeyIdx = Following(s.ring.negotiationKeyIdx)
             /\ Coming(u) = Coming(s)
<1> DEFINE u == SoftReset(s, byServer)
           next == Following(s.ring.negotiationKeyIdx)
           asked == IF byServer THEN {} ELSE {[key |-> next, id |-> 0, body |-> "SOFT_RESET"]}
<1>1. /\ Live(u) /\ u.inbox = s.inbox /\ u.due = s.due
      /\ u.ring.negotiationKeyIdx = next /\ u.ring.currentKeyIdx = s.ring.currentKeyIdx
      /\ s.ring.negotiationKeyIdx = s.ring.currentKeyIdx
      /\ u.ring.isRenegotiating /\ NegotiationKey(u) = NewKey("softReset")
      /\ u.channel.inbound = <<>> /\ u.wire = Recent(s) \cup asked
      /\ ~byServer => u.channel.nextOut = 1
  BY SoftResetIs DEF InUseNow
<1> HIDE DEF u
<1>2. Used(u) = Used(s) /\ Used(s) = s.ring.negotiationKeyIdx /\ next = Coming(s)
  BY <1>1 DEF Used, Coming
<1>3. RingOK(u.ring)
  <2>1. next # s.ring.currentKeyIdx
    BY <1>1, <1>2, PlaceIs
  <2>2. u.ring \in Rings /\ Shape(u.ring)
    BY <1>1, NegotiationKeyIs
  <2> QED BY <1>1, <2>1, <2>2, ShapeIs
<1>4. NegotiationKey(u).state = "softReset" /\ ~NegotiationKey(u).isTLSConnected
  BY <1>1, NewKeyIs
<1>5. \A p : ~IsHeld(u, p)
  BY <1>1 DEF IsHeld
<1>6. \/ asked = {} /\ v.key = Coming(s)
      \/ /\ asked = {[key |-> u.ring.negotiationKeyIdx, id |-> 0, body |-> "SOFT_RESET"]}
         /\ u.channel.nextOut = 1
  BY <1>1
<1> HIDE DEF asked
<1>7. Agree(u, v, b, r)
  BY <1>1, <1>2, <1>3, <1>4, <1>5, <1>6, ResetAgrees
<1> QED
  BY <1>1, <1>2, <1>3, <1>7 DEF Coming, u

-----------------------------------------------------------------------------
(* The steps of the session.                                               *)

Sync(s, v, b, r) == s.link /\ s.crashed = "no" => RingOK(s.ring) /\ Agree(s, v, b, r)
Synced           == Sync(session, server, back, read)

\* What a read returns comes once, from the server's last two keys, and over TCP in
\* order.
LEMMA BatchComes ==
  ASSUME Served, Timely, Live(session), RingOK(session.ring), Agree(session, server, back, read),
         NEW batch \in Batches
  PROVE  \E n \in Nat : /\ batch \in [1 .. n -> 1 .. Len(back)]
                        /\ \A i, j \in 1 .. n : batch[i] = batch[j] => i = j
                        /\ \A i \in 1 .. n : Came(session, server, back, read, batch[i])
                        /\ Reliable => Interval(read \cup {batch[i] : i \in 1 .. n})
<1> DEFINE some == IF Reliable THEN (1 .. Len(back)) \ read
                               ELSE {i \in 1 .. Len(back) : Deliverable(i)}
           neg == session.ring.negotiationKeyIdx
<1>1. /\ batch \in UNION {[1 .. n -> some] : n \in 1 .. MaxBatch}
      /\ \A i, j \in DOMAIN batch : i < j => batch[i] # batch[j]
      /\ Reliable => \A i \in DOMAIN batch : batch[i] = Cardinality(read) + i
  BY DEF Batches
<1>2. /\ back \in Seq(Answer) /\ read \subseteq 1 .. Len(back)
      /\ server.sent \in Nat /\ server.before \in Nat
  BY DEF Served
<1>3. \A i \in some : i \in 1 .. Len(back) /\ Came(session, server, back, read, i)
  <2> SUFFICES ASSUME NEW i \in some
               PROVE  i \in 1 .. Len(back) /\ Came(session, server, back, read, i)
    OBVIOUS
  <2>1. i \in 1 .. Len(back)
    OBVIOUS
  <2>2. CASE Reliable
    <3>1. i \notin read
      BY <2>2
    <3>2. \/ Latest(i, server, back)
          \/ /\ Relevant(i, server, back) /\ server.key = Coming(session)
             /\ back[i].key = Used(session)
      BY <2>1, <2>2, <3>1 DEF Agree, Arrives
    <3>3. Latest(i, server, back) => /\ Relevant(i, server, back) /\ back[i].key = server.key
                                     /\ server.key \in {Used(session), Coming(session)}
      BY <1>2, <2>1 DEF Agree, Recalled, Latest, Relevant, Near
    <3>4. /\ Coming(session) = Following(Used(session))
          /\ neg = IF session.ring.isRenegotiating THEN Coming(session) ELSE Used(session)
      BY PlaceIs
    <3> QED BY <2>1, <3>1, <3>2, <3>3, <3>4 DEF Came
  <2>3. CASE ~Reliable
    BY <1>2, <2>1, <2>3 DEF Timely, Deliverable, Came, Relevant, Latest, Soft
  <2> QED BY <2>1, <2>2, <2>3
<1> HIDE DEF some
<1>4. PICK n \in 1 .. MaxBatch : batch \in [1 .. n -> some]
  BY <1>1
<1>5. n \in Nat /\ DOMAIN batch = 1 .. n /\ \A i \in 1 .. n : batch[i] \in some
  BY <1>4
<1>6. ASSUME NEW i \in 1 .. n, NEW j \in 1 .. n, batch[i] = batch[j] PROVE i = j
  BY <1>1, <1>5, <1>6
<1>7. batch \in [1 .. n -> 1 .. Len(back)]
  BY <1>3, <1>4
<1>8. ASSUME Reliable PROVE Interval(read \cup {batch[i] : i \in 1 .. n})
  <2>1. PICK k \in Nat : read = 1 .. k
    BY <1>8 DEF Agree, Arrives, Interval
  <2>2. Cardinality(read) = k
    BY <2>1, FS_Interval
  <2>3. \A i \in 1 .. n : batch[i] = k + i
    BY <1>1, <1>5, <1>8, <2>2
  <2>4. {batch[i] : i \in 1 .. n} = k + 1 .. k + n
    <3>1. \A i \in 1 .. n : batch[i] \in k + 1 .. k + n
      BY <1>5, <2>3
    <3>2. ASSUME NEW m \in k + 1 .. k + n PROVE \E i \in 1 .. n : batch[i] = m
      <4>1. m - k \in 1 .. n /\ k + (m - k) = m
        BY <1>5
      <4> QED BY <2>3, <4>1
    <3> QED BY <3>1, <3>2
  <2>5. read \cup {batch[i] : i \in 1 .. n} = 1 .. k + n
    BY <1>5, <2>1, <2>4
  <2> QED BY <1>5, <2>5 DEF Interval
<1> QED
  BY <1>3, <1>5, <1>6, <1>7, <1>8, ZenonT(30)

LEMMA ReadAgrees ==
  ASSUME SessionInv, Timely, Synced, NEW batch \in Batches, NEW due \in BOOLEAN, Read(batch, due)
  PROVE  Synced'
<1> DEFINE s == MaybeRenegotiate(session, due)
           inbox == [i \in DOMAIN batch |-> back[batch[i]]]
           u == [s EXCEPT !.inbox = inbox]
<1>1. /\ Live(session) /\ Served /\ session.inbox = <<>> /\ session.due = <<>>
      /\ session' = s \/ session' = u
      /\ server' = server /\ back' = back
      /\ read' = read \cup {batch[i] : i \in DOMAIN batch}
      /\ RingOK(session.ring) /\ Agree(session, server, back, read)
  BY DEF SessionInv, Read, Runs, Reading, Live, Synced, Sync
<1>2. PICK n \in Nat : /\ batch \in [1 .. n -> 1 .. Len(back)]
                       /\ \A i, j \in 1 .. n : batch[i] = batch[j] => i = j
                       /\ \A i \in 1 .. n : Came(session, server, back, read, batch[i])
                       /\ Reliable => Interval(read \cup {batch[i] : i \in 1 .. n})
  BY <1>1, BatchComes, ZenonT(30)
<1>3. DOMAIN batch = 1 .. n
  BY <1>2
<1>4. Reliable => Interval(read')
  BY <1>1, <1>2, <1>3
<1>5. /\ Live(s) /\ RingOK(s.ring) /\ Agree(s, server, back, read)
      /\ s.inbox = <<>>
      /\ \A i \in 1 .. n : Came(s, server, back, read, batch[i])
  <2>1. CASE s = session
    BY <1>1, <1>2, <2>1
  <2>2. CASE s = SoftReset(session, FALSE) /\ InUseNow(session) /\ ~session.ring.isRenegotiating
    <3>1. \A p : ~InInbox(session, p)
      BY <1>1 DEF InInbox
    <3>2. /\ Live(s) /\ RingOK(s.ring) /\ Agree(s, server, back, read)
          /\ s.inbox = <<>> /\ s.ring.isRenegotiating
          /\ s.ring.negotiationKeyIdx = Following(session.ring.negotiationKeyIdx)
      BY <1>1, <2>2, <3>1, StartAgrees, ZenonT(60)
    <3> QED BY <1>2, <2>2, <3>2, ZenonT(30) DEF Came
  <2> QED BY <1>1, <2>1, <2>2, MaybeRenegotiateIs, ZenonT(30)
<1> HIDE DEF s
<1>6. CASE session' = s
  <2>1. read \subseteq read'
    BY <1>1
  <2>2. Agree(s, server, back, read')
    BY <1>4, <1>5, <2>1, MoreReadAgrees
  <2> QED BY <1>1, <1>5, <1>6, <2>2 DEF Synced, Sync
<1>7. CASE session' = u
  <2>1. /\ u.ring = s.ring /\ u.key = s.key /\ u.wire = s.wire /\ u.channel = s.channel
        /\ u.due = s.due
        /\ DOMAIN u.inbox = 1 .. n /\ \A i \in 1 .. n : u.inbox[i] = back[batch[i]]
    BY <1>3, <1>5, ZenonT(30) DEF Live, Base, SessionType
  <2> HIDE DEF u
  <2>2. back \in Seq(Answer)
    BY <1>1 DEF Served
  <2>3. Agree(u, server, back, read')
    <3>1. /\ read \subseteq read' /\ \A i \in 1 .. n : batch[i] \in read'
          /\ \A i \in 1 .. n : batch[i] \in 1 .. Len(back)
      BY <1>1, <1>2, <1>3
    <3>2. \A i, j \in 1 .. n : batch[i] = batch[j] => i = j
      BY <1>2
    <3> QED BY <1>4, <1>5, <2>1, <2>2, <3>1, <3>2, FetchAgrees, SMTT(60)
  <2> QED BY <1>1, <1>3, <1>5, <1>7, <2>1, <2>3 DEF Synced, Sync
<1> QED
  BY <1>1, <1>6, <1>7

\* A session of which only what is received has changed.
LEMMA SameMoved ==
  ASSUME NEW s, Live(s), NEW u, NEW v, NEW b, NEW r,
         u.ring = s.ring, u.key = s.key, u.wire = s.wire, u.channel.nextOut = s.channel.nextOut,
         \/ u.inbox \in {s.inbox, <<>>}
         \/ s.inbox # <<>> /\ u.inbox = Tail(s.inbox),
         \A p : IsHeld(u, p) => IsHeld(s, p) \/ Fits(s, v, b, r, p)
  PROVE  Moved(s, u, v, b, r)
<1>1. s.channel.nextOut \in Nat
  BY ZenonT(30) DEF Live, Base, SessionType, Channels
<1> QED
  BY <1>1 DEF Moved, Writes, Used, NegotiationKey

\* A packet goes to the control channel.
LEMMA EnqueueAgrees ==
  ASSUME NEW s, Live(s), RingOK(s.ring), NEW v, NEW b, NEW r, Agree(s, v, b, r),
         NEW packet \in Answer, Fits(s, v, b, r, packet)
  PROVE  LET u == [s EXCEPT !.channel = EnqueueInbound(s.channel, packet.id, packet),
                            !.due = Handled(s.channel, packet.id, packet)]
         IN  Agree(u, v, b, r) /\ u.ring = s.ring
<1> DEFINE channel == EnqueueInbound(s.channel, packet.id, packet)
           due == Handled(s.channel, packet.id, packet)
<1>1. /\ channel \in Channels /\ due \in Seq(Answer) /\ channel.nextOut = s.channel.nextOut
      /\ \A i \in 1 .. Len(due) :
             due[i] = packet \/ \E id \in DOMAIN s.channel.inbound : due[i] = s.channel.inbound[id]
      /\ \A id \in DOMAIN channel.inbound :
             channel.inbound[id] = packet
             \/ (id \in DOMAIN s.channel.inbound /\ channel.inbound[id] = s.channel.inbound[id])
  <2>1. s.channel \in Channels
    BY ZenonT(30) DEF Live, Base, SessionType
  <2> QED BY <2>1, EnqueueInboundType, ZenonT(30)
<1> HIDE DEF channel, due
<1> DEFINE u == [s EXCEPT !.channel = channel, !.due = due]
<1>2. Base(u) /\ SameRest(s, u) /\ u.due = due /\ u.channel = channel
  <2>1. Base(s) /\ channel \in Channels /\ due \in Seq(Answer)
    BY <1>1 DEF Live
  <2>2. u = Queued(s, channel, due)
    BY DEF Queued
  <2> QED BY <2>1, <2>2, ChannelIs
<1> HIDE DEF u
<1>3. Live(u) /\ u.ring = s.ring /\ u.key = s.key /\ u.wire = s.wire /\ u.inbox = s.inbox
  BY <1>2 DEF Live, SameRest, SameBase
<1>4. DOMAIN due = 1 .. Len(due)
  BY <1>1
<1>5. \A p : IsHeld(u, p) => IsHeld(s, p) \/ p = packet
  BY <1>1, <1>2, <1>4 DEF IsHeld
<1>6. Moved(s, u, v, b, r)
  BY <1>1, <1>2, <1>3, <1>5, SameMoved
<1>7. Agree(u, v, b, r)
  BY <1>3, <1>6, MovedAgrees
<1> QED
  BY <1>3, <1>7 DEF u, channel, due

\* A packet leaves the inbox: what is known of it, and of those that are left.
LEMMA HeadAgrees ==
  ASSUME NEW s, Live(s), RingOK(s.ring), NEW v, NEW b, NEW r, Agree(s, v, b, r), s.inbox # <<>>
  PROVE  LET rest == [s EXCEPT !.inbox = Tail(@)]
             packet == Head(s.inbox)
         IN  /\ Live(rest) /\ SameBase(s, rest) /\ Agree(rest, v, b, r)
             /\ rest.due = s.due /\ packet \in Answer /\ InInbox(s, packet)
             /\ \A p : InInbox(rest, p) => InInbox(s, p)
             /\ Soft(packet) => /\ packet.key = Coming(s) /\ v.key = Coming(s)
                                /\ NoSoft(rest, v, b, r)
<1> DEFINE rest == [s EXCEPT !.inbox = Tail(@)]
           packet == Head(s.inbox)
<1>1. s.inbox \in Seq(Answer) /\ Tail(s.inbox) \in Seq(Answer) /\ packet \in Answer
  <2>1. s.inbox \in Seq(Answer)
    BY ZenonT(30) DEF Live, Base, SessionType
  <2> QED BY <2>1
<1>2. /\ Base(rest) /\ SameBase(s, rest) /\ rest.inbox = Tail(s.inbox) /\ rest.due = s.due
      /\ rest.wire = s.wire /\ rest.channel = s.channel
  BY <1>1, InboxIs, ZenonT(30) DEF Live
<1> HIDE DEF rest
<1>3. Live(rest)
  BY <1>2 DEF Live, SameBase
<1>4. Moved(s, rest, v, b, r)
  BY <1>2, SameMoved DEF SameBase, IsHeld
<1>5. Agree(rest, v, b, r)
  BY <1>3, <1>4, MovedAgrees
<1>6. 1 \in DOMAIN s.inbox /\ packet = s.inbox[1]
  BY <1>1
<1>7. \A p : InInbox(rest, p) => InInbox(s, p)
  BY <1>1, <1>2, FewerIs
<1>8. ASSUME Soft(packet)
      PROVE  packet.key = Coming(s) /\ v.key = Coming(s) /\ NoSoft(rest, v, b, r)
  <2>1. /\ packet.key = Coming(s) /\ v.key = Coming(s)
        /\ \A l \in DOMAIN s.inbox : Soft(s.inbox[l]) => l = 1
        /\ \A i \in 1 .. Len(b) : ~Unread(i, v, b, r)
    BY <1>6, <1>8 DEF Agree, OneSoft
  <2>2. ASSUME NEW j \in DOMAIN rest.inbox PROVE ~Soft(rest.inbox[j])
    <3>1. j + 1 \in DOMAIN s.inbox /\ rest.inbox[j] = s.inbox[j + 1] /\ j + 1 # 1
      BY <1>1, <1>2
    <3> QED BY <2>1, <3>1
  <2> QED BY <2>1, <2>2 DEF NoSoft
<1> QED
  BY <1>1, <1>2, <1>3, <1>5, <1>6, <1>7, <1>8 DEF rest, InInbox

LEMMA ReceiveLinkAgrees ==
  ASSUME SessionInv, Timely, Synced, ReceiveLink
  PROVE  Synced'
<1> DEFINE packet == Head(session.inbox)
           rest == [session EXCEPT !.inbox = Tail(session.inbox)]
           starts == packet.body = "SOFT_RESET" /\ ~session.ring.isRenegotiating
           s == IF starts THEN SoftReset(rest, TRUE) ELSE rest
<1>1. /\ Base(session) /\ Softs(session, back)
      /\ session.inbox \in Seq(Answer) /\ session.inbox # <<>> /\ session.crashed = "no"
      /\ session.due = <<>> /\ UNCHANGED <<server, back, read>>
  BY ZenonT(30) DEF SessionInv, ReceiveLink, Base, SessionType
<1>2. \/ session' = Stop([session EXCEPT !.inbox = <<>>]) /\ session.ring.isRenegotiating
      \/ session' = [s EXCEPT !.channel = EnqueueInbound(s.channel, packet.id, packet),
                              !.due = Handled(s.channel, packet.id, packet)]
  BY ReceiveLinkIs DEF Timely
<1>3. CASE ~session.link
  <2>1. ~starts
    BY <1>1, <1>3 DEF Softs, SoftIn
  <2>2. ~session.ring.isRenegotiating
    <3>1. session.ring \in Rings /\ Shape(session.ring) /\ session.ring.keys = {}
      BY <1>1, <1>3, ZenonT(30) DEF Base, SessionType
    <3> QED BY <3>1, ShapeIs DEF EmptyRing
  <2>3. ~session'.link
    BY <1>1, <1>2, <1>3, <2>1, <2>2, ZenonT(30) DEF Base, SessionType
  <2> QED BY <2>3 DEF Synced, Sync
<1>4. CASE session.link
  <2>1. Live(session) /\ RingOK(session.ring) /\ Agree(session, server, back, read)
    BY <1>1, <1>4 DEF Live, Synced, Sync
  <2>2. CASE session' = Stop([session EXCEPT !.inbox = <<>>])
    <3> DEFINE v == [session EXCEPT !.inbox = <<>>]
    <3>1. /\ Base(v) /\ SameBase(session, v) /\ v.inbox = <<>> /\ v.due = session.due
          /\ v.wire = session.wire /\ v.channel = session.channel
      <4>1. <<>> \in Seq(Answer)
        OBVIOUS
      <4> QED BY <1>1, <4>1, InboxIs, ZenonT(30)
    <3> HIDE DEF v
    <3>2. Live(v) /\ v.ring = session.ring /\ v.key = session.key
      BY <1>1, <1>4, <3>1 DEF Live, SameBase
    <3> DEFINE u == Stop(v)
    <3>3. /\ Goes(v, u)
          /\ u.link => u.key = v.key /\ u.channel = v.channel /\ u.wire = v.wire
      BY <3>2, StopGoes
    <3> HIDE DEF u
    <3>4. ASSUME u.link, u.crashed = "no" PROVE RingOK(u.ring) /\ Agree(u, server, back, read)
      <4>1. u.ring = session.ring /\ u.inbox = <<>> /\ u.due = session.due /\ Live(u)
        BY <3>1, <3>2, <3>3, <3>4 DEF Goes, Keeps, SameWork, Live
      <4>2. Moved(session, u, server, back, read)
        BY <2>1, <3>1, <3>2, <3>3, <3>4, <4>1, SameMoved DEF IsHeld
      <4> QED BY <2>1, <4>1, <4>2, MovedAgrees
    <3>5. session' = u
      BY <2>2 DEF u, v
    <3> QED BY <1>1, <3>4, <3>5 DEF Synced, Sync
  <2>3. CASE session' = [s EXCEPT !.channel = EnqueueInbound(s.channel, packet.id, packet),
                                  !.due = Handled(s.channel, packet.id, packet)]
    <3>1. /\ Live(rest) /\ SameBase(session, rest) /\ Agree(rest, server, back, read)
          /\ rest.due = session.due /\ packet \in Answer /\ InInbox(session, packet)
          /\ \A p : InInbox(rest, p) => InInbox(session, p)
          /\ Soft(packet) => /\ packet.key = Coming(session) /\ server.key = Coming(session)
                             /\ NoSoft(rest, server, back, read)
      BY <1>1, <2>1, HeadAgrees, ZenonT(30)
    <3> HIDE DEF rest
    <3>2. rest.ring = session.ring /\ Coming(rest) = Coming(session)
      BY <3>1 DEF SameBase, Coming, Used
    <3>3. /\ Live(s) /\ RingOK(s.ring) /\ Agree(s, server, back, read)
          /\ Fits(s, server, back, read, packet)
      <4>1. CASE starts
        <5>1. s = SoftReset(rest, TRUE) /\ Soft(packet)
          BY <4>1 DEF Soft
        <5>2. InUseNow(rest)
          BY <1>1, <3>2, <4>1 DEF Softs, SoftIn, InUseNow
        <5>3. session.ring.negotiationKeyIdx = Used(session) /\ packet.key = Coming(session)
          BY <3>1, <4>1, <5>1 DEF Used
        <5>4. ASSUME NEW p, InInbox(rest, p)
              PROVE  p.key \in {rest.ring.negotiationKeyIdx, Coming(rest)}
          <6>1. Following(p.key) # session.ring.negotiationKeyIdx
            BY <2>1, <3>1, <5>3, <5>4 DEF Agree, Received, Coming
          <6> QED BY <2>1, <3>1, <3>2, <5>3, <5>4, <6>1 DEF Agree, Received, Coming
        <5>5. /\ Live(s) /\ RingOK(s.ring) /\ Agree(s, server, back, read) /\ s.inbox = rest.inbox
              /\ s.ring.isRenegotiating /\ Coming(s) = Coming(rest)
          BY <1>1, <2>1, <3>1, <3>2, <4>1, <5>1, <5>2, <5>4, StartAgrees, ZenonT(30)
        <5> HIDE DEF s
        <5>6. s.ring.negotiationKeyIdx = Coming(s) /\ Following(Coming(s)) # Coming(s)
          BY <5>5, PlaceIs
        <5>7. NoSoft(s, server, back, read)
          BY <3>1, <5>1, <5>5, ZenonT(30) DEF NoSoft
        <5> QED BY <3>1, <3>2, <5>1, <5>5, <5>6, <5>7, ZenonT(30) DEF Fits, Heard, Soft
      <4>2. CASE ~starts
        <5>1. s = rest
          BY <4>2, ZenonT(30)
        <5>2. Heard(rest, server, packet) /\ packet.key # Following(rest.ring.negotiationKeyIdx)
          <6>1. Heard(session, server, packet)
            BY <2>1, <3>1 DEF Agree, Received
          <6>2. packet.key # Following(session.ring.negotiationKeyIdx)
            BY <2>1, <3>1, <4>2 DEF Agree, Received, Soft
          <6> QED BY <3>2, <6>1, <6>2 DEF Heard
        <5> QED BY <2>1, <3>1, <3>2, <5>1, <5>2, ZenonT(30) DEF Fits
      <4> QED BY <4>1, <4>2, ZenonT(30)
    <3> HIDE DEF s, packet
    <3>4. RingOK(session'.ring) /\ Agree(session', server, back, read)
      BY <2>3, <3>1, <3>3, EnqueueAgrees, ZenonT(30)
    <3> QED BY <1>1, <3>4 DEF Synced, Sync
  <2> QED BY <1>2, <2>2, <2>3
<1> QED
  BY <1>3, <1>4

\* A session whose only change is of counters and dates, or of what is due.
LEMMA SameSync ==
  ASSUME NEW s, Base(s), NEW u, Base(u), SameBase(s, u), u.inbox = s.inbox, u.wire = s.wire,
         u.channel = s.channel, \A p : IsHeld(u, p) => IsHeld(s, p),
         NEW v, NEW b, NEW r, Sync(s, v, b, r)
  PROVE  Sync(u, v, b, r)
<1> SUFFICES ASSUME u.link, u.crashed = "no" PROVE RingOK(u.ring) /\ Agree(u, v, b, r)
  BY DEF Sync
<1>1. /\ Live(s) /\ Live(u) /\ RingOK(s.ring) /\ Agree(s, v, b, r)
      /\ u.ring = s.ring /\ u.key = s.key
  BY DEF Live, Sync, SameBase
<1>2. Moved(s, u, v, b, r)
  BY <1>1, SameMoved
<1> QED
  BY <1>1, <1>2, MovedAgrees

LEMMA StopSync ==
  ASSUME NEW s, Base(s), s.alive, NEW v, NEW b, NEW r, Sync(s, v, b, r)
  PROVE  Sync(Stop(s), v, b, r)
<1> DEFINE u == Stop(s)
<1>1. /\ Base(u) /\ SameWork(s, u) /\ u.crashed = s.crashed
      /\ u.link => /\ s.link /\ u.ring = s.ring /\ u.key = s.key
                   /\ u.channel = s.channel /\ u.wire = s.wire
  BY StopIs
<1> HIDE DEF u
<1>2. ASSUME u.link, u.crashed = "no" PROVE RingOK(u.ring) /\ Agree(u, v, b, r)
  <2>1. Live(s) /\ Live(u) /\ RingOK(s.ring) /\ Agree(s, v, b, r)
    BY <1>1, <1>2 DEF Live, Sync
  <2>2. Moved(s, u, v, b, r)
    BY <1>1, <1>2, <2>1, SameMoved DEF IsHeld, SameWork
  <2> QED BY <1>1, <1>2, <2>1, <2>2, MovedAgrees
<1> QED
  BY <1>2 DEF Sync, u

\* What the handlers of packets and ticks do within a negotiation.
LEMMA KeepsAgrees ==
  ASSUME NEW s, Live(s), RingOK(s.ring), NEW u, Live(u), NEW v, NEW b, NEW r, Agree(s, v, b, r),
         Keeps(s, u), u.inbox = s.inbox, u.due = s.due,
         s.ring.isRenegotiating =>
            /\ \/ NegotiationKey(u).state = NegotiationKey(s).state
               \/ v.key = Coming(s) /\ NoSoft(s, v, b, r)
            /\ \/ NegotiationKey(u).isTLSConnected = NegotiationKey(s).isTLSConnected
               \/ v.key = Coming(s) /\ v.next > 0
  PROVE  RingOK(u.ring) /\ Agree(u, v, b, r)
<1>1. u.ring = s.ring /\ u.channel.inbound = s.channel.inbound /\ Writes(s, u, Asks(s.ring))
  BY DEF Keeps
<1>2. Used(u) = Used(s) /\ \A p : IsHeld(u, p) => IsHeld(s, p)
  BY <1>1 DEF Used, IsHeld
<1>3. Moved(s, u, v, b, r)
  BY <1>1, <1>2 DEF Moved
<1> QED
  BY <1>1, <1>3, MovedAgrees

\* The first key takes over.
LEMMA OpensAgrees ==
  ASSUME NEW s, Live(s), RingOK(s.ring), NEW u, Live(u), NEW v, NEW b, NEW r, Agree(s, v, b, r),
         ~s.ring.isRenegotiating, ~u.ring.isRenegotiating, Completed(s, u),
         u.inbox = s.inbox, u.due = s.due
  PROVE  RingOK(u.ring) /\ Agree(u, v, b, r)
<1>1. /\ u.ring.negotiationKeyIdx = s.ring.negotiationKeyIdx
      /\ u.channel.inbound = s.channel.inbound /\ Writes(s, u, Asks(s.ring))
  BY DEF Completed, Writes, Asks
<1>2. Moved(s, u, v, b, r)
  <2>1. u.ring.isRenegotiating = s.ring.isRenegotiating
    <3>1. s.ring \in Rings /\ u.ring \in Rings
      BY NegotiationKeyIs
    <3> QED BY <3>1 DEF Rings
  <2>2. Used(u) = Used(s) /\ \A p : IsHeld(u, p) => IsHeld(s, p)
    BY <1>1 DEF Used, IsHeld
  <2> QED BY <1>1, <2>1, <2>2 DEF Moved
<1>3. RingOK(u.ring)
  BY NegotiationKeyIs, ShapeIs
<1> QED
  BY <1>2, <1>3, MovedAgrees

\* The next key takes over.
LEMMA RekeysAgrees ==
  ASSUME NEW s, Live(s), RingOK(s.ring), NEW u, Live(u), NEW v, NEW b, NEW r, Agree(s, v, b, r),
         s.ring.isRenegotiating, ~u.ring.isRenegotiating, Completed(s, u),
         u.inbox = s.inbox, u.due = s.due, Len(b) \in Nat, v.sent \in Nat, v.before \in Nat
  PROVE  RingOK(u.ring) /\ Agree(u, v, b, r)
<1>1. /\ u.ring.negotiationKeyIdx = s.ring.negotiationKeyIdx
      /\ u.channel.inbound = s.channel.inbound /\ Writes(s, u, {"PUSH_REQUEST"})
      /\ NegotiationKey(u).isTLSConnected = NegotiationKey(s).isTLSConnected
      /\ NegotiationKey(u).controlState = "connected"
  BY DEF Completed
<1>2. NegotiationKey(s).isTLSConnected
  <2>1. NegotiationKey(u).isTLSConnected
    BY <1>1, NegotiationKeyIs DEF Live, Base, Stages, NegotiationKey
  <2> QED BY <1>1, <2>1
<1>3. \A p : IsHeld(u, p) => IsHeld(s, p)
  BY <1>1 DEF IsHeld
<1>4. RingOK(u.ring)
  BY NegotiationKeyIs, ShapeIs
<1> QED
  BY <1>1, <1>2, <1>3, <1>4, RekeyAgrees

\* A packet in order has been handled.
LEMMA HandledSync ==
  ASSUME NEW s, Live(s), NEW u, NEW v, NEW b, NEW r, Timely, Sync(s, v, b, r),
         NEW packet \in Answer, Fits(s, v, b, r, packet), Steps(s, packet, u),
         Len(b) \in Nat, v.sent \in Nat, v.before \in Nat
  PROVE  Sync(u, v, b, r)
<1> SUFFICES ASSUME u.link, u.crashed = "no" PROVE RingOK(u.ring) /\ Agree(u, v, b, r)
  BY DEF Sync
<1>1. /\ RingOK(s.ring) /\ Agree(s, v, b, r) /\ Live(u)
      /\ s.starts \in Nat /\ u.inbox = s.inbox /\ u.due = s.due
  BY ZenonT(30) DEF Steps, Goes, Rekeys, Opens, SameWork, Live, Sync, Base, SessionType
<1>2. CASE u = s
  BY <1>1, <1>2
<1>3. CASE u # s /\ Goes(s, u)
  <2>1. packet.key = s.ring.negotiationKeyIdx /\ Keeps(s, u)
    BY <1>3 DEF Steps, Goes
  <2>2. ASSUME s.ring.isRenegotiating, NegotiationKey(u).state # NegotiationKey(s).state
        PROVE  v.key = Coming(s) /\ NoSoft(s, v, b, r)
    <3>1. StartsTLS(s, packet) /\ NegotiationKey(s).state \in {"softReset", "tls"}
      BY <2>2 DEF Steps, Live, Base, Stages
    <3>2. Soft(packet)
      BY <3>1 DEF StartsTLS, Soft
    <3> QED BY <2>1, <2>2, <3>2 DEF Fits, Heard
  <2>3. ASSUME s.ring.isRenegotiating,
               NegotiationKey(u).isTLSConnected # NegotiationKey(s).isTLSConnected
        PROVE  v.key = Coming(s) /\ v.next > 0
    BY <2>1, <2>3 DEF Steps, Fits, Heard, Soft
  <2> QED BY <1>1, <2>1, <2>2, <2>3, KeepsAgrees
<1>4. CASE Rekeys(s, u)
  BY <1>1, <1>4, RekeysAgrees DEF Rekeys
<1>5. CASE u # s /\ Opens(s, u) /\ packet.body = "PUSH_REPLY"
  <2>1. packet.key = s.ring.negotiationKeyIdx
    BY <1>5 DEF Steps
  <2>2. ~s.ring.isRenegotiating
    BY <1>5, <2>1 DEF Fits, Heard
  <2> QED BY <1>1, <1>5, <2>2, OpensAgrees DEF Opens
<1> QED
  BY <1>2, <1>3, <1>4, <1>5 DEF Steps

\* A packet in order leaves for its handler.
LEMMA DueAgrees ==
  ASSUME SessionInv, Synced, session.crashed = "no", session.due # <<>>,
         NEW s, Base(s), SameBase(session, s), s.inbox = session.inbox,
         s.due = Tail(session.due), s.wire = session.wire, s.channel = session.channel, s.link
  PROVE  /\ Live(s) /\ Sync(s, server, back, read)
         /\ Fits(s, server, back, read, Head(session.due))
<1>1. /\ Base(session) /\ session.due \in Seq(Answer)
  BY ZenonT(30) DEF SessionInv, Base, SessionType
<1>2. /\ 1 \in DOMAIN session.due /\ Head(session.due) = session.due[1]
      /\ \A i \in DOMAIN Tail(session.due) :
             i + 1 \in DOMAIN session.due /\ Tail(session.due)[i] = session.due[i + 1]
  BY <1>1
<1>3. \A p : IsHeld(s, p) => IsHeld(session, p)
  BY <1>2 DEF IsHeld
<1>4. Live(s) /\ Sync(s, server, back, read)
  BY <1>1, <1>3, SameSync, ZenonT(30) DEF Synced, Live, SameBase
<1>5. IsHeld(session, Head(session.due))
  BY <1>2 DEF IsHeld
<1>6. Fits(session, server, back, read, Head(session.due))
  BY <1>4, <1>5 DEF Synced, Sync, Live, SameBase, Agree, Holds
<1> QED
  BY <1>4, <1>6 DEF Fits, Heard, NoSoft, SameBase, Coming, Used

LEMMA HandleControlAgrees ==
  ASSUME SessionInv, Timely, Synced, NEW env \in Envs, HandleControl(env)
  PROVE  Synced'
<1> DEFINE packet == Head(session.due)
           rest == Tail(session.due)
           s == [session EXCEPT !.due = rest]
           u == HandleControlPacket(s, packet, env)
<1>1. /\ Base(session) /\ session.due \in Seq(Answer) /\ session.due # <<>>
      /\ session.crashed = "no" /\ UNCHANGED <<server, back, read>> /\ session' = u
  BY ZenonT(30) DEF SessionInv, HandleControl, Base, SessionType
<1>2. packet \in Answer /\ rest \in Seq(Answer)
  BY <1>1
<1> HIDE DEF rest
<1>3. /\ Base(s) /\ SameBase(session, s) /\ s.inbox = session.inbox /\ s.due = rest
      /\ s.wire = session.wire /\ s.channel = session.channel
  BY <1>1, <1>2, DueIs
<1> HIDE DEF s
<1>4. CASE ~s.link
  <2>1. u = Crash(s, "no negotiation key")
    BY <1>3, <1>4, CrashIs, ZenonT(30) DEF HandleControlPacket, Fatal
  <2>2. u.crashed # "no"
    BY <1>3, <1>4, <2>1, CrashIs, ZenonT(30) DEF Fatal
  <2> QED BY <1>1, <2>2 DEF Synced, Sync
<1>5. CASE s.link
  <2>1. Live(s) /\ Sync(s, server, back, read) /\ Fits(s, server, back, read, packet)
    BY <1>1, <1>3, <1>5, DueAgrees DEF rest
  <2>2. Steps(s, packet, u)
    BY <1>2, <2>1, HandleControlPacketIs DEF Timely
  <2> HIDE DEF u
  <2>3. Sync(u, server, back, read)
    <3>1. Len(back) \in Nat /\ server.sent \in Nat /\ server.before \in Nat
      BY DEF SessionInv, Served
    <3> QED BY <1>2, <2>1, <2>2, <3>1, HandledSync
  <2> QED BY <1>1, <2>3 DEF Synced
<1> QED
  BY <1>4, <1>5

LEMMA TickAgrees ==
  ASSUME SessionInv, Timely, Synced, NEW late \in BOOLEAN, NEW env \in Envs, Tick(late, env)
  PROVE  Synced'
<1> DEFINE ticks == session.ticks - 1
           s == [session EXCEPT !.ticks = ticks]
           u == LoopNegotiation(s, late, env)
<1>1. /\ Base(session) /\ session.crashed = "no" /\ session.alive
      /\ UNCHANGED <<server, back, read>> /\ session' = u
  BY DEF SessionInv, Tick, Free, Runs
<1>2. ticks \in Nat
  <2>1. session.ticks \in Nat /\ session.ticks > 0
    BY ZenonT(30) DEF SessionInv, Tick, Base, SessionType
  <2> QED BY <2>1
<1> HIDE DEF ticks
<1>3. /\ Base(s) /\ SameBase(session, s) /\ s.inbox = session.inbox /\ s.due = session.due
      /\ s.wire = session.wire /\ s.channel = session.channel
  BY <1>1, <1>2, TicksIs
<1> HIDE DEF s
<1>4. Sync(s, server, back, read)
  BY <1>1, <1>3, SameSync DEF Synced, IsHeld
<1>5. Loops(s, u)
  <2>1. s.crashed = "no" /\ s.alive
    BY <1>1, <1>3 DEF SameBase
  <2> QED BY <1>3, <2>1, LoopNegotiationIs
<1> HIDE DEF u
<1>6. ASSUME u.link, u.crashed = "no" PROVE RingOK(u.ring) /\ Agree(u, server, back, read)
  <2>1. /\ Live(s) /\ Live(u) /\ RingOK(s.ring) /\ Agree(s, server, back, read)
        /\ u.inbox = s.inbox /\ u.due = s.due /\ Moves(s, u) /\ SameTLS(s, u)
    BY <1>1, <1>3, <1>4, <1>5, <1>6 DEF Loops, Live, Sync, SameBase
  <2>2. CASE Keeps(s, u)
    BY <1>6, <2>1, <2>2, KeepsAgrees DEF SameTLS
  <2>3. CASE Completed(s, u) /\ s.ring.isRenegotiating /\ ~u.ring.isRenegotiating
    <3>1. Len(back) \in Nat /\ server.sent \in Nat /\ server.before \in Nat
      BY DEF SessionInv, Served
    <3> QED BY <2>1, <2>3, <3>1, RekeysAgrees
  <2> QED BY <2>1, <2>2, <2>3 DEF Moves
<1> QED
  BY <1>1, <1>6 DEF Synced, Sync

LEMMA PingAgrees ==
  ASSUME SessionInv, Timely, Synced, NEW silent \in BOOLEAN, Ping(silent, FALSE)
  PROVE  Synced'
<1> DEFINE pings == session.pings - 1
           s == [session EXCEPT !.pings = pings]
<1>1. /\ Base(session) /\ session.alive /\ UNCHANGED <<server, back, read>>
      /\ session' \in {s, Stop(s), session}
  BY DEF SessionInv, Ping, Free, Runs
<1>2. pings \in Nat
  <2>1. session.pings \in Nat /\ session.pings > 0
    BY ZenonT(30) DEF SessionInv, Ping, Base, SessionType
  <2> QED BY <2>1
<1> HIDE DEF pings
<1>3. /\ Base(s) /\ SameBase(session, s) /\ s.inbox = session.inbox /\ s.due = session.due
      /\ s.wire = session.wire /\ s.channel = session.channel
  BY <1>1, <1>2, PingsIs
<1> HIDE DEF s
<1>4. Sync(s, server, back, read) /\ s.alive
  BY <1>1, <1>3, SameSync, ZenonT(30) DEF Synced, IsHeld, SameBase
<1>5. Sync(Stop(s), server, back, read)
  BY <1>3, <1>4, StopSync
<1> QED
  BY <1>1, <1>4, <1>5 DEF Synced

\* A link is set, lost or left.
LEMMA LinkAgrees ==
  ASSUME SessionInv, Timely, Synced, SetLink \/ LinkLost \/ ExitWritten \/ Stopped
  PROVE  Synced'
<1>1. Base(session) /\ session.alive /\ session.crashed = "no"
  BY DEF SessionInv, SetLink, LinkLost, ExitWritten, Stopped, Free, Runs
<1>2. CASE SetLink
  <2> DEFINE u == HardReset([session EXCEPT !.link = TRUE, !.wire = {}, !.starts = 0, !.stops = 0], TRUE)
  <2>1. /\ ~session.link /\ session.inbox = <<>> /\ session.due = <<>> /\ session' = u
        /\ server' = NewServer /\ back' = <<>> /\ read' = {}
    BY <1>2, SetLinkIs DEF Timely, Scope, Free, Reading
  <2>2. /\ Live(u) /\ u.inbox = <<>> /\ u.due = <<>>
        /\ u.ring.negotiationKeyIdx = 0 /\ ~u.ring.isRenegotiating
        /\ u.channel.inbound = <<>> /\ u.channel.nextOut = 1
        /\ u.wire = {[key |-> 0, id |-> 0, body |-> "HARD_RESET"]}
    BY <1>1, <2>1, HardResetIs, ZenonT(30)
  <2> HIDE DEF u
  <2>3. RingOK(u.ring)
    BY <2>2, NegotiationKeyIs, ShapeIs
  <2>4. Used(u) = 0 /\ Coming(u) # 0
    BY <2>2, <2>3, PlaceIs DEF Used
  <2>5. \A p : ~InInbox(u, p) /\ ~IsHeld(u, p)
    BY <2>2 DEF InInbox, IsHeld
  <2>6. Len(<<>>) = 0 /\ \A j \in DOMAIN u.inbox : FALSE
    BY <2>2
  <2>7. Interval({})
    <3>1. {} = 1 .. 0
      OBVIOUS
    <3> QED BY <3>1 DEF Interval
  <2>8. Agree(u, NewServer, <<>>, {})
    BY <2>2, <2>4, <2>5, <2>6, <2>7
       DEF Arrives, Agree, Near, Recalled, WireKeys, WireSoft, Asking, Handshake, Received, Holds, Lately,
           OneSoft, NewServer, Soft
  <2> QED BY <2>1, <2>3, <2>8 DEF Synced, Sync
<1>3. CASE LinkLost
  <2>1. ~session'.link
    BY <1>1, <1>3, CleanupIs DEF LinkLost, Base
  <2> QED BY <2>1 DEF Synced, Sync
<1>4. CASE ExitWritten
  <2>1. ~session'.link
    BY <1>1, <1>4, ExitIs DEF ExitWritten
  <2> QED BY <2>1 DEF Synced, Sync
<1>5. CASE Stopped
  <2>1. session' = Stop(session) /\ UNCHANGED <<server, back, read>>
    BY <1>5 DEF Stopped
  <2> QED BY <1>1, <2>1, StopSync DEF Synced
<1> QED
  BY <1>2, <1>3, <1>4, <1>5

-----------------------------------------------------------------------------
(* The steps of the server.                                                *)

\* A session of which the server may have taken a packet.
Less(s, u) == /\ u.ring = s.ring /\ u.key = s.key /\ u.inbox = s.inbox /\ u.due = s.due
              /\ u.channel = s.channel /\ u.wire \subseteq s.wire

LEMMA LessIs ==
  ASSUME NEW s, NEW u, Less(s, u)
  PROVE  /\ Used(u) = Used(s) /\ Coming(u) = Coming(s) /\ NegotiationKey(u) = NegotiationKey(s)
         /\ \A p : (InInbox(u, p) <=> InInbox(s, p)) /\ (IsHeld(u, p) <=> IsHeld(s, p))
         /\ \A v, b, r : NoSoft(s, v, b, r) <=> NoSoft(u, v, b, r)
BY DEF Less, Used, Coming, NegotiationKey, InInbox, IsHeld, NoSoft

\* The server takes a packet of its key.
LEMMA TakenAgrees ==
  ASSUME NEW s, Live(s), RingOK(s.ring), NEW u, Less(s, u), NEW v, NEW b, NEW r,
         Agree(s, v, b, r), v.next \in Nat,
         NEW packet \in s.wire, u.wire = s.wire \ {packet},
         packet.key = v.key, packet.id = v.next,
         NEW w, w.key = v.key, w.next = v.next + 1, w.sent = v.sent, w.before = v.before
  PROVE  /\ Agree(u, w, b, r)
         /\ v.key = Coming(s) => s.ring.isRenegotiating /\ packet.body # "PUSH_REQUEST"
<1>1. /\ Used(u) = Used(s) /\ Coming(u) = Coming(s) /\ NegotiationKey(u) = NegotiationKey(s)
      /\ \A p : (InInbox(u, p) <=> InInbox(s, p)) /\ (IsHeld(u, p) <=> IsHeld(s, p))
      /\ u.ring = s.ring /\ u.inbox = s.inbox /\ u.channel = s.channel
  BY LessIs DEF Less
<1>2. Coming(s) # Used(s) /\ Following(Coming(s)) # Used(s) /\ w.next > 0
  BY PlaceIs
<1>3. v.key = Coming(s) => s.ring.isRenegotiating /\ packet.body # "PUSH_REQUEST"
  BY <1>2 DEF Agree, WireKeys
<1>4. /\ \A i : Latest(i, w, b) <=> Latest(i, v, b)
      /\ \A i : Relevant(i, w, b) <=> Relevant(i, v, b)
      /\ \A i : Unread(i, w, b, r) <=> Unread(i, v, b, r)
  BY DEF Latest, Relevant, Unread
<1>5. NoSoft(s, v, b, r) => NoSoft(u, w, b, r)
  BY <1>1, <1>4 DEF NoSoft
<1>6. Near(u, w) /\ Recalled(w, b) /\ WireKeys(u) /\ Handshake(u, w)
  <2>1. Near(u, w) /\ WireKeys(u) /\ Handshake(u, w)
    BY <1>1, <1>2 DEF Agree, Near, WireKeys, Handshake
  <2>2. Recalled(w, b)
    BY <1>4 DEF Agree, Recalled
  <2> QED BY <2>1, <2>2
<1>7. WireSoft(u, w)
  BY <1>1, <1>2 DEF Agree, WireSoft
<1>8. Asking(u, w)
  <2> SUFFICES ASSUME s.ring.isRenegotiating, v.key = Used(s)
               PROVE  \E p \in u.wire : Soft(p)
    BY <1>1 DEF Asking
  <2>1. PICK p \in s.wire : Soft(p)
    BY DEF Agree, Asking
  <2>2. p.key = Coming(s)
    BY <2>1 DEF Agree, WireSoft
  <2> QED BY <1>2, <2>1, <2>2
<1>9. \A p : Heard(s, v, p) => Heard(u, w, p)
  BY <1>1, <1>2 DEF Heard
<1>10. Received(u, w)
  BY <1>1, <1>9 DEF Agree, Received
<1>11. Holds(u, w, b, r)
  BY <1>1, <1>5, <1>9 DEF Agree, Holds, Fits
<1>12. Lately(u, w, b)
  BY <1>1, <1>2, <1>3, <1>4 DEF Agree, Lately
<1>13. OneSoft(u, w, b, r)
  <2>1. \A i \in 1 .. Len(b) : Unread(i, w, b, r) =>
           /\ b[i].key = Coming(u) /\ w.key = Coming(u)
           /\ \A k \in 1 .. Len(b) : Unread(k, w, b, r) => k = i
           /\ \A j \in DOMAIN u.inbox : ~Soft(u.inbox[j])
    BY <1>1, <1>4 DEF Agree, OneSoft
  <2>2. \A j \in DOMAIN u.inbox : Soft(u.inbox[j]) =>
           /\ u.inbox[j].key = Coming(u) /\ w.key = Coming(u)
           /\ \A l \in DOMAIN u.inbox : Soft(u.inbox[l]) => l = j
    BY <1>1 DEF Agree, OneSoft
  <2>3. u.ring.isRenegotiating /\ NegotiationKey(u).state # "softReset" => NoSoft(u, w, b, r)
    BY <1>1, <1>5 DEF Agree, OneSoft
  <2> QED BY <2>1, <2>2, <2>3 DEF OneSoft
<1>14. Arrives(u, w, b, r)
  BY <1>1, <1>4 DEF Agree, Arrives
<1> QED
  BY <1>3, <1>6, <1>7, <1>8, <1>10, <1>11, <1>12, <1>13, <1>14 DEF Agree

\* What the server says next.
Says(b, c, packet) == /\ Len(c) = Len(b) + 1 /\ c[Len(b) + 1] = packet
                      /\ \A i \in 1 .. Len(b) : c[i] = b[i]

\* The server says something for its key.
LEMMA SpokenAgrees ==
  ASSUME NEW s, NEW v, NEW b \in Seq(Answer), NEW r, Agree(s, v, b, r),
         v.sent \in Nat, v.before \in Nat,
         NEW w, w.key = v.key, w.next = v.next, w.sent = v.sent + 1, w.before = v.before,
         NEW c, NEW packet, Says(b, c, packet), packet.key = v.key, ~Soft(packet),
         v.key = Coming(s) =>
            s.ring.isRenegotiating /\ v.next > 0 /\ packet.body # "PUSH_REPLY"
  PROVE  Agree(s, w, c, r)
<1>1. /\ Len(b) \in Nat /\ Len(c) = Len(b) + 1 /\ c[Len(b) + 1] = packet
      /\ \A i \in 1 .. Len(b) : c[i] = b[i]
      /\ 1 .. Len(c) = (1 .. Len(b)) \cup {Len(b) + 1}
  BY DEF Says
<1>2. /\ \A i \in 1 .. Len(b) : Latest(i, w, c) <=> Latest(i, v, b)
      /\ \A i \in 1 .. Len(b) : Relevant(i, w, c) <=> Relevant(i, v, b)
      /\ Latest(Len(b) + 1, w, c)
  BY <1>1 DEF Latest, Relevant
<1>3. \A i \in 1 .. Len(c) : Unread(i, w, c, r) => i \in 1 .. Len(b) /\ Unread(i, v, b, r)
  BY <1>1, <1>2 DEF Unread
<1>4. NoSoft(s, v, b, r) => NoSoft(s, w, c, r)
  BY <1>3 DEF NoSoft
<1>5. Recalled(w, c)
  <2>1. w.sent + w.before <= Len(c)
    BY <1>1 DEF Agree, Recalled
  <2>2. \A i \in 1 .. Len(c) : IF Latest(i, w, c) THEN c[i].key = w.key
                               ELSE Relevant(i, w, c) => Following(c[i].key) = w.key
    BY <1>1, <1>2, ZenonT(30) DEF Agree, Recalled
  <2> QED BY <2>1, <2>2 DEF Recalled
<1>6. Lately(s, w, c)
  BY <1>1, <1>2 DEF Agree, Lately
<1>7. Received(s, w) /\ Holds(s, w, c, r)
  BY <1>4 DEF Agree, Received, Holds, Fits, Heard
<1>8. OneSoft(s, w, c, r)
  <2>1. ASSUME NEW i \in 1 .. Len(c), Unread(i, w, c, r)
        PROVE  /\ c[i].key = Coming(s) /\ w.key = Coming(s)
               /\ \A k \in 1 .. Len(c) : Unread(k, w, c, r) => k = i
               /\ \A j \in DOMAIN s.inbox : ~Soft(s.inbox[j])
    BY <1>1, <1>3, <2>1 DEF Agree, OneSoft
  <2> QED BY <1>4, <2>1 DEF Agree, OneSoft
<1>9. Arrives(s, w, c, r)
  <2>1. ASSUME Reliable, NEW i \in 1 .. Len(c), i \notin r
        PROVE  \/ Latest(i, w, c)
               \/ Relevant(i, w, c) /\ w.key = Coming(s) /\ c[i].key = Used(s)
    BY <1>1, <1>2, <2>1 DEF Agree, Arrives
  <2>2. ASSUME Reliable, w.key = Coming(s) PROVE w.sent > 0 /\ Soft(c[Len(c) + 1 - w.sent])
    <3>1. v.sent > 0 /\ Soft(b[Len(b) + 1 - v.sent]) /\ v.sent <= Len(b)
      BY <2>2 DEF Agree, Arrives, Recalled
    <3>2. Len(c) + 1 - w.sent = Len(b) + 1 - v.sent /\ Len(b) + 1 - v.sent \in 1 .. Len(b)
      BY <1>1, <3>1
    <3>3. c[Len(c) + 1 - w.sent] = b[Len(b) + 1 - v.sent]
      BY <1>1, <3>2
    <3> QED BY <3>1, <3>3
  <2> QED BY <2>1, <2>2 DEF Agree, Arrives
<1> QED
  BY <1>5, <1>6, <1>7, <1>8, <1>9 DEF Agree, Near, WireSoft, Asking, Handshake

\* The server starts the next key: it was asked to, or asks itself.
LEMMA NextAgrees ==
  ASSUME NEW s, Live(s), RingOK(s.ring), NEW u, Less(s, u), NEW v, NEW b \in Seq(Answer), NEW r,
         Agree(s, v, b, r), r \subseteq 1 .. Len(b), v.sent \in Nat, v.before \in Nat,
         v.key = Used(s),
         NEW w, w.key = Coming(s), w.sent = 1, w.before = v.sent,
         \/ w.next = 0 /\ u.wire = s.wire
         \/ w.next = 1 /\ s.ring.isRenegotiating /\ \A p \in u.wire : ~Soft(p),
         NEW c, NEW packet, Says(b, c, packet), packet.key = Coming(s), Soft(packet)
  PROVE  Agree(u, w, c, r)
<1>1. /\ Used(u) = Used(s) /\ Coming(u) = Coming(s) /\ NegotiationKey(u) = NegotiationKey(s)
      /\ \A p : (InInbox(u, p) <=> InInbox(s, p)) /\ (IsHeld(u, p) <=> IsHeld(s, p))
      /\ u.ring = s.ring /\ u.inbox = s.inbox /\ u.channel = s.channel /\ u.wire \subseteq s.wire
  BY LessIs DEF Less
<1>2. v.key # Coming(s) /\ Coming(s) = Following(Used(s))
  BY PlaceIs
<1>3. /\ Len(b) \in Nat /\ Len(c) = Len(b) + 1 /\ c[Len(b) + 1] = packet
      /\ \A i \in 1 .. Len(b) : c[i] = b[i]
      /\ 1 .. Len(c) = (1 .. Len(b)) \cup {Len(b) + 1}
  BY DEF Says
<1>4. /\ \A i \in 1 .. Len(b) : ~Latest(i, w, c) /\ (Relevant(i, w, c) <=> Latest(i, v, b))
      /\ Latest(Len(b) + 1, w, c)
      /\ \A i \in 1 .. Len(b) : Latest(i, v, b) => Relevant(i, v, b)
  BY <1>3 DEF Latest, Relevant
<1>5. /\ \A i \in 1 .. Len(b) : ~Unread(i, v, b, r)
      /\ \A j \in DOMAIN s.inbox : ~Soft(s.inbox[j])
  BY <1>2 DEF Agree, OneSoft
<1>6. \A i \in 1 .. Len(c) : Unread(i, w, c, r) => i = Len(b) + 1
  BY <1>3, <1>4, <1>5 DEF Unread
<1>7. Recalled(w, c)
  <2>1. w.sent + w.before <= Len(c)
    BY <1>3 DEF Agree, Recalled
  <2>2. \A i \in 1 .. Len(b) : Latest(i, v, b) => b[i].key = v.key
    BY DEF Agree, Recalled
  <2> QED BY <1>2, <1>3, <1>4, <2>1, <2>2 DEF Recalled
<1>8. Near(u, w) /\ WireKeys(u) /\ WireSoft(u, w) /\ Asking(u, w)
  <2>1. Near(u, w) /\ WireKeys(u) /\ Asking(u, w)
    BY <1>1, <1>2 DEF Agree, Near, WireKeys, Asking
  <2>2. WireSoft(u, w)
    BY <1>1 DEF Agree, WireSoft
  <2> QED BY <2>1, <2>2
<1>9. Handshake(u, w)
  BY <1>1, <1>2 DEF Agree, Handshake
<1>10. \A p : Heard(s, v, p) => /\ Heard(u, w, p)
                                /\ ~(s.ring.isRenegotiating /\ p.key = s.ring.negotiationKeyIdx)
  BY <1>1, <1>2 DEF Heard
<1>11. Received(u, w)
  BY <1>1, <1>2, <1>10 DEF Agree, Received
<1>12. Holds(u, w, c, r)
  BY <1>1, <1>10 DEF Agree, Holds, Fits
<1>13. Lately(u, w, c)
  BY <1>1, <1>3, <1>4 DEF Lately, Soft
<1>14. OneSoft(u, w, c, r)
  <2>1. NegotiationKey(s).state = "softReset" \/ ~s.ring.isRenegotiating
    BY <1>2 DEF Agree, Handshake
  <2> QED BY <1>1, <1>3, <1>5, <1>6, <2>1 DEF OneSoft
<1>15. Arrives(u, w, c, r)
  <2>1. ASSUME Reliable, NEW i \in 1 .. Len(b), i \notin r
        PROVE  Relevant(i, w, c) /\ c[i].key = Used(s)
    <3>1. Latest(i, v, b)
      BY <1>2, <2>1 DEF Agree, Arrives
    <3> QED BY <1>3, <1>4, <3>1 DEF Agree, Recalled
  <2> QED BY <1>1, <1>3, <1>4, <2>1 DEF Agree, Arrives
<1> QED
  BY <1>7, <1>8, <1>9, <1>11, <1>12, <1>13, <1>14, <1>15 DEF Agree

LEMMA ServerAgrees ==
  ASSUME SessionInv, Timely, Synced, Server
  PROVE  Synced'
<1>1. /\ Base(session) /\ back \in Seq(Answer) /\ read \subseteq 1 .. Len(back)
      /\ server \in [key : KeyIds, next : Nat, sent : Nat, before : Nat]
      /\ server.key \in KeyIds /\ server.next \in Nat /\ server.sent \in Nat /\ server.before \in Nat
  BY DEF SessionInv, Served
<1>2. /\ Live(session) /\ RingOK(session.ring) /\ Agree(session, server, back, read)
      /\ read' = read
  BY <1>1 DEF Server, ServerAnswers, ServerTakes, ServerFollows, ServerRenegotiates,
              ServerRestarts, Take, Up, Live, Synced, Sync
<1>3. ASSUME Less(session, session'), Agree(session', server', back', read) PROVE Synced'
  BY <1>2, <1>3 DEF Synced, Sync, Less
<1>4. ASSUME NEW packet \in session.wire, Take(packet)
      PROVE  Less(session, session') /\ session'.wire = session.wire \ {packet} /\ Live(session')
  BY <1>4, TakeIs DEF Less, SameBase, Live
<1>5. ASSUME NEW key \in KeyIds, NEW body \in Said, server'.sent = server.sent + 1 \/ server'.sent = 1,
             Say(key, body)
      PROVE  \E packet : Says(back, back', packet) /\ packet.key = key /\ packet.body = body
  <2>1. server'.sent \in Nat /\ server'.sent > 0
    BY <1>1, <1>5
  <2>2. Says(back, back', [key |-> key, id |-> server'.sent - 1, body |-> body])
    BY <1>1, <1>5, <2>1, SayIs DEF SessionInv, Says
  <2> QED BY <2>2
<1>6. CASE ServerAnswers
  <2>0. PICK packet \in session.wire : \E answer \in Answers(packet.body) :
           /\ Expected(packet) /\ Take(packet)
           /\ server' = [server EXCEPT !.next = @ + 1, !.sent = @ + 1]
           /\ Say(server.key, answer)
    BY <1>6 DEF ServerAnswers
  <2>1. PICK answer \in Answers(packet.body) :
           /\ Expected(packet) /\ Take(packet)
           /\ server' = [server EXCEPT !.next = @ + 1, !.sent = @ + 1]
           /\ Say(server.key, answer)
    BY <2>0
  <2>2. /\ answer \in Said /\ answer # "SOFT_RESET"
        /\ answer = "PUSH_REPLY" => packet.body = "PUSH_REQUEST"
    BY <2>1, ZenonT(30) DEF Answers, Said
  <2> DEFINE w == [server EXCEPT !.next = @ + 1]
  <2>3. /\ w.key = server.key /\ w.next = server.next + 1 /\ w.sent = server.sent
        /\ w.before = server.before
        /\ server'.key = server.key /\ server'.next = server.next + 1
        /\ server'.sent = server.sent + 1 /\ server'.before = server.before
    BY <1>1, <2>1
  <2> HIDE DEF w
  <2>4. Less(session, session') /\ session'.wire = session.wire \ {packet} /\ Live(session')
    BY <1>4, <2>1
  <2>5. /\ Agree(session', w, back, read)
        /\ server.key = Coming(session) => session.ring.isRenegotiating /\ packet.body # "PUSH_REQUEST"
    BY <1>1, <1>2, <2>1, <2>3, <2>4, TakenAgrees DEF Expected
  <2>6. Coming(session') = Coming(session) /\ session'.ring = session.ring
    BY <2>4, LessIs DEF Less
  <2>7. PICK said : Says(back, back', said) /\ said.key = server.key /\ said.body = answer
    BY <1>1, <1>5, <2>1, <2>2, <2>3
  <2>8. Agree(session', server', back', read)
    BY <1>1, <2>2, <2>3, <2>5, <2>6, <2>7, SpokenAgrees DEF Soft
  <2> QED BY <1>3, <2>4, <2>8
<1>7. CASE ServerTakes
  <2>1. PICK packet \in session.wire :
           /\ Expected(packet) /\ Take(packet)
           /\ server' = [server EXCEPT !.next = @ + 1] /\ UNCHANGED back
    BY <1>7 DEF ServerTakes
  <2>2. /\ server'.key = server.key /\ server'.next = server.next + 1
        /\ server'.sent = server.sent /\ server'.before = server.before
    BY <1>1, <2>1
  <2>3. Less(session, session') /\ session'.wire = session.wire \ {packet}
    BY <1>4, <2>1
  <2>4. Agree(session', server', back, read)
    BY <1>1, <1>2, <2>1, <2>2, <2>3, TakenAgrees DEF Expected
  <2> QED BY <1>3, <2>1, <2>3, <2>4
<1>8. CASE ServerFollows
  <2>1. PICK packet \in session.wire :
           /\ packet.key = Following(server.key) /\ packet.body = "SOFT_RESET" /\ Take(packet)
           /\ server' = [key |-> packet.key, next |-> 1, sent |-> 1, before |-> server.sent]
           /\ Say(packet.key, "SOFT_RESET")
    BY <1>8 DEF ServerFollows
  <2>2. /\ session.ring.isRenegotiating /\ packet.key = Coming(session)
        /\ \A p \in session.wire : Soft(p) => p = packet
    BY <1>2, <2>1 DEF Agree, WireSoft, Soft
  <2>3. server.key = Used(session) /\ Coming(session) \in KeyIds
    BY <1>2, <2>1, <2>2, PlaceIs, ZenonT(30) DEF Agree, Near
  <2>4. Less(session, session') /\ session'.wire = session.wire \ {packet}
    BY <1>4, <2>1
  <2>5. PICK said : Says(back, back', said) /\ said.key = packet.key /\ said.body = "SOFT_RESET"
    <3>1. packet.key \in KeyIds /\ server'.sent = 1 /\ "SOFT_RESET" \in Said
      BY <2>1, <2>2, <2>3 DEF Said
    <3> QED BY <1>5, <2>1, <3>1
  <2>6. Agree(session', server', back', read)
    <3>1. /\ server'.key = Coming(session) /\ server'.sent = 1 /\ server'.before = server.sent
          /\ server'.next = 1
      BY <2>1, <2>2
    <3>2. \A p \in session'.wire : ~Soft(p)
      BY <2>2, <2>4
    <3>3. Soft(said) /\ said.key = Coming(session)
      BY <2>2, <2>5 DEF Soft
    <3> QED BY <1>1, <1>2, <2>2, <2>3, <2>4, <2>5, <3>1, <3>2, <3>3, NextAgrees
  <2> QED BY <1>3, <2>4, <2>6
<1>9. CASE ServerRenegotiates
  <2>1. /\ session.ring.currentKeyIdx = server.key /\ session' = session
        /\ server' = [key |-> Following(server.key), next |-> 0, sent |-> 1,
                      before |-> server.sent]
        /\ Say(server'.key, "SOFT_RESET")
    BY <1>9 DEF ServerRenegotiates, Timely, Scope
  <2>2. server.key = Used(session) /\ Coming(session) \in KeyIds
        /\ Coming(session) = Following(server.key)
    BY <1>1, <1>2, <2>1, PlaceIs, KeyRingAssumption DEF KeyIds, NoIdx
  <2>3. /\ server'.key = Coming(session) /\ server'.sent = 1 /\ server'.before = server.sent
        /\ server'.next = 0
    BY <2>1, <2>2
  <2>4. Less(session, session')
    BY <2>1 DEF Less
  <2>5. PICK said : Says(back, back', said) /\ said.key = Coming(session) /\ said.body = "SOFT_RESET"
    <3>1. Say(Coming(session), "SOFT_RESET") /\ "SOFT_RESET" \in Said
      BY <2>1, <2>3 DEF Said
    <3> QED BY <1>5, <2>2, <2>3, <3>1
  <2>6. Agree(session', server', back', read)
    BY <1>1, <1>2, <2>1, <2>2, <2>3, <2>4, <2>5, NextAgrees, ZenonT(30) DEF Soft
  <2> QED BY <1>3, <2>4, <2>6
<1>10. CASE ServerRestarts
  <2>1. /\ session.ring.currentKeyIdx = server.key /\ session' = session
        /\ server' = [server EXCEPT !.sent = @ + 1]
        /\ Say(server.key, "RESTART")
    BY <1>10 DEF ServerRestarts
  <2>2. server.key # Coming(session)
    BY <1>1, <1>2, <2>1, PlaceIs, KeyRingAssumption DEF KeyIds, NoIdx
  <2>3. /\ server'.key = server.key /\ server'.next = server.next
        /\ server'.sent = server.sent + 1 /\ server'.before = server.before
    BY <1>1, <2>1
  <2>4. Less(session, session')
    BY <2>1 DEF Less
  <2>5. PICK said : Says(back, back', said) /\ said.key = server.key /\ said.body = "RESTART"
    BY <1>1, <1>5, <2>1, <2>3, ZenonT(30) DEF Said
  <2>6. Agree(session, server', back', read)
    BY <1>1, <1>2, <2>2, <2>3, <2>5, SpokenAgrees DEF Soft
  <2> QED BY <1>3, <2>1, <2>4, <2>6
<1> QED
  BY <1>6, <1>7, <1>8, <1>9, <1>10 DEF Server

LEMMA SyncedStep ==
  ASSUME SessionInv, Timely, Synced, [Next]_vars
  PROVE  Synced'
<1>1. CASE UNCHANGED vars
  BY <1>1 DEF Synced, vars
<1>2. CASE SetLink \/ LinkLost \/ ExitWritten \/ Stopped
  BY <1>2, LinkAgrees
<1>3. CASE ReadSome
  <2>1. PICK batch \in Batches, due \in BOOLEAN : Read(batch, due)
    BY <1>3 DEF ReadSome
  <2> QED BY <2>1, ReadAgrees
<1>4. CASE ReceiveLink
  BY <1>4, ReceiveLinkAgrees
<1>5. CASE HandleOne
  <2>1. PICK env \in Envs : HandleControl(env)
    BY <1>5 DEF HandleOne
  <2> QED BY <2>1, HandleControlAgrees
<1>6. CASE TickSome
  <2>1. PICK late \in BOOLEAN, env \in Envs : Tick(late, env)
    BY <1>6 DEF TickSome
  <2> QED BY <2>1, TickAgrees
<1>7. CASE Pinged
  <2>1. PICK silent \in BOOLEAN : Ping(silent, FALSE)
    BY <1>7 DEF Pinged
  <2> QED BY <2>1, PingAgrees
<1>8. CASE Server
  BY <1>8, ServerAgrees
<1>9. CASE Fail
  <2>1. Base(session) /\ Scope
    BY DEF SessionInv, Timely
  <2>2. /\ Base(session') /\ SameRest(session, session') /\ session'.due = session.due
        /\ session'.channel = session.channel /\ UNCHANGED <<server, back, read, links>>
    BY <1>9, <2>1, FailIs
  <2> QED BY <2>1, <2>2, SameSync DEF Synced, SameRest, IsHeld
<1> QED
  BY <1>1, <1>2, <1>3, <1>4, <1>5, <1>6, <1>7, <1>8, <1>9, StoppedIs DEF Next

\* With packets that do not outlive their negotiation, the client and the server
\* agree on the keys, and on what is left to be said of them, at every step of both
\* (handleControlPacket, SOFT_RESET and the ids of its key).
THEOREM SessionSynced ==
  ASSUME Timely
  PROVE  Spec => []Synced
<1>1. Scope
  BY DEF Timely
<1>2. Init => Synced
  BY DEF Init, Synced, Sync, FreshSession
<1>3. SessionInv /\ Synced /\ [Next]_vars => Synced'
  BY SyncedStep
<1>4. Spec => []SessionInv
  BY <1>1, SessionSound
<1> QED
  BY <1>2, <1>3, <1>4, PTL DEF Spec

\* The keys are the one under negotiation, the current one and the one before it,
\* whatever was reset, stopped or asked for again in between (RingInv).
THEOREM RingStaysSound ==
  ASSUME Timely
  PROVE  Spec => []RingInv
<1>1. SessionInv /\ Synced => RingInv
  <2> SUFFICES ASSUME SessionInv, Synced PROVE RingOK(session.ring)
    BY DEF RingInv
  <2>1. session.ring \in Rings /\ Shape(session.ring)
    BY ZenonT(30) DEF SessionInv, Base, SessionType
  <2>2. CASE session.link
    BY <2>2 DEF SessionInv, Base, Synced, Sync
  <2>3. CASE ~session.link
    <3>1. session.ring = EmptyRing
      BY <2>1, <2>3, ShapeIs DEF SessionInv, Base
    <3> QED BY <3>1 DEF RingOK
  <2> QED BY <2>2, <2>3
<1>2. Scope
  BY DEF Timely
<1> QED
  BY <1>1, <1>2, SessionSound, SessionSynced, PTL

\* The client encrypts with the key of the server, or the one before it (KeysAgree).
THEOREM KeysStayAgreed ==
  ASSUME Timely
  PROVE  Spec => []KeysAgree
<1>1. SessionInv /\ Synced => KeysAgree
  <2> SUFFICES ASSUME SessionInv, Synced, session.link, session.ring.currentKeyIdx # NoIdx
               PROVE  server.key \in {session.ring.currentKeyIdx,
                                      Following(session.ring.currentKeyIdx)}
    BY DEF KeysAgree
  <2>1. Live(session) /\ RingOK(session.ring) /\ Agree(session, server, back, read)
    BY DEF SessionInv, Base, Live, Synced, Sync
  <2>2. session.ring.currentKeyIdx = Used(session)
    BY <2>1, PlaceIs
  <2> QED BY <2>1, <2>2 DEF Agree, Near, Coming
<1>2. Scope
  BY DEF Timely
<1> QED
  BY <1>1, <1>2, SessionSound, SessionSynced, PTL

\* A client never renegotiates a key that its server has not heard of and will not
\* hear of: the negotiation would only end by its timeout (NoPhantom).
THEOREM NoPhantomNegotiation ==
  ASSUME Timely
  PROVE  Spec => []NoPhantom
<1>1. SessionInv /\ Synced => NoPhantom
  <2> SUFFICES ASSUME SessionInv, Synced, session.link, session.ring.isRenegotiating
               PROVE  \/ server.key = session.ring.negotiationKeyIdx
                      \/ \E packet \in session.wire :
                            /\ packet.key = session.ring.negotiationKeyIdx
                            /\ packet.body = "SOFT_RESET"
    BY DEF NoPhantom
  <2>1. Live(session) /\ RingOK(session.ring) /\ Agree(session, server, back, read)
    BY DEF SessionInv, Base, Live, Synced, Sync
  <2>2. session.ring.negotiationKeyIdx = Coming(session)
    BY <2>1, PlaceIs
  <2>3. CASE server.key = Coming(session)
    BY <2>2, <2>3
  <2>4. CASE server.key = Used(session)
    <3>1. PICK packet \in session.wire : Soft(packet)
      BY <2>1, <2>4 DEF Agree, Asking
    <3>2. packet.key = Coming(session)
      BY <2>1, <3>1 DEF Agree, WireSoft
    <3> QED BY <2>2, <3>1, <3>2 DEF Soft
  <2> QED BY <2>1, <2>3, <2>4 DEF Agree, Near
<1>2. Scope
  BY DEF Timely
<1> QED
  BY <1>1, <1>2, SessionSound, SessionSynced, PTL

-----------------------------------------------------------------------------
(* How often the delegate hears of a start.                                *)

\* A session that is started had no key in use.
LEMMA HandledStarts ==
  ASSUME NEW s, Live(s), NEW u, NEW v, NEW b, NEW r, Timely, Sync(s, v, b, r),
         NEW packet \in Answer, Fits(s, v, b, r, packet), Steps(s, packet, u)
  PROVE  u.starts = s.starts \/ (s.starts = 0 /\ u.starts = 1)
<1>1. RingOK(s.ring) /\ s.starts \in Nat
  BY ZenonT(30) DEF Live, Sync, Base, SessionType
<1>2. CASE u = s \/ Goes(s, u) \/ Rekeys(s, u)
  BY <1>2 DEF Goes, Rekeys
<1>3. CASE u # s /\ Opens(s, u) /\ packet.body = "PUSH_REPLY"
  <2>1. packet.key = s.ring.negotiationKeyIdx
    BY <1>3 DEF Steps
  <2>2. ~s.ring.isRenegotiating
    BY <1>3, <2>1 DEF Fits, Heard
  <2>3. s.ring.negotiationKeyIdx \notin InUse(s.ring) /\ u.starts = s.starts + 1
    BY <1>3, NegotiationKeyIs DEF Opens
  <2>4. s.ring.currentKeyIdx = NoIdx
    <3>1. s.ring \in Rings
      BY NegotiationKeyIs
    <3> QED BY <1>1, <2>2, <2>3, <3>1, RingIs
  <2>5. s.starts = 0
    BY <1>1, <2>4 DEF Live, Base, Stages
  <2> QED BY <2>3, <2>5
<1> QED
  BY <1>2, <1>3 DEF Steps

LEMMA HandleControlStarts ==
  ASSUME SessionInv, Timely, Synced, session.starts <= 1, NEW env \in Envs, HandleControl(env)
  PROVE  session'.starts <= 1
<1> DEFINE packet == Head(session.due)
           rest == Tail(session.due)
           s == [session EXCEPT !.due = rest]
           u == HandleControlPacket(s, packet, env)
<1>1. /\ Base(session) /\ session.due \in Seq(Answer) /\ session.due # <<>>
      /\ session.crashed = "no" /\ session' = u
  BY ZenonT(30) DEF SessionInv, HandleControl, Base, SessionType
<1>2. packet \in Answer /\ rest \in Seq(Answer)
  BY <1>1
<1> HIDE DEF rest
<1>3. /\ Base(s) /\ SameBase(session, s) /\ s.inbox = session.inbox /\ s.due = rest
      /\ s.wire = session.wire /\ s.channel = session.channel /\ s.starts = session.starts
  BY <1>1, <1>2, DueIs
<1> HIDE DEF s
<1>4. CASE ~s.link
  BY <1>1, <1>3, <1>4, CrashIs, ZenonT(30) DEF HandleControlPacket, Fatal
<1>5. CASE s.link
  <2>1. Live(s) /\ Sync(s, server, back, read) /\ Fits(s, server, back, read, packet)
    BY <1>1, <1>3, <1>5, DueAgrees DEF rest
  <2>2. Steps(s, packet, u)
    BY <1>2, <2>1, HandleControlPacketIs DEF Timely
  <2> HIDE DEF u
  <2>3. u.starts = s.starts \/ (s.starts = 0 /\ u.starts = 1)
    BY <1>2, <2>1, <2>2, HandledStarts
  <2> QED BY <1>1, <1>3, <2>3
<1> QED
  BY <1>4, <1>5

LEMMA SessionStarts ==
  ASSUME SessionInv, Timely, Synced, session.starts <= 1, [Next]_vars
  PROVE  session'.starts <= 1
<1>1. Base(session) /\ session \in SessionType /\ session.starts \in Nat
  BY ZenonT(30) DEF SessionInv, Base, SessionType
<1>2. CASE UNCHANGED vars
  BY <1>2 DEF vars
<1>3. CASE SetLink
  <2>1. session'.starts = 0
    BY <1>1, <1>3, SetLinkIs, HardResetIs, ZenonT(30) DEF Timely, Free, Runs
  <2> QED BY <2>1
<1>4. CASE LinkLost
  BY <1>1, <1>4, CleanupIs DEF LinkLost
<1>5. CASE ReadSome
  <2>1. PICK batch \in Batches, due \in BOOLEAN : Read(batch, due)
    BY <1>5 DEF ReadSome
  <2> DEFINE s == MaybeRenegotiate(session, due)
             inbox == [i \in DOMAIN batch |-> back[batch[i]]]
             u == [s EXCEPT !.inbox = inbox]
  <2>2. Live(session) /\ (session' = s \/ session' = u)
    BY <1>1, <2>1 DEF Read, Runs, Live
  <2>3. inbox \in Seq(Answer)
    BY BatchIs DEF SessionInv
  <2>4. /\ Live(s)
        /\ s = session \/ (s = SoftReset(session, FALSE) /\ InUseNow(session)
                           /\ ~session.ring.isRenegotiating)
    BY <2>2, MaybeRenegotiateIs, ZenonT(30)
  <2>5. s.starts = session.starts
    BY <2>2, <2>4, SoftResetIs, ZenonT(30) DEF InUseNow
  <2> HIDE DEF s, inbox
  <2>6. u.starts = s.starts
    BY <2>3, <2>4, InboxIs DEF Live
  <2> HIDE DEF u
  <2> QED BY <2>2, <2>5, <2>6
<1>6. CASE ReceiveLink
  <2> DEFINE packet == Head(session.inbox)
             rest == [session EXCEPT !.inbox = Tail(session.inbox)]
             starts == packet.body = "SOFT_RESET" /\ ~session.ring.isRenegotiating
             s == IF starts THEN SoftReset(rest, TRUE) ELSE rest
             channel == EnqueueInbound(s.channel, packet.id, packet)
             due == Handled(s.channel, packet.id, packet)
             u == [s EXCEPT !.channel = channel, !.due = due]
             v == [session EXCEPT !.inbox = <<>>]
  <2>1. session' = u \/ (session' = Stop(v) /\ session.ring.isRenegotiating)
    BY <1>1, <1>6, ReceiveLinkIs DEF Timely
  <2>2. /\ session.inbox \in Seq(Answer) /\ session.inbox # <<>> /\ session.crashed = "no"
        /\ Softs(session, back)
    BY <1>1, <1>6, ZenonT(30) DEF SessionInv, ReceiveLink, Base, SessionType
  <2>3. /\ packet \in Answer /\ Tail(session.inbox) \in Seq(Answer) /\ <<>> \in Seq(Answer)
        /\ packet.body = "SOFT_RESET" => SoftIn(session.inbox)
    BY <2>2 DEF SoftIn
  <2>4. Base(rest) /\ SameBase(session, rest) /\ rest.starts = session.starts
    BY <1>1, <2>3, InboxIs, ZenonT(30)
  <2>5. Base(v) /\ SameBase(session, v) /\ v.starts = session.starts
    BY <1>1, <2>3, InboxIs, ZenonT(30)
  <2> HIDE DEF rest, v
  <2>6. CASE session' = Stop(v) /\ session.ring.isRenegotiating
    <3>1. v.alive
      <4>1. session.ring.keys # {}
        <5>1. session.ring \in Rings /\ Shape(session.ring)
          BY <1>1, ZenonT(30) DEF Base, SessionType
        <5> QED BY <2>6, <5>1, ShapeIs DEF EmptyRing
      <4> QED BY <1>1, <2>5, <4>1 DEF Base, Ends, SameBase
    <3> QED BY <2>5, <2>6, <3>1, StopIs
  <2>7. CASE session' = u
    <3>1. starts => Live(rest) /\ InUseNow(rest) /\ ~rest.ring.isRenegotiating
      BY <2>2, <2>3, <2>4 DEF Softs, Live, SameBase, InUseNow
    <3>2. Base(s) /\ s.starts = session.starts
      <4>1. CASE starts
        <5>1. s = SoftReset(rest, TRUE)
          BY <4>1
        <5>2. Live(s) /\ s.starts = rest.starts
          BY <3>1, <4>1, <5>1, SoftResetIs, ZenonT(30) DEF InUseNow
        <5> QED BY <2>4, <5>2, ZenonT(30) DEF Live
      <4>2. CASE ~starts
        BY <2>4, <4>2, ZenonT(30)
      <4> QED BY <4>1, <4>2, ZenonT(30)
    <3> HIDE DEF s
    <3>3. s.channel \in Channels
      BY <3>2, ZenonT(30) DEF Base, SessionType
    <3>4. channel \in Channels /\ due \in Seq(Answer)
      BY <2>3, <3>3, EnqueueInboundType, ZenonT(30)
    <3> HIDE DEF channel, due
    <3>5. SameRest(s, u)
      <4>1. u = Queued(s, channel, due)
        BY DEF Queued
      <4> QED BY <3>2, <3>4, <4>1, ChannelIs
    <3> HIDE DEF u
    <3> QED BY <2>7, <3>2, <3>5 DEF SameRest
  <2> QED BY <2>1, <2>6, <2>7
<1>7. CASE HandleOne
  <2>1. PICK env \in Envs : HandleControl(env)
    BY <1>7 DEF HandleOne
  <2> QED BY <2>1, HandleControlStarts
<1>8. CASE TickSome
  <2>1. PICK late \in BOOLEAN, env \in Envs : Tick(late, env)
    BY <1>8 DEF TickSome
  <2> DEFINE ticks == session.ticks - 1
             s == [session EXCEPT !.ticks = ticks]
  <2>2. session' = LoopNegotiation(s, late, env) /\ session.crashed = "no" /\ session.alive
    BY <2>1 DEF Tick, Free, Runs
  <2>3. ticks \in Nat
    <3>1. session.ticks \in Nat /\ session.ticks > 0
      BY <1>1, <2>1, ZenonT(30) DEF Tick, SessionType
    <3> QED BY <3>1
  <2> HIDE DEF ticks
  <2>4. Base(s) /\ s.starts = session.starts /\ SameBase(session, s)
    BY <1>1, <2>3, TicksIs
  <2> HIDE DEF s
  <2>5. Loops(s, session')
    BY <2>2, <2>4, LoopNegotiationIs, ZenonT(30) DEF SameBase
  <2> QED BY <2>4, <2>5 DEF Loops
<1>9. CASE Pinged
  <2>1. PICK silent \in BOOLEAN : Ping(silent, FALSE)
    BY <1>9 DEF Pinged
  <2> DEFINE pings == session.pings - 1
             s == [session EXCEPT !.pings = pings]
  <2>2. session' \in {s, Stop(s), session} /\ session.alive
    BY <2>1 DEF Ping, Free, Runs
  <2>3. pings \in Nat
    <3>1. session.pings \in Nat /\ session.pings > 0
      BY <1>1, <2>1, ZenonT(30) DEF Ping, SessionType
    <3> QED BY <3>1
  <2> HIDE DEF pings
  <2>4. Base(s) /\ s.starts = session.starts /\ SameBase(session, s)
    BY <1>1, <2>3, PingsIs
  <2> HIDE DEF s
  <2>5. Stop(s).starts = s.starts
    BY <2>2, <2>4, StopIs, ZenonT(30) DEF SameBase
  <2> QED BY <2>2, <2>4, <2>5
<1>10. CASE ExitWritten
  BY <1>1, <1>10, ExitIs DEF ExitWritten, Free, Runs
<1>11. CASE Stopped
  BY <1>1, <1>11, StopIs DEF Stopped, Free, Runs
<1>12. CASE Server
  <2>1. UNCHANGED session \/ \E packet \in session.wire : Take(packet)
    BY <1>12 DEF Server, ServerAnswers, ServerTakes, ServerFollows, ServerRenegotiates,
                 ServerRestarts
  <2>2. session'.starts = session.starts
    <3>1. ASSUME NEW packet \in session.wire, Take(packet) PROVE session'.starts = session.starts
      BY <3>1, TakeIs
    <3> QED BY <2>1, <3>1
  <2> QED BY <2>2
<1>13. CASE Fail
  BY <1>1, <1>13, FailIs DEF Timely, SameRest
<1> QED
  BY <1>2, <1>3, <1>4, <1>5, <1>6, <1>7, <1>8, <1>9, <1>10, <1>11, <1>12, <1>13, StoppedIs
     DEF Next

\* For each link the delegate hears of one start at most, and of one stop
\* (DelegateOnce).
THEOREM DelegateHearsOnce ==
  ASSUME Timely
  PROVE  Spec => []DelegateOnce
<1>1. Scope
  BY DEF Timely
<1>2. Init => session.starts <= 1
  BY DEF Init, FreshSession
<1>3. SessionInv /\ Synced /\ session.starts <= 1 /\ [Next]_vars => (session.starts <= 1)'
  BY SessionStarts
<1>4. SessionInv /\ session.starts <= 1 => DelegateOnce
  BY DEF SessionInv, Base, Ends, DelegateOnce
<1> QED
  BY <1>1, <1>2, <1>3, <1>4, SessionSound, SessionSynced, PTL DEF Spec

-----------------------------------------------------------------------------
(* No fatal error.                                                         *)

\* The session stops between two blocks, or when its exit notification has been
\* written: not inside the handler of a packet, with the rest of it still to run.
Calm == /\ Scope /\ ~Abrupt
        /\ "auth_failed" \notin Faults /\ "no_routes" \notin Faults
        /\ Faults \cap (TLSFaults \cup {"encryption", "mismatch"}) = {}

\* A session that has not asked yet for the reply that makes its first key current.
First(s) == ~InUseNow(s) /\ Greeting(s)

Further(s, u) == (InUseNow(s) => InUseNow(u)) /\ (First(u) => First(s))

\* The packets that are left to be handled, and those of the server b.
IsSaid(s, b, p) == (\E i \in DOMAIN b : p = b[i]) \/ InInbox(s, p) \/ IsHeld(s, p)

Fit(s, p) == /\ p.body \notin {"AUTH_FAILED", "PUSH_REPLY without routes"}
             /\ p.body = "RESTART" => InUseNow(s)
             /\ p.body = "PUSH_REPLY" => ~First(s)

Sound(s, b) ==
    /\ s.crashed = "no"
    /\ s.inbox # <<>> \/ s.due # <<>> => s.link
    /\ s.link => /\ \A p : IsSaid(s, b, p) => Fit(s, p)
                 /\ First(s) => \A p \in s.wire : p.body # "PUSH_REQUEST"

LEMMA SoundSame ==
  ASSUME NEW s, NEW b, Sound(s, b), NEW u, NEW c, u.link => s.link /\ Further(s, u),
         u.crashed = "no", u.inbox # <<>> \/ u.due # <<>> => u.link,
         u.link => \A p : IsSaid(u, c, p) => IsSaid(s, b, p) \/ Fit(u, p),
         u.link /\ First(u) => \A p \in u.wire : p \in s.wire \/ p.body # "PUSH_REQUEST"
  PROVE  Sound(u, c)
<1>1. ASSUME u.link, NEW p, IsSaid(u, c, p) PROVE Fit(u, p)
  BY <1>1, ZenonT(30) DEF Sound, Fit, Further
<1>2. ASSUME u.link, First(u), NEW p \in u.wire PROVE p.body # "PUSH_REQUEST"
  BY <1>2 DEF Sound, Further
<1> QED
  BY <1>1, <1>2 DEF Sound

LEMMA CalmEnv ==
  ASSUME Calm, NEW env \in Envs
  PROVE  env.fault \notin TLSFaults \cup {"encryption", "mismatch"}
BY DEF Calm, Envs, Env, TLSFaults, HandlerFaults

LEMMA StopLasts ==
  ASSUME ~Abrupt, NEW s, Live(s), InUseNow(s)
  PROVE  Stop(s).link
BY StopIs DEF Live, Base, Ends, InUseNow

\* handleControlMessage, handleControlData: the link is still there.
LEMMA MessageLasts ==
  ASSUME Calm, NEW s, Live(s), NEW env \in Envs, NEW packet \in Answer, Fit(s, packet),
         packet.body \notin {"HARD_RESET", "SOFT_RESET", "hello", "auth_reply"}
  PROVE  HandleControlMessage(s, packet.body, env).link
<1> DEFINE v == [s EXCEPT !.pushReply = TRUE]
           u == HandleControlMessage(s, packet.body, env)
           done == CompleteConnection(v, env)
           started == [done EXCEPT !.starts = @ + 1]
           up == IF env.fault = "gateway" THEN Stop(started) ELSE started
<1>1. HasNegotiationKey(s) /\ s.link
  BY NegotiationKeyIs DEF Live
<1>2. packet.body \in {"RESTART", "PUSH_REPLY"}
  BY ZenonT(30) DEF Fit, Answer, Said
<1>3. CASE packet.body = "RESTART"
  <2>1. u = Stop(s) /\ InUseNow(s)
    BY <1>3 DEF HandleControlMessage, Fit
  <2> QED BY <2>1, StopLasts DEF Calm
<1>4. CASE packet.body = "PUSH_REPLY" /\ NegotiationKey(s).controlState # "preIfConfig"
  BY <1>1, <1>4 DEF HandleControlMessage
<1>5. CASE packet.body = "PUSH_REPLY" /\ NegotiationKey(s).controlState = "preIfConfig"
  <2>1. u = IF done.crashed # "no" THEN done
            ELSE IF ~done.link THEN Crash(done, "no remote address")
            ELSE [up EXCEPT !.pings = @ + 1]
    BY <1>1, <1>5, ZenonT(30) DEF HandleControlMessage
  <2>2. Live(v) /\ v.pushReply /\ v.key = s.key /\ v.ring = s.ring
    BY PushReplyIs
  <2> HIDE DEF v
  <2>3. NegotiationKey(v).controlState = "preIfConfig" /\ env.fault # "encryption"
    BY <1>5, <2>2, CalmEnv DEF NegotiationKey
  <2>4. Base(done) /\ done.link /\ done.crashed = "no" /\ Completed(v, done)
    BY <2>2, <2>3, CompleteIs, ZenonT(30)
  <2> HIDE DEF done
  <2>5. Live(done) /\ done.ring.currentKeyIdx # NoIdx
    BY <2>2, <2>4, NegotiationKeyIs, KeyRingAssumption DEF Live, Completed, KeyIds, NoIdx
  <2>6. u = [up EXCEPT !.pings = @ + 1]
    BY <2>1, <2>4
  <2> HIDE DEF u
  <2>7. u.link
    BY <2>5, <2>6, StartedIs DEF Calm
  <2> QED BY <2>7 DEF u
<1> QED
  BY <1>2, <1>3, <1>4, <1>5

LEMMA DataLasts ==
  ASSUME Calm, NEW s, Live(s), NEW env \in Envs, NEW packet \in Answer, Fit(s, packet),
         packet.body \notin {"HARD_RESET", "SOFT_RESET", "hello"}
  PROVE  HandleControlData(s, packet.body, env).link
<1> DEFINE v == [SetNegotiationKey(s, "controlState", "preIfConfig")
                   EXCEPT !.authenticator = "authenticated", !.nextPushRequestDate = TRUE]
           u == HandleControlData(s, packet.body, env)
<1>1. CASE u = s
  BY <1>1 DEF Live
<1>2. CASE u = Stop(s) /\ NegotiationKey(s).controlState = "preAuth" /\ packet.body # "auth_reply"
  <2>1. InUseNow(s)
    BY <1>2, ZenonT(30) DEF Fit, First, Greeting, Answer, Said
  <2> QED BY <1>2, <2>1, StopLasts DEF Calm
<1>3. CASE u = PushRequest(v, env) /\ NegotiationKey(s).controlState = "preAuth"
  <2>1. Live(v)
    BY <1>3, AuthenticatedIs, ZenonT(30)
  <2> HIDE DEF v
  <2>2. PushRequest(v, env).link
    BY <2>1, PushRequestIs, CalmEnv
  <2> QED BY <1>3, <2>2
<1>4. CASE u = HandleControlMessage(s, packet.body, env) /\ packet.body # "auth_reply"
  BY <1>4, MessageLasts
<1> QED
  BY <1>1, <1>2, <1>3, <1>4 DEF HandleControlData

\* handleControlPacket.
LEMMA PacketLasts ==
  ASSUME Calm, NEW s, Live(s), NEW env \in Envs, NEW packet \in Answer, Fit(s, packet)
  PROVE  HandleControlPacket(s, packet, env).link
<1> DEFINE finished == Enqueue(SetNegotiationKey(s, "isTLSConnected", TRUE), "finished")
           after == IF ShouldOnTLSConnect(s, packet)
                    THEN IF HasNegotiationKey(finished) THEN OnTLSConnect(finished, env)
                                                        ELSE finished
                    ELSE IF packet.body = "hello" THEN s
                    ELSE HandleControlData(s, packet.body, env)
           u == HandleControlPacket(s, packet, env)
<1>1. HasNegotiationKey(s) /\ s.link
  BY NegotiationKeyIs DEF Live
<1>2. env.fault \notin {"tls", "mismatch"} /\ env.fault \notin TLSFaults
  BY CalmEnv DEF TLSFaults
<1>3. CASE u = s
  BY <1>1, <1>3
<1>4. CASE u = StartTLS(s, env)
  BY <1>2, <1>4, StartTLSGoes
<1>5. CASE /\ u = ExchangeTLS(s, packet, env) /\ packet.key = s.ring.negotiationKeyIdx
           /\ packet.body \notin {"HARD_RESET", "SOFT_RESET"}
           /\ NegotiationKey(s).state = "tls"
  <2>1. after.link /\ Base(after)
    <3>1. CASE ShouldOnTLSConnect(s, packet)
      <4>1. ~NegotiationKey(s).isTLSConnected
        BY <3>1 DEF ShouldOnTLSConnect
      <4>2. HasNegotiationKey(finished) /\ after = OnTLSConnect(finished, env)
        BY <1>5, <3>1, <4>1, OnTLSConnectGoes, ZenonT(30)
      <4>3. after.link /\ Goes(s, after)
        BY <1>2, <1>5, <4>1, <4>2, OnTLSConnectGoes, ZenonT(30)
      <4> QED BY <4>3, ZenonT(30) DEF Goes
    <3>2. CASE ~ShouldOnTLSConnect(s, packet) /\ packet.body = "hello"
      BY <1>1, <3>2 DEF Live
    <3>3. CASE packet.body # "hello"
      <4>1. after = HandleControlData(s, packet.body, env)
        BY <3>3 DEF ShouldOnTLSConnect
      <4>2. packet.body \in Said \ {"HARD_RESET", "SOFT_RESET", "hello"}
        BY <1>5, <3>3 DEF Answer
      <4> HIDE DEF after
      <4>3. Goes(s, after) \/ Rekeys(s, after) \/ Opens(s, after)
        BY <4>1, <4>2, HandleControlDataIs
      <4> QED BY <1>5, <3>3, <4>1, <4>3, DataLasts DEF Goes, Rekeys, Opens
    <3> QED BY <3>1, <3>2, <3>3, ZenonT(30)
  <2>2. u = IF HasNegotiationKey(after) THEN after ELSE Crash(after, "no negotiation key")
    BY <1>2, <1>5, ZenonT(30) DEF ExchangeTLS
  <2> HIDE DEF after, u
  <2>3. HasNegotiationKey(after)
    BY <2>1, NegotiationKeyIs DEF Live, Base
  <2> QED BY <2>1, <2>2, <2>3 DEF u
<1> QED
  BY <1>1, <1>3, <1>4, <1>5 DEF HandleControlPacket

\* A negotiation that moves on or completes.
LEMMA MovesSound ==
  ASSUME NEW s, Live(s), NEW b, Sound(s, b), NEW u, Base(u), u.link,
         u.inbox = s.inbox, u.due = s.due, Keeps(s, u) \/ Completed(s, u)
  PROVE  Sound(u, b)
<1>1. u.channel.inbound = s.channel.inbound /\ u.crashed = "no" /\ s.link
  BY DEF Keeps, Completed, Base, Live
<1>2. \A p : IsSaid(u, b, p) => IsSaid(s, b, p)
  BY <1>1 DEF IsSaid, InInbox, IsHeld
<1>3. /\ Further(s, u)
      /\ First(u) => \A p \in u.wire : p \in s.wire \/ p.body # "PUSH_REQUEST"
  <2>1. CASE Keeps(s, u)
    <3>1. u.ring = s.ring /\ (Greeting(u) => Greeting(s) /\ Writes(s, u, Greetings))
      BY <2>1 DEF Keeps
    <3>2. Greeting(u) => \A p \in u.wire : p \in s.wire \/ p.body # "PUSH_REQUEST"
      BY <3>1 DEF Writes, Greetings
    <3> QED BY <3>1, <3>2 DEF Further, First, InUseNow
  <2>2. CASE Completed(s, u)
    <3>1. InUseNow(u)
      BY <2>2, NegotiationKeyIs, KeyRingAssumption DEF Completed, InUseNow, KeyIds, NoIdx
    <3> QED BY <3>1 DEF Further, First
  <2> QED BY <2>1, <2>2
<1> QED
  BY <1>1, <1>2, <1>3, SoundSame

LEMMA HandleControlSound ==
  ASSUME SessionInv, Calm, Sound(session, back), NEW env \in Envs, HandleControl(env)
  PROVE  Sound(session', back')
<1> DEFINE packet == Head(session.due)
           rest == Tail(session.due)
           s == [session EXCEPT !.due = rest]
           u == HandleControlPacket(s, packet, env)
<1>1. /\ Base(session) /\ session.due \in Seq(Answer) /\ session.due # <<>>
      /\ session.crashed = "no" /\ session.link /\ back' = back /\ session' = u
  BY ZenonT(30) DEF SessionInv, HandleControl, Base, SessionType, Sound
<1>2. /\ packet \in Answer /\ rest \in Seq(Answer)
      /\ \E i \in DOMAIN session.due : packet = session.due[i]
      /\ \A i \in DOMAIN rest : \E j \in DOMAIN session.due : rest[i] = session.due[j]
  <2>1. /\ packet = session.due[1] /\ 1 \in DOMAIN session.due
        /\ \A i \in DOMAIN rest : i + 1 \in DOMAIN session.due /\ rest[i] = session.due[i + 1]
    BY <1>1
  <2> QED BY <1>1, <2>1
<1>3. Fit(session, packet)
  BY <1>1, <1>2, ZenonT(30) DEF Sound, IsSaid, IsHeld
<1> HIDE DEF packet, rest
<1>4. /\ Base(s) /\ SameBase(session, s) /\ s.inbox = session.inbox /\ s.due = rest
      /\ s.wire = session.wire /\ s.channel = session.channel
  BY <1>1, <1>2, DueIs
<1> HIDE DEF s
<1>5. /\ Live(s) /\ Further(session, s) /\ Fit(s, packet)
      /\ \A p : IsSaid(s, back, p) => IsSaid(session, back, p)
  <2>1. Live(s) /\ InUseNow(s) = InUseNow(session) /\ Greeting(s) = Greeting(session)
    BY <1>1, <1>4 DEF Live, SameBase, InUseNow, Greeting, NegotiationKey
  <2>2. \A p : IsSaid(s, back, p) => IsSaid(session, back, p)
    BY <1>2, <1>4 DEF IsSaid, InInbox, IsHeld
  <2> QED BY <1>3, <2>1, <2>2, ZenonT(30) DEF Further, First, Fit
<1>6. Sound(s, back)
  BY <1>1, <1>4, <1>5, SoundSame DEF Live
<1>7. Steps(s, packet, u) /\ u.link
  BY <1>2, <1>5, HandleControlPacketIs, PacketLasts DEF Calm
<1> HIDE DEF u
<1>8. Base(u) /\ u.inbox = s.inbox /\ u.due = s.due /\ (Keeps(s, u) \/ Completed(s, u))
  BY <1>7 DEF Steps, Goes, Rekeys, Opens, SameWork
<1> QED
  BY <1>1, <1>5, <1>6, <1>7, <1>8, MovesSound

\* Between two reads there is nothing left to be handled.
LEMMA IdleSound ==
  ASSUME NEW s, NEW b, Sound(s, b), NEW u, u.crashed = "no", u.inbox = <<>>, u.due = <<>>,
         u.link => /\ s.link /\ u.ring = s.ring /\ u.key = s.key
                   /\ u.channel = s.channel /\ u.wire = s.wire
  PROVE  Sound(u, b)
<1>1. u.link => \A p : IsSaid(u, b, p) => IsSaid(s, b, p)
  BY DEF IsSaid, InInbox, IsHeld
<1>2. u.link => Further(s, u)
  BY DEF Further, First, InUseNow, Greeting, NegotiationKey
<1> QED
  BY <1>1, <1>2, SoundSame

LEMMA TickSound ==
  ASSUME SessionInv, Calm, Sound(session, back), NEW late \in BOOLEAN, NEW env \in Envs,
         Tick(late, env)
  PROVE  Sound(session', back')
<1> DEFINE ticks == session.ticks - 1
           s == [session EXCEPT !.ticks = ticks]
           u == LoopNegotiation(s, late, env)
<1>1. /\ Base(session) /\ session.crashed = "no" /\ session.alive
      /\ session.inbox = <<>> /\ session.due = <<>> /\ back' = back /\ session' = u
  BY DEF SessionInv, Tick, Free, Runs, Reading, Calm, Scope
<1>2. ticks \in Nat
  <2>1. session.ticks \in Nat /\ session.ticks > 0
    BY ZenonT(30) DEF SessionInv, Tick, Base, SessionType
  <2> QED BY <2>1
<1> HIDE DEF ticks
<1>3. /\ Base(s) /\ SameBase(session, s) /\ s.inbox = session.inbox /\ s.due = session.due
      /\ s.wire = session.wire /\ s.channel = session.channel
  BY <1>1, <1>2, TicksIs
<1> HIDE DEF s
<1>4. Sound(s, back) /\ s.crashed = "no" /\ s.alive
  BY <1>1, <1>3, IdleSound DEF SameBase
<1>5. Loops(s, u) /\ u.crashed = "no"
  BY <1>3, <1>4, LoopNegotiationIs, CalmEnv
<1> HIDE DEF u
<1>6. CASE ~u.link
  <2>1. u.inbox = <<>> /\ u.due = <<>>
    BY <1>1, <1>3, <1>5 DEF Loops
  <2> QED BY <1>1, <1>5, <1>6, <2>1 DEF Sound
<1>7. CASE u.link
  <2>1. /\ Live(s) /\ Base(u) /\ u.inbox = s.inbox /\ u.due = s.due
        /\ Keeps(s, u) \/ Completed(s, u)
    BY <1>3, <1>4, <1>5, <1>7 DEF Loops, Moves, Live
  <2> QED BY <1>1, <1>4, <1>7, <2>1, MovesSound
<1> QED
  BY <1>6, <1>7

LEMMA PingSound ==
  ASSUME SessionInv, Calm, Sound(session, back), NEW silent \in BOOLEAN, Ping(silent, FALSE)
  PROVE  Sound(session', back')
<1> DEFINE pings == session.pings - 1
           s == [session EXCEPT !.pings = pings]
<1>1. /\ Base(session) /\ session.alive /\ session.crashed = "no" /\ back' = back
      /\ session.inbox = <<>> /\ session.due = <<>> /\ session' \in {s, Stop(s), session}
  BY DEF SessionInv, Ping, Free, Runs, Reading, Calm, Scope
<1>2. pings \in Nat
  <2>1. session.pings \in Nat /\ session.pings > 0
    BY ZenonT(30) DEF SessionInv, Ping, Base, SessionType
  <2> QED BY <2>1
<1> HIDE DEF pings
<1>3. /\ Base(s) /\ SameBase(session, s) /\ s.inbox = session.inbox /\ s.due = session.due
      /\ s.wire = session.wire /\ s.channel = session.channel
  BY <1>1, <1>2, PingsIs
<1> HIDE DEF s
<1>4. Sound(s, back)
  BY <1>1, <1>3, IdleSound DEF SameBase
<1>5. Sound(Stop(s), back)
  <2>1. /\ SameWork(s, Stop(s)) /\ Stop(s).crashed = s.crashed
        /\ Stop(s).link => /\ s.link /\ Stop(s).ring = s.ring /\ Stop(s).key = s.key
                           /\ Stop(s).channel = s.channel /\ Stop(s).wire = s.wire
    BY <1>1, <1>3, StopIs, ZenonT(30) DEF SameBase
  <2> QED BY <1>1, <1>3, <1>4, <2>1, IdleSound DEF SameWork, SameBase
<1> QED
  BY <1>1, <1>4, <1>5

LEMMA LinkSound ==
  ASSUME SessionInv, Calm, Sound(session, back),
         SetLink \/ LinkLost \/ ExitWritten \/ Stopped
  PROVE  Sound(session', back')
<1>1. /\ Base(session) /\ session.alive /\ session.crashed = "no"
      /\ session.inbox = <<>> /\ session.due = <<>>
  BY DEF SessionInv, SetLink, LinkLost, ExitWritten, Stopped, Free, Runs, Reading, Calm, Scope
<1>2. CASE SetLink
  <2> DEFINE u == HardReset([session EXCEPT !.link = TRUE, !.wire = {}, !.starts = 0, !.stops = 0], TRUE)
  <2>1. ~session.link /\ session' = u /\ back' = <<>>
    BY <1>2, SetLinkIs DEF Calm
  <2>2. /\ Live(u) /\ u.inbox = <<>> /\ u.due = <<>> /\ u.channel.inbound = <<>>
        /\ u.wire = {[key |-> 0, id |-> 0, body |-> "HARD_RESET"]}
    BY <1>1, <2>1, HardResetIs, ZenonT(30)
  <2> HIDE DEF u
  <2>3. \A p : ~IsSaid(u, <<>>, p)
    BY <2>2 DEF IsSaid, InInbox, IsHeld
  <2> QED BY <2>1, <2>2, <2>3 DEF Sound, Live
<1>3. CASE LinkLost
  <2>1. /\ ~session'.link /\ session'.crashed = "no" /\ session'.inbox = <<>>
        /\ session'.due = <<>>
    BY <1>1, <1>3, CleanupIs DEF LinkLost, Base, SameWork
  <2> QED BY <2>1 DEF Sound
<1>4. CASE ExitWritten
  <2>1. /\ ~session'.link /\ session'.crashed = "no" /\ session'.inbox = <<>>
        /\ session'.due = <<>>
    BY <1>1, <1>4, ExitIs DEF ExitWritten, SameWork
  <2> QED BY <2>1 DEF Sound
<1>5. CASE Stopped
  <2>1. session' = Stop(session) /\ back' = back
    BY <1>5 DEF Stopped
  <2>2. /\ SameWork(session, session') /\ session'.crashed = session.crashed
        /\ session'.link => /\ session.link /\ session'.ring = session.ring
                            /\ session'.key = session.key /\ session'.channel = session.channel
                            /\ session'.wire = session.wire
    BY <1>1, <2>1, StopIs
  <2> QED BY <1>1, <2>1, <2>2, IdleSound DEF SameWork
<1> QED
  BY <1>2, <1>3, <1>4, <1>5

\* A negotiation starts.
LEMMA ResetSound ==
  ASSUME NEW s, Live(s), InUseNow(s), ~s.ring.isRenegotiating, NEW byServer \in BOOLEAN,
         s.due = <<>>, NEW b, Sound(s, b)
  PROVE  LET u == SoftReset(s, byServer)
         IN  Live(u) /\ Sound(u, b) /\ u.inbox = s.inbox /\ u.due = <<>>
<1> DEFINE u == SoftReset(s, byServer)
<1>1. /\ Live(u) /\ u.inbox = s.inbox /\ u.due = s.due /\ InUseNow(u)
      /\ u.channel.inbound = <<>>
  BY SoftResetIs DEF InUseNow
<1> HIDE DEF u
<1>2. \A p : IsSaid(u, b, p) => IsSaid(s, b, p)
  BY <1>1 DEF IsSaid, InInbox, IsHeld
<1>3. Further(s, u) /\ ~First(u)
  BY <1>1 DEF Further, First
<1>4. Sound(u, b)
  BY <1>1, <1>2, <1>3, SoundSame DEF Live
<1> QED
  BY <1>1, <1>4 DEF u

LEMMA ReadSound ==
  ASSUME SessionInv, Calm, Sound(session, back), NEW batch \in Batches, NEW due \in BOOLEAN,
         Read(batch, due)
  PROVE  Sound(session', back')
<1> DEFINE s == MaybeRenegotiate(session, due)
           inbox == [i \in DOMAIN batch |-> back[batch[i]]]
           u == [s EXCEPT !.inbox = inbox]
<1>1. /\ Live(session) /\ session.inbox = <<>> /\ session.due = <<>>
      /\ session' = s \/ session' = u
      /\ back' = back /\ Served
  BY DEF SessionInv, Read, Runs, Reading, Live
<1>2. /\ inbox \in Seq(Answer) /\ DOMAIN inbox = DOMAIN batch
      /\ \A i \in DOMAIN batch : batch[i] \in 1 .. Len(back)
  BY <1>1, BatchIs
<1>3. \A i \in DOMAIN inbox : \E j \in DOMAIN back : inbox[i] = back[j]
  BY <1>1, <1>2 DEF Served
<1>4. Live(s) /\ Sound(s, back)
  <2>1. CASE s = session
    BY <1>1, <2>1
  <2>2. CASE s = SoftReset(session, FALSE) /\ InUseNow(session) /\ ~session.ring.isRenegotiating
    BY <1>1, <2>2, ResetSound, ZenonT(30)
  <2> QED BY <1>1, <2>1, <2>2, MaybeRenegotiateIs, ZenonT(30)
<1> HIDE DEF s, inbox
<1>5. Sound(u, back)
  <2>1. /\ Base(u) /\ SameBase(s, u) /\ u.inbox = inbox /\ u.due = s.due
        /\ u.wire = s.wire /\ u.channel = s.channel
    BY <1>2, <1>4, InboxIs DEF Live
  <2> HIDE DEF u
  <2>2. \A p : IsSaid(u, back, p) => IsSaid(s, back, p)
    BY <1>3, <2>1 DEF IsSaid, InInbox, IsHeld
  <2>3. Further(s, u) /\ u.link /\ u.crashed = "no"
    BY <1>4, <2>1 DEF Further, First, InUseNow, Greeting, NegotiationKey, SameBase, Live
  <2> QED BY <1>4, <2>1, <2>2, <2>3, SoundSame DEF Live
<1> QED
  BY <1>1, <1>4, <1>5

LEMMA ReceiveLinkSound ==
  ASSUME SessionInv, Calm, Sound(session, back), ReceiveLink
  PROVE  Sound(session', back')
<1> DEFINE packet == Head(session.inbox)
           tail == Tail(session.inbox)
           rest == [session EXCEPT !.inbox = tail]
           starts == packet.body = "SOFT_RESET" /\ ~session.ring.isRenegotiating
           s == IF starts THEN SoftReset(rest, TRUE) ELSE rest
           channel == EnqueueInbound(s.channel, packet.id, packet)
           handled == Handled(s.channel, packet.id, packet)
           u == [s EXCEPT !.channel = channel, !.due = handled]
<1>1. /\ Live(session) /\ Softs(session, back)
      /\ session.inbox \in Seq(Answer) /\ session.inbox # <<>>
      /\ session.due = <<>> /\ back' = back
  BY ZenonT(30) DEF SessionInv, ReceiveLink, Base, SessionType, Live, Sound
<1>2. session' = Stop([session EXCEPT !.inbox = <<>>]) \/ session' = u
  BY ReceiveLinkIs DEF Calm
<1>3. /\ packet \in Answer /\ tail \in Seq(Answer) /\ packet = session.inbox[1]
      /\ 1 \in DOMAIN session.inbox
      /\ \A i \in DOMAIN tail : i + 1 \in DOMAIN session.inbox /\ tail[i] = session.inbox[i + 1]
  BY <1>1
<1>4. CASE session' = Stop([session EXCEPT !.inbox = <<>>])
  <2> DEFINE v == [session EXCEPT !.inbox = <<>>]
  <2>1. <<>> \in Seq(Answer)
    OBVIOUS
  <2>2. /\ Base(v) /\ SameBase(session, v) /\ v.inbox = <<>> /\ v.due = session.due
        /\ v.wire = session.wire /\ v.channel = session.channel
    BY <1>1, <2>1, InboxIs, ZenonT(30) DEF Live
  <2> HIDE DEF v
  <2>3. /\ SameWork(v, Stop(v)) /\ Stop(v).crashed = v.crashed
        /\ Stop(v).link => /\ v.link /\ Stop(v).ring = v.ring /\ Stop(v).key = v.key
                           /\ Stop(v).channel = v.channel /\ Stop(v).wire = v.wire
    BY <1>1, <2>2, StopIs, ZenonT(30) DEF SameBase, Live, Base, Ends
  <2>4. Sound(Stop(v), back)
    BY <1>1, <2>2, <2>3, IdleSound DEF SameWork, SameBase, Live
  <2> QED BY <1>1, <1>4, <2>4 DEF v
<1>5. CASE session' = u
  <2>1. /\ Base(rest) /\ SameBase(session, rest) /\ rest.inbox = tail /\ rest.due = session.due
        /\ rest.wire = session.wire /\ rest.channel = session.channel
    BY <1>1, <1>3, InboxIs, ZenonT(30) DEF Live
  <2>2. \A i \in DOMAIN tail : InInbox(session, tail[i])
    BY <1>3 DEF InInbox
  <2> HIDE DEF rest, tail
  <2>3. /\ Live(rest) /\ Sound(rest, back)
    <3>1. \A p : IsSaid(rest, back, p) => IsSaid(session, back, p)
      BY <2>1, <2>2 DEF IsSaid, InInbox, IsHeld
    <3>2. Further(session, rest) /\ rest.link /\ rest.crashed = "no"
      BY <1>1, <2>1 DEF Further, First, InUseNow, Greeting, NegotiationKey, SameBase, Live
    <3> QED BY <1>1, <2>1, <3>1, <3>2, SoundSame DEF Live
  <2>4. IsSaid(session, back, packet) /\ (packet.body = "SOFT_RESET" => InUseNow(rest))
    BY <1>1, <1>3, <2>1 DEF IsSaid, InInbox, Softs, SoftIn, InUseNow, SameBase, Live
  <2>5. Fit(rest, packet)
    BY <1>1, <2>1, <2>4, ZenonT(30)
       DEF Sound, Fit, First, InUseNow, Greeting, NegotiationKey, SameBase, Live
  <2>6. /\ Live(s) /\ Sound(s, back) /\ s.due = <<>> /\ Fit(s, packet)
    <3>1. CASE starts
      <4>1. InUseNow(rest) /\ ~rest.ring.isRenegotiating /\ rest.due = <<>>
        BY <1>1, <2>1, <2>4, <3>1 DEF SameBase
      <4>2. Live(s) /\ Sound(s, back) /\ s.due = <<>>
        BY <2>3, <3>1, <4>1, ResetSound, ZenonT(30)
      <4>3. Fit(s, packet)
        BY <3>1, ZenonT(30) DEF Fit
      <4> QED BY <4>2, <4>3, ZenonT(30)
    <3>2. CASE ~starts
      BY <1>1, <2>1, <2>3, <2>5, <3>2, ZenonT(30)
    <3> QED BY <3>1, <3>2, ZenonT(30)
  <2> HIDE DEF s, packet
  <2>7. /\ channel \in Channels /\ handled \in Seq(Answer)
        /\ \A i \in 1 .. Len(handled) :
               handled[i] = packet
               \/ \E id \in DOMAIN s.channel.inbound : handled[i] = s.channel.inbound[id]
        /\ \A id \in DOMAIN channel.inbound :
               channel.inbound[id] = packet
               \/ (id \in DOMAIN s.channel.inbound
                   /\ channel.inbound[id] = s.channel.inbound[id])
    <3>1. s.channel \in Channels
      BY <2>6, ZenonT(30) DEF Live, Base, SessionType
    <3> QED BY <1>3, <3>1, EnqueueInboundType, ZenonT(30)
  <2> HIDE DEF channel, handled
  <2>8. Base(u) /\ SameRest(s, u) /\ u.due = handled /\ u.channel = channel
    <3>1. Base(s) /\ channel \in Channels /\ handled \in Seq(Answer)
      BY <2>6, <2>7 DEF Live
    <3>2. u = Queued(s, channel, handled)
      BY DEF Queued
    <3> QED BY <3>1, <3>2, ChannelIs
  <2> HIDE DEF u
  <2>9. Further(s, u) /\ u.link /\ u.crashed = "no" /\ (Fit(s, packet) => Fit(u, packet))
    BY <2>6, <2>8, ZenonT(30)
       DEF Further, First, Fit, InUseNow, Greeting, NegotiationKey, SameRest, SameBase, Live
  <2>10. \A p : IsSaid(u, back, p) => IsSaid(s, back, p) \/ p = packet
    BY <2>7, <2>8 DEF IsSaid, InInbox, IsHeld, SameRest
  <2>11. Sound(u, back)
    BY <2>6, <2>8, <2>9, <2>10, SoundSame DEF Live, SameRest
  <2> QED BY <1>1, <1>5, <2>11
<1> QED
  BY <1>2, <1>4, <1>5

\* The server pushes a reply to a request only, and restarts only when its key is
\* the current one.
LEMMA ServerSound ==
  ASSUME SessionInv, Calm, Sound(session, back), Server
  PROVE  Sound(session', back')
<1>1. /\ Served /\ session.link /\ session.crashed = "no"
  BY DEF SessionInv, Server, ServerAnswers, ServerTakes, ServerFollows, ServerRenegotiates,
         ServerRestarts, Take, Up
<1>2. /\ SameBase(session, session') /\ session'.inbox = session.inbox
      /\ session'.due = session.due /\ session'.channel = session.channel
      /\ session'.wire \subseteq session.wire
  <2>1. CASE UNCHANGED session
    BY <2>1 DEF SameBase
  <2>2. CASE \E packet \in session.wire : Take(packet)
    BY <2>2, TakeIs
  <2> QED BY <2>1, <2>2 DEF Server, ServerAnswers, ServerTakes, ServerFollows,
                            ServerRenegotiates, ServerRestarts
<1>3. /\ session'.link /\ session'.crashed = "no" /\ Further(session, session')
      /\ \A p : Fit(session, p) => Fit(session', p)
  BY <1>1, <1>2, ZenonT(30) DEF Further, First, Fit, InUseNow, Greeting, NegotiationKey, SameBase
<1>4. \/ back' = back
      \/ \E said : Fit(session, said) /\ back' = Append(back, said)
  <2>1. CASE ServerAnswers
    <3>1. PICK packet \in session.wire : \E answer \in Answers(packet.body) :
             Say(server.key, answer)
      BY <2>1 DEF ServerAnswers
    <3>2. PICK answer \in Answers(packet.body) : Say(server.key, answer)
      BY <3>1
    <3>3. /\ answer \notin {"AUTH_FAILED", "PUSH_REPLY without routes", "RESTART"}
          /\ answer = "PUSH_REPLY" => packet.body = "PUSH_REQUEST"
      BY <3>2, ZenonT(30) DEF Answers, Calm
    <3>4. packet.body = "PUSH_REQUEST" => ~First(session)
      BY <1>1, <3>1 DEF Sound
    <3>5. \A id : Fit(session, [key |-> server.key, id |-> id, body |-> answer])
      BY <3>3, <3>4, ZenonT(30) DEF Fit
    <3> QED BY <3>2, <3>5 DEF Say
  <2>2. CASE ServerTakes
    BY <2>2 DEF ServerTakes
  <2>3. CASE ServerFollows \/ ServerRenegotiates
    <3>1. PICK key : Say(key, "SOFT_RESET")
      BY <2>3 DEF ServerFollows, ServerRenegotiates
    <3>2. \A id : Fit(session, [key |-> key, id |-> id, body |-> "SOFT_RESET"])
      BY DEF Fit
    <3> QED BY <3>1, <3>2 DEF Say
  <2>4. CASE ServerRestarts
    <3>1. Say(server.key, "RESTART") /\ session.ring.currentKeyIdx = server.key
      BY <2>4 DEF ServerRestarts
    <3>2. InUseNow(session)
      BY <1>1, <3>1, KeyRingAssumption DEF Served, InUseNow, KeyIds, NoIdx
    <3>3. \A id : Fit(session, [key |-> server.key, id |-> id, body |-> "RESTART"])
      BY <3>2 DEF Fit
    <3> QED BY <3>1, <3>3 DEF Say
  <2> QED BY <2>1, <2>2, <2>3, <2>4 DEF Server
<1>5. \A p : IsSaid(session', back', p) => IsSaid(session, back, p) \/ Fit(session', p)
  <2>1. CASE back' = back
    BY <1>2, <2>1 DEF IsSaid, InInbox, IsHeld
  <2>2. ASSUME NEW said, Fit(session, said), back' = Append(back, said)
        PROVE  \A p : IsSaid(session', back', p) => IsSaid(session, back, p) \/ Fit(session', p)
    <3>1. \A i \in DOMAIN back' : back'[i] = said \/ (i \in DOMAIN back /\ back'[i] = back[i])
      BY <1>1, <2>2 DEF Served
    <3> QED BY <1>2, <1>3, <2>2, <3>1 DEF IsSaid, InInbox, IsHeld
  <2> QED BY <1>4, <2>1, <2>2
<1> QED
  BY <1>1, <1>2, <1>3, <1>5, SoundSame, ZenonT(30) DEF Sound

LEMMA SoundStep ==
  ASSUME SessionInv, Calm, Sound(session, back), [Next]_vars
  PROVE  Sound(session', back')
<1>1. CASE UNCHANGED vars
  BY <1>1 DEF vars
<1>2. CASE SetLink \/ LinkLost \/ ExitWritten \/ Stopped
  BY <1>2, LinkSound
<1>3. CASE ReadSome
  <2>1. PICK batch \in Batches, due \in BOOLEAN : Read(batch, due)
    BY <1>3 DEF ReadSome
  <2> QED BY <2>1, ReadSound
<1>4. CASE ReceiveLink
  BY <1>4, ReceiveLinkSound
<1>5. CASE HandleOne
  <2>1. PICK env \in Envs : HandleControl(env)
    BY <1>5 DEF HandleOne
  <2> QED BY <2>1, HandleControlSound
<1>6. CASE TickSome
  <2>1. PICK late \in BOOLEAN, env \in Envs : Tick(late, env)
    BY <1>6 DEF TickSome
  <2> QED BY <2>1, TickSound
<1>7. CASE Pinged
  <2>1. PICK silent \in BOOLEAN : Ping(silent, FALSE)
    BY <1>7 DEF Pinged
  <2> QED BY <2>1, PingSound
<1>8. CASE Server
  BY <1>8, ServerSound
<1>9. CASE Fail
  <2>1. /\ SameRest(session, session') /\ session'.due = session.due
        /\ session'.channel = session.channel /\ session.crashed = "no" /\ back' = back
    BY <1>9, FailIs DEF SessionInv, Calm
  <2>2. \A p : IsSaid(session', back', p) => IsSaid(session, back, p)
    BY <2>1 DEF IsSaid, InInbox, IsHeld, SameRest
  <2>3. session'.link => Further(session, session')
    BY <2>1 DEF Further, First, InUseNow, Greeting, NegotiationKey, SameRest, SameBase
  <2> QED BY <2>1, <2>2, <2>3, SoundSame DEF Sound, SameRest, SameBase
<1> QED
  BY <1>1, <1>2, <1>3, <1>4, <1>5, <1>6, <1>7, <1>8, <1>9, StoppedIs DEF Next

\* Over UDP no fatal error of the session is reached as long as what Calm leaves out
\* does not happen: TLS data, a session id or a cipher that is refused, a server that
\* turns the client away, an exit notification that cannot be encrypted, a control
\* packet that cannot be serialized.  Each of these may stop the session under its
\* handler, and the handler goes on: CrashesAfterStop holds with most of them, and
\* NoCrash does not (NoCrash).
THEOREM NoFatalError ==
  ASSUME Calm
  PROVE  Spec => []NoCrash
<1>1. Scope
  BY DEF Calm
<1>2. Init => Sound(session, back)
  BY DEF Init, Sound, FreshSession
<1>3. SessionInv /\ Sound(session, back) /\ [Next]_vars => Sound(session, back)'
  BY SoundStep
<1>4. Sound(session, back) => NoCrash
  BY DEF Sound, NoCrash
<1> QED
  BY <1>1, <1>2, <1>3, <1>4, SessionSound, PTL DEF Spec

=============================================================================

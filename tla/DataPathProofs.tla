--------------------------- MODULE DataPathProofs ---------------------------
(***************************************************************************)
(* For every set of payloads, every batch and every size of the replay     *)
(* window: the data path keeps the promises of the replay window, uses no  *)
(* id twice, and carries what the window lets through to the tunnel.       *)
(***************************************************************************)
EXTENDS DataPath, ReplayProtectorProofs, SequenceTheorems

-----------------------------------------------------------------------------
\* Sequences of one and two elements.
LEMMA Singleton ==
    ASSUME NEW S, NEW h \in S
    PROVE  <<h>> \in Seq(S) /\ Len(<<h>>) = 1 /\ <<h>>[1] = h
  OBVIOUS

LEMMA Couple ==
    ASSUME NEW S, NEW g \in S, NEW h \in S
    PROVE  /\ <<g, h>> \in Seq(S) /\ Len(<<g, h>>) = 2
           /\ <<g, h>>[1] = g /\ <<g, h>>[2] = h
  OBVIOUS

\* The first element, by its index.
LEMMA First ==
    ASSUME NEW S, NEW p \in Seq(S), p # <<>>
    PROVE  Head(p) = p[1] /\ p[1] \in S /\ Len(p) \in Nat \ {0}
<1>1. Len(p) \in Nat \ {0}
  BY EmptySeq
<1>2. p[1] \in S
  BY <1>1, ElementOfSeq
<1> QED BY <1>1, <1>2

\* A byte in front comes off again.
LEMMA Pushed ==
    ASSUME NEW S, NEW h \in S, NEW p \in Seq(S)
    PROVE  /\ <<h>> \o p \in Seq(S)
           /\ Head(<<h>> \o p) = h
           /\ Tail(<<h>> \o p) = p
<1> DEFINE q == <<h>> \o p
<1>1. /\ q \in Seq(S) /\ Len(q) = 1 + Len(p) /\ Len(p) \in Nat
      /\ \A i \in 1 .. 1 + Len(p) : q[i] = IF i <= 1 THEN <<h>>[i] ELSE p[i - 1]
  BY Singleton, ConcatProperties, LenProperties
<1> HIDE DEF q
<1>2. q # <<>>
  BY <1>1
<1>3. Head(q) = h
  BY <1>1, <1>2, First, Singleton
<1>4. /\ Tail(q) \in Seq(S) /\ Len(Tail(q)) = Len(p)
      /\ \A i \in 1 .. Len(p) : Tail(q)[i] = p[i]
  BY <1>1, <1>2, HeadTailProperties
<1>5. Tail(q) = p
  BY <1>4, SeqEqual
<1> QED BY <1>1, <1>3, <1>5 DEF q

\* The swap of NO_COMPRESS_SWAP and its undoing.
LEMMA SwapBack ==
    ASSUME NEW S, NEW p \in Seq(S), p # <<>>, NoCompressSwap \in S
    PROVE  /\ Head(Swapped(p)) = NoCompressSwap
           /\ <<Swapped(p)[Len(Swapped(p))]>> \o SubSeq(Swapped(p), 2, Len(Swapped(p)) - 1) = p
<1> DEFINE t == <<NoCompressSwap>> \o Tail(p)
           q == t \o <<Head(p)>>
<1>1. /\ Len(p) \in Nat \ {0} /\ Head(p) = p[1] /\ p[1] \in S
      /\ Tail(p) \in Seq(S) /\ Len(Tail(p)) = Len(p) - 1
      /\ \A i \in 1 .. Len(p) - 1 : Tail(p)[i] = p[i + 1]
  BY First, HeadTailProperties
<1>2. NoCompressSwap \in S
  OBVIOUS
<1>3. /\ t \in Seq(S) /\ Len(t) = Len(p)
      /\ t[1] = NoCompressSwap
      /\ \A i \in 2 .. Len(p) : t[i] = p[i]
  <2>1. /\ t \in Seq(S) /\ Len(t) = 1 + Len(Tail(p))
        /\ \A i \in 1 .. 1 + Len(Tail(p)) :
              t[i] = IF i <= 1 THEN <<NoCompressSwap>>[i] ELSE Tail(p)[i - 1]
    BY <1>1, <1>2, Singleton, ConcatProperties
  <2> QED BY <1>1, <1>2, <2>1, Singleton
<1> HIDE DEF t
<1>4. /\ q \in Seq(S) /\ Len(q) = Len(p) + 1
      /\ \A i \in 1 .. Len(p) + 1 : q[i] = IF i <= Len(p) THEN t[i] ELSE <<Head(p)>>[i - Len(p)]
  BY <1>1, <1>3, Singleton, ConcatProperties
<1>5. /\ q[1] = NoCompressSwap /\ q[Len(q)] = p[1]
      /\ \A i \in 2 .. Len(p) : q[i] = p[i]
  BY <1>1, <1>3, <1>4, Singleton
<1>6. q = Swapped(p)
  BY <1>1, <1>2, Singleton, ConcatAssociative DEF Swapped, q, t
<1> HIDE DEF q
<1>7. Head(q) = NoCompressSwap
  BY <1>1, <1>4, <1>5, First, q # <<>>
<1> DEFINE m == SubSeq(q, 2, Len(q) - 1)
<1>8. /\ m \in Seq(S) /\ Len(m) = Len(p) - 1
      /\ \A i \in 1 .. Len(p) - 1 : m[i] = p[i + 1]
  <2>1. \A i \in 2 .. Len(q) - 1 : q[i] \in S
    BY <1>1, <1>4, ElementOfSeq
  <2>2. /\ m \in Seq(S)
        /\ Len(m) = IF 2 <= Len(q) - 1 THEN Len(q) - 1 - 2 + 1 ELSE 0
        /\ \A i \in 1 .. Len(q) - 1 - 2 + 1 : m[i] = q[2 + i - 1]
    BY <1>1, <1>4, <2>1, SubSeqProperties
  <2> QED BY <1>1, <1>4, <1>5, <2>2
<1> HIDE DEF m
<1>9. PICK h \in S : h = p[1]
  BY <1>1
<1>10. <<h>> \o m = p
  <2>1. /\ <<h>> \o m \in Seq(S) /\ Len(<<h>> \o m) = 1 + Len(m)
        /\ \A i \in 1 .. 1 + Len(m) : (<<h>> \o m)[i] = IF i <= 1 THEN <<h>>[i] ELSE m[i - 1]
    BY <1>8, Singleton, ConcatProperties
  <2>2. \A i \in 1 .. Len(p) : (<<h>> \o m)[i] = p[i]
    BY <1>1, <1>8, <1>9, <2>1, Singleton
  <2>3. Len(<<h>> \o m) = Len(p)
    <3>1. Len(p) \in Nat /\ Len(m) = Len(p) - 1
      BY <1>1, <1>8
    <3> QED BY <2>1, <3>1
  <2> QED BY <2>1, <2>2, <2>3, SeqEqual
<1> QED BY <1>5, <1>6, <1>7, <1>9, <1>10 DEF m

\* What LZO takes off the end it puts back.
LEMMA LZOBack ==
    ASSUME NEW S, NEW p \in Seq(S), Compressible(p), "z" \in S
    PROVE  /\ Compressed(p) \in Seq(S)
           /\ IsCompressed(Compressed(p))
           /\ Decompressed(Compressed(p)) = p
<1> DEFINE n == Len(p)
           s == SubSeq(p, 1, n - 2)
           q == <<"z">> \o s
<1>1. n \in Nat /\ n > 2 /\ p[n] = p[n - 1] /\ p[n - 1] = p[n - 2]
  BY LenProperties DEF Compressible
<1>2. \A i \in 1 .. n : p[i] \in S
  BY ElementOfSeq
<1>3. s \in Seq(S) /\ Len(s) = n - 2 /\ \A i \in 1 .. n - 2 : s[i] = p[i]
  <2>1. \A i \in 1 .. n - 2 : p[i] \in S
    BY <1>1, <1>2
  <2>2. /\ s \in Seq(S)
        /\ Len(s) = IF 1 <= n - 2 THEN n - 2 - 1 + 1 ELSE 0
        /\ \A i \in 1 .. n - 2 - 1 + 1 : s[i] = p[1 + i - 1]
    BY <1>1, <2>1, SubSeqProperties
  <2> QED BY <1>1, <2>2
<1> HIDE DEF n, s
<1>4. q \in Seq(S) /\ Head(q) = "z" /\ Tail(q) = s
  BY <1>3, Pushed
<1>5. Len(q) = n - 1 /\ q[n - 1] = s[n - 2]
  <2>1. /\ Len(q) = 1 + Len(s)
        /\ \A i \in 1 .. 1 + Len(s) : q[i] = IF i <= 1 THEN <<"z">>[i] ELSE s[i - 1]
    BY <1>3, Singleton, ConcatProperties
  <2> QED BY <1>1, <1>3, <2>1
<1> HIDE DEF q
<1>6. q[Len(q)] = p[n] /\ p[n] \in S
  BY <1>1, <1>2, <1>3, <1>5
<1> DEFINE r == s \o <<p[n], p[n]>>
<1>7. r \in Seq(S) /\ Len(r) = n /\ \A i \in 1 .. n : r[i] = p[i]
  <2>1. /\ r \in Seq(S) /\ Len(r) = Len(s) + 2
        /\ \A i \in 1 .. Len(s) + 2 :
              r[i] = IF i <= Len(s) THEN s[i] ELSE <<p[n], p[n]>>[i - Len(s)]
    BY <1>3, <1>6, Couple, ConcatProperties
  <2>2. \A i \in 1 .. n : r[i] = p[i]
    <3> SUFFICES ASSUME NEW i \in 1 .. n PROVE r[i] = p[i]
      OBVIOUS
    <3>1. CASE i <= n - 2
      BY <1>1, <1>3, <2>1, <3>1
    <3>2. CASE i = n - 1
      BY <1>1, <1>3, <1>6, <2>1, <3>2, Couple
    <3>3. CASE i = n
      BY <1>1, <1>3, <1>6, <2>1, <3>3, Couple
    <3>4. i <= n - 2 \/ i = n - 1 \/ i = n
      BY <1>1
    <3> QED BY <3>1, <3>2, <3>3, <3>4
  <2> QED BY <1>1, <1>3, <2>1, <2>2
<1>8. r = p
  BY <1>7, SeqEqual DEF n
<1>9. q = Compressed(p)
  BY DEF q, s, n, Compressed
<1>10. Decompressed(q) = p
  BY <1>4, <1>6, <1>8 DEF Decompressed, r
<1>11. IsCompressed(q)
  BY <1>1, <1>4, <1>5 DEF IsCompressed
<1> QED BY <1>4, <1>9, <1>10, <1>11

-----------------------------------------------------------------------------
\* A payload whose first byte no header has, without one.
LEMMA NoHeader ==
    ASSUME NEW f \in Framings, NEW l \in BOOLEAN, NEW p,
           Head(p) \notin {NoCompress, NoCompressSwap, LZOCompress, V2Indicator}
    PROVE  Parse(f, l, p) = {Taken(p)}
BY DEF Parse

\* Every payload that is not empty and that V2 can tell from its headers arrives
\* as it was sent: parsePayloadBlock undoes assemblePayloadBlock of the same
\* framing (setCompressionFraming), swapped, compressed or bare.
THEOREM FramingCarries ==
    ASSUME NEW f \in Framings, NEW l \in BOOLEAN, NEW p \in Seq(STRING), p # <<>>,
           ~ Ambiguous(f, p)
    PROVE  Parse(f, l, Assemble(f, l, p)) = {Taken(p)}
<1> DEFINE S == STRING \cup {NoCompress, NoCompressSwap, LZOCompress, "z"}
<1>1. p \in Seq(S) /\ {NoCompress, NoCompressSwap, LZOCompress, "z"} \subseteq S
  <2>1. STRING \subseteq S /\ {NoCompress, NoCompressSwap, LZOCompress, "z"} \subseteq S
    OBVIOUS
  <2> HIDE DEF S
  <2> QED BY <2>1, SeqMonotonic
<1> HIDE DEF S
<1>2. CASE f = "disabled"
  BY <1>2 DEF Assemble, Parse
<1>3. CASE f = "compressV2"
  <2>1. Head(p) \notin {NoCompress, NoCompressSwap, LZOCompress, V2Indicator}
    BY <1>3 DEF Ambiguous
  <2>2. Assemble(f, l, p) = p
    BY <1>3, <2>1 DEF Assemble
  <2> QED BY <2>1, <2>2, NoHeader
<1>4. CASE f \in {"compress", "compLZO"} /\ l /\ Compressible(p)
  <2> DEFINE c == Compressed(p)
             q == <<LZOCompress>> \o c
  <2>1. c \in Seq(S) /\ IsCompressed(c) /\ Decompressed(c) = p
    BY <1>1, <1>4, LZOBack
  <2>2. Assemble(f, l, p) = q
    BY <1>4 DEF Assemble
  <2> HIDE DEF c
  <2>3. Head(q) = LZOCompress /\ Tail(q) = c
    BY <1>1, <2>1, Pushed
  <2> HIDE DEF q
  <2>4. Parse(f, l, q) = {Taken(Decompressed(Tail(q)))}
    BY <1>4, <2>1, <2>3 DEF Parse, LZOCompress, NoCompress, NoCompressSwap
  <2> QED BY <2>1, <2>2, <2>3, <2>4
<1>5. CASE f = "compress" /\ ~l
  <2> DEFINE q == Swapped(p)
  <2>1. /\ Head(q) = NoCompressSwap
        /\ <<q[Len(q)]>> \o SubSeq(q, 2, Len(q) - 1) = p
    BY <1>1, SwapBack
  <2>2. Assemble(f, l, p) = q
    BY <1>5 DEF Assemble
  <2> HIDE DEF q
  <2>3. Parse(f, l, q) = {Taken(<<q[Len(q)]>> \o SubSeq(q, 2, Len(q) - 1))}
    BY <1>5, <2>1 DEF Parse, NoCompress, NoCompressSwap, LZOCompress
  <2> QED BY <2>1, <2>2, <2>3
<1>6. CASE /\ f \in {"compress", "compLZO"} /\ ~ (l /\ Compressible(p))
           /\ ~ (f = "compress" /\ ~l)
  <2> DEFINE q == <<NoCompress>> \o p
  <2>1. Head(q) = NoCompress /\ Tail(q) = p
    BY <1>1, Pushed
  <2>2. Assemble(f, l, p) = q
    BY <1>6 DEF Assemble
  <2> HIDE DEF q
  <2>3. Parse(f, l, q) = {Taken(Tail(q))}
    BY <1>6, <2>1 DEF Parse, NoCompress, NoCompressSwap, LZOCompress
  <2> QED BY <2>1, <2>2, <2>3
<1> QED BY <1>2, <1>3, <1>4, <1>5, <1>6 DEF Framings

\* A packet is either taken or refused for one of two reasons.
LEMMA ParseOutcome ==
    ASSUME NEW f, NEW l, NEW q, NEW outcome \in Parse(f, l, q)
    PROVE  \/ \E x : outcome = Taken(x)
           \/ outcome \in {Refused("compression"), Refused("lzo")}
<1>1. CASE f = "disabled"
  BY <1>1 DEF Parse
<1>2. CASE f # "disabled" /\ Head(q) = NoCompress
  BY <1>2 DEF Parse, NoCompress, NoCompressSwap, LZOCompress, V2Indicator
<1>3. CASE f # "disabled" /\ Head(q) = NoCompressSwap
  BY <1>3 DEF Parse, NoCompress, NoCompressSwap, LZOCompress, V2Indicator
<1>4. CASE f # "disabled" /\ Head(q) = LZOCompress
  BY <1>4 DEF Parse, NoCompress, NoCompressSwap, LZOCompress, V2Indicator
<1>5. CASE f # "disabled" /\ Head(q) = V2Indicator /\ f = "compressV2"
  <2>1. Parse(f, l, q) =
            IF q[2] # V2Uncompressed THEN {Refused("compression")}
            ELSE {Taken(SubSeq(q, 3, Len(q)) \o <<byte>>) : byte \in Residue}
    BY <1>5 DEF Parse, NoCompress, NoCompressSwap, LZOCompress, V2Indicator
  <2>2. CASE q[2] # V2Uncompressed
    BY <2>1, <2>2
  <2>3. CASE q[2] = V2Uncompressed
    <3>1. outcome \in {Taken(SubSeq(q, 3, Len(q)) \o <<byte>>) : byte \in Residue}
      BY <2>1, <2>3
    <3> QED BY <3>1, Zenon
  <2> QED BY <2>2, <2>3
<1>6. CASE /\ f # "disabled" /\ Head(q) \notin {NoCompress, NoCompressSwap, LZOCompress}
           /\ ~ (Head(q) = V2Indicator /\ f = "compressV2")
  BY <1>6 DEF Parse
<1> QED BY <1>1, <1>2, <1>3, <1>4, <1>5, <1>6

-----------------------------------------------------------------------------
\* The data path is a user of the replay window.

LEMMA PathInitWindow == PathInit => Init
BY DEF PathInit

LEMMA PathStepWindow == [PathNext]_pathVars => [Next]_vars
<1> SUFFICES ASSUME [PathNext]_pathVars PROVE [Next]_vars
  OBVIOUS
<1>1. CASE UNCHANGED pathVars
  BY <1>1 DEF pathVars
<1>2. CASE BeginDecrypt \/ DecryptFails \/ EndDecrypt \/ EncryptOverflow
  BY <1>2 DEF BeginDecrypt, DecryptFails, EndDecrypt, EncryptOverflow
<1>3. ASSUME NEW id \in Ids, Decrypt(id) PROVE Next
  BY <1>3 DEF Decrypt, Next
<1>4. ASSUME NEW n \in 1 .. MaxBatch, Encrypt(n) \/ EncryptFails(n) PROVE UNCHANGED vars
  BY <1>4 DEF Encrypt, EncryptFails
<1> QED BY <1>1, <1>2, <1>3, <1>4 DEF PathNext

LEMMA PathWindow == PathSpec => Spec
BY PathInitWindow, PathStepWindow, PTL DEF PathSpec, Spec

\* decryptPackets lets no id through twice, however its calls and their packets
\* are arranged, and also when calls fail.
THEOREM PathNoReplay == PathSpec => []NoReplay
BY PathWindow, ReplaySafe, PTL

\* Nor does a call that fails half way leave the bitmap in disorder.
THEOREM PathBitmap == PathSpec => []WindowInv
BY PathWindow, BitmapCorrect, PTL

\* The whole data path implements the window over the full history of ids.
THEOREM PathImplementsWindow == PathSpec => ImplementsWindow
BY PathWindow, WindowRefinement, PTL

-----------------------------------------------------------------------------
\* Ids of outbound packets.

\* The counter never passes the gap, and what was sent is at most what it counted.
OutInv ==
    /\ outPacketId \in 0 .. MaxPacketId + MaxBatch
    /\ sent \in [Ids -> {0, 1}]
    /\ \A id \in Ids : id = 0 \/ id > outPacketId => sent[id] = 0

LEMMA OutInit == PathInit => OutInv
BY DataPathAssumption, ReplayAssumption DEF PathInit, OutInv, Ids

\* Below the gap the counter does not wrap around.
LEMMA FreshIds ==
    ASSUME OutInv, outPacketId <= MaxPacketId, NEW n \in 1 .. MaxBatch
    PROVE  /\ (outPacketId + n) % IdSpace = outPacketId + n
           /\ NextIds(n) = outPacketId + 1 .. outPacketId + n
<1>1. /\ outPacketId \in Nat /\ MaxBatch \in Nat /\ IdSpace \in Nat
      /\ outPacketId + MaxBatch < IdSpace
  BY DataPathAssumption, ReplayAssumption DEF OutInv
<1>2. \A i \in 1 .. n : (outPacketId + i) % IdSpace = outPacketId + i
  <2> SUFFICES ASSUME NEW i \in 1 .. n PROVE (outPacketId + i) % IdSpace = outPacketId + i
    OBVIOUS
  <2> QED BY <1>1, ModUnique, outPacketId + i = IdSpace * 0 + (outPacketId + i)
<1>3. NextIds(n) = {outPacketId + i : i \in 1 .. n}
  BY <1>2 DEF NextIds
<1>4. {outPacketId + i : i \in 1 .. n} = outPacketId + 1 .. outPacketId + n
  <2>1. ASSUME NEW x \in outPacketId + 1 .. outPacketId + n
        PROVE  \E i \in 1 .. n : x = outPacketId + i
    <3>1. x - outPacketId \in 1 .. n /\ x = outPacketId + (x - outPacketId)
      BY <1>1, <2>1
    <3> QED BY <3>1
  <2> QED BY <1>1, <2>1
<1>5. n \in 1 .. n
  OBVIOUS
<1> QED BY <1>2, <1>3, <1>4, <1>5

LEMMA OutStep == OutInv /\ [PathNext]_pathVars => OutInv'
<1> SUFFICES ASSUME OutInv, [PathNext]_pathVars PROVE OutInv'
  OBVIOUS
<1>1. CASE UNCHANGED <<outPacketId, sent>>
  BY <1>1 DEF OutInv, Ids
<1>2. ASSUME NEW n \in 1 .. MaxBatch, Encrypt(n) \/ EncryptFails(n) PROVE OutInv'
  <2>1. /\ outPacketId <= MaxPacketId
        /\ outPacketId' = (outPacketId + n) % IdSpace
        /\ \/ sent' = [id \in Ids |-> IF id \in NextIds(n) THEN sent[id] + 1 ELSE sent[id]]
           \/ sent' = sent
    BY <1>2 DEF Encrypt, EncryptFails, Consume
  <2>2. outPacketId' = outPacketId + n /\ NextIds(n) = outPacketId + 1 .. outPacketId + n
    BY <2>1, FreshIds
  <2>3. outPacketId \in Nat /\ MaxPacketId \in Nat /\ MaxBatch \in Nat /\ Ids \subseteq Nat
    BY DataPathAssumption, ReplayAssumption DEF OutInv, Ids
  <2> QED BY <2>1, <2>2, <2>3 DEF OutInv
<1>3. ASSUME NEW id \in Ids, Decrypt(id) PROVE UNCHANGED <<outPacketId, sent>>
  BY <1>3 DEF Decrypt, Fail, Proceed, outbound
<1>4. CASE BeginDecrypt \/ DecryptFails \/ EndDecrypt \/ EncryptOverflow
  BY <1>1, <1>4 DEF BeginDecrypt, DecryptFails, EndDecrypt, EncryptOverflow, Fail, outbound
<1>5. CASE UNCHANGED pathVars
  BY <1>1, <1>5 DEF pathVars, outbound
<1> QED BY <1>1, <1>2, <1>3, <1>4, <1>5 DEF PathNext

\* No id is used for two packets of a key, although encryptPackets looks at the
\* counter once per batch: the batch ends within the gap above maxPacketId.
THEOREM OutIdsUnique == PathSpec => []OutIdsOnce
<1>1. OutInv => OutIdsOnce
  BY DataPathAssumption, ReplayAssumption DEF OutInv, OutIdsOnce, Ids
<1> QED BY <1>1, OutInit, OutStep, PTL DEF PathSpec

-----------------------------------------------------------------------------
\* What the tunnel gets.

\* The elements of a sequence.
Listed(s) == {s[n] : n \in DOMAIN s}

IsSequence(s) == \E S : s \in Seq(S)

\* The packets that the tunnel should have, and has, or will have after the call.
Due == {<<id, PayloadOf(id)>> : id \in Carried}
Had == written \cup Listed(call.inPackets)

Clear == \A id \in Carried : ~Ambiguous(framing, PayloadOf(id))

\* In the middle of a call the packets of its list make up for what is not written
\* yet, which is why the property speaks of idle states only.
CarryInv ==
    /\ delivered \in [Ids -> Nat]
    /\ framing \in Framings /\ lzo \in BOOLEAN
    /\ IsSequence(call.inPackets)
    /\ ~call.running => call.inPackets = <<>>
    /\ stopped = "no" /\ Clear => Had = Due
    /\ StopsForCause

LEMMA ListedConcat ==
    ASSUME NEW s, NEW t, IsSequence(s), IsSequence(t)
    PROVE  IsSequence(s \o t) /\ Listed(s \o t) = Listed(s) \cup Listed(t)
<1>0. PICK S : s \in Seq(S) /\ t \in Seq(S)
  <2>1. PICK A, B : s \in Seq(A) /\ t \in Seq(B)
    BY DEF IsSequence
  <2>2. A \subseteq A \cup B /\ B \subseteq A \cup B
    OBVIOUS
  <2> QED BY <2>1, <2>2, SeqMonotonic
<1>1. /\ s \o t \in Seq(S) /\ Len(s \o t) = Len(s) + Len(t)
      /\ \A i \in 1 .. Len(s) + Len(t) :
            (s \o t)[i] = IF i <= Len(s) THEN s[i] ELSE t[i - Len(s)]
  BY <1>0, ConcatProperties
<1>2. /\ Len(s) \in Nat /\ Len(t) \in Nat
      /\ DOMAIN s = 1 .. Len(s) /\ DOMAIN t = 1 .. Len(t)
      /\ DOMAIN (s \o t) = 1 .. Len(s) + Len(t)
  BY <1>0, <1>1, LenProperties
<1>3. ASSUME NEW x \in Listed(s \o t) PROVE x \in Listed(s) \cup Listed(t)
  <2>1. PICK i \in 1 .. Len(s) + Len(t) : x = (s \o t)[i]
    BY <1>2, <1>3 DEF Listed
  <2>2. CASE i <= Len(s)
    BY <1>1, <1>2, <2>1, <2>2 DEF Listed
  <2>3. CASE ~ (i <= Len(s))
    <3>1. i - Len(s) \in DOMAIN t /\ x = t[i - Len(s)]
      BY <1>1, <1>2, <2>1, <2>3
    <3> QED BY <3>1 DEF Listed
  <2> QED BY <2>2, <2>3
<1>4. ASSUME NEW x \in Listed(s) PROVE x \in Listed(s \o t)
  <2>1. PICK i \in 1 .. Len(s) : x = s[i]
    BY <1>2, <1>4 DEF Listed
  <2>2. i \in DOMAIN (s \o t) /\ x = (s \o t)[i]
    BY <1>1, <1>2, <2>1
  <2> QED BY <2>2 DEF Listed
<1>5. ASSUME NEW x \in Listed(t) PROVE x \in Listed(s \o t)
  <2>1. PICK i \in 1 .. Len(t) : x = t[i]
    BY <1>2, <1>5 DEF Listed
  <2>2. Len(s) + i \in DOMAIN (s \o t) /\ x = (s \o t)[Len(s) + i]
    BY <1>1, <1>2, <2>1
  <2> QED BY <2>2 DEF Listed
<1> QED BY <1>1, <1>3, <1>4, <1>5 DEF IsSequence

LEMMA ListedShort ==
    /\ IsSequence(<<>>) /\ Listed(<<>>) = {}
    /\ \A x : IsSequence(<<x>>) /\ Listed(<<x>>) = {x}
<1>1. IsSequence(<<>>)
  BY EmptySeq DEF IsSequence
<1>2. ASSUME NEW x PROVE IsSequence(<<x>>)
  <2>1. <<x>> \in Seq({x})
    BY Singleton, x \in {x}
  <2> QED BY <2>1 DEF IsSequence
<1> QED BY <1>1, <1>2 DEF Listed

\* The payload of an id is one of the payloads, and not empty.
LEMMA PayloadType ==
    ASSUME NEW id \in Ids
    PROVE  PayloadOf(id) \in Seq(STRING) /\ PayloadOf(id) # <<>>
<1>1. Payloads \in Seq(Seq(STRING)) /\ Len(Payloads) \in Nat \ {0}
  BY DataPathAssumption, EmptySeq
<1>2. id % Len(Payloads) \in 0 .. Len(Payloads) - 1
  <2>1. PICK k \in Nat \ {0} : k = Len(Payloads)
    BY <1>1
  <2>2. id \in Int
    BY ReplayAssumption DEF Ids
  <2>3. id % k \in 0 .. k - 1
    BY <2>1, <2>2, DivMod
  <2> QED BY <2>1, <2>3
<1>3. 1 + (id % Len(Payloads)) \in 1 .. Len(Payloads)
  BY <1>1, <1>2
<1> QED BY <1>1, <1>3, DataPathAssumption, ElementOfSeq, LenProperties DEF PayloadOf

LEMMA CarryInit == PathInit => CarryInv
<1> SUFFICES ASSUME PathInit PROVE CarryInv
  OBVIOUS
<1>1. delivered = [id \in Ids |-> 0] /\ seen = {}
  BY DEF PathInit, Init, seen
<1>2. call = [running |-> FALSE, packets |-> 0, inPackets |-> <<>>]
  BY DEF PathInit, NoCall
<1>3. Had = {} /\ Due = {}
  BY <1>1, <1>2, ListedShort DEF PathInit, Had, Due, Carried
<1>4. IsSequence(call.inPackets) /\ IsSequence(<<>>)
  BY <1>2, ListedShort
<1> QED BY <1>1, <1>2, <1>3, <1>4 DEF PathInit, CarryInv, StopsForCause

\* What a check of the replay window does to the ids seen.
LEMMA CheckSeen ==
    ASSUME CarryInv, NEW id \in Ids, Check(id)
    PROVE  /\ delivered' \in [Ids -> Nat]
           /\ Replayed(id) => seen' = seen
           /\ ~Replayed(id) => seen' = seen \cup {id}
<1>1. delivered \in [Ids -> Nat]
  BY DEF CarryInv
<1>2. CASE Replayed(id)
  BY <1>1, <1>2 DEF Check, seen
<1>3. CASE ~Replayed(id)
  <2>1. delivered' = [delivered EXCEPT ![id] = @ + 1]
    BY <1>3 DEF Check
  <2> QED BY <1>1, <1>3, <2>1 DEF seen
<1> QED BY <1>2, <1>3

LEMMA FailKeeps ==
    ASSUME CarryInv, NEW error, Fail(error), delivered' \in [Ids -> Nat], error # "no",
           seen \subseteq seen',
           error \in {"compression", "lzo"} =>
               \E id \in seen' : Ambiguous(framing, PayloadOf(id))
    PROVE  CarryInv'
<1>1. IsSequence(call'.inPackets) /\ call'.inPackets = <<>>
  BY ListedShort DEF Fail, NoCall
<1>2. stopped' = error /\ framing' = framing /\ lzo' = lzo
  BY DEF Fail, config
<1>3. StopsForCause'
  BY <1>2 DEF StopsForCause
<1> QED BY <1>1, <1>2, <1>3 DEF CarryInv

LEMMA ProceedKeeps ==
    ASSUME CarryInv, NEW more, IsSequence(more), Proceed(more),
           delivered' \in [Ids -> Nat], seen \subseteq seen',
           stopped = "no" /\ Clear' => Clear /\ Due' = Due \cup Listed(more)
    PROVE  CarryInv'
<1>1. /\ call' = [running |-> TRUE, packets |-> call.packets + 1,
                  inPackets |-> call.inPackets \o more]
      /\ written' = written /\ framing' = framing /\ lzo' = lzo /\ stopped' = stopped
  BY DEF Proceed, config
<1>2. call'.running /\ call'.inPackets = call.inPackets \o more
  BY <1>1
<1>3. IsSequence(call'.inPackets) /\ Had' = Had \cup Listed(more)
  BY <1>1, <1>2, ListedConcat DEF CarryInv, Had
<1>4. StopsForCause'
  BY <1>1 DEF CarryInv, StopsForCause
<1>5. stopped' = "no" /\ Clear' => Had' = Due'
  BY <1>1, <1>3 DEF CarryInv
<1> QED BY <1>1, <1>2, <1>3, <1>4, <1>5 DEF CarryInv

\* A packet of the decryptPackets loop: refused by the window, or by the framing
\* for a reason, or carried on as it was sent.
LEMMA DecryptKeeps ==
    ASSUME CarryInv, NEW id \in Ids, Decrypt(id)
    PROVE  CarryInv'
<1> DEFINE p == PayloadOf(id)
<1>1. call.running /\ p \in Seq(STRING) /\ p # <<>>
  BY PayloadType DEF Decrypt, Decrypting
<1> HIDE DEF p
<1>2. CASE Overflow(id) /\ Fail("overflow")
  <2>1. delivered' = delivered
    BY <1>2 DEF Overflow
  <2>2. delivered' \in [Ids -> Nat] /\ seen \subseteq seen'
    BY <2>1 DEF CarryInv, seen
  <2> QED BY <1>2, <2>2, FailKeeps
<1>3. CASE Check(id) /\ Replayed(id) /\ Proceed(<<>>)
  <2>1. delivered' \in [Ids -> Nat] /\ seen' = seen /\ framing' = framing
    BY <1>3, CheckSeen DEF Proceed, config
  <2>2. Carried' = Carried
    BY <2>1 DEF Carried, PayloadOf
  <2>3. Clear' = Clear /\ Due' = Due
    BY <2>1, <2>2 DEF Clear, Due
  <2> QED BY <1>3, <2>1, <2>3, ListedShort, ProceedKeeps
<1>4. CASE /\ Check(id) /\ ~Replayed(id)
           /\ \E outcome \in Parse(framing, lzo, Assemble(framing, lzo, p)) :
                \/ outcome.error # "none" /\ Fail(outcome.error)
                \/ outcome.error = "none" /\ outcome.payload = Ping /\ Proceed(<<>>)
                \/ /\ outcome.error = "none" /\ outcome.payload # Ping
                   /\ Proceed(<<<<id, outcome.payload>>>>)
  <2>1. delivered' \in [Ids -> Nat] /\ seen' = seen \cup {id}
    BY <1>4, CheckSeen
  <2>2. framing' = framing
    BY <1>4 DEF Proceed, Fail, config
  <2>3. Carried' = Carried \cup (IF p # Ping THEN {id} ELSE {})
    BY <2>1 DEF Carried, p
  <2>4. PICK outcome \in Parse(framing, lzo, Assemble(framing, lzo, p)) :
                \/ outcome.error # "none" /\ Fail(outcome.error)
                \/ outcome.error = "none" /\ outcome.payload = Ping /\ Proceed(<<>>)
                \/ /\ outcome.error = "none" /\ outcome.payload # Ping
                   /\ Proceed(<<<<id, outcome.payload>>>>)
    BY <1>4
  <2>5. Ambiguous(framing, p) \/ outcome = Taken(p)
    BY <1>1, <2>4, FramingCarries DEF CarryInv
  <2>6. CASE outcome.error # "none" /\ Fail(outcome.error)
    <3>1. Ambiguous(framing, p)
      BY <2>5, <2>6 DEF Taken
    <3>2. \E i \in seen' : Ambiguous(framing, PayloadOf(i))
      BY <2>1, <3>1 DEF p
    <3>3. outcome.error # "no"
      BY ParseOutcome DEF Taken, Refused
    <3> QED BY <2>1, <2>6, <3>2, <3>3, FailKeeps
  <2>7. CASE outcome.error = "none" /\ outcome.payload = Ping /\ Proceed(<<>>)
    <3>1. Ambiguous(framing, p) \/ p = Ping
      BY <2>5, <2>7 DEF Taken
    <3>2. ASSUME Clear' PROVE Clear /\ Due' = Due
      <4>1. Clear
        BY <2>2, <2>3, <3>2 DEF Clear
      <4>2. Carried' = Carried
        BY <2>2, <2>3, <3>1, <3>2 DEF Clear, p
      <4> QED BY <4>1, <4>2 DEF Due
    <3> QED BY <2>1, <2>7, <3>2, ListedShort, ProceedKeeps
  <2>8. CASE /\ outcome.error = "none" /\ outcome.payload # Ping
             /\ Proceed(<<<<id, outcome.payload>>>>)
    <3> DEFINE more == <<<<id, outcome.payload>>>>
    <3>1. IsSequence(more)
      BY ListedShort
    <3>2. ASSUME Clear' PROVE Clear /\ Due' = Due \cup Listed(more)
      <4>1. Clear
        BY <2>2, <2>3, <3>2 DEF Clear
      <4>2. ~ (Ambiguous(framing, p) /\ p # Ping)
        BY <2>2, <2>3, <3>2 DEF Clear, p
      <4>3. ~ Ambiguous(framing, Ping)
        BY Head(Ping) = "2a" DEF Ping, Ambiguous, NoCompress, NoCompressSwap, LZOCompress,
              V2Indicator
      <4>4. outcome.payload = p
        BY <2>5, <4>2, <4>3 DEF Taken
      <4>5. Listed(more) = {<<id, p>>}
        BY <4>4, ListedShort
      <4>6. Carried' = Carried \cup {id}
        BY <2>3, <2>8, <4>4
      <4>7. Due' = Due \cup {<<id, p>>}
        BY <4>6 DEF Due, p
      <4> QED BY <4>1, <4>5, <4>7
    <3> QED BY <2>1, <2>8, <3>1, <3>2, ProceedKeeps
  <2> QED BY <2>4, <2>6, <2>7, <2>8
<1> QED BY <1>2, <1>3, <1>4 DEF Decrypt, p

\* A step that leaves the window alone, and of the tunnel and the call what both
\* hold together.
LEMMA OtherKeeps ==
    ASSUME CarryInv, UNCHANGED vars, UNCHANGED config, Had' = Had,
           IsSequence(call.inPackets)', ~call'.running => call'.inPackets = <<>>,
           stopped' = stopped \/ stopped' \in {"overflow", "crypto"}
    PROVE  CarryInv'
<1>1. delivered' = delivered /\ framing' = framing /\ lzo' = lzo
  BY DEF vars, config
<1>2. seen' = seen /\ Carried' = Carried
  BY <1>1 DEF seen, Carried, PayloadOf
<1>3. Clear' = Clear /\ Due' = Due
  BY <1>1, <1>2 DEF Clear, Due
<1>4. StopsForCause'
  BY <1>1, <1>2 DEF CarryInv, StopsForCause
<1>5. stopped' = "no" /\ Clear' => Had' = Due'
  BY <1>3 DEF CarryInv
<1> QED BY <1>1, <1>4, <1>5 DEF CarryInv

LEMMA CarryStep == CarryInv /\ [PathNext]_pathVars => CarryInv'
<1> SUFFICES ASSUME CarryInv, [PathNext]_pathVars PROVE CarryInv'
  OBVIOUS
<1>1. CASE UNCHANGED <<vars, config, call, written>>
           /\ (stopped' = stopped \/ stopped' \in {"overflow", "crypto"})
  BY <1>1, OtherKeeps DEF CarryInv, Had
<1>2. CASE BeginDecrypt
  <2>1. call'.running /\ call'.inPackets = <<>> /\ call.inPackets = <<>>
    BY <1>2 DEF BeginDecrypt, Idle, NoCall, CarryInv
  <2>2. Had' = Had /\ IsSequence(call.inPackets)'
    BY <1>2, <2>1, ListedShort DEF BeginDecrypt, Had, CarryInv
  <2> QED BY <1>2, <2>1, <2>2, OtherKeeps DEF BeginDecrypt
<1>3. CASE DecryptFails
  <2>1. delivered' \in [Ids -> Nat] /\ seen \subseteq seen'
    BY <1>3 DEF DecryptFails, vars, CarryInv, seen
  <2>2. PICK error \in {"short", "crypto"} : Fail(error)
    BY <1>3 DEF DecryptFails
  <2> QED BY <2>1, <2>2, FailKeeps
<1>4. CASE EndDecrypt
  <2>1. call'.inPackets = <<>> /\ written' = written \cup Listed(call.inPackets)
    BY <1>4 DEF EndDecrypt, NoCall, Listed
  <2>2. Had' = Had /\ IsSequence(call.inPackets)'
    BY <2>1, ListedShort DEF Had
  <2> QED BY <1>4, <2>1, <2>2, OtherKeeps DEF EndDecrypt
<1>5. ASSUME NEW n \in 1 .. MaxBatch, Encrypt(n) \/ EncryptFails(n) PROVE CarryInv'
  BY <1>1, <1>5 DEF Encrypt, EncryptFails, inbound
<1>6. CASE EncryptOverflow
  BY <1>1, <1>6 DEF EncryptOverflow, inbound
<1>7. CASE UNCHANGED pathVars
  BY <1>1, <1>7 DEF pathVars, inbound
<1>8. ASSUME NEW id \in Ids, Decrypt(id) PROVE CarryInv'
  BY <1>8, DecryptKeeps
<1> QED BY <1>2, <1>3, <1>4, <1>5, <1>6, <1>7, <1>8 DEF PathNext

LEMMA Carries == PathSpec => []CarryInv
BY CarryInit, CarryStep, PTL DEF PathSpec

\* As long as the session runs, the tunnel gets every packet that the replay window
\* let through, as it was sent, whatever the link repeats, reorders and damages.
THEOREM PathCarries == PathSpec => []TunnelGetsAll
<1>1. CarryInv => TunnelGetsAll
  BY ListedShort DEF CarryInv, TunnelGetsAll, Idle, Had, Due, Clear
<1> QED BY <1>1, Carries, PTL

\* A decrypted packet stops the session only by the ambiguity of V2.
THEOREM PathStops == PathSpec => []StopsForCause
<1>1. CarryInv => StopsForCause
  BY DEF CarryInv
<1> QED BY <1>1, Carries, PTL
=============================================================================

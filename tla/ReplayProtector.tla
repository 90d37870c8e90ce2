-------------------------- MODULE ReplayProtector --------------------------
(***************************************************************************)
(* The sliding bitmap of CTunnelKitOpenVPNProtocol/ReplayProtector.m, and  *)
(* the packet id checks that DataPath.m makes around it for every inbound  *)
(* data packet.  The network may reorder, repeat or lose packets, so the   *)
(* next id is any id of the wire.                                          *)
(***************************************************************************)
EXTENDS Integers, FiniteSets

CONSTANTS BitmapLen,     \* words of the bitmap (4 in the code)
          RedundantBits, \* bits of a word (32)
          IdSpace,       \* ids are unsigned integers below IdSpace (2^32)
          MaxPacketId    \* DataPath.maxPacketId (2^32 - 1 - 10000)

HiddenWinsize == BitmapLen * RedundantBits
ReplayWinsize == HiddenWinsize - RedundantBits

\* The gap that DataPath leaves under 2^32 is wider than the replay window.
ASSUME ReplayAssumption ==
    /\ BitmapLen \in Nat \ {0}
    /\ RedundantBits \in Nat \ {0}
    /\ IdSpace \in Nat
    /\ MaxPacketId \in Nat
    /\ MaxPacketId + ReplayWinsize < IdSpace

VARIABLES highestPacketId, \* the highest id accepted
          bitmap,          \* one set of bits per word
          delivered,       \* how often the packet of each id went up to the tunnel
          verdict          \* what became of the last packet: <<id, outcome>>

vars == <<highestPacketId, bitmap, delivered, verdict>>

Ids   == 0 .. IdSpace - 1
Slots == 0 .. BitmapLen - 1
Bits  == 0 .. RedundantBits - 1

Word(id) == id \div RedundantBits
Bit(id)  == id % RedundantBits
Slot(w)  == w % BitmapLen

-----------------------------------------------------------------------------
\* Mutant: the word being overwritten is taken for part of the window.
TooOldWholeBitmap(id) == (HiddenWinsize + id) % IdSpace < highestPacketId

\* The sum is computed in 32 unsigned bits and wraps around.
TooOld(id) == (ReplayWinsize + id) % IdSpace < highestPacketId

Least(a, b) == IF a < b THEN a ELSE b

\* Mutant: the last word that comes into the window is not cleared.
ClearedOneShort(id) ==
    LET current == Word(highestPacketId)
        diff    == Least(Word(id) - current, BitmapLen)
    IN  {Slot(bid + current + 1) : bid \in 0 .. diff - 2}

\* The words that come into the window when id becomes the highest one.
Cleared(id) ==
    LET current == Word(highestPacketId)
        diff    == Least(Word(id) - current, BitmapLen)
    IN  {Slot(bid + current + 1) : bid \in 0 .. diff - 1}

\* The bitmap after the window has moved up to id, if it has to.
Slid(id) == IF id > highestPacketId
            THEN [s \in Slots |-> IF s \in Cleared(id) THEN {} ELSE bitmap[s]]
            ELSE bitmap

Marked(id) == Bit(id) \in Slid(id)[Slot(Word(id))]

Replayed(id) == id = 0 \/ TooOld(id) \/ Marked(id)

\* What isReplayedPacketId leaves behind: nothing when it returns early, the
\* bit of id and the new highest id otherwise.
Remember(id) ==
    IF id = 0 \/ TooOld(id)
    THEN UNCHANGED <<highestPacketId, bitmap>>
    ELSE /\ highestPacketId' = IF id > highestPacketId THEN id ELSE highestPacketId
         /\ bitmap' = [Slid(id) EXCEPT ![Slot(Word(id))] = @ \cup {Bit(id)}]

-----------------------------------------------------------------------------
Init == /\ highestPacketId = 0
        /\ bitmap = [s \in Slots |-> {}]
        /\ delivered = [id \in Ids |-> 0]
        /\ verdict = <<0, "dropped">>

\* decryptPackets fails on an id that is out of range, before the replay check.
Overflow(id) == /\ id > MaxPacketId
                /\ verdict' = <<id, "overflow">>
                /\ UNCHANGED <<highestPacketId, bitmap, delivered>>

\* decryptPackets passes the payload on unless the id is a replay.
Check(id) == /\ id <= MaxPacketId
             /\ Remember(id)
             /\ IF Replayed(id)
                THEN verdict' = <<id, "dropped">> /\ UNCHANGED delivered
                ELSE /\ verdict' = <<id, "delivered">>
                     /\ delivered' = [delivered EXCEPT ![id] = @ + 1]

Next == \E id \in Ids : Overflow(id) \/ Check(id)

Spec == Init /\ [][Next]_vars

-----------------------------------------------------------------------------
TypeOK == /\ highestPacketId \in 0 .. MaxPacketId
          /\ bitmap \in [Slots -> SUBSET Bits]
          /\ delivered \in [Ids -> Nat]
          /\ verdict \in Ids \X {"delivered", "dropped", "overflow"}

\* No packet is delivered twice, however late, reordered or repeated its copies
\* are (the purpose of isReplayedPacketId in decryptPackets).
NoReplay == \A id \in Ids : delivered[id] <= 1

seen == {id \in Ids : delivered[id] > 0}

\* The highest id is the one of a packet that was delivered, and id 0 never is.
HighestSeen == /\ \A id \in seen : 0 < id /\ id <= highestPacketId
               /\ highestPacketId = 0 \/ highestPacketId \in seen

\* The words of the bitmap stand for the last BitmapLen words of ids: there a
\* bit is set exactly when the packet of that id was delivered.
BitmapExact ==
    \A id \in Ids :
        Word(id) \in Word(highestPacketId) - BitmapLen + 1 .. Word(highestPacketId)
        => (Bit(id) \in bitmap[Slot(Word(id))] <=> id \in seen)

\* Why the fixed bitmap is enough: no stale bit survives in the window, no bit
\* of the window is forgotten (the loop that clears words in isReplayedPacketId).
WindowInv == HighestSeen /\ BitmapExact

\* The bitmap answers as the full history of ids would: no late packet inside
\* the window is lost, none outside it or repeated gets through.
Reference == INSTANCE ReplayWindow WITH Window <- ReplayWinsize
ImplementsWindow == Reference!Spec

=============================================================================

----------------------- MODULE ReplayProtectorProofs -----------------------
(***************************************************************************)
(* For every size of the bitmap: no packet is delivered twice, and the     *)
(* bitmap decides as the full history of packet ids would.                 *)
(***************************************************************************)
EXTENDS ReplayProtector, TLAPS

-----------------------------------------------------------------------------
\* Arithmetic of words and slots.

\* Quotient and remainder put a number back together.
LEMMA DivMod ==
    ASSUME NEW x \in Int, NEW n \in Nat \ {0}
    PROVE  /\ x \div n \in Int
           /\ x % n \in 0 .. n - 1
           /\ x = n * (x \div n) + (x % n)
  OBVIOUS

\* A larger multiplier moves the product by at least n.
LEMMA NextMultiple ==
    ASSUME NEW a \in Int, NEW b \in Int, NEW n \in Nat \ {0}, a < b
    PROVE  n * a + n <= n * b
  OBVIOUS

\* A remainder is determined by any way of writing the number.
LEMMA ModUnique ==
    ASSUME NEW x \in Int, NEW n \in Nat \ {0}, NEW q \in Int, NEW r \in 0 .. n - 1,
           x = n * q + r
    PROVE  x % n = r /\ x \div n = q
<1> DEFINE p == x \div n
<1>1. p \in Int /\ x % n \in 0 .. n - 1 /\ x = n * p + (x % n)
  BY DivMod
<1> HIDE DEF p
<1>2. ~ (p < q)
  <2> SUFFICES ASSUME p < q PROVE FALSE
    OBVIOUS
  <2>1. n * p + n <= n * q
    BY <1>1, NextMultiple
  <2> QED BY <1>1, <2>1
<1>3. ~ (q < p)
  <2> SUFFICES ASSUME q < p PROVE FALSE
    OBVIOUS
  <2>1. n * q + n <= n * p
    BY <1>1, NextMultiple
  <2> QED BY <1>1, <2>1
<1>4. p = q
  BY <1>1, <1>2, <1>3
<1> QED BY <1>1, <1>4 DEF p

\* Two different words less than BitmapLen apart have different slots.
LEMMA SlotsDiffer ==
    ASSUME NEW v \in Int, NEW w \in Int, v < w, w - v < BitmapLen
    PROVE  Slot(v) # Slot(w)
<1>1. BitmapLen \in Nat \ {0}
  BY ReplayAssumption
<1>2. PICK q \in Int : v = BitmapLen * q + (v % BitmapLen)
  BY <1>1, DivMod
<1>3. v % BitmapLen \in 0 .. BitmapLen - 1
  BY <1>1, DivMod
<1> SUFFICES ASSUME v % BitmapLen = w % BitmapLen PROVE FALSE
  BY DEF Slot
<1>4. PICK p \in Int : w = BitmapLen * p + (w % BitmapLen)
  BY <1>1, DivMod
<1>5. q < p
  <2>1. CASE p = q BY <1>1, <1>2, <1>3, <1>4, <2>1
  <2>2. CASE p < q
    <3>1. BitmapLen * p + BitmapLen <= BitmapLen * q
      BY <1>1, <2>2, NextMultiple
    <3> QED BY <1>1, <1>2, <1>3, <1>4, <3>1
  <2> QED BY <2>1, <2>2
<1>6. BitmapLen * q + BitmapLen <= BitmapLen * p
  BY <1>1, <1>5, NextMultiple
<1> QED BY <1>1, <1>2, <1>3, <1>4, <1>6

\* BitmapLen consecutive words take every slot.
LEMMA SlotsCovered ==
    ASSUME NEW c \in Int, NEW w \in Int
    PROVE  \E bid \in 0 .. BitmapLen - 1 : Slot(bid + c + 1) = Slot(w)
<1> DEFINE bid == (w - c - 1) % BitmapLen
           q == (w - c - 1) \div BitmapLen
<1>1. BitmapLen \in Nat \ {0} /\ w - c - 1 \in Int
  BY ReplayAssumption
<1>2. q \in Int /\ bid \in 0 .. BitmapLen - 1 /\ w - c - 1 = BitmapLen * q + bid
  BY <1>1, DivMod
<1>3. PICK p \in Int : w = BitmapLen * p + (w % BitmapLen)
  BY <1>1, DivMod
<1>4. w % BitmapLen \in 0 .. BitmapLen - 1
  BY <1>1, DivMod
<1> HIDE DEF bid, q
<1>5. bid + c + 1 = BitmapLen * (p - q) + (w % BitmapLen)
  BY <1>1, <1>2, <1>3, <1>4
<1>6. (bid + c + 1) % BitmapLen = w % BitmapLen
  <2>1. bid + c + 1 \in Int /\ p - q \in Int
    BY <1>1, <1>2
  <2> QED BY <1>1, <1>4, <1>5, <2>1, ModUnique
<1> QED BY <1>2, <1>6 DEF Slot

\* An id is the position of its bit in its word, and words follow the ids.
LEMMA IdParts ==
    ASSUME NEW x \in Int
    PROVE  /\ Word(x) \in Int
           /\ Bit(x) \in Bits
           /\ x = RedundantBits * Word(x) + Bit(x)
  BY ReplayAssumption, DivMod DEF Word, Bit, Bits

LEMMA SlotInBitmap ==
    ASSUME NEW x \in Int
    PROVE  Slot(Word(x)) \in Slots
<1>1. Word(x) \in Int /\ BitmapLen \in Nat \ {0}
  BY IdParts, ReplayAssumption
<1> QED BY <1>1, DivMod DEF Slot, Slots

\* The window is not negative, and every id below maxPacketId is an id.
LEMMA Sizes ==
    /\ ReplayWinsize \in Nat
    /\ IdSpace \in Nat \ {0}
    /\ 0 .. MaxPacketId \subseteq Ids
BY ReplayAssumption DEF ReplayWinsize, HiddenWinsize, Ids

LEMMA WordsOrdered ==
    ASSUME NEW x \in Int, NEW y \in Int, x <= y
    PROVE  Word(x) <= Word(y)
<1> SUFFICES ASSUME Word(y) < Word(x) PROVE FALSE
  BY IdParts
<1>1. RedundantBits * Word(y) + RedundantBits <= RedundantBits * Word(x)
  BY ReplayAssumption, IdParts, NextMultiple
<1> QED BY <1>1, ReplayAssumption, IdParts DEF Bits

\* An id that the window still covers lies in one of its BitmapLen words.
LEMMA WindowWords ==
    ASSUME NEW x \in Int, NEW h \in Int, h <= ReplayWinsize + x
    PROVE  Word(x) >= Word(h) - BitmapLen + 1
<1> DEFINE w == Word(h) - BitmapLen + 1
<1> SUFFICES ASSUME Word(x) < w PROVE FALSE
  BY IdParts, ReplayAssumption
<1>1. w \in Int
  BY IdParts, ReplayAssumption
<1>2. RedundantBits * Word(x) + RedundantBits <= RedundantBits * w
  BY <1>1, ReplayAssumption, IdParts, NextMultiple
<1>3. RedundantBits * w = RedundantBits * Word(h) - ReplayWinsize
  BY ReplayAssumption, IdParts DEF ReplayWinsize, HiddenWinsize
<1> QED BY <1>2, <1>3, ReplayAssumption, IdParts DEF Bits, ReplayWinsize, HiddenWinsize

-----------------------------------------------------------------------------
\* The inductive invariant: what the bitmap means, and no id delivered twice.
IInv == TypeOK /\ NoReplay /\ WindowInv

\* The highest id once the packet of id has been remembered.
NewHighest(id) == IF id > highestPacketId THEN id ELSE highestPacketId

\* The 32-bit sum does not wrap around for an id that decryptPackets lets
\* through, so the window is where it should be.
LEMMA NoWrap ==
    ASSUME TypeOK, NEW id \in 0 .. MaxPacketId
    PROVE  TooOld(id) <=> ReplayWinsize + id < highestPacketId
<1>1. ReplayWinsize \in Nat
  BY ReplayAssumption DEF ReplayWinsize, HiddenWinsize
<1>2. ReplayWinsize + id \in 0 .. IdSpace - 1 /\ IdSpace \in Nat \ {0}
  BY <1>1, ReplayAssumption
<1>3. (ReplayWinsize + id) % IdSpace = ReplayWinsize + id
  BY <1>1, <1>2, ModUnique
<1> QED BY <1>3 DEF TooOld

\* Sliding the window keeps the bitmap exact: the words that stay are not
\* touched, the words that come in are cleared.
LEMMA SlidExact ==
    ASSUME IInv, NEW id \in 1 .. MaxPacketId, ~ TooOld(id),
           NEW x \in Ids,
           Word(x) \in Word(NewHighest(id)) - BitmapLen + 1 .. Word(NewHighest(id))
    PROVE  Bit(x) \in Slid(id)[Slot(Word(x))] <=> x \in seen
<1> DEFINE h == highestPacketId
<1>1. /\ h \in 0 .. MaxPacketId /\ x \in Int /\ id \in Int /\ h \in Int
      /\ Word(x) \in Int /\ Word(h) \in Int /\ Word(id) \in Int
      /\ BitmapLen \in Nat \ {0}
  BY ReplayAssumption, IdParts DEF IInv, TypeOK, Ids
<1>2. CASE id <= h
  BY <1>1, <1>2 DEF IInv, WindowInv, BitmapExact, Slid, NewHighest
<1>3. CASE id > h
  <2>1. Slot(Word(x)) \in Slots
    BY <1>1, DivMod DEF Slot, Slots
  <2>2. Word(h) <= Word(id)
    BY <1>1, <1>3, WordsOrdered
  <2>3. Word(x) \in Word(id) - BitmapLen + 1 .. Word(id)
    BY <1>3 DEF NewHighest
  <2>4. CASE Word(x) <= Word(h)
    <3>1. Slot(Word(x)) \notin Cleared(id)
      <4> SUFFICES ASSUME NEW bid \in 0 .. Least(Word(id) - Word(h), BitmapLen) - 1,
                          Slot(bid + Word(h) + 1) = Slot(Word(x))
                   PROVE  FALSE
        BY DEF Cleared
      <4>1. /\ Word(x) < bid + Word(h) + 1
            /\ bid + Word(h) + 1 - Word(x) < BitmapLen
            /\ bid + Word(h) + 1 \in Int
        BY <1>1, <2>2, <2>3, <2>4 DEF Least
      <4> QED BY <1>1, <4>1, SlotsDiffer
    <3>2. Slid(id)[Slot(Word(x))] = bitmap[Slot(Word(x))]
      BY <1>3, <2>1, <3>1 DEF Slid
    <3>3. Word(x) \in Word(h) - BitmapLen + 1 .. Word(h)
      BY <1>1, <2>2, <2>3, <2>4
    <3> QED BY <3>2, <3>3 DEF IInv, WindowInv, BitmapExact
  <2>5. CASE Word(x) > Word(h)
    <3>1. x \notin seen
      <4>1. ~ (x <= h)
        BY <1>1, <2>5, WordsOrdered
      <4> QED BY <1>1, <4>1 DEF IInv, WindowInv, HighestSeen
    <3>2. Slot(Word(x)) \in Cleared(id)
      <4>1. CASE Word(id) - Word(h) < BitmapLen
        <5> DEFINE bid == Word(x) - Word(h) - 1
        <5>1. bid \in 0 .. Least(Word(id) - Word(h), BitmapLen) - 1
          BY <1>1, <2>3, <2>5, <4>1 DEF Least
        <5>2. bid + Word(h) + 1 = Word(x)
          BY <1>1
        <5> QED BY <5>1, <5>2 DEF Cleared
      <4>2. CASE ~ (Word(id) - Word(h) < BitmapLen)
        <5>1. Least(Word(id) - Word(h), BitmapLen) = BitmapLen
          BY <4>2 DEF Least
        <5>2. PICK bid \in 0 .. BitmapLen - 1 : Slot(bid + Word(h) + 1) = Slot(Word(x))
          BY <1>1, SlotsCovered
        <5> QED BY <5>1, <5>2 DEF Cleared
      <4> QED BY <4>1, <4>2
    <3>3. Slid(id)[Slot(Word(x))] = {}
      BY <1>3, <2>1, <3>2 DEF Slid
    <3> QED BY <3>1, <3>3
  <2> QED BY <1>1, <2>4, <2>5
<1> QED BY <1>1, <1>2, <1>3

\* The word of an id that is not too old is one of the window's words.
LEMMA IdInWindow ==
    ASSUME IInv, NEW id \in 1 .. MaxPacketId, ~ TooOld(id)
    PROVE  /\ id \in Ids
           /\ NewHighest(id) \in 1 .. MaxPacketId
           /\ Word(id) \in Word(NewHighest(id)) - BitmapLen + 1 .. Word(NewHighest(id))
<1>1. ReplayWinsize \in Nat /\ highestPacketId \in 0 .. MaxPacketId
  BY ReplayAssumption DEF ReplayWinsize, HiddenWinsize, IInv, TypeOK
<1>2. id \in Ids /\ id \in Int /\ NewHighest(id) \in 1 .. MaxPacketId
  BY <1>1, ReplayAssumption DEF Ids, NewHighest
<1>3. id <= NewHighest(id) /\ NewHighest(id) <= ReplayWinsize + id /\ NewHighest(id) \in Int
  <2>1. highestPacketId <= ReplayWinsize + id
    BY <1>1, NoWrap DEF IInv
  <2> QED BY <1>1, <2>1 DEF NewHighest
<1>4. Word(id) <= Word(NewHighest(id))
  BY <1>2, <1>3, WordsOrdered
<1>5. Word(id) >= Word(NewHighest(id)) - BitmapLen + 1
  BY <1>2, <1>3, WindowWords
<1> QED BY <1>2, <1>3, <1>4, <1>5, IdParts, ReplayAssumption

\* The answer of isReplayedPacketId is the one the full history gives.
LEMMA VerdictExact ==
    ASSUME IInv, NEW id \in 0 .. MaxPacketId
    PROVE  Replayed(id) <=> ~ (id > 0 /\ id \notin seen
                               /\ \A other \in seen : other <= id + ReplayWinsize)
<1>0. /\ ReplayWinsize \in Nat /\ highestPacketId \in 0 .. MaxPacketId
      /\ \A other \in seen : other \in Nat /\ 0 < other /\ other <= highestPacketId
      /\ highestPacketId = 0 \/ highestPacketId \in seen
  BY ReplayAssumption
  DEF ReplayWinsize, HiddenWinsize, IInv, TypeOK, WindowInv, HighestSeen, seen, Ids
<1>1. TooOld(id) <=> ~ (\A other \in seen : other <= id + ReplayWinsize)
  <2>1. TooOld(id) <=> ReplayWinsize + id < highestPacketId
    BY NoWrap DEF IInv
  <2> QED BY <1>0, <2>1
<1>2. CASE id = 0 \/ TooOld(id)
  BY <1>1, <1>2 DEF Replayed
<1>3. CASE id # 0 /\ ~ TooOld(id)
  <2>1. Marked(id) <=> id \in seen
    BY <1>3, IdInWindow, SlidExact DEF Marked
  <2> QED BY <1>1, <1>3, <2>1 DEF Replayed
<1> QED BY <1>2, <1>3

-----------------------------------------------------------------------------
LEMMA InitIInv == Init => IInv
<1> SUFFICES ASSUME Init PROVE IInv
  OBVIOUS
<1>1. TypeOK
  BY ReplayAssumption, Sizes DEF Init, TypeOK
<1>2. seen = {}
  BY DEF Init, seen, Ids
<1>3. NoReplay /\ HighestSeen /\ BitmapExact
  <2>1. \A x \in Ids : Slot(Word(x)) \in Slots
    BY SlotInBitmap DEF Ids
  <2> QED BY <1>2, <2>1 DEF Init, NoReplay, HighestSeen, BitmapExact, Ids
<1> QED BY <1>1, <1>3 DEF IInv, WindowInv

\* A packet that goes through the replay check, delivered or not.
LEMMA CheckIInv ==
    ASSUME IInv, NEW id \in Ids, Check(id)
    PROVE  IInv'
<1>0. id \in 0 .. MaxPacketId /\ id \in Nat
  BY ReplayAssumption DEF Ids, Check
<1>1. CASE id = 0 \/ TooOld(id)
  <2>1. UNCHANGED <<highestPacketId, bitmap, delivered>> /\ verdict' = <<id, "dropped">>
    BY <1>1 DEF Check, Remember, Replayed
  <2> QED
    BY <2>1 DEF IInv, TypeOK, NoReplay, WindowInv, HighestSeen, BitmapExact, seen, Ids
<1>2. CASE id # 0 /\ ~ TooOld(id)
  <2>0. id \in 1 .. MaxPacketId /\ highestPacketId \in 0 .. MaxPacketId
    BY <1>0, <1>2 DEF IInv, TypeOK
  <2>1. /\ highestPacketId' = NewHighest(id)
        /\ bitmap' = [Slid(id) EXCEPT ![Slot(Word(id))] = @ \cup {Bit(id)}]
    BY <1>2 DEF Check, Remember, NewHighest
  <2>2. /\ NewHighest(id) \in 1 .. MaxPacketId
        /\ Word(id) \in Word(NewHighest(id)) - BitmapLen + 1 .. Word(NewHighest(id))
    BY <1>2, <2>0, IdInWindow
  <2>3. Slid(id) \in [Slots -> SUBSET Bits]
    BY DEF Slid, IInv, TypeOK
  <2>4. Marked(id) <=> id \in seen
    BY <1>2, <2>0, <2>2, SlidExact DEF Marked
  <2>5. seen' = seen \cup {id} /\ delivered' \in [Ids -> Nat] /\ NoReplay'
    <3>1. CASE Marked(id)
      BY <2>4, <3>1 DEF Check, Replayed, IInv, TypeOK, NoReplay, seen
    <3>2. CASE ~ Marked(id)
      <4>1. delivered' = [delivered EXCEPT ![id] = @ + 1] /\ delivered[id] = 0
        BY <1>2, <2>4, <3>2 DEF Check, Replayed, seen, IInv, TypeOK
      <4> QED BY <4>1 DEF IInv, TypeOK, NoReplay, seen
    <3> QED BY <3>1, <3>2
  <2>6. verdict' \in Ids \X {"delivered", "dropped", "overflow"}
    BY DEF Check
  <2>7. Slot(Word(id)) \in Slots /\ Bit(id) \in Bits
    BY <1>0, IdParts, SlotInBitmap
  <2>8. TypeOK'
    BY <2>1, <2>2, <2>3, <2>5, <2>6, <2>7 DEF TypeOK
  <2>9. HighestSeen'
    BY <2>0, <2>1, <2>5 DEF HighestSeen, NewHighest, IInv, WindowInv, seen, Ids
  <2>10. BitmapExact'
    <3> SUFFICES ASSUME NEW x \in Ids,
                        Word(x) \in Word(highestPacketId') - BitmapLen + 1 .. Word(highestPacketId')
                 PROVE  Bit(x) \in bitmap'[Slot(Word(x))] <=> x \in seen'
      BY DEF BitmapExact, Word, Bit, Slot
    <3>1. Bit(x) \in Slid(id)[Slot(Word(x))] <=> x \in seen
      BY <1>2, <2>0, <2>1, SlidExact
    <3>2. x \in Int /\ id \in Int /\ Slot(Word(x)) \in Slots
      BY <1>0, SlotInBitmap DEF Ids
    <3>3. CASE x = id
      BY <2>1, <2>3, <2>5, <2>7, <3>3
    <3>4. CASE x # id /\ Slot(Word(x)) = Slot(Word(id))
      <4>1. Word(x) = Word(id)
        <5>1. /\ Word(x) \in Int /\ Word(id) \in Int /\ Word(NewHighest(id)) \in Int
              /\ BitmapLen \in Nat
          BY <2>2, <3>2, IdParts, ReplayAssumption
        <5>2. ~ (Word(x) < Word(id))
          BY <2>1, <2>2, <3>4, <5>1, SlotsDiffer
        <5>3. ~ (Word(id) < Word(x))
          BY <2>1, <2>2, <3>4, <5>1, SlotsDiffer
        <5> QED BY <5>1, <5>2, <5>3
      <4>2. Bit(x) # Bit(id)
        BY <3>2, <3>4, <4>1, IdParts
      <4> QED BY <2>1, <2>3, <2>5, <2>7, <3>1, <3>2, <3>4, <4>2
    <3>5. CASE x # id /\ Slot(Word(x)) # Slot(Word(id))
      BY <2>1, <2>3, <2>5, <3>1, <3>2, <3>5
    <3> QED BY <3>3, <3>4, <3>5
  <2> QED BY <2>5, <2>8, <2>9, <2>10 DEF IInv, WindowInv
<1> QED BY <1>1, <1>2

LEMMA StepIInv == IInv /\ [Next]_vars => IInv'
<1> SUFFICES ASSUME IInv, [Next]_vars PROVE IInv'
  OBVIOUS
<1>1. CASE UNCHANGED vars
  BY <1>1 DEF vars, IInv, TypeOK, NoReplay, WindowInv, HighestSeen, BitmapExact, seen, Ids
<1>2. ASSUME NEW id \in Ids, Overflow(id) PROVE IInv'
  BY <1>2 DEF Overflow, IInv, TypeOK, NoReplay, WindowInv, HighestSeen, BitmapExact, seen, Ids
<1>3. ASSUME NEW id \in Ids, Check(id) PROVE IInv'
  BY <1>3, CheckIInv
<1> QED BY <1>1, <1>2, <1>3 DEF Next

\* The invariant holds in every execution.
LEMMA Invariance == Spec => []IInv
BY InitIInv, StepIInv, PTL DEF Spec

\* The state of the protector stays well-typed; in particular an id above
\* maxPacketId never becomes the highest one.
THEOREM TypeCorrect == Spec => []TypeOK
<1>1. IInv => TypeOK
  BY DEF IInv
<1> QED BY <1>1, Invariance, PTL

\* No data packet reaches the tunnel twice, whatever the network does.
THEOREM ReplaySafe == Spec => []NoReplay
<1>1. IInv => NoReplay
  BY DEF IInv
<1> QED BY <1>1, Invariance, PTL

\* The bitmap is exact in the window it stands for.
THEOREM BitmapCorrect == Spec => []WindowInv
<1>1. IInv => WindowInv
  BY DEF IInv
<1> QED BY <1>1, Invariance, PTL

-----------------------------------------------------------------------------
\* Every step of the bitmap is a step of the full history of ids.
LEMMA StepReference ==
    ASSUME IInv, [Next]_vars
    PROVE  [Reference!Next]_<<seen, verdict>>
<1>1. CASE UNCHANGED vars
  BY <1>1 DEF vars, seen, Ids
<1>2. ASSUME NEW id \in Ids, Overflow(id) PROVE Reference!Overflow(id)
  BY <1>2 DEF Overflow, Reference!Overflow, seen, Ids
<1>3. ASSUME NEW id \in Ids, Check(id) PROVE Reference!Deliver(id) \/ Reference!Drop(id)
  <2>1. id \in 0 .. MaxPacketId /\ id \in Nat /\ delivered \in [Ids -> Nat]
    BY <1>3, ReplayAssumption DEF Ids, Check, IInv, TypeOK
  <2>2. Replayed(id) <=> ~ Reference!Fresh(id)
    BY <2>1, VerdictExact DEF Reference!Fresh
  <2>3. CASE Replayed(id)
    BY <1>3, <2>1, <2>2, <2>3 DEF Check, Reference!Drop, seen, Ids
  <2>4. CASE ~ Replayed(id)
    <3>1. delivered' = [delivered EXCEPT ![id] = @ + 1] /\ verdict' = <<id, "delivered">>
      BY <1>3, <2>4 DEF Check
    <3>2. seen' = seen \cup {id}
      BY <2>1, <3>1 DEF seen, Ids
    <3> QED BY <2>1, <2>2, <2>4, <3>1, <3>2 DEF Reference!Deliver
  <2> QED BY <2>3, <2>4
<1> QED BY <1>1, <1>2, <1>3 DEF Next, Reference!Next, Ids

\* isReplayedPacketId with its fixed bitmap implements the window over the full
\* history: late packets inside the window are delivered, once each.
THEOREM WindowRefinement == Spec => ImplementsWindow
<1>1. Init => Reference!Init
  BY DEF Init, Reference!Init, seen, Ids
<1>2. IInv /\ [Next]_vars => [Reference!Next]_<<seen, verdict>>
  BY StepReference
<1> QED BY <1>1, <1>2, Invariance, PTL DEF Spec, ImplementsWindow, Reference!Spec
=============================================================================

------------------------ MODULE ControlChannelProofs ------------------------
(***************************************************************************)
(* What the queue of ControlChannel.swift hands over to be handled: the    *)
(* packets that follow each other from the current id, up to the first one *)
(* that is missing.                                                        *)
(***************************************************************************)
EXTENDS ControlChannel, FiniteSetTheorems, SequenceTheorems, WellFoundedInduction, TLAPS

\* A non-empty set of naturals has a least element.
LEMMA LeastOf ==
  ASSUME NEW T \in SUBSET Nat, T # {}
  PROVE  \E x \in T : \A y \in T : x <= y
<1>1. PICK x \in T : \A y \in T : ~ (<<y, x>> \in OpToRel(<, Nat))
  BY NatLessThanWellFounded, WFMin
<1>2. \A y \in T : ~ (y < x)
  BY <1>1 DEF OpToRel
<1> QED
  BY <1>2

\* What enqueueInboundPacket may hand over goes from the current id to the first
\* gap in the queue.
LEMMA RunIsInterval ==
  ASSUME NEW queue, NEW first \in Nat, NEW limit \in Nat, first <= limit,
         DOMAIN queue \subseteq first .. limit - 1
  PROVE  \E l \in first .. limit : /\ Run(queue, first) = first .. l - 1
                                   /\ l \notin DOMAIN queue
<1> DEFINE gaps == (first .. limit) \ DOMAIN queue
<1>1. limit \in gaps /\ gaps \in SUBSET Nat
  OBVIOUS
<1>2. PICK l \in gaps : \A y \in gaps : l <= y
  BY <1>1, LeastOf
<1>3. l \in first .. limit /\ l \notin DOMAIN queue
  OBVIOUS
<1>4. \A i \in first .. l - 1 : i \in DOMAIN queue
  BY <1>2, <1>3
<1>5. \A id \in DOMAIN queue : (\A i \in first .. id : i \in DOMAIN queue) <=> id < l
  <2> TAKE id \in DOMAIN queue
  <2>1. id \in first .. limit - 1
    OBVIOUS
  <2> HIDE DEF gaps
  <2>2. id < l => \A i \in first .. id : i \in DOMAIN queue
    BY <1>3, <1>4, <2>1
  <2>3. ~ (id < l) => l \in first .. id
    BY <1>3, <2>1
  <2> QED BY <1>3, <2>2, <2>3
<1> HIDE DEF gaps
<1>6. Run(queue, first) = {id \in DOMAIN queue : id < l}
  BY <1>5 DEF Run
<1>7. {id \in DOMAIN queue : id < l} = first .. l - 1
  BY <1>3, <1>4
<1> QED
  BY <1>3, <1>6, <1>7

\* The packets of such a run, counted from its first.
LEMMA NthOfInterval ==
  ASSUME NEW first \in Nat, NEW l \in Nat, first <= l, NEW n \in 1 .. l - first
  PROVE  Nth(first .. l - 1, n) = first + n - 1
<1> DEFINE ids == first .. l - 1
           Before(id) == Cardinality({i \in ids : i < id})
<1>1. \A id \in ids : Before(id) = id - first
  <2> TAKE id \in ids
  <2>1. {i \in ids : i < id} = first .. id - 1
    OBVIOUS
  <2>2. first \in Int /\ id - 1 \in Int /\ first <= id
    OBVIOUS
  <2>3. Cardinality(first .. id - 1) = IF first > id - 1 THEN 0 ELSE id - 1 - first + 1
    BY <2>2, FS_Interval
  <2>4. Before(id) = Cardinality(first .. id - 1)
    BY <2>1
  <2> HIDE DEF Before
  <2> QED
    BY <2>2, <2>3, <2>4
<1>2. Nth(ids, n) = CHOOSE id \in ids : Before(id) = n - 1
  BY DEF Nth
<1>3. first + n - 1 \in ids
  OBVIOUS
<1> HIDE DEF Before
<1>4. \A id \in ids : Before(id) = n - 1 <=> id = first + n - 1
  BY <1>1
<1>5. Nth(ids, n) = CHOOSE id \in ids : id = first + n - 1
  <2> HIDE DEF ids
  <2> QED BY <1>2, <1>4
<1> QED
  BY <1>3, <1>5

\* enqueueInboundPacket: the packets it returns are those that follow each other
\* from the current id, and the next id is the first one it lacks.
LEMMA InboundStep ==
  ASSUME NEW ch, NEW limit \in Nat, NEW id, NEW content, id \in 0 .. limit - 1,
         ch.nextIn \in 0 .. limit,
         DOMAIN ch.inbound \subseteq ch.nextIn + 1 .. limit - 1
  PROVE  LET queue == Joined(ch, id, content)
             due == Handled(ch, id, content)
             l == ch.nextIn + Cardinality(Run(queue, ch.nextIn))
         IN  /\ l \in ch.nextIn .. limit
             /\ Run(queue, ch.nextIn) = ch.nextIn .. l - 1
             /\ l \notin DOMAIN queue
             /\ ch.nextIn .. l - 1 \subseteq DOMAIN queue
             /\ DOMAIN queue \subseteq ch.nextIn .. limit - 1
             /\ DOMAIN due = 1 .. l - ch.nextIn
             /\ \A n \in 1 .. l - ch.nextIn : due[n] = queue[ch.nextIn + n - 1]
<1> DEFINE queue == Joined(ch, id, content)
           first == ch.nextIn
           run == Run(queue, first)
           due == Handled(ch, id, content)
<1>1. DOMAIN queue \subseteq first .. limit - 1
  BY DEF Joined
<1>2. due = [n \in 1 .. Cardinality(run) |-> queue[Nth(run, n)]]
  BY DEF Handled
<1> HIDE DEF queue, due
<1>3. PICK l \in first .. limit : run = first .. l - 1 /\ l \notin DOMAIN queue
  BY <1>1, RunIsInterval
<1> HIDE DEF run
<1>4. Cardinality(run) = l - first
  <2>1. first \in Int /\ l - 1 \in Int /\ first <= l
    OBVIOUS
  <2>2. Cardinality(first .. l - 1) = IF first > l - 1 THEN 0 ELSE l - 1 - first + 1
    BY <2>1, FS_Interval
  <2> QED
    BY <1>3, <2>1, <2>2
<1>5. first .. l - 1 \subseteq DOMAIN queue
  BY <1>3 DEF Run, run
<1>6. \A n \in 1 .. l - first : Nth(run, n) = first + n - 1
  BY <1>3, NthOfInterval
<1>7. /\ DOMAIN due = 1 .. l - first
      /\ \A n \in 1 .. l - first : due[n] = queue[first + n - 1]
  BY <1>2, <1>4, <1>6
<1>8. first + Cardinality(run) = l
  BY <1>4
<1> QED
  BY <1>1, <1>3, <1>5, <1>7, <1>8 DEF queue, run, due
=============================================================================

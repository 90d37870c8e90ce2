------------------------------- MODULE KeyRing -------------------------------
(***************************************************************************)
(* The data-channel keys of OpenVPNSession.swift: which key ids are in     *)
(* use, which one encrypts and which one is being negotiated, through      *)
(* hard resets, soft resets and completed negotiations.  A ring is a       *)
(* record; the operations of the session on it are operators.              *)
(***************************************************************************)
EXTENDS Integers, Sequences

CONSTANT NumberOfKeys \* ProtocolMacros.numberOfKeys: 8, key ids take 3 bits

\* Three keys in use at a time, none of which may be the initial key 0.
ASSUME KeyRingAssumption == NumberOfKeys \in Nat /\ NumberOfKeys >= 4

KeyIds == 0 .. NumberOfKeys - 1
NoIdx  == -1

\* Nothing negotiated: after init and after cleanup.
EmptyRing == [keys |-> {}, oldKeys |-> <<>>, negotiationKeyIdx |-> 0,
              currentKeyIdx |-> NoIdx, isRenegotiating |-> FALSE]

\* hardReset puts key 0 under negotiation.
RingHardReset(r) == [r EXCEPT !.keys = @ \cup {0}, !.negotiationKeyIdx = 0]

\* The key id after idx: the ring wraps around to 1, never back to 0.
Following(idx) ==
    LET n == (idx + 1) % NumberOfKeys
    IN  IF n > 1 THEN n ELSE 1

\* Mutant: the next key encrypts before it is negotiated.
RingSoftResetTooEarly(r) ==
    [r EXCEPT !.keys = @ \cup {Following(r.negotiationKeyIdx)},
              !.negotiationKeyIdx = Following(r.negotiationKeyIdx),
              !.currentKeyIdx = Following(r.negotiationKeyIdx),
              !.isRenegotiating = TRUE]

\* softReset puts the next key under negotiation.
RingSoftReset(r) ==
    [r EXCEPT !.keys = @ \cup {Following(r.negotiationKeyIdx)},
              !.negotiationKeyIdx = Following(r.negotiationKeyIdx),
              !.isRenegotiating = TRUE]

\* Mutant: the previous key is dropped at once.
TransitionDropsPrevious(r) ==
    [r EXCEPT !.keys = @ \ {r.currentKeyIdx},
              !.oldKeys = <<>>,
              !.currentKeyIdx = r.negotiationKeyIdx]

\* Mutant: there is always a previous key.
TransitionAlwaysAppends(r) ==
    [r EXCEPT !.oldKeys = Append(@, r.currentKeyIdx),
              !.currentKeyIdx = r.negotiationKeyIdx]

\* transitionKeys and cleanKeys: the negotiated key encrypts from now on, the
\* previous one can still decrypt, the one before it is removed.
Transition(r) ==
    LET old == IF r.currentKeyIdx = NoIdx THEN r.oldKeys
                                          ELSE Append(r.oldKeys, r.currentKeyIdx)
    IN  [r EXCEPT !.keys = IF Len(old) > 1 THEN @ \ {Head(old)} ELSE @,
                  !.oldKeys = IF Len(old) > 1 THEN Tail(old) ELSE old,
                  !.currentKeyIdx = r.negotiationKeyIdx]

-----------------------------------------------------------------------------
\* What a ring looks like between two operations of the session: nothing, or
\* the key under negotiation, the current one and the one before it, whose ids
\* follow each other.  Id 0 is for the first negotiation only.
Previous(r) == {r.oldKeys[i] : i \in DOMAIN r.oldKeys}
Current(r)  == {r.currentKeyIdx} \ {NoIdx}

RingOK(r) ==
    \/ r = EmptyRing
    \/ /\ r.currentKeyIdx = NoIdx
       /\ r.keys = {0} /\ r.negotiationKeyIdx = 0
       /\ r.oldKeys = <<>> /\ r.isRenegotiating = FALSE
    \/ /\ r.currentKeyIdx \in KeyIds
       /\ r.keys = {r.negotiationKeyIdx} \cup Current(r) \cup Previous(r)
       /\ \/ r.oldKeys = <<>>
          \/ \E old \in KeyIds : r.oldKeys = <<old>> /\ r.currentKeyIdx = Following(old)
       /\ IF r.isRenegotiating
          THEN r.negotiationKeyIdx = Following(r.currentKeyIdx) /\ r.negotiationKeyIdx # 0
          ELSE r.negotiationKeyIdx = r.currentKeyIdx
=============================================================================

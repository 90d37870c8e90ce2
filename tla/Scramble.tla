------------------------------ MODULE Scramble ------------------------------
(***************************************************************************)
(* The XOR methods that disguise the packets of a link, in their two       *)
(* implementations: XOR.h works on buffers, and serves links over TCP;     *)
(* XORProcessor.swift works on values, and serves links over UDP.  A byte  *)
(* is the set of the bits that are on.  Packets have at least one byte.    *)
(***************************************************************************)
EXTENDS Integers, Sequences, SequencesExt

CONSTANT ByteBits \* bits of a byte (8)

\* Powers of 2.
Power[k \in 0 .. ByteBits] == IF k = 0 THEN 1 ELSE 2 * Power[k - 1]

Bytes     == SUBSET (0 .. ByteBits - 1)
ByteCount == Power[ByteBits]
Methods   == {"none", "mask", "ptrpos", "reverse", "obfuscate"}

Xor(a, b) == (a \ b) \cup (b \ a)

\* A number as a byte: the bits above are cut off.
ByteOf(n) == {bit \in 0 .. ByteBits - 1 : (n \div Power[bit]) % 2 = 1}

Zeros(n) == [i \in 1 .. n |-> {}]

-----------------------------------------------------------------------------
\* XOR.h.

Masked(p, mask) ==
    IF mask = <<>> THEN p
    ELSE [i \in DOMAIN p |-> Xor(p[i], mask[1 + ((i - 1) % Len(mask))])]

PtrPos(p) == [i \in DOMAIN p |-> Xor(p[i], ByteOf(i))]

\* xor_reverse: the first byte stays, the others are swapped from the two ends,
\* and the one in the middle is copied.  dst may be src itself.
SwappedInto(dst, src) ==
    LET n    == Len(src)
        f[k \in 0 .. (n - 1) \div 2] ==
            IF k = 0 THEN [dst EXCEPT ![1] = src[1]]
            ELSE [f[k - 1] EXCEPT ![k + 1] = src[n - k + 1], ![n - k + 1] = src[k + 1]]
        swapped == f[(n - 1) \div 2]
    IN  IF n % 2 = 0 THEN [swapped EXCEPT ![n \div 2 + 1] = src[n \div 2 + 1]] ELSE swapped

\* xor_memcpy.  What goes out is written to fresh memory, what comes in is
\* overwritten in place; after its first step obfuscation always works in place.
Memcpy(method, mask, p, outbound) ==
    CASE method = "none"    -> p
      [] method = "mask"    -> Masked(p, mask)
      [] method = "ptrpos"  -> PtrPos(p)
      [] method = "reverse" -> SwappedInto(IF outbound THEN Zeros(Len(p)) ELSE p, p)
      [] method = "obfuscate" /\ outbound ->
             LET q == PtrPos(p) IN Masked(PtrPos(SwappedInto(q, q)), mask)
      [] OTHER ->
             LET q == PtrPos(Masked(p, mask)) IN PtrPos(SwappedInto(q, q))

-----------------------------------------------------------------------------
\* XORProcessor.swift.

Reversed(p) == <<Head(p)>> \o Reverse(Tail(p))

\* processPacket.  A mask is never empty here.
ProcessPacket(method, mask, p, outbound) ==
    CASE method = "none"    -> p
      [] method = "mask"    -> Masked(p, mask)
      [] method = "ptrpos"  -> PtrPos(p)
      [] method = "reverse" -> Reversed(p)
      [] method = "obfuscate" /\ outbound -> Masked(PtrPos(Reversed(PtrPos(p))), mask)
      [] OTHER -> PtrPos(Reversed(PtrPos(Masked(p, mask))))
=============================================================================

-------------------------- MODULE StreamLinkProofs --------------------------
(***************************************************************************)
(* A link over TCP, for bytes of any number of bits and any packets a      *)
(* header can tell the length of.  However the stream is cut, what was     *)
(* handed over and what is under way are the packets sent.  The proof has  *)
(* three parts: what one end scrambles the other restores; a stream cut    *)
(* anywhere yields the packets that are in it in full; and the invariant   *)
(* OnTheWay.  The loops of the code are recursive functions: that they     *)
(* exist, and what they compute, is shown by smallest counterexamples.     *)
(***************************************************************************)
EXTENDS StreamLink, WellFoundedInduction, SequenceTheorems, TLAPS

-----------------------------------------------------------------------------
(* Smallest counterexamples, and functions defined by recursion.           *)

\* A non-empty set of naturals has a least element.
LEMMA LeastOf ==
  ASSUME NEW T \in SUBSET Nat, T # {}
  PROVE  \E x \in T : \A y \in T : x <= y
<1>1. PICK x \in T : \A y \in T : ~ (<<y, x>> \in OpToRel(<, Nat))
  BY NatLessThanWellFounded, WFMin
<1>2. \A y \in T : ~ (y < x)
  BY <1>1 DEF OpToRel
<1> QED
  BY <1>2

\* f starts with a, and goes on from each number to the next.
GoesOn(f, n, S, a, step) == /\ f \in [0 .. n -> S] /\ f[0] = a
                            /\ \A k \in 1 .. n : f[k] = step[k][f[k - 1]]

Steps(n, S) == [1 .. n -> [S -> S]]

LEMMA Recursion ==
  ASSUME NEW n \in Nat, NEW S, NEW a \in S, NEW step \in Steps(n, S)
  PROVE  \E f : GoesOn(f, n, S, a, step)
<1> DEFINE Upto(m) == \E f \in [0 .. m -> S] :
                          f[0] = a /\ \A k \in 1 .. m : f[k] = step[k][f[k - 1]]
           missing == {m \in 0 .. n : ~Upto(m)}
<1> SUFFICES ASSUME ~Upto(n) PROVE FALSE
  BY DEF GoesOn
<1>0. n \in missing /\ missing \in SUBSET Nat
  OBVIOUS
<1> HIDE DEF missing
<1>1. PICK x \in missing : \A y \in missing : x <= y
  BY <1>0, LeastOf
<1> USE DEF missing
<1>2. x # 0
  <2> DEFINE f == [k \in 0 .. 0 |-> a]
  <2>1. /\ f \in [0 .. 0 -> S] /\ f[0] = a
        /\ \A k \in 1 .. 0 : f[k] = step[k][f[k - 1]]
    OBVIOUS
  <2> HIDE DEF f
  <2>2. Upto(0)
    BY <2>1
  <2> QED BY <2>2
<1>3. x \in 1 .. n /\ x - 1 \in 0 .. n /\ x - 1 \notin missing
  <2>1. x \in 1 .. n
    BY <1>1, <1>2
  <2> HIDE DEF missing
  <2> QED BY <1>1, <2>1
<1>4. PICK f \in [0 .. x - 1 -> S] :
               f[0] = a /\ \A k \in 1 .. x - 1 : f[k] = step[k][f[k - 1]]
  BY <1>3
<1> DEFINE g == [k \in 0 .. x |-> IF k = x THEN step[x][f[x - 1]] ELSE f[k]]
<1>5. g \in [0 .. x -> S]
  <2>1. step[x][f[x - 1]] \in S
    BY <1>3, <1>4 DEF Steps
  <2> QED BY <1>3, <2>1
<1>6. g[0] = a /\ \A k \in 1 .. x : g[k] = step[k][g[k - 1]]
  BY <1>3, <1>4
<1>7. Upto(x)
  BY <1>5, <1>6
<1> QED
  BY <1>7

-----------------------------------------------------------------------------
(* Numbers and bytes.                                                      *)

\* Powers of 2, which Power computes by recursion.
LEMMA PowerIs ==
  /\ Power[0] = 1 /\ \A k \in 0 .. ByteBits : Power[k] \in Nat \ {0}
  /\ \A k \in 0 .. ByteBits - 1 : Power[k + 1] = 2 * Power[k]
  /\ ByteCount = Power[ByteBits] /\ ByteCount \in Nat \ {0, 1} /\ ByteBits \in Nat \ {0}
<1> DEFINE N == Nat \ {0}
           step == [k \in 1 .. ByteBits |-> [x \in N |-> 2 * x]]
<1>1. ByteBits \in Nat \ {0}
  BY StreamAssumption
<1>2. step \in Steps(ByteBits, N)
  <2>1. \A x \in N : 2 * x \in N
    OBVIOUS
  <2>2. [x \in N |-> 2 * x] \in [N -> N]
    BY <2>1
  <2> QED BY <2>2 DEF Steps
<1>3. PICK f : GoesOn(f, ByteBits, N, 1, step)
  <2>1. ByteBits \in Nat /\ 1 \in N
    BY <1>1
  <2> HIDE DEF step, N
  <2> QED BY <1>2, <2>1, Recursion
<1>4. \A k \in 1 .. ByteBits : f[k] = 2 * f[k - 1]
  <2> TAKE k \in 1 .. ByteBits
  <2>1. f[k - 1] \in N
    BY <1>1, <1>3 DEF GoesOn
  <2> QED BY <1>3, <2>1 DEF GoesOn
<1>5. f = [k \in 0 .. ByteBits |-> IF k = 0 THEN 1 ELSE 2 * f[k - 1]]
  BY <1>1, <1>3, <1>4 DEF GoesOn
<1> HIDE DEF N
<1>6. Power = [k \in 0 .. ByteBits |-> IF k = 0 THEN 1 ELSE 2 * Power[k - 1]]
  BY <1>5, Zenon DEF Power
<1>7. \A k \in 0 .. ByteBits : Power[k] \in Nat \ {0}
  <2> DEFINE wrong == {k \in 0 .. ByteBits : Power[k] \notin Nat \ {0}}
  <2> SUFFICES ASSUME wrong # {} PROVE FALSE
    OBVIOUS
  <2>1. PICK x \in wrong : \A y \in wrong : x <= y
    <3>1. wrong \in SUBSET Nat
      BY <1>1
    <3> HIDE DEF wrong
    <3> QED BY <3>1, LeastOf
  <2>2. x # 0 => x - 1 \in 0 .. ByteBits /\ x - 1 \notin wrong
    BY <1>1, <2>1
  <2> QED BY <1>1, <1>6, <2>2
<1>8. \A k \in 0 .. ByteBits - 1 : Power[k + 1] = 2 * Power[k]
  BY <1>1, <1>6
<1>9. ByteCount = 2 * Power[ByteBits - 1]
  BY <1>1, <1>8 DEF ByteCount
<1>10. ByteCount \in Nat \ {0, 1}
  BY <1>1, <1>7, <1>9
<1> QED
  BY <1>1, <1>6, <1>7, <1>8, <1>10 DEF ByteCount

\* Division with remainder.
LEMMA DivMod ==
  ASSUME NEW x \in Int, NEW n \in Nat \ {0}
  PROVE  /\ x \div n \in Int /\ x % n \in 0 .. n - 1
         /\ x = n * (x \div n) + (x % n)
OBVIOUS

\* Multiples are n apart.
LEMMA NextMultiple ==
  ASSUME NEW a \in Int, NEW b \in Int, NEW n \in Nat \ {0}, a < b
  PROVE  n * a + n <= n * b
OBVIOUS

\* There is one quotient and one remainder.
LEMMA ModUnique ==
  ASSUME NEW x \in Int, NEW n \in Nat \ {0}, NEW q \in Int, NEW r \in 0 .. n - 1,
         x = n * q + r
  PROVE  x % n = r /\ x \div n = q
<1> DEFINE p == x \div n
<1>1. p \in Int /\ x % n \in 0 .. n - 1 /\ x = n * p + (x % n)
  BY DivMod
<1> HIDE DEF p
<1>2. p < q => n * p + n <= n * q
  BY <1>1, NextMultiple
<1>3. q < p => n * q + n <= n * p
  BY <1>1, NextMultiple
<1>4. p = q
  BY <1>1, <1>2, <1>3
<1> QED
  BY <1>1, <1>4 DEF p

\* The next bit of a number.
LEMMA Doubling ==
  ASSUME NEW n \in Nat, NEW P \in Nat \ {0}
  PROVE  n % (2 * P) = IF (n \div P) % 2 = 1 THEN P + (n % P) ELSE n % P
<1> DEFINE q == n \div P
           r == n % P
           h == q \div 2
           b == q % 2
<1>1. q \in Int /\ r \in 0 .. P - 1 /\ n = P * q + r
  BY DivMod
<1> HIDE DEF q, r
<1>2. h \in Int /\ b \in 0 .. 1 /\ q = 2 * h + b
  BY <1>1
<1>5. 2 * P \in Nat \ {0} /\ (n \div P) % 2 = b /\ n % P = r
  BY DEF q, r
<1> HIDE DEF h, b
<1>3. CASE b = 1
  <2> DEFINE s == P + r
  <2>1. n = (2 * P) * h + s /\ s \in 0 .. 2 * P - 1
    BY <1>1, <1>2, <1>3
  <2> HIDE DEF s
  <2>2. n % (2 * P) = s
    BY <1>2, <1>5, <2>1, ModUnique
  <2> QED BY <1>3, <1>5, <2>2 DEF s
<1>4. CASE b = 0
  <2>1. n = (2 * P) * h + r /\ r \in 0 .. 2 * P - 1
    BY <1>1, <1>2, <1>4
  <2>2. n % (2 * P) = r
    BY <1>2, <1>5, <2>1, ModUnique
  <2> QED BY <1>4, <1>5, <2>2
<1> QED
  BY <1>2, <1>3, <1>4

Bit(n, k) == (n \div Power[k]) % 2 = 1

\* The same, with the bit by name.
LEMMA NextBit ==
  ASSUME NEW n \in Nat, NEW k \in 0 .. ByteBits - 1
  PROVE  n % Power[k + 1] = IF Bit(n, k) THEN Power[k] + (n % Power[k]) ELSE n % Power[k]
<1>1. Power[k] \in Nat \ {0} /\ Power[k + 1] = 2 * Power[k]
  BY PowerIs
<1> QED
  BY <1>1, Doubling DEF Bit

\* The lower bits of a number are its remainder.
LEMMA BitsTell ==
  ASSUME NEW n \in Nat, NEW m \in Nat, NEW k \in 0 .. ByteBits
  PROVE  n % Power[k] = m % Power[k] <=> \A i \in 0 .. k - 1 : Bit(n, i) <=> Bit(m, i)
<1> DEFINE Tells(l) == n % Power[l] = m % Power[l] <=> \A i \in 0 .. l - 1 : Bit(n, i) <=> Bit(m, i)
           wrong == {l \in 0 .. ByteBits : ~Tells(l)}
<1> SUFFICES ASSUME ~Tells(k) PROVE FALSE
  OBVIOUS
<1>1. wrong # {} /\ wrong \in SUBSET Nat
  OBVIOUS
<1>2. PICK l \in wrong : \A y \in wrong : l <= y
  <2> HIDE DEF wrong
  <2> QED BY <1>1, LeastOf
<1>3. l # 0
  <2>1. Power[0] = 1
    BY PowerIs
  <2>2. n % 1 = 0 /\ m % 1 = 0
    OBVIOUS
  <2>3. Tells(0)
    BY <2>1, <2>2
  <2> QED BY <2>3
<1>4. l \in 1 .. ByteBits /\ l - 1 \in 0 .. ByteBits - 1 /\ Tells(l - 1) /\ ~Tells(l)
  <2>1. ByteBits \in Nat
    BY StreamAssumption
  <2>2. l \in 1 .. ByteBits
    BY <1>3, <2>1
  <2>3. l - 1 \notin wrong
    <3> HIDE DEF wrong
    <3> QED BY <1>2, <2>2
  <2> QED BY <2>1, <2>2, <2>3
<1> DEFINE j == l - 1
<1>5. j \in 0 .. ByteBits - 1 /\ l = j + 1
  BY <1>4
<1> HIDE DEF j
<1>6. /\ n % Power[l] = IF Bit(n, j) THEN Power[j] + (n % Power[j]) ELSE n % Power[j]
      /\ m % Power[l] = IF Bit(m, j) THEN Power[j] + (m % Power[j]) ELSE m % Power[j]
  BY <1>5, NextBit
<1>7. n % Power[j] \in 0 .. Power[j] - 1 /\ m % Power[j] \in 0 .. Power[j] - 1 /\ Power[j] \in Nat \ {0}
  <2>1. Power[j] \in Nat \ {0}
    BY <1>5, PowerIs
  <2> QED BY <2>1
<1>8. n % Power[l] = m % Power[l]
      <=> n % Power[j] = m % Power[j] /\ (Bit(n, j) <=> Bit(m, j))
  BY <1>6, <1>7
<1>9. (\A i \in 0 .. l - 1 : Bit(n, i) <=> Bit(m, i))
      <=> (\A i \in 0 .. j - 1 : Bit(n, i) <=> Bit(m, i)) /\ (Bit(n, j) <=> Bit(m, j))
  BY <1>5
<1>10. n % Power[j] = m % Power[j] <=> \A i \in 0 .. j - 1 : Bit(n, i) <=> Bit(m, i)
  BY <1>4 DEF j
<1> QED
  BY <1>4, <1>8, <1>9, <1>10

\* A byte keeps the remainder of a number, and nothing else.
LEMMA SameByte ==
  ASSUME NEW n \in Nat, NEW m \in Nat
  PROVE  ByteOf(n) = ByteOf(m) <=> n % ByteCount = m % ByteCount
<1>1. ByteBits \in 0 .. ByteBits /\ ByteCount = Power[ByteBits]
  BY PowerIs
<1>2. n % ByteCount = m % ByteCount <=> \A i \in 0 .. ByteBits - 1 : Bit(n, i) <=> Bit(m, i)
  BY <1>1, BitsTell
<1> QED
  BY <1>2 DEF ByteOf, Bit

\* Every byte is a number.
LEMMA NumberIs ==
  ASSUME NEW byte \in Bytes
  PROVE  Number(byte) \in 0 .. ByteCount - 1 /\ ByteOf(Number(byte)) = byte
<1> DEFINE Fits(l) == \E n \in 0 .. Power[l] - 1 : \A i \in 0 .. l - 1 : Bit(n, i) <=> i \in byte
           wrong == {l \in 0 .. ByteBits : ~Fits(l)}
<1>0. ByteBits \in Nat
  BY StreamAssumption
<1>1. Fits(ByteBits)
  <2> SUFFICES ASSUME ~Fits(ByteBits) PROVE FALSE
    OBVIOUS
  <2>1. wrong # {} /\ wrong \in SUBSET Nat
    BY <1>0
  <2>2. PICK l \in wrong : \A y \in wrong : l <= y
    <3> HIDE DEF wrong
    <3> QED BY <2>1, LeastOf
  <2>3. l # 0
    <3>1. 0 \in 0 .. Power[0] - 1
      BY PowerIs
    <3>2. Fits(0)
      BY <3>1
    <3> QED BY <3>2
  <2> DEFINE j == l - 1
  <2>4. j \in 0 .. ByteBits - 1 /\ l = j + 1 /\ Fits(j) /\ ~Fits(l)
    <3>1. l \in 1 .. ByteBits
      BY <1>0, <2>3
    <3>2. l - 1 \notin wrong
      <4> HIDE DEF wrong
      <4> QED BY <2>2, <3>1
    <3> QED BY <1>0, <3>1, <3>2
  <2> HIDE DEF j
  <2>5. Power[j] \in Nat \ {0} /\ Power[l] = 2 * Power[j]
    BY <2>4, PowerIs
  <2>6. PICK n \in 0 .. Power[j] - 1 : \A i \in 0 .. j - 1 : Bit(n, i) <=> i \in byte
    BY <2>4
  <2> DEFINE m == IF j \in byte THEN n + Power[j] ELSE n
  <2>7. m \in 0 .. Power[l] - 1 /\ m \in Nat /\ n \in Nat
    BY <2>5, <2>6
  <2>8. m % Power[j] = n % Power[j] /\ (m \div Power[j] = IF j \in byte THEN 1 ELSE 0)
    <3>1. /\ n = Power[j] * 0 + n
          /\ m = Power[j] * (IF j \in byte THEN 1 ELSE 0) + n
      BY <2>5, <2>6
    <3> HIDE DEF m
    <3>2. n % Power[j] = n
      BY <2>5, <2>7, <3>1, ModUnique
    <3>3. m % Power[j] = n /\ m \div Power[j] = IF j \in byte THEN 1 ELSE 0
      BY <2>5, <2>7, <3>1, ModUnique
    <3> QED BY <3>2, <3>3
  <2> HIDE DEF m
  <2>9. \A i \in 0 .. j - 1 : Bit(m, i) <=> Bit(n, i)
    <3>1. j \in 0 .. ByteBits /\ n \in Nat /\ m \in Nat /\ m % Power[j] = n % Power[j]
      <4>1. ByteBits \in Nat /\ j \in 0 .. ByteBits
        BY <1>0, <2>4
      <4> QED BY <2>7, <2>8, <4>1
    <3> QED BY <3>1, BitsTell
  <2>10. Bit(m, j) <=> j \in byte
    BY <2>8 DEF Bit
  <2>11. \A i \in 0 .. l - 1 : Bit(m, i) <=> i \in byte
    BY <2>4, <2>6, <2>9, <2>10
  <2>12. Fits(l)
    BY <2>7, <2>11
  <2> QED BY <2>4, <2>12
<1>2. PICK n \in 0 .. ByteCount - 1 : \A i \in 0 .. ByteBits - 1 : Bit(n, i) <=> i \in byte
  BY <1>1, PowerIs
<1>3. ByteOf(n) = byte
  BY <1>2 DEF ByteOf, Bit, Bytes
<1> QED
  BY <1>3 DEF Number

\* A number comes back from its byte, as far as it fits.
LEMMA ByteOfIs ==
  ASSUME NEW n \in Nat
  PROVE  ByteOf(n) \in Bytes /\ Number(ByteOf(n)) = n % ByteCount
<1> DEFINE m == Number(ByteOf(n))
<1>1. ByteOf(n) \in Bytes
  BY DEF ByteOf, Bytes
<1>2. m \in 0 .. ByteCount - 1 /\ ByteOf(m) = ByteOf(n)
  BY <1>1, NumberIs
<1> HIDE DEF m
<1>3. m \in Nat /\ m % ByteCount = n % ByteCount
  BY <1>2, SameByte, PowerIs
<1>4. m % ByteCount = m
  <2>1. m = ByteCount * 0 + m
    BY <1>2, PowerIs
  <2> QED BY <1>2, <1>3, <2>1, ModUnique, PowerIs
<1> QED
  BY <1>1, <1>3, <1>4 DEF m

\* The header of a packet says how long it is.
LEMMA HeaderIs ==
  ASSUME NEW n \in Nat, n < ByteCount * ByteCount
  PROVE  /\ Header(n) \in Seq(Bytes) /\ Len(Header(n)) = 2
         /\ Number(Header(n)[1]) * ByteCount + Number(Header(n)[2]) = n
<1> DEFINE q == n \div ByteCount
<1>1. ByteCount \in Nat \ {0}
  BY PowerIs
<1>2. q \in Int /\ n % ByteCount \in 0 .. ByteCount - 1 /\ n = ByteCount * q + (n % ByteCount)
  BY <1>1, DivMod
<1> HIDE DEF q
<1>3. q \in 0 .. ByteCount - 1
  <2>1. q < 0 => ByteCount * q + ByteCount <= ByteCount * 0
    BY <1>1, <1>2, NextMultiple
  <2>2. ByteCount <= q => ByteCount * ByteCount <= ByteCount * q
    <3>1. ByteCount < q => ByteCount * ByteCount + ByteCount <= ByteCount * q
      BY <1>1, <1>2, NextMultiple
    <3> QED BY <1>1, <1>2, <3>1
  <2> QED BY <1>1, <1>2, <2>1, <2>2
<1>4. q % ByteCount = q
  <2>1. q = ByteCount * 0 + q
    BY <1>1, <1>3
  <2>2. q \in Int
    BY <1>3
  <2> QED BY <1>1, <1>3, <2>1, <2>2, ModUnique
<1>5. Number(ByteOf(q)) = q /\ ByteOf(q) \in Bytes
  BY <1>3, <1>4, ByteOfIs
<1>6. Number(ByteOf(n)) = n % ByteCount /\ ByteOf(n) \in Bytes
  BY ByteOfIs
<1>7. Header(n) = <<ByteOf(q), ByteOf(n)>>
  BY DEF Header, q
<1> QED
  BY <1>1, <1>2, <1>3, <1>5, <1>6, <1>7

-----------------------------------------------------------------------------
(* What one end scrambles the other restores.                              *)

\* Scrambling a byte twice restores it.
LEMMA XorIs ==
  ASSUME NEW a \in Bytes, NEW b \in Bytes
  PROVE  Xor(a, b) \in Bytes /\ Xor(Xor(a, b), b) = a
BY DEF Xor, Bytes

\* The packets of a link.
Packet == {p \in Seq(Bytes) : p # <<>>}

\* A function on the first numbers is a packet.
LEMMA PacketIs ==
  ASSUME NEW n \in Nat \ {0}, NEW f \in [1 .. n -> Bytes]
  PROVE  f \in Packet /\ Len(f) = n /\ DOMAIN f = 1 .. n
BY DEF Packet

\* xor_mask undoes itself.
LEMMA MaskedIs ==
  ASSUME NEW p \in Packet, NEW m \in Seq(Bytes)
  PROVE  /\ Masked(p, m) \in Packet /\ Len(Masked(p, m)) = Len(p)
         /\ Masked(Masked(p, m), m) = p
<1>1. CASE m = <<>>
  BY <1>1 DEF Masked
<1>2. CASE m # <<>>
  <2> DEFINE n == Len(p)
             at(i) == m[1 + ((i - 1) % Len(m))]
             q == [i \in 1 .. n |-> Xor(p[i], at(i))]
  <2>1. n \in Nat \ {0} /\ DOMAIN p = 1 .. n /\ p \in [1 .. n -> Bytes]
    BY DEF Packet
  <2>2. \A i \in 1 .. n : p[i] \in Bytes /\ at(i) \in Bytes
    <3> TAKE i \in 1 .. n
    <3>1. Len(m) \in Nat \ {0}
      BY <1>2
    <3>2. (i - 1) % Len(m) \in 0 .. Len(m) - 1
      BY <2>1, <3>1
    <3>3. 1 + ((i - 1) % Len(m)) \in 1 .. Len(m)
      BY <3>1, <3>2
    <3> QED BY <2>1, <3>3
  <2> HIDE DEF at
  <2>3. \A i \in 1 .. n : Xor(p[i], at(i)) \in Bytes /\ Xor(Xor(p[i], at(i)), at(i)) = p[i]
    BY <2>2, XorIs
  <2>4. Masked(p, m) = q
    BY <1>2, <2>1 DEF Masked, at
  <2> HIDE DEF n
  <2>5. q \in [1 .. n -> Bytes]
    BY <2>3
  <2>6. q \in Packet /\ Len(q) = n /\ DOMAIN q = 1 .. n
    BY <2>1, <2>5, PacketIs
  <2>7. Masked(q, m) = [i \in 1 .. n |-> Xor(q[i], at(i))]
    BY <1>2, <2>6 DEF Masked, at
  <2>8. [i \in 1 .. n |-> Xor(q[i], at(i))] = p
    BY <2>1, <2>3
  <2> QED BY <2>4, <2>6, <2>7, <2>8 DEF n
<1> QED
  BY <1>1, <1>2

\* xor_ptrpos undoes itself.
LEMMA PtrPosIs ==
  ASSUME NEW p \in Packet
  PROVE  /\ PtrPos(p) \in Packet /\ Len(PtrPos(p)) = Len(p)
         /\ PtrPos(PtrPos(p)) = p
<1> DEFINE n == Len(p)
           q == [i \in 1 .. n |-> Xor(p[i], ByteOf(i))]
<1>1. n \in Nat \ {0} /\ DOMAIN p = 1 .. n /\ p \in [1 .. n -> Bytes]
  BY DEF Packet
<1>2. \A i \in 1 .. n : p[i] \in Bytes /\ ByteOf(i) \in Bytes
  BY <1>1 DEF ByteOf, Bytes
<1>3. \A i \in 1 .. n : Xor(p[i], ByteOf(i)) \in Bytes /\ Xor(Xor(p[i], ByteOf(i)), ByteOf(i)) = p[i]
  BY <1>2, XorIs
<1>4. PtrPos(p) = q
  BY <1>1 DEF PtrPos
<1> HIDE DEF n
<1>5. q \in [1 .. n -> Bytes]
  BY <1>3
<1>6. q \in Packet /\ Len(q) = n /\ DOMAIN q = 1 .. n
  BY <1>1, <1>5, PacketIs
<1>7. PtrPos(q) = [i \in 1 .. n |-> Xor(q[i], ByteOf(i))]
  BY <1>6 DEF PtrPos
<1>8. [i \in 1 .. n |-> Xor(q[i], ByteOf(i))] = p
  BY <1>1, <1>3
<1> QED
  BY <1>4, <1>6, <1>7, <1>8 DEF n

\* reverse of XORProcessor undoes itself.
LEMMA ReversedIs ==
  ASSUME NEW p \in Packet
  PROVE  /\ Reversed(p) \in Packet /\ Len(Reversed(p)) = Len(p)
         /\ Reversed(p) = [i \in 1 .. Len(p) |-> IF i = 1 THEN p[1] ELSE p[Len(p) + 2 - i]]
         /\ Reversed(Reversed(p)) = p
<1> DEFINE Swap(s) == [i \in 1 .. Len(s) |-> IF i = 1 THEN s[1] ELSE s[Len(s) + 2 - i]]
<1>1. ASSUME NEW s \in Packet
      PROVE  /\ Reversed(s) = Swap(s) /\ Swap(s) \in Packet /\ Len(Swap(s)) = Len(s)
             /\ DOMAIN Swap(s) = 1 .. Len(s)
  <2>1. Len(s) \in Nat \ {0} /\ s \in [1 .. Len(s) -> Bytes]
    BY DEF Packet
  <2>2. Swap(s) \in [1 .. Len(s) -> Bytes]
    BY <2>1
  <2>3. Swap(s) \in Packet /\ Len(Swap(s)) = Len(s) /\ DOMAIN Swap(s) = 1 .. Len(s)
    BY <2>1, <2>2, PacketIs
  <2>4. Reversed(s) = Swap(s)
    <3> DEFINE t == Tail(s)
               r == Reverse(t)
               h == <<Head(s)>>
    <3>1. t \in Seq(Bytes) /\ Len(t) = Len(s) - 1 /\ \A i \in 1 .. Len(t) : t[i] = s[i + 1]
      BY <2>1 DEF Packet
    <3>2. r = [i \in 1 .. Len(t) |-> t[(Len(t) - i) + 1]]
      BY DEF Reverse
    <3> HIDE DEF t, r
    <3>3. r \in Seq(Bytes) /\ Len(r) = Len(t)
      BY <3>1, <3>2
    <3>4. h \in Seq(Bytes) /\ Len(h) = 1 /\ h[1] = s[1]
      BY <2>1 DEF Packet
    <3> HIDE DEF h
    <3>5. /\ h \o r \in Seq(Bytes) /\ Len(h \o r) = Len(s)
          /\ \A i \in 1 .. Len(s) : (h \o r)[i] = IF i = 1 THEN s[1] ELSE r[i - 1]
      <4>0. Len(h) = 1 /\ Len(r) = Len(s) - 1
        BY <3>1, <3>3, <3>4
      <4>1. Len(h \o r) = Len(s) /\ h \o r \in Seq(Bytes)
        <5>1. Len(h \o r) = Len(h) + Len(r) /\ h \o r \in Seq(Bytes)
          BY <3>3, <3>4, ConcatProperties
        <5> QED BY <2>1, <4>0, <5>1
      <4>2. \A i \in 1 .. Len(s) : (h \o r)[i] = IF i <= 1 THEN h[i] ELSE r[i - 1]
        <5>1. \A i \in 1 .. Len(h) + Len(r) :
                 (h \o r)[i] = IF i <= Len(h) THEN h[i] ELSE r[i - Len(h)]
          BY <3>3, <3>4, ConcatProperties
        <5>2. 1 .. Len(h) + Len(r) = 1 .. Len(s)
          BY <2>1, <4>0
        <5> QED BY <4>0, <5>1, <5>2
      <4> QED BY <2>1, <3>4, <4>1, <4>2
    <3>6. \A i \in 2 .. Len(s) : r[i - 1] = s[Len(s) + 2 - i]
      <4> TAKE i \in 2 .. Len(s)
      <4>1. i - 1 \in 1 .. Len(t) /\ Len(t) - (i - 1) + 1 \in 1 .. Len(t)
        BY <2>1, <3>1
      <4>2. r[i - 1] = t[Len(t) - (i - 1) + 1]
        BY <3>2, <4>1
      <4>3. t[Len(t) - (i - 1) + 1] = s[Len(t) - (i - 1) + 1 + 1]
        BY <3>1, <4>1
      <4>4. Len(t) - (i - 1) + 1 + 1 = Len(s) + 2 - i
        BY <2>1, <3>1
      <4> QED BY <4>2, <4>3, <4>4
    <3>7. Reversed(s) = h \o r
      BY DEF Reversed, h, r, t
    <3>8. h \o r = Swap(s)
      <4>1. \A i \in 1 .. Len(s) : (h \o r)[i] = Swap(s)[i]
        BY <2>1, <3>5, <3>6
      <4>2. Swap(s) \in Seq(Bytes)
        BY <2>3 DEF Packet
      <4> HIDE DEF Swap
      <4> QED BY <2>3, <3>5, <4>1, <4>2, SeqEqual
    <3> QED BY <3>7, <3>8
  <2> QED BY <2>3, <2>4
<1>2. Swap(Swap(p)) = p
  <2>1. Len(p) \in Nat \ {0} /\ p \in [1 .. Len(p) -> Bytes]
    BY DEF Packet
  <2>2. Len(Swap(p)) = Len(p)
    BY <1>1
  <2>3. \A i \in 1 .. Len(p) :
            (IF i = 1 THEN Swap(p)[1] ELSE Swap(p)[Len(p) + 2 - i]) = p[i]
    BY <2>1
  <2> QED BY <2>1, <2>2, <2>3
<1>3. Swap(p) \in Packet /\ Reversed(p) = Swap(p) /\ Len(Swap(p)) = Len(p)
  BY <1>1
<1>4. Reversed(Swap(p)) = Swap(Swap(p))
  <2> HIDE DEF Swap
  <2> QED BY <1>1, <1>3
<1> QED
  BY <1>2, <1>3, <1>4

\* xor_reverse, in place or not, is the reverse of XORProcessor.
LEMMA SwappedIs ==
  ASSUME NEW src \in Packet, NEW dst \in Seq(Bytes), Len(dst) = Len(src)
  PROVE  SwappedInto(dst, src) = Reversed(src)
<1> DEFINE n == Len(src)
           m == (n - 1) \div 2
           rev == Reversed(src)
           Done(k) == [i \in 1 .. n |-> IF i <= k + 1 \/ n - k < i THEN rev[i] ELSE dst[i]]
           Exchange(g, k) == [g EXCEPT ![k + 1] = src[n - k + 1], ![n - k + 1] = src[k + 1]]
           Loop(g) == [k \in 0 .. m |-> IF k = 0 THEN [dst EXCEPT ![1] = src[1]]
                                        ELSE [g[k - 1] EXCEPT ![k + 1] = src[n - k + 1],
                                                              ![n - k + 1] = src[k + 1]]]
<1>1. n \in Nat \ {0} /\ DOMAIN dst = 1 .. n /\ dst \in [1 .. n -> Bytes]
  BY DEF Packet
<1>2. rev = [i \in 1 .. n |-> IF i = 1 THEN src[1] ELSE src[n + 2 - i]]
  BY ReversedIs
<1> HIDE DEF rev, n
<1>3. m \in Nat /\ (n = 2 * m + 1 \/ n = 2 * m + 2)
  BY <1>1
<1> HIDE DEF m
<1>4. Done(0) = [dst EXCEPT ![1] = src[1]]
  <2>1. rev[1] = src[1]
    BY <1>1, <1>2
  <2>2. \A i \in 1 .. n : (IF i <= 0 + 1 \/ n - 0 < i THEN rev[i] ELSE dst[i])
                           = IF i = 1 THEN src[1] ELSE dst[i]
    BY <1>1, <2>1
  <2>3. [dst EXCEPT ![1] = src[1]] = [i \in 1 .. n |-> IF i = 1 THEN src[1] ELSE dst[i]]
    BY <1>1
  <2> QED BY <2>2, <2>3
<1>5. ASSUME NEW k \in 1 .. m PROVE Done(k) = Exchange(Done(k - 1), k)
  <2>1. k + 1 \in 2 .. n /\ n - k + 1 \in 2 .. n /\ k + 1 # n - k + 1
    <3>1. n \in Nat /\ m \in Nat /\ k \in Nat /\ 1 <= k /\ k <= m
      BY <1>1, <1>3
    <3>2. CASE n = 2 * m + 1
      BY <3>1, <3>2
    <3>3. CASE n = 2 * m + 2
      BY <3>1, <3>3
    <3> QED BY <1>3, <3>2, <3>3
  <2>2. rev[k + 1] = src[n - k + 1] /\ rev[n - k + 1] = src[k + 1]
    BY <1>1, <1>2, <2>1
  <2>3. DOMAIN Done(k - 1) = 1 .. n
    OBVIOUS
  <2>4. Exchange(Done(k - 1), k) =
            [i \in 1 .. n |-> IF i = n - k + 1 THEN rev[i]
                              ELSE IF i = k + 1 THEN rev[i] ELSE Done(k - 1)[i]]
    <3> DEFINE d == Done(k - 1)
    <3>1. DOMAIN d = 1 .. n /\ d = [i \in 1 .. n |-> d[i]]
      OBVIOUS
    <3> HIDE DEF d
    <3>2. Exchange(d, k) = [i \in 1 .. n |-> IF i = n - k + 1 THEN src[k + 1]
                              ELSE IF i = k + 1 THEN src[n - k + 1] ELSE d[i]]
      BY <2>1, <3>1
    <3>3. \A i \in 1 .. n : (IF i = n - k + 1 THEN src[k + 1]
                              ELSE IF i = k + 1 THEN src[n - k + 1] ELSE d[i])
                         = (IF i = n - k + 1 THEN rev[i]
                              ELSE IF i = k + 1 THEN rev[i] ELSE d[i])
      BY <2>2
    <3> QED BY <3>2, <3>3 DEF d
  <2>5. \A i \in 1 .. n : Done(k)[i] = IF i = n - k + 1 THEN rev[i]
                              ELSE IF i = k + 1 THEN rev[i] ELSE Done(k - 1)[i]
    BY <1>1, <2>1
  <2> QED BY <2>4, <2>5
<1> HIDE DEF Done, Exchange
<1> DEFINE h == [k \in 0 .. m |-> Done(k)]
<1>6. h = Loop(h)
  BY <1>3, <1>4, <1>5 DEF Exchange
<1> DEFINE f == CHOOSE g : g = Loop(g)
<1>7. f = Loop(f)
  BY <1>6
<1> HIDE DEF f
<1>8. f[m] = Done(m)
  <2> DEFINE wrong == {k \in 0 .. m : f[k] # Done(k)}
  <2> SUFFICES ASSUME m \in wrong PROVE FALSE
    BY <1>3
  <2>1. PICK k \in wrong : \A y \in wrong : k <= y
    <3>1. wrong \in SUBSET Nat /\ wrong # {}
      OBVIOUS
    <3> HIDE DEF wrong
    <3> QED BY <3>1, LeastOf
  <2>2. k # 0
    BY <1>3, <1>4, <1>7
  <2>3. k \in 1 .. m /\ k - 1 \in 0 .. m /\ k - 1 \notin wrong
    <3>1. k \in 1 .. m
      BY <1>3, <2>2
    <3> HIDE DEF wrong
    <3> QED BY <1>3, <2>1, <3>1
  <2>4. f[k] = Exchange(f[k - 1], k)
    <3> DEFINE l == Loop(f)
    <3>1. k \in 0 .. m /\ k # 0
      BY <1>3, <2>3
    <3>2. l[k] = Exchange(f[k - 1], k)
      BY <3>1 DEF Exchange
    <3>3. f = l
      BY <1>7
    <3> HIDE DEF l
    <3> QED BY <3>2, <3>3
  <2>5. f[k - 1] = Done(k - 1)
    BY <2>3
  <2> QED BY <1>5, <2>3, <2>4, <2>5
<1>9. SwappedInto(dst, src) = IF n % 2 = 0 THEN [f[m] EXCEPT ![n \div 2 + 1] = src[n \div 2 + 1]]
                              ELSE f[m]
  BY Zenon DEF SwappedInto, f, m, n
<1>10. \A i \in 1 .. n : Done(m)[i] = IF i = m + 2 /\ n = 2 * m + 2 THEN dst[i] ELSE rev[i]
  <2> TAKE i \in 1 .. n
  <2>1. (i <= m + 1 \/ n - m < i) <=> ~(i = m + 2 /\ n = 2 * m + 2)
    BY <1>1, <1>3
  <2> QED BY <2>1 DEF Done
<1>11. CASE n = 2 * m + 1
  <2>1. n % 2 # 0
    BY <1>3, <1>11
  <2>2. Done(m) = rev
    BY <1>2, <1>3, <1>10, <1>11 DEF Done
  <2> QED BY <1>8, <1>9, <2>1, <2>2 DEF rev
<1>12. CASE n = 2 * m + 2
  <2>1. n % 2 = 0 /\ n \div 2 + 1 = m + 2 /\ m + 2 \in 2 .. n
    BY <1>3, <1>12
  <2>2. rev[m + 2] = src[m + 2]
    BY <1>2, <1>12, <2>1
  <2>3. [Done(m) EXCEPT ![m + 2] = src[m + 2]] = rev
    <3> DEFINE d == Done(m)
    <3>1. d = [i \in 1 .. n |-> d[i]] /\ \A i \in 1 .. n : d[i] = IF i = m + 2 THEN dst[i] ELSE rev[i]
      BY <1>10, <1>12 DEF Done
    <3> HIDE DEF d
    <3>2. rev = [i \in 1 .. n |-> rev[i]]
      BY <1>2
    <3>3. [d EXCEPT ![m + 2] = src[m + 2]] = [i \in 1 .. n |-> IF i = m + 2 THEN src[m + 2] ELSE d[i]]
      BY <3>1
    <3> QED BY <2>2, <3>1, <3>2, <3>3 DEF d
  <2> QED BY <1>8, <1>9, <2>1, <2>3 DEF rev
<1> QED
  BY <1>3, <1>11, <1>12

\* The two ends undo each other, whichever of them writes.
LEMMA RoundTrip ==
  ASSUME NEW p \in Packet, method \in Methods, mask \in Seq(Bytes)
  PROVE  /\ Outgoing(p) \in Packet /\ Len(Outgoing(p)) = Len(p)
         /\ Incoming(Outgoing(p)) = p
<1> DEFINE Hide(q) == Masked(PtrPos(Reversed(PtrPos(q))), mask)
           Show(q) == PtrPos(Reversed(PtrPos(Masked(q, mask))))
<1>1. ASSUME NEW q \in Packet
      PROVE  /\ q \in Seq(Bytes) /\ Len(Zeros(Len(q))) = Len(q) /\ Zeros(Len(q)) \in Seq(Bytes)
             /\ PtrPos(q) \in Packet /\ PtrPos(q) \in Seq(Bytes)
  <2>1. Len(q) \in Nat \ {0} /\ q \in Seq(Bytes)
    BY DEF Packet
  <2>2. Zeros(Len(q)) \in [1 .. Len(q) -> Bytes]
    BY DEF Zeros, Bytes
  <2>3. Zeros(Len(q)) \in Packet /\ Len(Zeros(Len(q))) = Len(q)
    BY <2>1, <2>2, PacketIs
  <2>4. PtrPos(q) \in Packet
    BY PtrPosIs
  <2> QED BY <2>1, <2>3, <2>4 DEF Packet
<1>2. ASSUME NEW q \in Packet, NEW outbound \in BOOLEAN
      PROVE  /\ Memcpy("none", mask, q, outbound) = q
             /\ Memcpy("mask", mask, q, outbound) = Masked(q, mask)
             /\ Memcpy("ptrpos", mask, q, outbound) = PtrPos(q)
             /\ Memcpy("reverse", mask, q, outbound) = Reversed(q)
             /\ Memcpy("obfuscate", mask, q, outbound) = IF outbound THEN Hide(q) ELSE Show(q)
  <2>1. SwappedInto(IF outbound THEN Zeros(Len(q)) ELSE q, q) = Reversed(q)
    <3>1. CASE outbound
      BY <1>1, <3>1, SwappedIs
    <3>2. CASE ~outbound
      BY <1>1, <3>2, SwappedIs
    <3> QED BY <3>1, <3>2
  <2>2. ASSUME NEW r \in Packet PROVE SwappedInto(r, r) = Reversed(r)
    BY <1>1, SwappedIs
  <2>3. PtrPos(q) \in Packet /\ PtrPos(Masked(q, mask)) \in Packet
    BY MaskedIs, PtrPosIs
  <2>4. /\ SwappedInto(PtrPos(q), PtrPos(q)) = Reversed(PtrPos(q))
        /\ SwappedInto(PtrPos(Masked(q, mask)), PtrPos(Masked(q, mask)))
              = Reversed(PtrPos(Masked(q, mask)))
    BY <2>2, <2>3
  <2> QED BY <2>1, <2>4 DEF Memcpy
<1>3. ASSUME NEW q \in Packet, NEW outbound \in BOOLEAN
      PROVE  /\ ProcessPacket("none", mask, q, outbound) = q
             /\ ProcessPacket("mask", mask, q, outbound) = Masked(q, mask)
             /\ ProcessPacket("ptrpos", mask, q, outbound) = PtrPos(q)
             /\ ProcessPacket("reverse", mask, q, outbound) = Reversed(q)
             /\ ProcessPacket("obfuscate", mask, q, outbound) = IF outbound THEN Hide(q) ELSE Show(q)
  BY DEF ProcessPacket
<1>4. ASSUME NEW q \in Packet, NEW outbound \in BOOLEAN
      PROVE  Memcpy(method, mask, q, outbound) = ProcessPacket(method, mask, q, outbound)
  <2> HIDE DEF Hide, Show
  <2> QED BY <1>2, <1>3 DEF Methods
<1> DEFINE Go(q) == ProcessPacket(method, mask, q, TRUE)
           Come(q) == ProcessPacket(method, mask, q, FALSE)
<1>5. Hide(p) \in Packet /\ Len(Hide(p)) = Len(p) /\ Show(Hide(p)) = p
  <2> DEFINE q == PtrPos(p)
             r == Reversed(q)
             s == PtrPos(r)
  <2>1. q \in Packet /\ Len(q) = Len(p) /\ PtrPos(q) = p
    BY PtrPosIs
  <2> HIDE DEF q
  <2>2. r \in Packet /\ Len(r) = Len(p) /\ Reversed(r) = q
    BY <2>1, ReversedIs
  <2> HIDE DEF r
  <2>3. s \in Packet /\ Len(s) = Len(p) /\ PtrPos(s) = r
    BY <2>2, PtrPosIs
  <2> HIDE DEF s
  <2>4. Masked(s, mask) \in Packet /\ Len(Masked(s, mask)) = Len(p) /\ Masked(Masked(s, mask), mask) = s
    BY <2>3, MaskedIs
  <2>5. Hide(p) = Masked(s, mask)
    BY DEF q, r, s
  <2> QED BY <2>1, <2>2, <2>3, <2>4, <2>5
<1> HIDE DEF Hide, Show
<1>6. Go(p) \in Packet /\ Len(Go(p)) = Len(p) /\ Come(Go(p)) = p
  <2>1. CASE method = "none"
    BY <1>3, <2>1
  <2>2. CASE method = "mask"
    BY <1>3, <2>2, MaskedIs
  <2>3. CASE method = "ptrpos"
    BY <1>3, <2>3, PtrPosIs
  <2>4. CASE method = "reverse"
    BY <1>3, <2>4, ReversedIs
  <2>5. CASE method = "obfuscate"
    BY <1>3, <1>5, <2>5
  <2> QED BY <2>1, <2>2, <2>3, <2>4, <2>5 DEF Methods
<1>7. Outgoing(p) = Go(p)
  BY <1>4 DEF Outgoing
<1>8. Incoming(Go(p)) = Come(Go(p))
  <2> HIDE DEF Go
  <2> QED BY <1>4, <1>6 DEF Incoming
<1> QED
  BY <1>6, <1>7, <1>8

-----------------------------------------------------------------------------
(* Sequences of sequences of bytes, one after the other.                   *)

\* Bytes put together in any order of the pieces.
LEMMA Together ==
  ASSUME NEW a \in Seq(Bytes), NEW b \in Seq(Bytes), NEW c \in Seq(Bytes)
  PROVE  (a \o b) \o c = a \o (b \o c)
BY ConcatAssociative

\* g[k] is the first k sequences together.
Joins(g, qs) == /\ g \in [0 .. Len(qs) -> Seq(Bytes)] /\ g[0] = <<>>
                /\ \A k \in 1 .. Len(qs) : g[k] = g[k - 1] \o qs[k]

\* Each sequence has its joins.
LEMMA JoinExists ==
  ASSUME NEW qs \in Seq(Seq(Bytes))
  PROVE  \E g : Joins(g, qs)
<1> DEFINE S == Seq(Bytes)
           n == Len(qs)
           step == [k \in 1 .. n |-> [x \in S |-> x \o qs[k]]]
<1>1. n \in Nat /\ <<>> \in S /\ \A k \in 1 .. n : qs[k] \in S
  OBVIOUS
<1>2. \A k \in 1 .. n : [x \in S |-> x \o qs[k]] \in [S -> S]
  BY <1>1
<1>3. step \in Steps(n, S)
  BY <1>2 DEF Steps
<1> HIDE DEF step
<1>4. PICK g : GoesOn(g, n, S, <<>>, step)
  <2> HIDE DEF S, n
  <2> QED BY <1>1, <1>3, Recursion
<1>5. \A k \in 1 .. n : g[k] = g[k - 1] \o qs[k]
  <2> TAKE k \in 1 .. n
  <2> HIDE DEF S, n
  <2>1. k - 1 \in 0 .. n
    BY <1>1
  <2>2. g[k - 1] \in S /\ g[k] = step[k][g[k - 1]]
    BY <1>4, <2>1 DEF GoesOn
  <2> QED BY <2>2 DEF step
<1> QED
  BY <1>4, <1>5 DEF Joins, GoesOn

\* The last join is the whole: FlattenSeq is a recursive function too.
LEMMA JoinIs ==
  ASSUME NEW qs \in Seq(Seq(Bytes)), NEW g, Joins(g, qs)
  PROVE  FlattenSeq(qs) = g[Len(qs)] /\ FlattenSeq(qs) \in Seq(Bytes)
<1> DEFINE n == Len(qs)
           Loop(h) == [i \in 1 .. n |-> IF i = 1 THEN qs[i] ELSE h[i - 1] \o qs[i]]
<1>1. n \in Nat /\ \A k \in 1 .. n : qs[k] \in Seq(Bytes)
  OBVIOUS
<1>2. CASE n = 0
  <2>1. qs = <<>>
    BY <1>2
  <2> QED BY <1>2, <2>1 DEF FlattenSeq, Joins
<1>3. CASE n # 0
  <2> DEFINE h == [i \in 1 .. n |-> g[i]]
             f == CHOOSE x : x = Loop(x)
  <2>1. g[1] = qs[1]
    <3>1. g[1] = <<>> \o qs[1]
      <4>1. 1 \in 1 .. n /\ 1 - 1 = 0
        BY <1>1, <1>3
      <4> QED BY <4>1 DEF Joins
    <3> QED BY <1>1, <1>3, <3>1, ConcatEmptySeq
  <2>2. h = Loop(h)
    <3>1. \A i \in 1 .. n : g[i] = IF i = 1 THEN qs[i] ELSE h[i - 1] \o qs[i]
      <4> TAKE i \in 1 .. n
      <4>1. g[i] = g[i - 1] \o qs[i]
        BY DEF Joins
      <4>2. i # 1 => i - 1 \in 1 .. n
        BY <1>1
      <4> QED BY <2>1, <4>1, <4>2
    <3> QED BY <3>1
  <2>3. f = Loop(f)
    BY <2>2
  <2> HIDE DEF f
  <2>4. f[n] = g[n]
    <3> DEFINE wrong == {k \in 1 .. n : f[k] # g[k]}
    <3> SUFFICES ASSUME n \in wrong PROVE FALSE
      BY <1>1, <1>3
    <3>1. PICK k \in wrong : \A y \in wrong : k <= y
      <4>1. wrong \in SUBSET Nat /\ wrong # {}
        OBVIOUS
      <4> HIDE DEF wrong
      <4> QED BY <4>1, LeastOf
    <3>2. k # 1
      BY <1>1, <1>3, <2>1, <2>3
    <3>3. k - 1 \in 1 .. n /\ k - 1 \notin wrong
      <4>1. k \in 2 .. n
        BY <1>1, <3>2
      <4> HIDE DEF wrong
      <4> QED BY <1>1, <3>1, <4>1
    <3>4. f[k] = f[k - 1] \o qs[k]
      BY <2>3, <3>2
    <3>5. g[k] = g[k - 1] \o qs[k]
      BY <3>1 DEF Joins
    <3> QED BY <3>3, <3>4, <3>5
  <2>5. FlattenSeq(qs) = f[n]
    BY <1>3, Zenon DEF FlattenSeq, f
  <2>6. g[n] \in Seq(Bytes)
    BY <1>1 DEF Joins
  <2> QED BY <2>4, <2>5, <2>6
<1> QED
  BY <1>2, <1>3

\* What is joined in two parts is joined as one.
LEMMA FlatConcat ==
  ASSUME NEW qs \in Seq(Seq(Bytes)), NEW rs \in Seq(Seq(Bytes))
  PROVE  FlattenSeq(qs \o rs) = FlattenSeq(qs) \o FlattenSeq(rs)
<1> DEFINE n == Len(qs)
           m == Len(rs)
           ts == qs \o rs
<1>1. PICK g : Joins(g, qs)
  BY JoinExists
<1>2. PICK h : Joins(h, rs)
  BY JoinExists
<1> DEFINE f == [k \in 0 .. n + m |-> IF k <= n THEN g[k] ELSE g[n] \o h[k - n]]
<1>3. n \in Nat /\ m \in Nat /\ ts \in Seq(Seq(Bytes)) /\ Len(ts) = n + m
  OBVIOUS
<1>4. \A i \in 1 .. n + m : ts[i] = IF i <= n THEN qs[i] ELSE rs[i - n]
  BY ConcatProperties
<1>5. g[n] \in Seq(Bytes) /\ \A k \in 0 .. m : h[k] \in Seq(Bytes)
  <2> HIDE DEF ts, n, m
  <2>1. n \in 0 .. n
    BY <1>3
  <2>2. g[n] \in Seq(Bytes)
    BY <1>1, <2>1 DEF Joins, n
  <2> QED BY <1>2, <2>2 DEF Joins, m
<1> HIDE DEF ts, n, m
<1>6. f \in [0 .. n + m -> Seq(Bytes)] /\ f[0] = <<>>
  <2>1. \A k \in 0 .. n : g[k] \in Seq(Bytes)
    BY <1>1 DEF Joins, n
  <2>2. \A k \in 0 .. m : g[n] \o h[k] \in Seq(Bytes)
    BY <1>5
  <2>3. \A k \in 0 .. n + m : (IF k <= n THEN g[k] ELSE g[n] \o h[k - n]) \in Seq(Bytes)
    <3> TAKE k \in 0 .. n + m
    <3>1. k <= n => k \in 0 .. n
      BY <1>3
    <3>2. ~(k <= n) => k - n \in 0 .. m
      BY <1>3
    <3> QED BY <2>1, <2>2, <3>1, <3>2
  <2>4. f[0] = g[0]
    BY <1>3
  <2> QED BY <1>1, <2>3, <2>4 DEF Joins
<1>7. \A k \in 1 .. n + m : f[k] = f[k - 1] \o ts[k]
  <2> TAKE k \in 1 .. n + m
  <2>1. CASE k <= n
    <3>1. k \in 1 .. n /\ k - 1 \in 0 .. n + m /\ k \in 0 .. n + m /\ k - 1 <= n
      BY <1>3, <2>1
    <3>2. g[k] = g[k - 1] \o qs[k]
      BY <1>1, <3>1 DEF Joins, n
    <3> QED BY <1>4, <2>1, <3>1, <3>2
  <2>2. CASE k > n
    <3> DEFINE j == k - n
    <3>1. j \in 1 .. m /\ j - 1 \in 0 .. m /\ k - 1 \in 0 .. n + m /\ k \in 0 .. n + m /\ (k - 1) - n = j - 1
      BY <1>3, <2>2
    <3>2. h[j] = h[j - 1] \o rs[j] /\ rs[j] \in Seq(Bytes) /\ h[j - 1] \in Seq(Bytes)
      <4> HIDE DEF j
      <4>1. rs[j] \in Seq(Bytes)
        BY <3>1 DEF m
      <4> QED BY <1>2, <1>5, <3>1, <4>1 DEF Joins, m
    <3>3. f[k] = g[n] \o h[j] /\ ts[k] = rs[j]
      <4>1. ~(k <= n) /\ k \in 0 .. n + m
        BY <1>3, <2>2
      <4> QED BY <1>4, <4>1
    <3>4. f[k - 1] = g[n] \o h[j - 1]
      <4>1. CASE k - 1 <= n
        <5>1. k - 1 = n /\ j - 1 = 0
          BY <1>3, <2>2, <4>1
        <5>2. h[j - 1] = <<>>
          BY <1>2, <5>1 DEF Joins
        <5>3. f[k - 1] = g[n]
          BY <1>3, <5>1
        <5> QED BY <1>5, <5>2, <5>3, ConcatEmptySeq
      <4>2. CASE ~(k - 1 <= n)
        BY <3>1, <4>2
      <4> QED BY <4>1, <4>2
    <3> HIDE DEF f, j
    <3>5. (g[n] \o h[j - 1]) \o rs[j] = g[n] \o (h[j - 1] \o rs[j])
      <4> DEFINE a == g[n]
                 b == h[j - 1]
                 c == rs[j]
      <4>1. a \in Seq(Bytes) /\ b \in Seq(Bytes) /\ c \in Seq(Bytes)
        BY <1>5, <3>2
      <4> HIDE DEF a, b, c
      <4>2. (a \o b) \o c = a \o (b \o c)
        BY <4>1, Together
      <4> QED BY <4>2 DEF a, b, c
    <3> QED BY <3>2, <3>3, <3>4, <3>5
  <2>3. k <= n \/ k > n
    BY <1>3
  <2> HIDE DEF f
  <2> QED BY <2>1, <2>2, <2>3
<1>8. Joins(f, ts)
  <2> HIDE DEF f
  <2> QED BY <1>3, <1>6, <1>7 DEF Joins
<1>9. f[n + m] = g[n] \o h[m]
  <2>1. CASE m = 0
    <3>1. h[m] = <<>> /\ f[n + m] = g[n]
      BY <1>2, <1>3, <2>1 DEF Joins
    <3> QED BY <1>5, <3>1, ConcatEmptySeq
  <2>2. CASE m # 0
    <3>1. n + m \in 0 .. n + m /\ ~(n + m <= n) /\ (n + m) - n = m
      BY <1>3, <2>2
    <3> QED BY <3>1
  <2> QED BY <2>1, <2>2
<1>10. FlattenSeq(ts) = f[n + m]
  <2> HIDE DEF f
  <2> QED BY <1>3, <1>8, JoinIs
<1>11. FlattenSeq(qs) = g[n] /\ FlattenSeq(rs) = h[m]
  BY <1>1, <1>2, JoinIs DEF n, m
<1> QED
  BY <1>9, <1>10, <1>11 DEF ts

\* Nothing, one sequence, and the type of any number of them.
LEMMA FlatIs ==
  /\ FlattenSeq(<<>>) = <<>>
  /\ \A q \in Seq(Bytes) : FlattenSeq(<<q>>) = q
  /\ \A qs \in Seq(Seq(Bytes)) : FlattenSeq(qs) \in Seq(Bytes)
<1>1. FlattenSeq(<<>>) = <<>>
  BY DEF FlattenSeq
<1>2. ASSUME NEW q \in Seq(Bytes) PROVE FlattenSeq(<<q>>) = q
  <2> DEFINE g == [k \in 0 .. 1 |-> IF k = 0 THEN <<>> ELSE q]
             qs == <<q>>
  <2>1. qs \in Seq(Seq(Bytes)) /\ Len(qs) = 1 /\ qs[1] = q
    OBVIOUS
  <2> HIDE DEF qs
  <2>2. g[1] = g[0] \o q /\ g[0] = <<>> /\ g[1] = q
    BY ConcatEmptySeq
  <2>3. g \in [0 .. 1 -> Seq(Bytes)]
    OBVIOUS
  <2> HIDE DEF g
  <2>4. Joins(g, qs)
    BY <2>1, <2>2, <2>3 DEF Joins
  <2> QED BY <2>1, <2>2, <2>4, JoinIs DEF qs
<1>3. ASSUME NEW qs \in Seq(Seq(Bytes)) PROVE FlattenSeq(qs) \in Seq(Bytes)
  BY JoinExists, JoinIs
<1> QED
  BY <1>1, <1>2, <1>3

-----------------------------------------------------------------------------
(* A stream of packets, and where each begins.                             *)

\* The packets that a header can tell the length of.
Frame     == {p \in Packet : Len(p) < ByteCount * ByteCount}
Framed(p) == Header(Len(p)) \o p
Frames(q) == [n \in DOMAIN q |-> Framed(q[n])]

\* A framed packet begins with its length.
LEMMA FramedIs ==
  ASSUME NEW p \in Frame
  PROVE  /\ p \in Seq(Bytes) /\ Len(p) \in Nat /\ Framed(p) \in Seq(Bytes)
         /\ Len(Framed(p)) = 2 + Len(p) /\ LengthAt(Framed(p), 1) = Len(p)
         /\ \A i \in 1 .. Len(p) : Framed(p)[2 + i] = p[i]
<1> DEFINE h == Header(Len(p))
           f == Framed(p)
<1>1. p \in Seq(Bytes) /\ Len(p) \in Nat
  BY DEF Frame, Packet
<1>2. h \in Seq(Bytes) /\ Len(h) = 2 /\ Number(h[1]) * ByteCount + Number(h[2]) = Len(p)
  BY <1>1, HeaderIs DEF Frame
<1> HIDE DEF h
<1>3. h \o p \in Seq(Bytes) /\ Len(h \o p) = Len(h) + Len(p)
  BY <1>1, <1>2, ConcatProperties
<1>4. \A i \in 1 .. Len(h) + Len(p) : (h \o p)[i] = IF i <= Len(h) THEN h[i] ELSE p[i - Len(h)]
  BY <1>1, <1>2, ConcatProperties
<1>5. f = h \o p
  BY DEF Framed, h
<1> HIDE DEF f
<1>6. f[1] = h[1] /\ f[2] = h[2] /\ \A i \in 1 .. Len(p) : f[2 + i] = p[i]
  <2>1. Len(h) = 2 /\ 2 + Len(p) \in Nat
    BY <1>1, <1>2
  <2>2. \A i \in 1 .. 2 + Len(p) : f[i] = IF i <= 2 THEN h[i] ELSE p[i - 2]
    BY <1>4, <1>5, <2>1
  <2>3. \A i \in 1 .. Len(p) : 2 + i \in 1 .. 2 + Len(p) /\ ~(2 + i <= 2) /\ (2 + i) - 2 = i
    BY <1>1
  <2> QED BY <1>1, <2>2, <2>3
<1>7. LengthAt(f, 1) = Len(p)
  BY <1>2, <1>6 DEF LengthAt
<1> QED
  BY <1>1, <1>2, <1>3, <1>5, <1>6, <1>7 DEF f

\* The type of a stream.
LEMMA FramesIs ==
  ASSUME NEW q \in Seq(Frame)
  PROVE  /\ Frames(q) \in Seq(Seq(Bytes)) /\ Len(Frames(q)) = Len(q)
         /\ \A n \in 1 .. Len(q) : Frames(q)[n] = Framed(q[n])
         /\ OutboundStream(q) = FlattenSeq(Frames(q)) /\ OutboundStream(q) \in Seq(Bytes)
<1> DEFINE n == Len(q)
<1>1. n \in Nat /\ DOMAIN q = 1 .. n /\ \A k \in 1 .. n : q[k] \in Frame
  OBVIOUS
<1> HIDE DEF n
<1>2. \A k \in 1 .. n : Framed(q[k]) \in Seq(Bytes)
  BY <1>1, FramedIs
<1>3. Frames(q) = [k \in 1 .. n |-> Framed(q[k])]
  BY <1>1 DEF Frames
<1>4. Frames(q) \in [1 .. n -> Seq(Bytes)]
  BY <1>2, <1>3
<1>5. Frames(q) \in Seq(Seq(Bytes)) /\ Len(Frames(q)) = n
  BY <1>1, <1>4
<1>6. OutboundStream(q) = FlattenSeq(Frames(q))
  BY DEF OutboundStream, Frames, Framed
<1> QED
  BY <1>3, <1>5, <1>6, FlatIs DEF n

\* No packets, no bytes.
LEMMA OutboundNothing == OutboundStream(<<>>) = <<>>
<1>1. Frames(<<>>) = <<>> /\ <<>> \in Seq(Frame)
  BY DEF Frames
<1> QED
  BY <1>1, FramesIs, FlatIs

\* Packets written later come later.
LEMMA OutboundConcat ==
  ASSUME NEW q \in Seq(Frame), NEW r \in Seq(Frame)
  PROVE  OutboundStream(q \o r) = OutboundStream(q) \o OutboundStream(r)
<1> DEFINE t == q \o r
           u == Frames(q) \o Frames(r)
<1>1. /\ t \in Seq(Frame) /\ Len(t) = Len(q) + Len(r) /\ Len(q) \in Nat /\ Len(r) \in Nat
      /\ \A i \in 1 .. Len(q) + Len(r) : t[i] = IF i <= Len(q) THEN q[i] ELSE r[i - Len(q)]
  BY ConcatProperties
<1>2. /\ u \in Seq(Seq(Bytes)) /\ Len(u) = Len(q) + Len(r)
      /\ \A i \in 1 .. Len(q) + Len(r) :
            u[i] = IF i <= Len(q) THEN Frames(q)[i] ELSE Frames(r)[i - Len(q)]
  <2> DEFINE fq == Frames(q)
             fr == Frames(r)
  <2>1. fq \in Seq(Seq(Bytes)) /\ fr \in Seq(Seq(Bytes)) /\ Len(fq) = Len(q) /\ Len(fr) = Len(r)
    BY FramesIs
  <2> HIDE DEF fq, fr
  <2>2. /\ fq \o fr \in Seq(Seq(Bytes)) /\ Len(fq \o fr) = Len(fq) + Len(fr)
        /\ \A i \in 1 .. Len(fq) + Len(fr) :
              (fq \o fr)[i] = IF i <= Len(fq) THEN fq[i] ELSE fr[i - Len(fq)]
    BY <2>1, ConcatProperties
  <2> QED BY <2>1, <2>2 DEF fq, fr
<1> HIDE DEF t, u
<1>3. Frames(t) \in Seq(Seq(Bytes)) /\ Len(Frames(t)) = Len(t)
      /\ \A n \in 1 .. Len(t) : Frames(t)[n] = Framed(t[n])
  BY <1>1, FramesIs
<1>4. \A i \in 1 .. Len(t) : Frames(t)[i] = u[i]
  <2> TAKE i \in 1 .. Len(t)
  <2>1. CASE i <= Len(q)
    <3>1. i \in 1 .. Len(q)
      BY <1>1, <2>1
    <3>2. Frames(q)[i] = Framed(q[i])
      BY <3>1, FramesIs
    <3> QED BY <1>1, <1>2, <1>3, <2>1, <3>2
  <2>2. CASE ~(i <= Len(q))
    <3>1. i - Len(q) \in 1 .. Len(r)
      BY <1>1, <2>2
    <3>2. Frames(r)[i - Len(q)] = Framed(r[i - Len(q)])
      BY <3>1, FramesIs
    <3> QED BY <1>1, <1>2, <1>3, <2>2, <3>2
  <2> QED BY <2>1, <2>2
<1>5. Frames(t) = u
  BY <1>1, <1>2, <1>3, <1>4, SeqEqual
<1>6. FlattenSeq(u) = FlattenSeq(Frames(q)) \o FlattenSeq(Frames(r))
  BY FramesIs, FlatConcat DEF u
<1>7. OutboundStream(t) = FlattenSeq(Frames(t))
  BY <1>1, FramesIs
<1> QED
  BY <1>5, <1>6, <1>7, FramesIs DEF t

\* One packet alone is framed.
LEMMA OutboundOne ==
  ASSUME NEW p \in Frame
  PROVE  OutboundStream(<<p>>) = Framed(p)
<1> DEFINE q == <<p>>
<1>1. q \in Seq(Frame) /\ Len(q) = 1 /\ q[1] = p
  OBVIOUS
<1> HIDE DEF q
<1>2. Frames(q) \in Seq(Seq(Bytes)) /\ Len(Frames(q)) = 1 /\ Frames(q)[1] = Framed(p)
  BY <1>1, FramesIs
<1>3. Frames(q) = <<Framed(p)>>
  BY <1>2
<1>4. FlattenSeq(<<Framed(p)>>) = Framed(p)
  BY FramedIs, FlatIs
<1> QED
  BY <1>1, <1>3, <1>4, FramesIs DEF q

\* Where packet n ends, and the next begins.
At(q, n) == Len(OutboundStream(SubSeq(q, 1, n)))

\* A stream splits where a packet ends.
LEMMA SplitIs ==
  ASSUME NEW q \in Seq(Frame), NEW n \in 0 .. Len(q)
  PROVE  /\ SubSeq(q, 1, n) \in Seq(Frame) /\ SubSeq(q, n + 1, Len(q)) \in Seq(Frame)
         /\ q = SubSeq(q, 1, n) \o SubSeq(q, n + 1, Len(q))
         /\ OutboundStream(q) = OutboundStream(SubSeq(q, 1, n))
                                  \o OutboundStream(SubSeq(q, n + 1, Len(q)))
         /\ At(q, n) \in 0 .. Len(OutboundStream(q))
         /\ SubSeq(OutboundStream(q), At(q, n) + 1, Len(OutboundStream(q)))
              = OutboundStream(SubSeq(q, n + 1, Len(q)))
<1> DEFINE a == SubSeq(q, 1, n)
           b == SubSeq(q, n + 1, Len(q))
<1>1. a \in Seq(Frame) /\ b \in Seq(Frame)
  OBVIOUS
<1>2. q = a \o b
  <2>1. Len(q) \in Nat /\ 1 \in 1 .. Len(q) + 1 /\ n \in 1 - 1 .. Len(q) /\ Len(q) \in n .. Len(q)
    OBVIOUS
  <2>2. SubSeq(q, 1, n) \o SubSeq(q, n + 1, Len(q)) = SubSeq(q, 1, Len(q))
    BY <2>1, ConcatAdjacentSubSeq
  <2> QED BY <2>2, SubSeqFull
<1> HIDE DEF a, b
<1> DEFINE s == OutboundStream(q)
           x == OutboundStream(a)
           y == OutboundStream(b)
<1>3. s = x \o y /\ x \in Seq(Bytes) /\ y \in Seq(Bytes)
  BY <1>1, <1>2, OutboundConcat, FramesIs
<1> HIDE DEF s, x, y
<1>4. Len(x) \in 0 .. Len(s) /\ Len(s) = Len(x) + Len(y) /\ Len(y) \in Nat /\ Len(x) \in Nat
  BY <1>3
<1>5. SubSeq(s, Len(x) + 1, Len(s)) = y
  <2>1. \A i \in 1 .. Len(y) : s[Len(x) + i] = y[i]
    BY <1>3, <1>4
  <2>2. s \in Seq(Bytes)
    BY <1>3
  <2>3. /\ SubSeq(s, Len(x) + 1, Len(s)) \in Seq(Bytes)
        /\ Len(SubSeq(s, Len(x) + 1, Len(s))) = Len(y)
        /\ \A i \in 1 .. Len(y) : SubSeq(s, Len(x) + 1, Len(s))[i] = s[Len(x) + i]
    BY <1>4, <2>2
  <2> QED BY <1>3, <2>1, <2>3, SeqEqual
<1> QED
  BY <1>1, <1>2, <1>3, <1>4, <1>5 DEF a, b, s, x, y, At

\* The first packet begins at 0, the last ends with the stream.
LEMMA AtEnds ==
  ASSUME NEW q \in Seq(Frame)
  PROVE  At(q, 0) = 0 /\ At(q, Len(q)) = Len(OutboundStream(q))
<1>1. SubSeq(q, 1, 0) = <<>> /\ SubSeq(q, 1, Len(q)) = q
  BY SubSeqFull
<1>2. At(q, 0) = Len(OutboundStream(SubSeq(q, 1, 0))) /\ Len(<<>>) = 0
  BY DEF At
<1>3. At(q, Len(q)) = Len(OutboundStream(SubSeq(q, 1, Len(q))))
  BY DEF At
<1>4. OutboundStream(<<>>) = <<>>
  BY OutboundNothing
<1> QED
  BY <1>1, <1>2, <1>3, <1>4

\* What stands at the place of a packet.
LEMMA NextFrame ==
  ASSUME NEW q \in Seq(Frame), NEW n \in 0 .. Len(q) - 1
  PROVE  LET s  == OutboundStream(q)
             at == At(q, n)
             p  == q[n + 1]
         IN  /\ s \in Seq(Bytes) /\ at \in Nat /\ p \in Frame /\ Len(p) \in Nat
             /\ At(q, n + 1) = at + 2 + Len(p) /\ at + 2 + Len(p) <= Len(s)
             /\ LengthAt(s, at + 1) = Len(p)
             /\ SubSeq(s, at + 3, at + 2 + Len(p)) = p
<1> DEFINE s == OutboundStream(q)
           at == At(q, n)
           p == q[n + 1]
           a == SubSeq(q, 1, n)
           b == SubSeq(q, n + 2, Len(q))
           m == n + 1
           f == Framed(p)
<1>1. n \in 0 .. Len(q) /\ m \in 0 .. Len(q) /\ p \in Frame /\ m + 1 = n + 2 /\ m \in 1 .. Len(q)
  OBVIOUS
<1>2. SubSeq(q, 1, m) = a \o <<p>>
  <2>1. SubSeq(q, 1, m) = SubSeq(q, 1, m - 1) \o <<q[m]>>
    BY <1>1, SubSeqRecursiveSecond
  <2> QED BY <2>1
<1>3. a \in Seq(Frame) /\ s \in Seq(Bytes) /\ OutboundStream(a) \in Seq(Bytes) /\ <<p>> \in Seq(Frame)
  <2>1. a \in Seq(Frame) /\ <<p>> \in Seq(Frame)
    BY <1>1
  <2> HIDE DEF a, p
  <2> QED BY <2>1, FramesIs
<1>4. OutboundStream(SubSeq(q, 1, m)) = OutboundStream(a) \o f
  <2>1. OutboundStream(a \o <<p>>) = OutboundStream(a) \o OutboundStream(<<p>>)
    BY <1>3, OutboundConcat
  <2> QED BY <1>1, <1>2, <2>1, OutboundOne
<1>5. OutboundStream(b) \in Seq(Bytes) /\ s = OutboundStream(SubSeq(q, 1, m)) \o OutboundStream(b)
  <2>1. SubSeq(q, m + 1, Len(q)) = b
    BY <1>1
  <2> HIDE DEF m, b, s
  <2> QED BY <1>1, <2>1, SplitIs, FramesIs DEF s
<1> DEFINE x == OutboundStream(a)
           y == OutboundStream(b)
<1>6. /\ f \in Seq(Bytes) /\ Len(f) = 2 + Len(p) /\ LengthAt(f, 1) = Len(p) /\ p \in Seq(Bytes)
      /\ Len(p) \in Nat /\ \A i \in 1 .. Len(p) : f[2 + i] = p[i]
  BY <1>1, FramedIs
<1>7. at = Len(x) /\ At(q, m) = Len(OutboundStream(SubSeq(q, 1, m)))
  BY DEF At
<1>8. s = (x \o f) \o y /\ x \in Seq(Bytes) /\ y \in Seq(Bytes) /\ at = Len(x) /\ At(q, m) = Len(x \o f)
  BY <1>3, <1>4, <1>5, <1>7
<1> HIDE DEF s, at, p, x, y, f, m
<1>9. /\ x \o f \in Seq(Bytes) /\ Len(x \o f) = Len(x) + Len(f) /\ Len(x) \in Nat /\ Len(y) \in Nat
      /\ Len(s) = Len(x) + Len(f) + Len(y)
  <2>1. x \o f \in Seq(Bytes) /\ Len(x \o f) = Len(x) + Len(f)
    <3>1. x \in Seq(Bytes) /\ f \in Seq(Bytes)
      BY <1>6, <1>8
    <3> QED BY <3>1, ConcatProperties
  <2> DEFINE z == x \o f
  <2>2. z \in Seq(Bytes) /\ s = z \o y
    BY <1>8, <2>1
  <2> HIDE DEF z
  <2>3. Len(s) = Len(z) + Len(y)
    BY <1>8, <2>2
  <2> QED BY <1>8, <2>1, <2>3 DEF z
<1>10. \A i \in 1 .. Len(f) : s[Len(x) + i] = f[i]
  <2> TAKE i \in 1 .. Len(f)
  <2>1. s[Len(x) + i] = (x \o f)[Len(x) + i]
    <3> DEFINE z == x \o f
    <3>1. z \in Seq(Bytes) /\ Len(x) + i \in 1 .. Len(z) /\ s = z \o y
      BY <1>6, <1>8, <1>9
    <3> HIDE DEF z
    <3>2. (z \o y)[Len(x) + i] = z[Len(x) + i]
      BY <1>8, <3>1
    <3> QED BY <3>1, <3>2 DEF z
  <2>2. (x \o f)[Len(x) + i] = f[i]
    BY <1>6, <1>8, <1>9
  <2> QED BY <2>1, <2>2
<1>11. LengthAt(s, at + 1) = Len(p)
  <2>1. s[at + 1] = f[1] /\ s[at + 1 + 1] = f[2]
    BY <1>6, <1>8, <1>9, <1>10
  <2> QED BY <1>6, <2>1 DEF LengthAt
<1>12. SubSeq(s, at + 3, at + 2 + Len(p)) = p
  <2> DEFINE t == SubSeq(s, at + 3, at + 2 + Len(p))
  <2>1. s \in Seq(Bytes) /\ at \in Nat /\ at + 2 + Len(p) <= Len(s)
    BY <1>3, <1>6, <1>8, <1>9
  <2>2. t \in Seq(Bytes) /\ Len(t) = Len(p) /\ \A i \in 1 .. Len(p) : t[i] = s[at + 2 + i]
    BY <1>6, <2>1
  <2>3. \A i \in 1 .. Len(p) : s[at + 2 + i] = p[i]
    <3> TAKE i \in 1 .. Len(p)
    <3>1. 2 + i \in 1 .. Len(f) /\ at + (2 + i) = at + 2 + i
      BY <1>6, <2>1
    <3>2. s[at + (2 + i)] = f[2 + i]
      BY <1>8, <1>10, <3>1
    <3> QED BY <1>6, <3>1, <3>2
  <2> HIDE DEF t
  <2>4. t = p
    BY <1>6, <2>2, <2>3, SeqEqual
  <2> QED BY <2>4 DEF t
<1>13. s \in Seq(Bytes) /\ at \in Nat /\ p \in Frame /\ Len(p) \in Nat
       /\ At(q, m) = at + 2 + Len(p) /\ at + 2 + Len(p) <= Len(s)
  BY <1>1, <1>3, <1>6, <1>8, <1>9
<1> QED
  BY <1>11, <1>12, <1>13 DEF s, at, p, m

-----------------------------------------------------------------------------
(* Cutting a stream.                                                       *)

\* The length read anywhere in a stream is a number.
LEMMA LengthIs ==
  ASSUME NEW s \in Seq(Bytes), NEW i \in 1 .. Len(s) - 1
  PROVE  LengthAt(s, i) \in Nat
<1> DEFINE a == Number(s[i])
           b == Number(s[i + 1])
<1>1. s[i] \in Bytes /\ s[i + 1] \in Bytes
  OBVIOUS
<1>2. a \in Nat /\ b \in Nat /\ ByteCount \in Nat
  BY <1>1, NumberIs, PowerIs
<1> HIDE DEF a, b
<1>3. a * ByteCount + b \in Nat
  BY <1>2
<1> QED
  BY <1>3 DEF LengthAt, a, b

Short(s, ni) == \/ ni + HeaderLength > Len(s)
                \/ ni + HeaderLength + LengthAt(s, ni + 1) > Len(s)
End(s, ni)   == ni + HeaderLength + LengthAt(s, ni + 1)
\* What the loop does at ni, when f says what it does later.
Round(s, f, ni) ==
    IF Short(s, ni) THEN [packets |-> <<>>, until |-> ni]
    ELSE [packets |-> <<SubSeq(s, ni + HeaderLength + 1, End(s, ni))>> \o f[End(s, ni)].packets,
          until   |-> f[End(s, ni)].until]

\* The loop ends, because a round never goes back.
LEMMA RoundsExist ==
  ASSUME NEW s \in Seq(Bytes)
  PROVE  \E f : f = [ni \in 0 .. Len(s) |-> Round(s, f, ni)]
<1> DEFINE N == Len(s)
           From(k) == \E f : f = [ni \in k .. N |-> Round(s, f, ni)]
           missing == {d \in 0 .. N + 1 : ~From(N + 1 - d)}
<1> SUFFICES ASSUME ~From(0) PROVE FALSE
  OBVIOUS
<1>1. N \in Nat /\ (N + 1) - (N + 1) = 0
  OBVIOUS
<1>2. N + 1 \in missing /\ missing \in SUBSET Nat
  BY <1>1
<1>3. PICK d \in missing : \A y \in missing : d <= y
  <2> HIDE DEF missing
  <2> QED BY <1>2, LeastOf
<1>4. d # 0
  <2> DEFINE k == N + 1
  <2>1. k .. N = {}
    BY <1>1
  <2> HIDE DEF k, N
  <2> DEFINE f == [ni \in {} |-> 0]
  <2>2. f = [ni \in k .. N |-> Round(s, f, ni)]
    BY <2>1
  <2>3. From(k)
    BY <2>2
  <2>4. k - 0 = k
    BY <1>1 DEF k
  <2> QED BY <2>3, <2>4 DEF k
<1> DEFINE k == N + 1 - d
<1>5. d \in 1 .. N + 1 /\ k \in 0 .. N /\ ~From(k)
  BY <1>1, <1>3, <1>4
<1>6. From(k + 1)
  <2>1. d - 1 \in 0 .. N + 1 /\ N + 1 - (d - 1) = k + 1 /\ ~(d <= d - 1)
    BY <1>1, <1>5
  <2>2. d - 1 \notin missing
    <3> HIDE DEF missing
    <3> QED BY <1>3, <2>1
  <2> HIDE DEF k
  <2> QED BY <2>1, <2>2
<1> HIDE DEF k, N
<1>7. PICK f : f = [ni \in k + 1 .. N |-> Round(s, f, ni)]
  BY <1>6
<1> DEFINE h == [ni \in k .. N |-> IF ni = k THEN Round(s, f, k) ELSE f[ni]]
<1>8. \A ni \in k .. N : Round(s, h, ni) = Round(s, f, ni)
  <2> TAKE ni \in k .. N
  <2>1. CASE Short(s, ni)
    BY <2>1 DEF Round
  <2>2. CASE ~Short(s, ni)
    <3> DEFINE l == LengthAt(s, ni + 1)
               e == End(s, ni)
    <3>1. ni + 1 \in 1 .. Len(s) - 1
      BY <1>1, <1>5, <2>2 DEF Short, HeaderLength, N
    <3>2. l \in Nat /\ e = ni + 2 + l /\ e <= N
      BY <2>2, <3>1, LengthIs DEF Short, End, HeaderLength, N
    <3> HIDE DEF l, e
    <3>3. e \in k .. N /\ e # k
      BY <1>1, <1>5, <3>2
    <3>4. h[e] = f[e]
      BY <3>3
    <3> QED BY <3>4 DEF Round, e
  <2> QED BY <2>1, <2>2
<1>9. \A ni \in k .. N : h[ni] = Round(s, h, ni)
  <2> TAKE ni \in k .. N
  <2>1. CASE ni = k
    <3>1. h[ni] = Round(s, f, ni)
      BY <2>1
    <3> HIDE DEF h
    <3> QED BY <1>8, <3>1
  <2>2. CASE ni # k
    <3>1. ni \in k + 1 .. N
      BY <1>1, <1>5, <2>2
    <3>2. f[ni] = Round(s, f, ni)
      BY <1>7, <3>1
    <3>3. h[ni] = f[ni]
      BY <2>2
    <3> HIDE DEF h
    <3> QED BY <1>8, <3>2, <3>3
  <2> QED BY <2>1, <2>2
<1>10. h = [ni \in k .. N |-> h[ni]]
  OBVIOUS
<1> HIDE DEF h
<1>11. h = [ni \in k .. N |-> Round(s, h, ni)]
  BY <1>9, <1>10
<1> QED
  BY <1>5, <1>11

\* packetsFromInboundStream is the first of the rounds.
LEMMA CutIs ==
  ASSUME NEW s \in Seq(Bytes)
  PROVE  \E f : InboundPackets(s) = f[0] /\ \A ni \in 0 .. Len(s) : f[ni] = Round(s, f, ni)
<1> DEFINE f == CHOOSE g : g = [ni \in 0 .. Len(s) |-> Round(s, g, ni)]
<1>1. f = [ni \in 0 .. Len(s) |-> Round(s, f, ni)]
  BY RoundsExist
<1>2. InboundPackets(s) = f[0]
  BY Zenon DEF InboundPackets, f, Round, Short, End
<1> HIDE DEF f
<1>3. \A ni \in 0 .. Len(s) : f[ni] = Round(s, f, ni)
  <2> DEFINE l == [ni \in 0 .. Len(s) |-> Round(s, f, ni)]
  <2>1. \A ni \in 0 .. Len(s) : l[ni] = Round(s, f, ni)
    OBVIOUS
  <2>2. f = l
    BY <1>1
  <2> HIDE DEF l
  <2> QED BY <2>1, <2>2
<1> QED
  BY <1>2, <1>3

\* However a stream of packets is cut in two, the first part yields the packets
\* that are in it in full.
LEMMA CutFrames ==
  ASSUME NEW q \in Seq(Frame), NEW a \in Seq(Bytes), NEW b \in Seq(Bytes),
         a \o b = OutboundStream(q)
  PROVE  \E j \in 0 .. Len(q) :
            /\ InboundPackets(a) = [packets |-> SubSeq(q, 1, j), until |-> At(q, j)]
            /\ At(q, j) <= Len(a)
            /\ b = <<>> => j = Len(q)
<1> DEFINE s == OutboundStream(q)
           N == Len(q)
           over == {n \in 1 .. N : At(q, n) > Len(a)}
<1>1. N \in Nat /\ Len(a) \in Nat /\ Len(b) \in Nat /\ Len(s) = Len(a) + Len(b)
      /\ \A i \in 1 .. Len(a) : s[i] = a[i]
  OBVIOUS
<1>2. \A n \in 0 .. N : At(q, n) \in 0 .. Len(s)
  BY SplitIs
<1> HIDE DEF s, N
<1>3. \E j \in 0 .. N : /\ \A n \in 1 .. j : At(q, n) <= Len(a)
                        /\ j # N => At(q, j + 1) > Len(a)
  <2>1. CASE over = {}
    <3>1. \A n \in 1 .. N : At(q, n) <= Len(a)
      <4> TAKE n \in 1 .. N
      <4>1. ~(At(q, n) > Len(a))
        BY <2>1
      <4>2. At(q, n) \in Int
        BY <1>1, <1>2
      <4> QED BY <1>1, <4>1, <4>2
    <3> HIDE DEF over
    <3>2. N \in 0 .. N /\ ~(N # N)
      BY <1>1
    <3> QED BY <3>1, <3>2
  <2>2. CASE over # {}
    <3>1. PICK x \in over : \A y \in over : x <= y
      <4>1. over \in SUBSET Nat
        BY <1>1
      <4> HIDE DEF over
      <4> QED BY <2>2, <4>1, LeastOf
    <3> DEFINE j == x - 1
    <3>2. x \in 1 .. N /\ j \in 0 .. N /\ j + 1 = x /\ At(q, j + 1) > Len(a)
      BY <1>1, <3>1
    <3>3. ASSUME NEW n \in 1 .. j PROVE At(q, n) <= Len(a)
      <4>1. n \in 1 .. N /\ ~(x <= n)
        BY <1>1, <3>2
      <4>2. n \notin over
        <5> HIDE DEF over
        <5> QED BY <3>1, <4>1
      <4> QED BY <1>1, <1>2, <4>1, <4>2
    <3> HIDE DEF j
    <3> QED BY <3>2, <3>3
  <2> QED BY <2>1, <2>2
<1>4. PICK j \in 0 .. N : /\ \A n \in 1 .. j : At(q, n) <= Len(a)
                          /\ j # N => At(q, j + 1) > Len(a)
  BY <1>3
<1>5. At(q, j) <= Len(a) /\ (b = <<>> => j = N)
  <2>1. ASSUME j = 0 PROVE At(q, j) <= Len(a)
    <3>1. At(q, j) = 0
      BY <2>1, AtEnds
    <3> QED BY <1>1, <3>1
  <2>2. ASSUME j # 0 PROVE At(q, j) <= Len(a)
    <3>1. j \in 1 .. j
      BY <1>1, <2>2
    <3> QED BY <1>4, <3>1
  <2>3. ASSUME b = <<>>, j # N PROVE FALSE
    <3>1. Len(s) = Len(a) /\ j + 1 \in 0 .. N
      BY <1>1, <1>4, <2>3
    <3> QED BY <1>1, <1>2, <1>4, <2>3, <3>1
  <2> QED BY <2>1, <2>2, <2>3
<1> HIDE DEF over
<1>6. PICK f : InboundPackets(a) = f[0] /\ \A ni \in 0 .. Len(a) : f[ni] = Round(a, f, ni)
  BY CutIs
<1> DEFINE Rest(n) == [packets |-> SubSeq(q, n + 1, j), until |-> At(q, j)]
           wrong == {d \in 0 .. j : f[At(q, j - d)] # Rest(j - d)}
<1>7. ASSUME NEW n \in 0 .. N - 1
      PROVE  LET at == At(q, n)
                 p  == q[n + 1]
             IN  /\ s \in Seq(Bytes) /\ at \in Nat /\ p \in Frame /\ Len(p) \in Nat
                 /\ At(q, n + 1) = at + 2 + Len(p) /\ at + 2 + Len(p) <= Len(s)
                 /\ LengthAt(s, at + 1) = Len(p)
                 /\ SubSeq(s, at + 3, at + 2 + Len(p)) = p
  BY <1>7, NextFrame DEF s, N
<1>8. \A i \in 1 .. Len(a) - 1 : LengthAt(a, i) = LengthAt(s, i)
  <2> TAKE i \in 1 .. Len(a) - 1
  <2>1. i \in 1 .. Len(a) /\ i + 1 \in 1 .. Len(a)
    BY <1>1
  <2> QED BY <1>1, <2>1 DEF LengthAt
<1>9. f[At(q, j)] = Rest(j)
  <2> DEFINE at == At(q, j)
  <2>1. at \in 0 .. Len(a)
    BY <1>1, <1>2, <1>5
  <2>2. Short(a, at)
    <3>1. CASE j = N
      <4>1. at = Len(s)
        BY <3>1, AtEnds DEF s, N
      <4> QED BY <1>1, <2>1, <4>1 DEF Short, HeaderLength
    <3>2. CASE j # N
      <4>1. j \in 0 .. N - 1 /\ At(q, j + 1) > Len(a)
        BY <1>1, <1>4, <3>2
      <4>2. At(q, j + 1) = at + 2 + LengthAt(s, at + 1)
        BY <1>7, <4>1
      <4> HIDE DEF at
      <4>3. CASE at + 2 > Len(a)
        BY <4>3 DEF Short, HeaderLength
      <4>4. CASE ~(at + 2 > Len(a))
        <5>1. at + 1 \in 1 .. Len(a) - 1
          BY <1>1, <2>1, <4>4
        <5> QED BY <1>8, <4>1, <4>2, <5>1 DEF Short, HeaderLength
      <4> QED BY <4>3, <4>4
    <3> QED BY <3>1, <3>2
  <2>3. f[at] = [packets |-> <<>>, until |-> at]
    BY <1>6, <2>1, <2>2 DEF Round
  <2>4. SubSeq(q, j + 1, j) = <<>>
    BY <1>1, SubSeqEmpty
  <2> QED BY <2>3, <2>4
<1>10. ASSUME NEW n \in 0 .. j - 1, f[At(q, n + 1)] = Rest(n + 1)
       PROVE  f[At(q, n)] = Rest(n)
  <2> DEFINE at == At(q, n)
             p  == q[n + 1]
             e  == At(q, n + 1)
  <2>1. n \in 0 .. N - 1 /\ n \in 0 .. N /\ n + 1 \in 1 .. j
    BY <1>1
  <2>2. /\ s \in Seq(Bytes) /\ at \in Nat /\ p \in Frame /\ Len(p) \in Nat
        /\ e = at + 2 + Len(p) /\ e <= Len(a)
        /\ LengthAt(s, at + 1) = Len(p) /\ SubSeq(s, at + 3, e) = p
    BY <1>4, <1>7, <2>1
  <2> HIDE DEF at, e, p
  <2>3. at + 1 \in 1 .. Len(a) - 1 /\ at \in 0 .. Len(a) /\ e \in 0 .. Len(a)
    BY <1>1, <2>2
  <2>4. LengthAt(a, at + 1) = Len(p)
    BY <1>8, <2>2, <2>3
  <2>5. ~Short(a, at) /\ End(a, at) = e
    <3>1. at + 2 + Len(p) = e /\ ~(at + 2 > Len(a)) /\ ~(at + 2 + Len(p) > Len(a))
      BY <1>1, <2>2, <2>3
    <3> QED BY <2>4, <3>1 DEF Short, End, HeaderLength
  <2>6. SubSeq(a, at + HeaderLength + 1, e) = p
    <3> DEFINE t == SubSeq(a, at + 3, e)
               u == SubSeq(s, at + 3, e)
               l == Len(p)
    <3>0. l \in Nat /\ e = at + 2 + l /\ at \in Nat /\ e <= Len(a) /\ e <= Len(s) /\ e \in Nat
      BY <1>1, <2>2
    <3> HIDE DEF l
    <3>1. t \in Seq(Bytes) /\ Len(t) = l /\ \A i \in 1 .. l : t[i] = a[at + 2 + i]
      BY <3>0
    <3>2. u \in Seq(Bytes) /\ Len(u) = l /\ \A i \in 1 .. l : u[i] = s[at + 2 + i]
      <4>1. \A i \in at + 3 .. e : s[i] \in Bytes
        BY <2>2, <3>0
      <4>2. /\ u \in Seq(Bytes) /\ Len(u) = IF at + 3 <= e THEN e - (at + 3) + 1 ELSE 0
            /\ \A i \in 1 .. e - (at + 3) + 1 : u[i] = s[at + 3 + i - 1]
        BY <3>0, <4>1, SubSeqProperties
      <4>3. e - (at + 3) + 1 = l
        BY <3>0
      <4>4. \A i \in 1 .. l : at + 3 + i - 1 = at + 2 + i
        BY <3>0
      <4> HIDE DEF u
      <4> QED BY <3>0, <4>2, <4>3, <4>4
    <3>3. \A i \in 1 .. l : s[at + 2 + i] = a[at + 2 + i]
      <4> TAKE i \in 1 .. l
      <4>1. at + 2 + i \in 1 .. Len(a)
        BY <1>1, <3>0
      <4> QED BY <1>1, <4>1
    <3> HIDE DEF t, u
    <3>4. t = u
      BY <3>1, <3>2, <3>3, SeqEqual
    <3>5. u = p
      BY <2>2 DEF u
    <3>6. at + HeaderLength + 1 = at + 3
      BY <3>0 DEF HeaderLength
    <3> QED BY <3>4, <3>5, <3>6 DEF t
  <2>7. f[at] = [packets |-> <<p>> \o Rest(n + 1).packets, until |-> Rest(n + 1).until]
    <3>1. f[at] = Round(a, f, at) /\ f[e] = Rest(n + 1)
      BY <1>6, <1>10, <2>3 DEF e
    <3> HIDE DEF Rest
    <3> QED BY <2>5, <2>6, <3>1 DEF Round
  <2>8. SubSeq(q, n + 1, j) = <<p>> \o SubSeq(q, n + 2, j)
    <3>1. n + 1 \in 1 .. Len(q) /\ j \in n + 1 .. Len(q) /\ n + 1 + 1 = n + 2
      BY <1>1, <2>1 DEF N
    <3>2. SubSeq(q, n + 1, j) = <<q[n + 1]>> \o SubSeq(q, n + 1 + 1, j)
      BY <3>1, SubSeqRecursiveFirst
    <3> QED BY <3>1, <3>2 DEF p
  <2>9. f[at] = Rest(n)
    <3>1. n + 1 + 1 = n + 2
      BY <1>1
    <3> QED BY <2>7, <2>8, <3>1
  <2> QED BY <2>9 DEF at
<1> HIDE DEF Rest
<1>11. f[At(q, 0)] = Rest(0)
  <2> SUFFICES ASSUME f[At(q, 0)] # Rest(0) PROVE FALSE
    OBVIOUS
  <2>1. j - j = 0 /\ j - 0 = j /\ j \in Nat
    BY <1>1
  <2>2. PICK d \in wrong : \A y \in wrong : d <= y
    <3>1. j \in wrong /\ wrong \in SUBSET Nat
      BY <2>1
    <3> HIDE DEF wrong
    <3> QED BY <3>1, LeastOf
  <2>3. d # 0
    BY <1>9, <2>1
  <2>4. d - 1 \in 0 .. j /\ ~(d <= d - 1) /\ j - d \in 0 .. j - 1 /\ j - (d - 1) = (j - d) + 1
    BY <2>1, <2>2, <2>3
  <2>5. d - 1 \notin wrong
    <3> HIDE DEF wrong
    <3> QED BY <2>2, <2>4
  <2> DEFINE n == j - d
  <2>6. n \in 0 .. j - 1 /\ f[At(q, n + 1)] = Rest(n + 1) /\ f[At(q, n)] # Rest(n)
    <3>1. f[At(q, j - (d - 1))] = Rest(j - (d - 1))
      BY <2>4, <2>5
    <3> QED BY <2>2, <2>4, <3>1
  <2> HIDE DEF n
  <2> QED BY <1>10, <2>6
<1>12. At(q, 0) = 0
  BY AtEnds
<1> QED
  <2>1. InboundPackets(a) = [packets |-> SubSeq(q, 1, j), until |-> At(q, j)]
    <3>1. Rest(0) = [packets |-> SubSeq(q, 1, j), until |-> At(q, j)]
      BY DEF Rest
    <3> QED BY <1>6, <1>11, <1>12, <3>1
  <2> QED BY <1>5, <2>1 DEF N

-----------------------------------------------------------------------------
(* The invariant.                                                          *)

Sealed(r) == [n \in DOMAIN r |-> Outgoing(r[n])]

\* What the two ends hold.
LinkTyped == /\ method \in Methods /\ mask \in Seq(Bytes)
             /\ sent \in Seq(Frame) /\ handed \in Seq(Frame)
             /\ stream \in Seq(Bytes) /\ buffer \in Seq(Bytes)

\* The bytes under way are the packets that were not handed over yet, sealed.
OnTheWay == \E r \in Seq(Frame) : /\ sent = handed \o r
                                  /\ buffer \o stream = OutboundStream(Sealed(r))

\* Sealed packets are packets, and the other end opens them.
LEMMA SealedIs ==
  ASSUME NEW r \in Seq(Frame), method \in Methods, mask \in Seq(Bytes)
  PROVE  /\ Sealed(r) \in Seq(Frame) /\ Len(Sealed(r)) = Len(r)
         /\ \A n \in 1 .. Len(r) : Sealed(r)[n] = Outgoing(r[n])
         /\ Each(Incoming, Sealed(r)) = r
<1> DEFINE N == Len(r)
           q == Sealed(r)
<1>1. N \in Nat /\ DOMAIN r = 1 .. N /\ r = [n \in 1 .. N |-> r[n]] /\ \A n \in 1 .. N : r[n] \in Frame
  OBVIOUS
<1> HIDE DEF N
<1>2. \A n \in 1 .. N : Outgoing(r[n]) \in Frame /\ Incoming(Outgoing(r[n])) = r[n]
  <2> TAKE n \in 1 .. N
  <2> DEFINE p == r[n]
  <2>1. p \in Frame /\ p \in Packet
    BY <1>1 DEF Frame
  <2> HIDE DEF p
  <2>2. Outgoing(p) \in Packet /\ Len(Outgoing(p)) = Len(p) /\ Incoming(Outgoing(p)) = p
    BY <2>1, RoundTrip
  <2>3. Outgoing(p) \in Frame
    BY <2>1, <2>2 DEF Frame
  <2> QED BY <2>2, <2>3 DEF p
<1>3. q = [n \in 1 .. N |-> Outgoing(r[n])]
  BY <1>1 DEF Sealed
<1>4. q \in [1 .. N -> Frame]
  BY <1>2, <1>3
<1>5. q \in Seq(Frame) /\ Len(q) = N /\ DOMAIN q = 1 .. N
  BY <1>1, <1>4
<1>6. Each(Incoming, q) = [n \in 1 .. N |-> Incoming(q[n])]
  <2> HIDE DEF q
  <2> QED BY <1>5 DEF Each
<1>7. \A n \in 1 .. N : Incoming(q[n]) = r[n]
  BY <1>2, <1>3
<1>8. [n \in 1 .. N |-> Incoming(q[n])] = r
  <2> HIDE DEF q
  <2> QED BY <1>1, <1>7
<1> QED
  BY <1>3, <1>5, <1>6, <1>8 DEF N

\* Packets are sealed one by one.
LEMMA SealedConcat ==
  ASSUME NEW r \in Seq(Frame), NEW t \in Seq(Frame), method \in Methods, mask \in Seq(Bytes)
  PROVE  Sealed(r \o t) = Sealed(r) \o Sealed(t)
<1> DEFINE u == r \o t
           x == Sealed(r)
           y == Sealed(t)
<1>1. /\ u \in Seq(Frame) /\ Len(u) = Len(r) + Len(t) /\ Len(r) \in Nat /\ Len(t) \in Nat
      /\ \A i \in 1 .. Len(r) + Len(t) : u[i] = IF i <= Len(r) THEN r[i] ELSE t[i - Len(r)]
  BY ConcatProperties
<1> HIDE DEF u
<1>2. /\ x \in Seq(Frame) /\ Len(x) = Len(r) /\ \A n \in 1 .. Len(r) : x[n] = Outgoing(r[n])
      /\ y \in Seq(Frame) /\ Len(y) = Len(t) /\ \A n \in 1 .. Len(t) : y[n] = Outgoing(t[n])
      /\ Sealed(u) \in Seq(Frame) /\ Len(Sealed(u)) = Len(u)
      /\ \A n \in 1 .. Len(u) : Sealed(u)[n] = Outgoing(u[n])
  BY <1>1, SealedIs
<1> HIDE DEF x, y
<1>3. /\ x \o y \in Seq(Frame) /\ Len(x \o y) = Len(x) + Len(y)
      /\ \A i \in 1 .. Len(x) + Len(y) : (x \o y)[i] = IF i <= Len(x) THEN x[i] ELSE y[i - Len(x)]
  <2>1. x \in Seq(Frame) /\ y \in Seq(Frame)
    BY <1>2
  <2> QED BY <2>1, ConcatProperties
<1>4. \A i \in 1 .. Len(u) : Sealed(u)[i] = (x \o y)[i]
  <2> TAKE i \in 1 .. Len(u)
  <2>1. ASSUME i <= Len(r) PROVE Sealed(u)[i] = (x \o y)[i]
    <3>1. i \in 1 .. Len(r)
      BY <1>1, <2>1
    <3> QED BY <1>1, <1>2, <1>3, <2>1, <3>1
  <2>2. ASSUME ~(i <= Len(r)) PROVE Sealed(u)[i] = (x \o y)[i]
    <3>1. i - Len(r) \in 1 .. Len(t)
      BY <1>1, <2>2
    <3> QED BY <1>1, <1>2, <1>3, <2>2, <3>1
  <2> QED BY <2>1, <2>2
<1>5. Sealed(u) = x \o y
  BY <1>1, <1>2, <1>3, <1>4, SeqEqual
<1> QED
  BY <1>5 DEF u, x, y

\* So they are sealed in parts as in the whole.
LEMMA SealedSplit ==
  ASSUME NEW r \in Seq(Frame), NEW j \in 0 .. Len(r), method \in Methods, mask \in Seq(Bytes)
  PROVE  /\ Sealed(SubSeq(r, 1, j)) = SubSeq(Sealed(r), 1, j)
         /\ Sealed(SubSeq(r, j + 1, Len(r))) = SubSeq(Sealed(r), j + 1, Len(Sealed(r)))
<1> DEFINE N == Len(r)
           q == Sealed(r)
<1>1. N \in Nat /\ q \in Seq(Frame) /\ Len(q) = N /\ \A n \in 1 .. N : q[n] = Outgoing(r[n])
  BY SealedIs
<1> HIDE DEF q
<1>2. ASSUME NEW k \in 1 .. N + 1, NEW m \in 0 .. N
      PROVE  Sealed(SubSeq(r, k, m)) = SubSeq(q, k, m)
  <2> DEFINE x == SubSeq(r, k, m)
             y == SubSeq(q, k, m)
             l == IF k <= m THEN m - k + 1 ELSE 0
  <2>0. k \in Nat \ {0} /\ m \in Nat /\ m <= N
    BY <1>1
  <2>1. /\ x \in Seq(Frame) /\ Len(x) = l
        /\ \A i \in 1 .. m - k + 1 : x[i] = r[k + i - 1]
    <3>1. \A i \in k .. m : r[i] \in Frame
      BY <2>0
    <3> QED BY <2>0, <3>1, SubSeqProperties
  <2>2. /\ y \in Seq(Frame) /\ Len(y) = l
        /\ \A i \in 1 .. m - k + 1 : y[i] = q[k + i - 1]
    <3>1. \A i \in k .. m : q[i] \in Frame
      BY <1>1, <2>0
    <3> QED BY <2>0, <3>1, SubSeqProperties
  <2> HIDE DEF x, y
  <2>3. /\ Sealed(x) \in Seq(Frame) /\ Len(Sealed(x)) = l
        /\ \A i \in 1 .. l : Sealed(x)[i] = Outgoing(x[i])
    BY <2>1, SealedIs
  <2>4. \A i \in 1 .. l : Sealed(x)[i] = y[i]
    <3> TAKE i \in 1 .. l
    <3>1. i \in 1 .. m - k + 1 /\ k + i - 1 \in 1 .. N
      BY <1>1, <2>0
    <3> QED BY <1>1, <2>1, <2>2, <2>3, <3>1
  <2> HIDE DEF l
  <2>5. Sealed(x) = y
    BY <2>2, <2>3, <2>4, SeqEqual
  <2> QED BY <2>5 DEF x, y
<1>3. 1 \in 1 .. N + 1 /\ j \in 0 .. N /\ j + 1 \in 1 .. N + 1 /\ N \in 0 .. N
  BY <1>1
<1>4. Sealed(SubSeq(r, 1, j)) = SubSeq(q, 1, j) /\ Sealed(SubSeq(r, j + 1, N)) = SubSeq(q, j + 1, N)
  <2> HIDE DEF N
  <2> QED BY <1>2, <1>3
<1> QED
  BY <1>1, <1>4 DEF q, N

\* The methods of the ends do not change.
LEMMA SealedStays ==
  ASSUME NEW r, writer' = writer, method' = method, mask' = mask
  PROVE  Sealed(r)' = Sealed(r)
BY DEF Sealed, Outgoing

\* Bytes are dropped from the front as well before as after more come.
LEMMA DropFirst ==
  ASSUME NEW a \in Seq(Bytes), NEW b \in Seq(Bytes), NEW n \in 0 .. Len(a)
  PROVE  /\ SubSeq(a, n + 1, Len(a)) \in Seq(Bytes)
         /\ SubSeq(a \o b, n + 1, Len(a \o b)) = SubSeq(a, n + 1, Len(a)) \o b
<1> DEFINE s == a \o b
           x == SubSeq(a, n + 1, Len(a))
           y == SubSeq(s, n + 1, Len(s))
<1>1. /\ s \in Seq(Bytes) /\ Len(s) = Len(a) + Len(b) /\ Len(a) \in Nat /\ Len(b) \in Nat /\ n \in Nat
      /\ \A i \in 1 .. Len(a) + Len(b) : s[i] = IF i <= Len(a) THEN a[i] ELSE b[i - Len(a)]
  BY ConcatProperties
<1> HIDE DEF s
<1>2. x \in Seq(Bytes) /\ Len(x) = Len(a) - n /\ \A i \in 1 .. Len(a) - n : x[i] = a[n + i]
  BY <1>1
<1>3. y \in Seq(Bytes) /\ Len(y) = Len(s) - n /\ \A i \in 1 .. Len(s) - n : y[i] = s[n + i]
  BY <1>1
<1> HIDE DEF x, y
<1>4. /\ x \o b \in Seq(Bytes) /\ Len(x \o b) = Len(x) + Len(b)
      /\ \A i \in 1 .. Len(x) + Len(b) : (x \o b)[i] = IF i <= Len(x) THEN x[i] ELSE b[i - Len(x)]
  BY <1>2, ConcatProperties
<1>5. \A i \in 1 .. Len(y) : y[i] = (x \o b)[i]
  BY <1>1, <1>2, <1>3, <1>4
<1>6. y = x \o b
  <2> DEFINE z == x \o b
  <2>1. Len(x) + Len(b) = Len(s) - n
    BY <1>1, <1>2
  <2>2. z \in Seq(Bytes) /\ Len(y) = Len(z) /\ \A i \in 1 .. Len(y) : y[i] = z[i]
    BY <1>3, <1>4, <1>5, <2>1
  <2> HIDE DEF z
  <2>3. y = z
    BY <1>3, <2>2, SeqEqual
  <2> QED BY <2>3 DEF z
<1> QED
  BY <1>2, <1>6 DEF s, x, y

\* A header can tell the length of every packet to send.
LEMMA PayloadsAre ==
  Payloads \subseteq Frame /\ Masks \subseteq Seq(Bytes)
BY StreamAssumption DEF Frame, Packet

\* Nothing was sent at first.
LEMMA LinkInit ==
  ASSUME Init
  PROVE  LinkTyped /\ OnTheWay
<1>1. LinkTyped
  BY PayloadsAre DEF Init, LinkTyped
<1>2. OnTheWay
  <2>1. <<>> \in Seq(Frame) /\ sent = handed \o <<>> /\ buffer \o stream = <<>>
    BY DEF Init
  <2>2. Sealed(<<>>) = <<>>
    BY DEF Sealed
  <2> QED BY <2>1, <2>2, OutboundNothing DEF OnTheWay
<1> QED
  BY <1>1, <1>2

\* writePackets puts the new packets behind those under way.
LEMMA LinkWrite ==
  ASSUME LinkTyped, OnTheWay, NEW packets \in Seq(Frame), Write(packets)
  PROVE  LinkTyped' /\ OnTheWay'
<1>0. /\ method \in Methods /\ mask \in Seq(Bytes) /\ sent \in Seq(Frame) /\ handed \in Seq(Frame)
      /\ stream \in Seq(Bytes) /\ buffer \in Seq(Bytes)
  BY DEF LinkTyped
<1> DEFINE more == OutboundStream(Sealed(packets))
<1>1. /\ sent' = sent \o packets /\ stream' = stream \o more
      /\ writer' = writer /\ method' = method /\ mask' = mask /\ buffer' = buffer /\ handed' = handed
  BY DEF Write, config, Each, Sealed
<1>2. Sealed(packets) \in Seq(Frame) /\ more \in Seq(Bytes)
  <2>1. Sealed(packets) \in Seq(Frame)
    BY <1>0, SealedIs
  <2> QED BY <2>1, FramesIs
<1>3. PICK r \in Seq(Frame) : sent = handed \o r /\ buffer \o stream = OutboundStream(Sealed(r))
  BY DEF OnTheWay
<1> DEFINE t == r \o packets
<1>4. t \in Seq(Frame)
  OBVIOUS
<1>5. OutboundStream(Sealed(t)) = OutboundStream(Sealed(r)) \o more
  <2>1. Sealed(t) = Sealed(r) \o Sealed(packets)
    BY <1>0, SealedConcat
  <2>2. Sealed(r) \in Seq(Frame)
    BY <1>0, SealedIs
  <2> QED BY <1>2, <2>1, <2>2, OutboundConcat
<1>6. sent' = handed' \o t
  <2>1. (handed \o r) \o packets = handed \o (r \o packets)
    BY <1>0, ConcatAssociative
  <2> QED BY <1>1, <1>3, <2>1
<1>7. buffer' \o stream' = OutboundStream(Sealed(t))
  <2> HIDE DEF more
  <2>1. (buffer \o stream) \o more = buffer \o (stream \o more)
    BY <1>0, <1>2, Together
  <2> QED BY <1>1, <1>3, <1>5, <2>1
<1> HIDE DEF t, more
<1>8. LinkTyped'
  <2>1. sent \o packets \in Seq(Frame) /\ stream \o more \in Seq(Bytes)
    BY <1>0, <1>2
  <2> QED BY <1>0, <1>1, <2>1 DEF LinkTyped
<1>9. Sealed(t)' = Sealed(t)
  BY <1>1, SealedStays
<1>10. OnTheWay'
  BY <1>4, <1>6, <1>7, <1>9 DEF OnTheWay
<1> QED
  BY <1>8, <1>10

\* loopReadPackets hands over the first of the packets under way.
LEMMA LinkRead ==
  ASSUME LinkTyped, OnTheWay, NEW n \in Nat, Read(n)
  PROVE  LinkTyped' /\ OnTheWay'
<1>0. /\ method \in Methods /\ mask \in Seq(Bytes) /\ sent \in Seq(Frame) /\ handed \in Seq(Frame)
      /\ stream \in Seq(Bytes) /\ buffer \in Seq(Bytes)
  BY DEF LinkTyped
<1> DEFINE a == buffer \o SubSeq(stream, 1, n)
           b == SubSeq(stream, n + 1, Len(stream))
           inbound == InboundPackets(a)
<1>1. /\ stream' = b /\ buffer' = SubSeq(a, inbound.until + 1, Len(a))
      /\ handed' = handed \o Each(Incoming, inbound.packets) /\ n <= Len(stream)
      /\ writer' = writer /\ method' = method /\ mask' = mask /\ sent' = sent
  BY DEF Read, config
<1>2. a \in Seq(Bytes) /\ b \in Seq(Bytes) /\ a \o b = buffer \o stream
  <2> DEFINE c == SubSeq(stream, 1, n)
  <2>1. c \in Seq(Bytes) /\ b \in Seq(Bytes)
    BY <1>0, <1>1
  <2>2. c \o b = stream
    <3>1. 1 \in 1 .. Len(stream) + 1 /\ n \in 1 - 1 .. Len(stream) /\ Len(stream) \in n .. Len(stream)
      BY <1>0, <1>1
    <3>2. SubSeq(stream, 1, n) \o SubSeq(stream, n + 1, Len(stream)) = SubSeq(stream, 1, Len(stream))
      BY <1>0, <3>1, ConcatAdjacentSubSeq
    <3> QED BY <1>0, <3>2, SubSeqFull
  <2> HIDE DEF c, b
  <2>3. (buffer \o c) \o b = buffer \o (c \o b)
    BY <1>0, <2>1, Together
  <2>4. buffer \o c \in Seq(Bytes)
    BY <1>0, <2>1
  <2> QED BY <2>1, <2>2, <2>3, <2>4 DEF c
<1> HIDE DEF a, b
<1>3. PICK r \in Seq(Frame) : sent = handed \o r /\ buffer \o stream = OutboundStream(Sealed(r))
  BY DEF OnTheWay
<1> DEFINE q == Sealed(r)
<1>4. q \in Seq(Frame) /\ Len(q) = Len(r)
  BY <1>0, SealedIs
<1>5. PICK j \in 0 .. Len(q) :
            /\ inbound = [packets |-> SubSeq(q, 1, j), until |-> At(q, j)]
            /\ At(q, j) <= Len(a)
  <2> HIDE DEF q
  <2>1. a \o b = OutboundStream(q)
    BY <1>2, <1>3 DEF q
  <2> QED BY <1>2, <1>4, <2>1, CutFrames
<1> DEFINE x == SubSeq(r, 1, j)
           y == SubSeq(r, j + 1, Len(r))
<1>6. x \in Seq(Frame) /\ y \in Seq(Frame) /\ r = x \o y
  <2>1. j \in 0 .. Len(r)
    BY <1>4
  <2> HIDE DEF q
  <2> QED BY <2>1, SplitIs
<1>7. Sealed(x) = SubSeq(q, 1, j) /\ Sealed(y) = SubSeq(q, j + 1, Len(q))
  <2>1. j \in 0 .. Len(r)
    BY <1>4
  <2> HIDE DEF q
  <2> QED BY <1>0, <1>4, <2>1, SealedSplit DEF q
<1> HIDE DEF x, y, inbound
<1>8. handed' = handed \o x
  <2>1. Each(Incoming, Sealed(x)) = x
    BY <1>0, <1>6, SealedIs
  <2>2. inbound.packets = Sealed(x)
    BY <1>5, <1>7
  <2> QED BY <1>1, <2>1, <2>2
<1>9. sent' = handed' \o y
  <2>1. (handed \o x) \o y = handed \o (x \o y)
    BY <1>0, <1>6, ConcatAssociative
  <2> QED BY <1>1, <1>3, <1>6, <1>8, <2>1
<1>10. buffer' \in Seq(Bytes) /\ buffer' \o stream' = OutboundStream(Sealed(y))
  <2> DEFINE at == At(q, j)
             s == OutboundStream(q)
             rest == SubSeq(a, at + 1, Len(a))
  <2>1. at \in 0 .. Len(s) /\ SubSeq(s, at + 1, Len(s)) = OutboundStream(Sealed(y))
    <3> HIDE DEF q
    <3> QED BY <1>4, <1>7, SplitIs
  <2>2. s = a \o b /\ at <= Len(a) /\ buffer' = rest
    BY <1>1, <1>2, <1>3, <1>5
  <2> HIDE DEF at, s
  <2>3. Len(s) \in Nat /\ Len(a) \in Nat /\ at \in 0 .. Len(a) /\ Len(a) <= Len(s)
    BY <1>2, <2>1, <2>2
  <2>4. rest \in Seq(Bytes) /\ SubSeq(s, at + 1, Len(s)) = rest \o b
    BY <1>2, <2>2, <2>3, DropFirst
  <2> QED BY <1>1, <2>1, <2>2, <2>4
<1>11. LinkTyped'
  <2>1. handed \o x \in Seq(Frame)
    BY <1>0, <1>6
  <2> QED BY <1>0, <1>1, <1>2, <1>8, <1>10, <2>1 DEF LinkTyped
<1>12. Sealed(y)' = Sealed(y)
  BY <1>1, SealedStays
<1>13. OnTheWay'
  BY <1>6, <1>9, <1>10, <1>12 DEF OnTheWay
<1> QED
  BY <1>11, <1>13

\* The first packets handed over and the bytes under way add up to what was sent.
LEMMA LinkInStep ==
  ASSUME LinkTyped, OnTheWay
  PROVE  InStep
<1>0. /\ method \in Methods /\ mask \in Seq(Bytes) /\ stream \in Seq(Bytes) /\ buffer \in Seq(Bytes)
  BY DEF LinkTyped
<1>1. PICK r \in Seq(Frame) : sent = handed \o r /\ buffer \o stream = OutboundStream(Sealed(r))
  BY DEF OnTheWay
<1> DEFINE q == Sealed(r)
           a == buffer \o stream
           b == <<>>
<1>2. q \in Seq(Frame) /\ Each(Incoming, q) = r
  BY <1>0, SealedIs
<1>3. a \in Seq(Bytes) /\ b \in Seq(Bytes) /\ a \o b = OutboundStream(q)
  <2>1. a \in Seq(Bytes) /\ a = OutboundStream(q)
    <3>1. a \in Seq(Bytes)
      BY <1>0
    <3>2. a = OutboundStream(q)
      BY <1>1
    <3> QED BY <3>1, <3>2
  <2> HIDE DEF a, q
  <2> QED BY <2>1, ConcatEmptySeq
<1> HIDE DEF q
<1>4. InboundPackets(a) = [packets |-> SubSeq(q, 1, Len(q)), until |-> At(q, Len(q))]
  <2> HIDE DEF a
  <2> QED BY <1>2, <1>3, CutFrames
<1>5. At(q, Len(q)) = Len(a) /\ SubSeq(q, 1, Len(q)) = q
  <2>1. At(q, Len(q)) = Len(OutboundStream(q))
    BY <1>2, AtEnds
  <2>2. a = OutboundStream(q)
    BY <1>1 DEF q
  <2> HIDE DEF a
  <2> QED BY <1>2, <2>1, <2>2, SubSeqFull
<1>6. InboundPackets(a).packets = q /\ InboundPackets(a).until = Len(a)
  <2> HIDE DEF a
  <2> QED BY <1>4, <1>5
<1> QED
  BY <1>1, <1>2, <1>6 DEF InStep

\* In every state the bytes in the buffer and on the way are exactly the packets
\* that were sent and not handed over, scrambled and framed (NETCPLink.swift).
THEOREM LinkSound == Spec => [](LinkTyped /\ OnTheWay)
<1>1. Init => LinkTyped /\ OnTheWay
  BY LinkInit
<1>2. (LinkTyped /\ OnTheWay) /\ [Next]_vars => (LinkTyped /\ OnTheWay)'
  <2> SUFFICES ASSUME LinkTyped, OnTheWay, [Next]_vars PROVE LinkTyped' /\ OnTheWay'
    OBVIOUS
  <2>1. ASSUME NEW packets \in SeqOf(Payloads, MaxBatch), Write(packets)
        PROVE  LinkTyped' /\ OnTheWay'
    <3>1. packets \in Seq(Payloads)
      BY StreamAssumption DEF SeqOf
    <3>2. packets \in Seq(Frame)
      BY <3>1, PayloadsAre, SeqMonotonic
    <3> QED BY <2>1, <3>2, LinkWrite
  <2>2. ASSUME NEW n \in 2 .. MaxRead, Read(n)
        PROVE  LinkTyped' /\ OnTheWay'
    <3>1. n \in Nat
      BY StreamAssumption
    <3> QED BY <2>2, <3>1, LinkRead
  <2>3. CASE ReadFails \/ UNCHANGED vars
    <3>1. /\ writer' = writer /\ method' = method /\ mask' = mask /\ sent' = sent
          /\ handed' = handed /\ stream' = stream /\ buffer' = buffer
      BY <2>3 DEF ReadFails, vars, config
    <3>2. LinkTyped'
      BY <3>1 DEF LinkTyped
    <3>3. PICK r \in Seq(Frame) : sent = handed \o r /\ buffer \o stream = OutboundStream(Sealed(r))
      BY DEF OnTheWay
    <3>4. Sealed(r)' = Sealed(r)
      BY <3>1, SealedStays
    <3> QED BY <3>1, <3>2, <3>3, <3>4 DEF OnTheWay
  <2> QED BY <2>1, <2>2, <2>3 DEF Next
<1> QED
  BY <1>1, <1>2, PTL DEF Spec

\* However the network cuts the stream, the packets come out in order and whole:
\* what the handler got, and what the reader would cut from all the bytes left,
\* are the packets sent (loopReadPackets, packetsFromInboundStream, XOR.h,
\* XORProcessor.swift).
THEOREM StaysInStep == Spec => []InStep
<1>1. LinkTyped /\ OnTheWay => InStep
  BY LinkInStep
<1> QED
  BY <1>1, LinkSound, PTL
=============================================================================

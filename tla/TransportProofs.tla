---------------------------- MODULE TransportProofs ----------------------------
(***************************************************************************)
(* Transport for every size of block, packet, MAC, number and buffer and   *)
(* any payloads: the bytes in flight, the inductive invariant, and the     *)
(* refinement of PacketStream.                                             *)
(***************************************************************************)
EXTENDS Transport, SequenceTheorems, TLAPS

-------------------------------------------------------------------------------
(***************************************************************************)
(* Numbers.                                                                *)
(***************************************************************************)
LEMMA DivMod ==
    ASSUME NEW x \in Nat, NEW b \in Nat \ {0}
    PROVE  /\ x \div b \in Nat /\ x % b \in 0..(b - 1)
           /\ (x \div b) * b + (x % b) = x
OBVIOUS

LEMMA DivBound ==
    ASSUME NEW x \in Nat, NEW b \in Nat \ {0}, NEW m \in Nat, x < m * b
    PROVE  x \div b < m
OBVIOUS

LEMMA ModUnique ==
    ASSUME NEW b \in Nat \ {0}, NEW q \in Int, NEW r \in 0..(b - 1)
    PROVE  (q * b + r) % b = r
OBVIOUS

LEMMA MultipleIs ==
    ASSUME NEW x \in Nat, NEW b \in Nat \ {0}, x % b = 0
    PROVE  \E q \in Nat : x = q * b
<1>1. x \div b \in Nat /\ x = (x \div b) * b
  BY DivMod
<1> QED
  BY <1>1, Zenon

LEMMA MultipleMod ==
    ASSUME NEW q \in Nat, NEW b \in Nat \ {0}
    PROVE  (q * b) % b = 0
OBVIOUS

LEMMA SequenceStep ==
    ASSUME NEW n \in Nat, NEW b \in Nat \ {0}
    PROVE  ((n % b) + 1) % b = (n + 1) % b
<1>1. PICK q \in Nat, r \in 0..(b - 1) : n = q * b + r /\ n % b = r
  BY DivMod
<1>2. CASE r + 1 < b
  BY <1>1, <1>2, ModUnique
<1>3. CASE r + 1 = b
  BY <1>1, <1>3, ModUnique
<1> QED
  BY <1>1, <1>2, <1>3

LEMMA NatSum ==
    ASSUME NEW a \in Nat, NEW b \in Nat, NEW c \in Nat
    PROVE  a + b + c \in Nat
OBVIOUS

LEMMA NatAssoc ==
    ASSUME NEW a \in Nat, NEW b \in Nat, NEW c \in Nat
    PROVE  a + (b + c) = (a + b) + c /\ a + (b + c) - 1 = (a + b) + c - 1
OBVIOUS

LEMMA NatRoom ==
    ASSUME NEW a \in Nat, NEW b \in Nat, NEW c \in Nat, NEW d \in Nat,
           b + c >= 1, (a + b) + c <= d
    PROVE  a < d
OBVIOUS

\* A number is read as it was written.
LEMMA EncodedDecoded ==
    ASSUME NEW value \in UInt32
    PROVE  LET e == encode_uint32(value)
           IN  e \in Seq(Bytes) /\ Len(e) = 4 /\ decode_uint32(e) = value
<1> DEFINE third == value \div BYTE
           second == third \div BYTE
           first == second \div BYTE
           e == encode_uint32(value)
<1>1. BYTE \in Nat \ {0} /\ BYTE * BYTE \in Nat /\ BYTE * BYTE * BYTE \in Nat
  BY EncodingAssumption
<1>2. value \in Nat /\ value < BYTE * BYTE * BYTE * BYTE
  BY EncodingAssumption DEF UInt32
<1>3. /\ third \in Nat /\ third < BYTE * BYTE * BYTE
      /\ third * BYTE + (value % BYTE) = value /\ value % BYTE \in Bytes
  BY <1>1, <1>2, DivMod, DivBound DEF Bytes
<1> HIDE DEF third
<1>4. /\ second \in Nat /\ second < BYTE * BYTE
      /\ second * BYTE + (third % BYTE) = third /\ third % BYTE \in Bytes
  BY <1>1, <1>3, DivMod, DivBound DEF Bytes
<1> HIDE DEF second
<1>5. /\ first \in Nat /\ first < BYTE
      /\ first * BYTE + (second % BYTE) = second /\ second % BYTE \in Bytes
  BY <1>1, <1>4, DivMod, DivBound DEF Bytes
<1> HIDE DEF first
<1>6. first % BYTE = first /\ first \in Bytes
  BY <1>1, <1>5 DEF Bytes
<1>7. e = <<first, second % BYTE, third % BYTE, value % BYTE>>
  BY <1>6 DEF encode_uint32, first, second, third
<1> HIDE DEF e
<1>8. e \in Seq(Bytes) /\ Len(e) = 4
  BY <1>3, <1>4, <1>5, <1>6, <1>7
<1>9. /\ e[1] = first /\ e[2] = second % BYTE
      /\ e[3] = third % BYTE /\ e[4] = value % BYTE
  BY <1>7
<1>10. decode_uint32(e) = value
  BY <1>3, <1>4, <1>5, <1>9 DEF decode_uint32
<1> QED
  BY <1>8, <1>10 DEF e

LEMMA DecodedNat ==
    ASSUME NEW s \in Seq(Bytes), Len(s) >= 4
    PROVE  decode_uint32(s) \in Nat
<1>1. s[1] \in Nat /\ s[2] \in Nat /\ s[3] \in Nat /\ s[4] \in Nat
  BY EncodingAssumption DEF Bytes
<1>2. \A x \in Nat, y \in Nat : x * BYTE + y \in Nat
  BY EncodingAssumption
<1>3. s[1] * BYTE + s[2] \in Nat
  BY <1>1, <1>2
<1>4. (s[1] * BYTE + s[2]) * BYTE + s[3] \in Nat
  BY <1>1, <1>2, <1>3
<1>5. ((s[1] * BYTE + s[2]) * BYTE + s[3]) * BYTE + s[4] \in Nat
  BY <1>1, <1>2, <1>4
<1> QED
  BY <1>5 DEF decode_uint32

-------------------------------------------------------------------------------
(***************************************************************************)
(* Sequences.                                                              *)
(***************************************************************************)
LEMMA Joined ==
    ASSUME NEW T, NEW s \in Seq(T), NEW t \in Seq(T)
    PROVE  LET r == s \o t
           IN  /\ r \in Seq(T) /\ Len(r) = Len(s) + Len(t)
               /\ \A i \in 1..Len(s) : r[i] = s[i]
               /\ \A i \in 1..Len(t) : r[Len(s) + i] = t[i]
<1> DEFINE r == s \o t
<1>1. /\ r \in Seq(T) /\ Len(r) = Len(s) + Len(t)
      /\ \A i \in 1..(Len(s) + Len(t)) :
            r[i] = IF i <= Len(s) THEN s[i] ELSE t[i - Len(s)]
  BY ConcatProperties
<1>2. Len(s) \in Nat /\ Len(t) \in Nat
  OBVIOUS
<1> HIDE DEF r
<1>3. \A i \in 1..Len(s) : r[i] = s[i]
  BY <1>1, <1>2
<1>4. \A i \in 1..Len(t) : r[Len(s) + i] = t[i]
  <2> TAKE i \in 1..Len(t)
  <2>1. Len(s) + i \in 1..(Len(s) + Len(t)) /\ ~(Len(s) + i <= Len(s))
        /\ (Len(s) + i) - Len(s) = i
    BY <1>2
  <2> QED
    BY <1>1, <2>1
<1> QED
  BY <1>1, <1>3, <1>4 DEF r

LEMMA Piece ==
    ASSUME NEW T, NEW s \in Seq(T), NEW m \in Nat, NEW n \in Nat,
           m <= n, n <= Len(s)
    PROVE  LET r == SubSeq(s, m + 1, n)
           IN  /\ r \in Seq(T) /\ Len(r) = n - m
               /\ \A i \in 1..(n - m) : r[i] = s[m + i]
<1> DEFINE r == SubSeq(s, m + 1, n)
<1>1. \A i \in (m + 1)..n : s[i] \in T
  OBVIOUS
<1>2. /\ r \in Seq(T) /\ Len(r) = IF m + 1 <= n THEN n - (m + 1) + 1 ELSE 0
      /\ \A i \in 1..(n - (m + 1) + 1) : r[i] = s[(m + 1) + i - 1]
  BY <1>1, SubSeqProperties
<1> HIDE DEF r
<1> QED
  BY <1>2 DEF r

LEMMA SameSequence ==
    ASSUME NEW T, NEW s \in Seq(T), NEW t \in Seq(T), Len(s) = Len(t),
           \A i \in 1..Len(s) : s[i] = t[i]
    PROVE  s = t
OBVIOUS

-------------------------------------------------------------------------------
(***************************************************************************)
(* Framing.                                                                *)
(***************************************************************************)
LEMMA BlockSizes ==
    ASSUME NEW active \in BOOLEAN
    PROVE  /\ BlockSize(active) \in Nat \ {0}
           /\ min_packet_size % BlockSize(active) = 0
           /\ min_packet_size - BlockSize(active) < 6 + min_padding_length
BY TransportAssumption DEF BlockSize, uint32_bytes

\* What is left to the next multiple.
LEMMA ToNextMultiple ==
    ASSUME NEW x \in Nat, NEW b \in Nat \ {0}
    PROVE  LET n == (b - (x % b)) % b
           IN  n \in Nat /\ (x + n) % b = 0
<1>1. PICK q \in Nat, r \in 0..(b - 1) : x = q * b + r /\ x % b = r
  BY DivMod
<1>2. CASE r = 0
  <2>1. (b - r) % b = 0
    BY <1>2
  <2> QED
    BY <1>1, <1>2, <2>1
<1>3. CASE r # 0
  <2>1. b - r \in 0..(b - 1) /\ (b - r) % b = b - r
    BY <1>3
  <2>2. x + (b - r) = (q + 1) * b /\ q + 1 \in Nat
    BY <1>1
  <2>3. (x + (b - r)) % b = 0
    <3>1. ((q + 1) * b) % b = 0
      BY <2>2, MultipleMod
    <3> QED
      BY <2>2, <3>1, Zenon
  <2> QED
    BY <1>1, <2>1, <2>3
<1> QED
  BY <1>2, <1>3

LEMMA OneBlockMore ==
    ASSUME NEW x \in Nat, NEW b \in Nat \ {0}, x % b = 0
    PROVE  (x + b) % b = 0
<1>1. PICK q \in Nat : x = q * b
  BY MultipleIs
<1>2. x + b = (q + 1) * b /\ q + 1 \in Nat
  BY <1>1
<1>3. ((q + 1) * b) % b = 0
  BY <1>2, MultipleMod
<1> QED
  BY <1>2, <1>3, Zenon

\* A packet is whole blocks, with as much padding as must be.
Aligned(active, payload_size, padding_length) ==
    /\ padding_length \in Nat
    /\ padding_length >= min_padding_length
    /\ (5 + payload_size + padding_length) % BlockSize(active) = 0

LEMMA PaddingAligns ==
    ASSUME NEW active \in BOOLEAN, NEW n \in Nat
    PROVE  LET p == calculate_padding_length(active, n)
           IN  Aligned(active, n, p) /\ Aligned(active, n, p + BlockSize(active))
<1> DEFINE b == BlockSize(active)
           total == min_padding_length + n + uint32_bytes + 1
           more == (b - (total % b)) % b
           p == calculate_padding_length(active, n)
<1>1. b \in Nat \ {0} /\ min_padding_length \in Nat /\ total \in Nat
  BY BlockSizes, TransportAssumption DEF uint32_bytes
<1>2. p = min_padding_length + more
  BY DEF calculate_padding_length
<1> HIDE DEF b, p
<1>3. more \in Nat /\ (total + more) % b = 0
  BY <1>1, ToNextMultiple
<1> HIDE DEF more
<1>4. 5 + n + p = total + more
  BY <1>1, <1>2, <1>3 DEF uint32_bytes
<1>5. p \in Nat /\ p >= min_padding_length /\ (5 + n + p) % b = 0
  BY <1>1, <1>2, <1>3, <1>4
<1>6. (5 + n + (p + b)) % b = 0 /\ p + b \in Nat /\ p + b >= min_padding_length
  <2>1. 5 + n + p \in Nat /\ 5 + n + (p + b) = (5 + n + p) + b
    BY <1>1, <1>5
  <2>2. ((5 + n + p) + b) % b = 0
    BY <1>1, <1>5, <2>1, OneBlockMore
  <2>3. (5 + n + (p + b)) % b = 0
    BY <2>1, <2>2, Zenon
  <2> QED
    BY <1>1, <1>5, <2>3
<1> QED
  BY <1>5, <1>6 DEF Aligned, b, p

\* Between two multiples of a number there is none.
LEMMA LeastMultiple ==
    ASSUME NEW b \in Nat \ {0}, NEW m \in Nat, NEW x \in Nat,
           m % b = 0, x % b = 0, m - b < x
    PROVE  m <= x
<1>1. PICK p \in Nat : m = p * b
  BY MultipleIs
<1>2. PICK q \in Nat : x = q * b
  BY MultipleIs
<1>3. ~(q <= p - 1)
  <2> SUFFICES ASSUME q <= p - 1
               PROVE  FALSE
    OBVIOUS
  <2>1. q * b <= (p - 1) * b
    OBVIOUS
  <2>2. (p - 1) * b = p * b - b
    OBVIOUS
  <2> QED
    BY <1>1, <1>2, <2>1, <2>2
<1>4. p <= q
  BY <1>3
<1>5. p * b <= q * b
  BY <1>4
<1> QED
  BY <1>1, <1>2, <1>5

\* The receiver's limits admit what the sender may send.
LEMMA LengthAccepted ==
    ASSUME NEW active \in BOOLEAN, NEW n \in Nat, NEW p \in Nat,
           Aligned(active, n, p), can_send(n, p)
    PROVE  /\ accepts_packet_length(active, 1 + n + p)
           /\ accepts_padding(1 + n + p, p)
           /\ 1 + n + p \in UInt32
           /\ p \in Bytes
<1>1. /\ n >= 1 /\ 5 + n + p <= max_packet_size /\ p < BYTE
      /\ p >= min_padding_length
  BY TransportAssumption DEF Aligned, can_send, uint32_bytes, UInt32
<1>2. min_packet_size <= 5 + n + p
  <2> DEFINE b == BlockSize(active)
             x == 5 + n + p
  <2>1. b \in Nat \ {0} /\ min_packet_size % b = 0
        /\ min_packet_size - b < 6 + min_padding_length
        /\ min_packet_size \in Nat /\ min_padding_length \in Nat
    BY BlockSizes, TransportAssumption
  <2>2. x \in Nat /\ x % b = 0
    BY DEF Aligned
  <2> HIDE DEF b
  <2>3. min_packet_size - b < x
    BY <1>1, <2>1
  <2> HIDE DEF x
  <2>4. min_packet_size <= x
    BY <2>1, <2>2, <2>3, LeastMultiple
  <2> QED
    BY <2>4 DEF x
<1>3. accepts_packet_length(active, 1 + n + p)
  <2>1. (1 + n + p) + uint32_bytes = 5 + n + p
    BY DEF uint32_bytes
  <2>2. (5 + n + p) % BlockSize(active) = 0
    BY DEF Aligned
  <2> QED
    BY <1>1, <1>2, <2>1, <2>2, TransportAssumption
       DEF accepts_packet_length, uint32_bytes
<1>4. accepts_padding(1 + n + p, p)
  BY <1>1 DEF accepts_padding
<1>5. 1 + n + p \in UInt32
  <2>1. max_packet_size < BYTE * BYTE * BYTE * BYTE /\ BYTE * BYTE * BYTE * BYTE \in Nat
        /\ max_packet_size \in Nat
    BY TransportAssumption, EncodingAssumption DEF UInt32
  <2> DEFINE z == BYTE * BYTE * BYTE * BYTE
  <2> HIDE DEF z
  <2>2. 1 + n + p \in 0..(z - 1)
    BY <1>1, <2>1 DEF z
  <2> QED
    BY <2>2 DEF UInt32, z
<1>6. p \in Bytes
  BY <1>1, EncodingAssumption DEF Bytes
<1> QED
  BY <1>3, <1>4, <1>5, <1>6

\* What the receiver finds in a packet is what the sender put there.
LEMMA FramedParts ==
    ASSUME NEW active \in BOOLEAN, NEW payload \in Seq(Bytes), NEW p \in Nat,
           Aligned(active, Len(payload), p), can_send(Len(payload), p)
    PROVE  LET f == Framed(payload, p)
           IN  /\ f \in Seq(Bytes) /\ Len(f) = 5 + Len(payload) + p
               /\ packet_length(f) = Len(f) - 4
               /\ accepts_packet_length(active, Len(f) - 4)
               /\ accepts_padding(Len(f) - 4, p)
               /\ f[5] = p /\ SubSeq(f, 6, Len(f) - p) = payload
<1> DEFINE n == Len(payload)
           e == encode_uint32(1 + n + p)
           z == [i \in 1..p |-> 0]
           f == Framed(payload, p)
<1>1. n \in Nat /\ n >= 1
  BY DEF can_send
<1>2. /\ accepts_packet_length(active, 1 + n + p) /\ accepts_padding(1 + n + p, p)
      /\ 1 + n + p \in UInt32 /\ p \in Bytes
  BY <1>1, LengthAccepted
<1>3. e \in Seq(Bytes) /\ Len(e) = 4 /\ decode_uint32(e) = 1 + n + p
  BY <1>2, EncodedDecoded
<1>4. z \in Seq(Bytes) /\ Len(z) = p
  BY EncodingAssumption DEF Bytes
<1>5. f = ((e \o <<p>>) \o payload) \o z
  BY DEF Framed
<1> HIDE DEF e, z, f, n
<1>a1. PICK a : a = e \o <<p>>
  OBVIOUS
<1>b1. PICK b : b = a \o payload
  OBVIOUS
<1>a. a \in Seq(Bytes) /\ Len(a) = 5 /\ (\A i \in 1..4 : a[i] = e[i]) /\ a[5] = p
  <2>1. <<p>> \in Seq(Bytes) /\ Len(<<p>>) = 1 /\ <<p>>[1] = p
    BY <1>2
  <2>2. /\ a \in Seq(Bytes) /\ Len(a) = Len(e) + Len(<<p>>)
        /\ \A i \in 1..Len(e) : a[i] = e[i]
        /\ \A i \in 1..Len(<<p>>) : a[Len(e) + i] = <<p>>[i]
    BY <1>3, <1>a1, <2>1, Joined
  <2> QED
    BY <1>3, <2>1, <2>2
<1>b. /\ b \in Seq(Bytes) /\ Len(b) = 5 + n /\ (\A i \in 1..5 : b[i] = a[i])
      /\ \A i \in 1..n : b[5 + i] = payload[i]
  <2>a. a \in Seq(Bytes) /\ payload \in Seq(Bytes)
    BY <1>a
  <2>1. /\ b \in Seq(Bytes) /\ Len(b) = Len(a) + Len(payload)
        /\ \A i \in 1..Len(a) : b[i] = a[i]
        /\ \A i \in 1..Len(payload) : b[Len(a) + i] = payload[i]
    BY <2>a, <1>b1, Joined
  <2> QED
    BY <1>a, <2>1, <1>1 DEF n
<1>c. /\ f \in Seq(Bytes) /\ Len(f) = 5 + n + p
      /\ \A i \in 1..(5 + n) : f[i] = b[i]
  <2>1. f = b \o z
    BY <1>5, <1>a1, <1>b1
  <2>2. f \in Seq(Bytes) /\ Len(f) = Len(b) + Len(z)
        /\ \A i \in 1..Len(b) : f[i] = b[i]
    BY <1>b, <1>4, <2>1, Joined, Zenon
  <2> QED
    BY <1>b, <1>1, <1>4, <2>2
<1>6. f \in Seq(Bytes) /\ Len(f) = 5 + n + p
  BY <1>c
<1>7. \A i \in 1..4 : f[i] = e[i]
  BY <1>1, <1>a, <1>b, <1>c
<1>8. f[5] = p
  BY <1>1, <1>a, <1>b, <1>c
<1>9. \A i \in 1..n : f[5 + i] = payload[i]
  BY <1>1, <1>b, <1>c, SMTT(30)
<1>10. packet_length(f) = 1 + n + p
  <2>1. SubSeq(f, 1, 4) = e
    BY <1>1, <1>3, <1>6, <1>7
  <2> QED
    BY <1>3, <2>1 DEF packet_length, uint32_bytes
<1>11. SubSeq(f, 6, Len(f) - p) = payload
  <2>1. Len(f) - p = 5 + n
    BY <1>1, <1>6
  <2>2. SubSeq(f, 6, 5 + n) \in Seq(Bytes) /\ Len(SubSeq(f, 6, 5 + n)) = n
    BY <1>1, <1>6
  <2>3. \A i \in 1..n : SubSeq(f, 6, 5 + n)[i] = payload[i]
    BY <1>1, <1>6, <1>9
  <2>4. SubSeq(f, 6, 5 + n) = payload
    BY <2>2, <2>3 DEF n
  <2> QED
    BY <2>1, <2>4
<1>12. Len(f) - 4 = 1 + n + p
  BY <1>1, <1>6
<1> QED
  BY <1>2, <1>6, <1>8, <1>10, <1>11, <1>12 DEF f, n

-------------------------------------------------------------------------------
(***************************************************************************)
(* Bytes on the wire.                                                      *)
(***************************************************************************)
LEMMA BytesJoined ==
    ASSUME NEW s \in Seq(WireByte), NEW t \in Seq(WireByte)
    PROVE  LET r == s \o t
           IN  /\ r \in Seq(WireByte) /\ Len(r) = Len(s) + Len(t)
               /\ \A i \in 1..Len(s) : r[i] = s[i]
               /\ \A i \in 1..Len(t) : r[Len(s) + i] = t[i]
BY Joined

LEMMA WireValue ==
    ASSUME NEW s \in Seq(WireByte), NEW i \in 1..Len(s)
    PROVE  s[i] \in WireByte /\ s[i].v \in Bytes
<1>1. s[i] \in WireByte
  OBVIOUS
<1> QED
  BY <1>1 DEF WireByte

LEMMA ClearBytes ==
    ASSUME NEW packet \in Seq(Bytes)
    PROVE  LET s == InClear(packet)
           IN  /\ s \in Seq(WireByte) /\ Len(s) = Len(packet)
               /\ \A i \in 1..Len(packet) :
                     s[i] = [v |-> packet[i], at |-> PLAIN, mac |-> <<>>]
<1>1. \A i \in 1..Len(packet) :
        [v |-> packet[i], at |-> PLAIN, mac |-> <<>>] \in WireByte
  BY DEF WireByte, PLAIN
<1> QED
  BY <1>1 DEF InClear

LEMMA EncryptedBytes ==
    ASSUME NEW packet \in Seq(Bytes), NEW position \in Nat
    PROVE  LET s == encrypt(packet, position)
           IN  /\ s \in Seq(WireByte) /\ Len(s) = Len(packet)
               /\ \A i \in 1..Len(packet) :
                     s[i] = [v |-> packet[i], at |-> position + i - 1, mac |-> <<>>]
<1>1. \A i \in 1..Len(packet) :
        [v |-> packet[i], at |-> position + i - 1, mac |-> <<>>] \in WireByte
  BY DEF WireByte
<1> QED
  BY <1>1 DEF encrypt

LEMMA DecryptedBytes ==
    ASSUME NEW s \in Seq(WireByte), NEW position \in Nat
    PROVE  LET p == decrypt(s, position)
           IN  /\ p \in Seq(Bytes) /\ Len(p) = Len(s)
               /\ \A i \in 1..Len(s) : s[i].at = position + i - 1 => p[i] = s[i].v
<1>1. \A i \in 1..Len(s) : s[i].v \in Bytes /\ (s[i].v + 1) % BYTE \in Bytes
  <2> TAKE i \in 1..Len(s)
  <2>2. s[i].v \in Bytes
    BY WireValue
  <2> QED
    BY <2>2, EncodingAssumption DEF Bytes
<1>2. PICK p : p = decrypt(s, position)
  OBVIOUS
<1>3. p = [i \in 1..Len(s) |-> IF s[i].at = position + i - 1 THEN s[i].v
                              ELSE (s[i].v + 1) % BYTE]
  BY <1>2 DEF decrypt
<1>4. \A i \in 1..Len(s) : p[i] \in Bytes
  BY <1>1, <1>3
<1>5. p \in Seq(Bytes) /\ Len(p) = Len(s)
  BY <1>3, <1>4
<1>6. \A i \in 1..Len(s) : s[i].at = position + i - 1 => p[i] = s[i].v
  BY <1>3
<1> QED
  BY <1>2, <1>5, <1>6, Zenon

LEMMA MacOf ==
    ASSUME NEW sequence \in Nat, NEW packet \in Seq(Bytes)
    PROVE  LET s == calculate_hmac(sequence, packet)
           IN  /\ s \in Seq(WireByte) /\ Len(s) = MAC_BYTES
               /\ \A i \in 1..MAC_BYTES :
                     s[i] = [v |-> 0, at |-> PLAIN, mac |-> <<i, sequence, packet>>]
<1>1. MAC_BYTES \in Nat /\ 0 \in Bytes
  BY TransportAssumption, EncodingAssumption DEF Bytes
<1>2. \A i \in 1..MAC_BYTES :
        [v |-> 0, at |-> PLAIN, mac |-> <<i, sequence, packet>>] \in WireByte
  BY <1>1 DEF WireByte, PLAIN
<1> QED
  BY <1>1, <1>2 DEF calculate_hmac

LEMMA ValueBytes ==
    ASSUME NEW s \in Seq(WireByte)
    PROVE  LET p == Values(s)
           IN  /\ p \in Seq(Bytes) /\ Len(p) = Len(s)
               /\ \A i \in 1..Len(s) : p[i] = s[i].v
<1>1. \A i \in 1..Len(s) : s[i].v \in Bytes
  BY WireValue
<1> QED
  BY <1>1 DEF Values

-------------------------------------------------------------------------------
(***************************************************************************)
(* Types.  What receive_packet has of the packet at each of its reads, and *)
(* that it asks for no more than a packet of the largest size.             *)
(***************************************************************************)
StageShape(r) ==
    /\ r.stage = "length" => r.packet = <<>> /\ r.want = 4
    /\ r.stage = "body" => Len(r.packet) = 4 /\ r.want >= 1
    /\ r.stage = "block" => r.packet = <<>> /\ r.want = aes_block_size
    /\ r.stage = "rest" => Len(r.packet) = aes_block_size
    /\ r.stage = "mac" => Len(r.packet) >= aes_block_size /\ r.want = MAC_BYTES

TypeInv == TransportTypeOK /\ StageShape(in) /\ LengthBounded

\* Sizes, as the provers need them.
LEMMA Sizes ==
    /\ aes_block_size \in Nat /\ aes_block_size >= 5
    /\ min_packet_size \in Nat /\ min_packet_size >= aes_block_size
    /\ max_packet_size \in Nat /\ max_packet_size >= min_packet_size
    /\ MAC_BYTES \in Nat /\ MAC_BYTES >= 1 /\ MAC_BYTES <= max_packet_size
    /\ SEQUENCE_NUMBERS \in Nat \ {0}
    /\ SOCKET_BUFFER \in Nat
    /\ uint32_bytes = 4
<1>1. max_packet_size \in Nat
  BY TransportAssumption, EncodingAssumption DEF UInt32
<1> QED
  BY <1>1, TransportAssumption DEF uint32_bytes

LEMMA NumbersWrap ==
    ASSUME NEW n \in Nat
    PROVE  Next_sequence(n) \in 0..(SEQUENCE_NUMBERS - 1)
BY Sizes DEF Next_sequence

Stages == {"length", "body", "block", "rest", "mac"}

LEMMA StageNames ==
    /\ "length" \in Stages /\ "body" \in Stages /\ "block" \in Stages
    /\ "rest" \in Stages /\ "mac" \in Stages
BY DEF Stages

\* The receiver goes to its next read.
LEMMA NextRead ==
    ASSUME NEW r \in Receiver, NEW stage \in Stages, NEW want \in Nat
    PROVE  LET x == Reads(r, stage, want)
           IN  /\ x \in Receiver
               /\ x.active = r.active /\ x.sequence = r.sequence
               /\ x.position = r.position /\ x.status = r.status
               /\ x.stage = stage /\ x.want = want /\ x.buffer = <<>>
<1> DEFINE x == [r EXCEPT !.stage = stage, !.want = want, !.buffer = <<>>]
           Buffers == Seq(WireByte)
           R == [active : BOOLEAN, sequence : 0..(SEQUENCE_NUMBERS - 1),
                 position : Nat, status : {"up", "failed"}, stage : Stages,
                 want : Nat, buffer : Buffers, packet : Seq(Bytes)]
<1>0. <<>> \in Buffers /\ Receiver = R
  BY DEF Receiver, Stages
<1>1. x \in Receiver
  <2> HIDE DEF Buffers
  <2>1. r \in R
    BY <1>0
  <2>2. x \in R
    BY <1>0, <2>1
  <2> QED
    BY <1>0, <2>2
<1>2. /\ x.active = r.active /\ x.sequence = r.sequence
      /\ x.position = r.position /\ x.status = r.status
      /\ x.stage = stage /\ x.want = want /\ x.buffer = <<>>
  BY DEF Receiver
<1> QED
  BY <1>1, <1>2 DEF Reads

LEMMA TypeInit == TransportInit => TypeInv
<1> SUFFICES ASSUME TransportInit
             PROVE  TypeInv
  OBVIOUS
<1>1. out \in Sender
  BY Sizes DEF TransportInit, Sender
<1>2. in \in Receiver /\ Len(in.buffer) <= in.want /\ StageShape(in) /\ LengthBounded
  BY Sizes DEF TransportInit, Receiver, StageShape, LengthBounded
<1>3. wire \in Seq(WireByte) /\ Len(wire) <= SOCKET_BUFFER
  BY Sizes DEF TransportInit
<1> QED
  BY <1>1, <1>2, <1>3, TransportAssumption
     DEF TransportInit, TypeInv, TransportTypeOK

LEMMA TypeFacts ==
    ASSUME TypeInv
    PROVE  /\ sent \in Seq(Payloads) /\ got \in Seq(Seq(Bytes))
           /\ out \in Sender /\ out.active \in BOOLEAN /\ out.position \in Nat
           /\ out.sequence \in 0..(SEQUENCE_NUMBERS - 1) /\ out.sequence \in Nat
           /\ out.todo \in Seq(WireByte)
           /\ in \in Receiver /\ in.active \in BOOLEAN /\ in.position \in Nat
           /\ in.sequence \in 0..(SEQUENCE_NUMBERS - 1) /\ in.sequence \in Nat
           /\ in.want \in Nat /\ in.buffer \in Seq(WireByte)
           /\ in.packet \in Seq(Bytes) /\ Len(in.buffer) <= in.want
           /\ wire \in Seq(WireByte) /\ Len(wire) <= SOCKET_BUFFER
BY Sizes DEF TypeInv, TransportTypeOK, Sender, Receiver

\* A packet on its way out.
LEMMA SendsTypes ==
    ASSUME TypeInv, NEW payload \in Payloads, NEW p,
           Aligned(out.active, Len(payload), p), Sends(payload, p)
    PROVE  LET packet == Framed(payload, p)
           IN  /\ TypeInv' /\ p \in Nat /\ packet \in Seq(Bytes)
               /\ payload \in Seq(Bytes)
               /\ out'.active = out.active /\ out'.sequence = out.sequence
               /\ out'.position = IF out.active THEN out.position + Len(packet)
                                  ELSE out.position
               /\ out'.todo = IF out.active
                              THEN encrypt(packet, out.position)
                                     \o calculate_hmac(out.sequence, packet)
                              ELSE InClear(packet)
<1> DEFINE packet == Framed(payload, p)
           secret == encrypt(packet, out.position)
           mac == calculate_hmac(out.sequence, packet)
<1>1. p \in Nat /\ payload \in Seq(Bytes) /\ can_send(Len(payload), p)
  BY TransportAssumption DEF Aligned, Sends
<1>2. packet \in Seq(Bytes)
  BY <1>1, FramedParts, TypeFacts
<1> HIDE DEF packet
<1>3. InClear(packet) \in Seq(WireByte)
  BY <1>2, ClearBytes
<1>4. secret \in Seq(WireByte) /\ mac \in Seq(WireByte)
  BY <1>2, EncryptedBytes, MacOf, TypeFacts
<1> HIDE DEF secret, mac
<1>5. secret \o mac \in Seq(WireByte)
  BY <1>4
<1>6. out.position + Len(packet) \in Nat
  BY <1>2, TypeFacts
<1>7. /\ out' \in Sender
      /\ out'.active = out.active /\ out'.sequence = out.sequence
      /\ out'.position = IF out.active THEN out.position + Len(packet)
                         ELSE out.position
      /\ out'.todo = IF out.active THEN secret \o mac ELSE InClear(packet)
  <2>1. CASE out.active
    <3>1. out' = [out EXCEPT !.todo = secret \o mac,
                             !.position = out.position + Len(packet)]
      BY <2>1 DEF Sends, packet, secret, mac
    <3>2. out \in Sender
      BY TypeFacts
    <3> QED
      BY <1>5, <1>6, <2>1, <3>1, <3>2 DEF Sender
  <2>2. CASE ~out.active
    <3>1. out' = [out EXCEPT !.todo = InClear(packet)]
      BY <2>2 DEF Sends, packet
    <3>2. out \in Sender
      BY TypeFacts
    <3> QED
      BY <1>3, <2>2, <3>1, <3>2 DEF Sender
  <2> QED
    BY <2>1, <2>2
<1>8. sent' \in Seq(Payloads)
  BY TypeFacts DEF Sends
<1>9. TypeInv'
  BY <1>7, <1>8
     DEF TypeInv, TransportTypeOK, Sends, StageShape, LengthBounded
<1> QED
  BY <1>1, <1>2, <1>7, <1>9 DEF packet, secret, mac

\* Both senders keep to the format.
LEMMA SendsAligned ==
    ASSUME TypeInv, NEW payload \in Payloads
    PROVE  LET p == calculate_padding_length(out.active, Len(payload))
           IN  /\ Aligned(out.active, Len(payload), p)
               /\ Aligned(out.active, Len(payload), p + BlockSize(out.active))
<1>1. payload \in Seq(Bytes)
  BY TransportAssumption
<1>2. out.active \in BOOLEAN /\ Len(payload) \in Nat
  BY <1>1, TypeFacts
<1> QED
  BY <1>2, PaddingAligns

\* What a write leaves, and what it changes when nothing is left.
LEMMA WriteTypes ==
    ASSUME TypeInv, NEW r \in 1..SOCKET_BUFFER, write_exact(r)
    PROVE  LET rest == SubSeq(out.todo, r + 1, Len(out.todo))
           IN  /\ TypeInv' /\ r <= Len(out.todo)
               /\ SubSeq(out.todo, 1, r) \in Seq(WireByte)
               /\ Len(SubSeq(out.todo, 1, r)) = r
               /\ out'.todo = rest
               /\ rest # <<>> => /\ out'.active = out.active
                                 /\ out'.sequence = out.sequence
                                 /\ out'.position = out.position
               /\ rest = <<>> =>
                    /\ out'.active = (out.active \/ sent[Len(sent)] = NEWKEYS)
                    /\ out'.sequence = Next_sequence(out.sequence)
                    /\ out'.position = IF sent[Len(sent)] = NEWKEYS THEN 0
                                       ELSE out.position
<1> DEFINE rest == SubSeq(out.todo, r + 1, Len(out.todo))
           o == [out EXCEPT !.todo = rest]
           first == SubSeq(out.todo, 1, r)
<1>1. r \in Nat /\ r <= Len(out.todo) /\ r <= SOCKET_BUFFER - Len(wire)
  BY DEF write_exact
<1>2. first \in Seq(WireByte) /\ Len(first) = r
  <2>1. r \in Nat /\ 0 \in Nat /\ 0 <= r /\ r <= Len(out.todo) /\ 0 + 1 = 1 /\ r - 0 = r
    BY <1>1
  <2> QED
    BY <2>1, TypeFacts, Piece
<1>3. rest \in Seq(WireByte)
  BY <1>1, TypeFacts
<1> HIDE DEF rest, first
<1>4. /\ o \in Sender /\ o.todo = rest /\ o.active = out.active
      /\ o.sequence = out.sequence /\ o.position = out.position
  <2>1. out \in Sender
    BY TypeFacts
  <2> QED
    BY <1>3, <2>1 DEF Sender
<1>5. out' = IF o.todo = <<>> THEN Written(o) ELSE o
  BY DEF write_exact, rest
<1> HIDE DEF o
<1>6. Next_sequence(out.sequence) \in 0..(SEQUENCE_NUMBERS - 1)
  BY TypeFacts, NumbersWrap
<1>7. /\ out' \in Sender /\ out'.todo = rest
      /\ rest # <<>> => /\ out'.active = out.active
                        /\ out'.sequence = out.sequence
                        /\ out'.position = out.position
      /\ rest = <<>> =>
           /\ out'.active = (out.active \/ sent[Len(sent)] = NEWKEYS)
           /\ out'.sequence = Next_sequence(out.sequence)
           /\ out'.position = IF sent[Len(sent)] = NEWKEYS THEN 0 ELSE out.position
  <2>1. CASE rest # <<>>
    BY <1>4, <1>5, <2>1
  <2>2. CASE rest = <<>> /\ sent[Len(sent)] = NEWKEYS
    <3>1. out' = [o EXCEPT !.active = TRUE,
                           !.sequence = Next_sequence(out.sequence), !.position = 0]
      BY <1>4, <1>5, <2>2 DEF Written
    <3> QED
      BY <1>4, <1>6, <2>2, <3>1 DEF Sender
  <2>3. CASE rest = <<>> /\ sent[Len(sent)] # NEWKEYS
    <3>1. out' = [o EXCEPT !.sequence = Next_sequence(out.sequence)]
      BY <1>4, <1>5, <2>3 DEF Written
    <3>2. out.active \in BOOLEAN
      BY TypeFacts
    <3> QED
      BY <1>4, <1>6, <2>3, <3>1, <3>2 DEF Sender
  <2> QED
    BY <2>1, <2>2, <2>3
<1>8. wire' \in Seq(WireByte) /\ Len(wire') <= SOCKET_BUFFER
  <2>1. wire' = wire \o first
    BY DEF write_exact, first
  <2>0. wire \in Seq(WireByte) /\ first \in Seq(WireByte)
    BY <1>2, TypeFacts
  <2>2. Len(wire') = Len(wire) + r /\ wire' \in Seq(WireByte)
    BY <1>2, <2>0, <2>1, Joined
  <2> QED
    BY <1>1, <2>2, TypeFacts, Sizes
<1>9. TypeInv'
  BY <1>7, <1>8
     DEF TypeInv, TransportTypeOK, write_exact, StageShape, LengthBounded
<1> QED
  BY <1>1, <1>2, <1>7, <1>9 DEF rest, first

LEMMA ReadTypes ==
    ASSUME TypeInv, NEW r \in 1..SOCKET_BUFFER, read_exact(r)
    PROVE  /\ TypeInv' /\ in.status = "up" /\ r <= Len(wire)
           /\ in'.active = in.active /\ in'.sequence = in.sequence
           /\ in'.position = in.position /\ in'.status = in.status
           /\ in'.stage = in.stage /\ in'.want = in.want
           /\ in'.packet = in.packet
           /\ in'.buffer = in.buffer \o SubSeq(wire, 1, r)
           /\ SubSeq(wire, 1, r) \in Seq(WireByte)
           /\ Len(SubSeq(wire, 1, r)) = r
<1> DEFINE first == SubSeq(wire, 1, r)
           rest == SubSeq(wire, r + 1, Len(wire))
<1>1. r \in Nat /\ r <= Len(wire) /\ r <= in.want - Len(in.buffer)
  BY DEF read_exact
<1>2. first \in Seq(WireByte) /\ Len(first) = r
  <2>1. r \in Nat /\ 0 \in Nat /\ 0 <= r /\ r <= Len(wire) /\ 0 + 1 = 1 /\ r - 0 = r
    BY <1>1
  <2> QED
    BY <2>1, TypeFacts, Piece
<1>3. rest \in Seq(WireByte) /\ Len(rest) <= SOCKET_BUFFER
  <2>1. Len(wire) \in Nat /\ Len(wire) <= Len(wire)
    BY TypeFacts
  <2>2. rest \in Seq(WireByte) /\ Len(rest) = Len(wire) - r
    BY <1>1, <2>1, TypeFacts, Piece
  <2> QED
    BY <1>1, <2>1, <2>2, TypeFacts, Sizes, SMTT(30)
<1> HIDE DEF first, rest
<1>4. in.buffer \o first \in Seq(WireByte) /\ Len(in.buffer \o first) <= in.want
  BY <1>1, <1>2, TypeFacts
<1>5. /\ in' \in Receiver
      /\ in'.active = in.active /\ in'.sequence = in.sequence
      /\ in'.position = in.position /\ in'.status = in.status
      /\ in'.stage = in.stage /\ in'.want = in.want
      /\ in'.packet = in.packet /\ in'.buffer = in.buffer \o first
  <2>1. in' = [in EXCEPT !.buffer = in.buffer \o first]
    BY DEF read_exact, first
  <2>2. in \in Receiver
    BY TypeFacts
  <2> QED
    BY <1>4, <2>1, <2>2 DEF Receiver
<1>6. wire' = rest /\ in.status = "up"
  BY DEF read_exact, rest, Receiving
<1>7. TypeInv'
  BY <1>3, <1>4, <1>5, <1>6
     DEF TypeInv, TransportTypeOK, read_exact, StageShape, LengthBounded
<1> QED
  BY <1>1, <1>2, <1>5, <1>6, <1>7 DEF first

LEMMA LengthNat ==
    ASSUME NEW packet \in Seq(Bytes), Len(packet) >= 4
    PROVE  packet_length(packet) \in Nat
<1>1. PICK q : q = SubSeq(packet, 1, 4)
  OBVIOUS
<1>2. q \in Seq(Bytes) /\ Len(q) = 4
  BY <1>1
<1>3. decode_uint32(q) \in Nat
  <2>1. Len(q) >= 4
    BY <1>2
  <2> QED
    BY <1>2, <2>1, DecodedNat, Zenon
<1> QED
  BY <1>1, <1>3, Zenon DEF packet_length, uint32_bytes

LEMMA ReceiverTypes ==
    ASSUME TypeInv, in' \in Receiver, Len(in'.buffer) <= in'.want,
           StageShape(in'), in'.want <= max_packet_size,
           got' \in Seq(Seq(Bytes)), UNCHANGED <<sent, out, wire, tcp, altered>>
    PROVE  TypeInv'
BY DEF TypeInv, TransportTypeOK, StageShape, LengthBounded

LEMMA ThrowsTypes ==
    ASSUME TypeInv, Throws, UNCHANGED <<sent, out, wire, tcp, altered>>
    PROVE  TypeInv' /\ in'.status = "failed" /\ got' = got
<1>1. /\ in' \in Receiver /\ in'.buffer = in.buffer /\ in'.want = in.want
      /\ in'.stage = in.stage /\ in'.packet = in.packet /\ in'.status = "failed"
  <2>1. in \in Receiver /\ in' = [in EXCEPT !.status = "failed"]
    BY TypeFacts DEF Throws
  <2> QED
    BY <2>1 DEF Receiver
<1>2. StageShape(in') /\ Len(in'.buffer) <= in'.want /\ in'.want <= max_packet_size
  BY <1>1, TypeFacts DEF TypeInv, StageShape, LengthBounded
<1>3. got' = got /\ got' \in Seq(Seq(Bytes))
  BY TypeFacts DEF Throws
<1> QED
  BY <1>1, <1>2, <1>3, ReceiverTypes

LEMMA LengthTypes ==
    ASSUME TypeInv, LengthRead
    PROVE  LET packet == Values(in.buffer)
           IN  /\ TypeInv' /\ in.status = "up" /\ Len(in.buffer) = 4
               /\ in.packet = <<>> /\ packet \in Seq(Bytes) /\ got' = got
               /\ UNCHANGED <<sent, out, wire, tcp, altered>>
               /\ \/ /\ accepts_packet_length(FALSE, packet_length(packet))
                     /\ in'.active = in.active /\ in'.sequence = in.sequence
                     /\ in'.position = in.position /\ in'.status = in.status
                     /\ in'.stage = "body" /\ in'.want = packet_length(packet)
                     /\ in'.buffer = <<>> /\ in'.packet = packet
                  \/ /\ ~accepts_packet_length(FALSE, packet_length(packet))
                     /\ in'.status = "failed"
<1> DEFINE packet == Values(in.buffer)
           n == packet_length(packet)
           x == Reads(in, "body", n)
<1>1. /\ in.status = "up" /\ in.stage = "length" /\ Len(in.buffer) = 4
      /\ in.packet = <<>> /\ UNCHANGED <<sent, out, wire, tcp, altered>>
  BY DEF LengthRead, ReadDone, TypeInv, StageShape
<1>2. packet \in Seq(Bytes) /\ Len(packet) = 4
  BY <1>1, TypeFacts, ValueBytes
<1> HIDE DEF packet
<1>3. n \in Nat
  BY <1>2, LengthNat
<1> HIDE DEF n
<1>4. CASE accepts_packet_length(FALSE, n)
  <2>1. in' = [x EXCEPT !.packet = packet] /\ got' = got
    BY <1>4 DEF LengthRead, packet, n, Throws
  <2>2. n >= 1 /\ n <= max_packet_size
    BY <1>3, <1>4, Sizes DEF accepts_packet_length
  <2>3. /\ x \in Receiver /\ x.active = in.active /\ x.sequence = in.sequence
        /\ x.position = in.position /\ x.status = in.status
        /\ x.stage = "body" /\ x.want = n /\ x.buffer = <<>>
    <3>1. in \in Receiver /\ "body" \in Stages
      BY TypeFacts, StageNames
    <3> QED
      BY <1>3, <3>1, NextRead, ZenonT(60)
  <2> HIDE DEF x
  <2>4. /\ in' \in Receiver /\ in'.active = in.active
        /\ in'.sequence = in.sequence /\ in'.position = in.position
        /\ in'.status = in.status /\ in'.stage = "body" /\ in'.want = n
        /\ in'.buffer = <<>> /\ in'.packet = packet
    BY <1>2, <2>1, <2>3 DEF Receiver
  <2>5. StageShape(in') /\ Len(in'.buffer) <= in'.want
    BY <1>2, <1>3, <2>2, <2>4 DEF StageShape
  <2>6. got' \in Seq(Seq(Bytes)) /\ in'.want <= max_packet_size
    BY <2>1, <2>2, <2>4, TypeFacts
  <2>7. TypeInv'
    BY <1>1, <2>4, <2>5, <2>6, ReceiverTypes
  <2> QED
    BY <1>1, <1>2, <1>4, <2>1, <2>4, <2>7 DEF packet, n
<1>5. CASE ~accepts_packet_length(FALSE, n)
  <2>1. Throws
    BY <1>5 DEF LengthRead, packet, n
  <2>2. TypeInv' /\ in'.status = "failed" /\ got' = got
    BY <1>1, <2>1, ThrowsTypes
  <2> QED
    BY <1>1, <1>2, <1>5, <2>2 DEF packet, n
<1> QED
  BY <1>4, <1>5

LEMMA BlockTypes ==
    ASSUME TypeInv, BlockRead
    PROVE  LET packet == decrypt(in.buffer, in.position)
           IN  /\ TypeInv' /\ in.status = "up" /\ Len(in.buffer) = aes_block_size
               /\ in.packet = <<>> /\ packet \in Seq(Bytes) /\ got' = got
               /\ packet_length(packet) \in Nat
               /\ UNCHANGED <<sent, out, wire, tcp, altered>>
               /\ \/ /\ accepts_packet_length(TRUE, packet_length(packet))
                     /\ in'.active = in.active /\ in'.sequence = in.sequence
                     /\ in'.position = in.position + aes_block_size
                     /\ in'.status = in.status /\ in'.stage = "rest"
                     /\ in'.want = 4 + packet_length(packet) - aes_block_size
                     /\ in'.buffer = <<>> /\ in'.packet = packet
                  \/ /\ ~accepts_packet_length(TRUE, packet_length(packet))
                     /\ in'.status = "failed"
<1> DEFINE packet == decrypt(in.buffer, in.position)
           n == packet_length(packet)
           want == uint32_bytes + n - aes_block_size
           x == Reads(in, "rest", want)
           position == in.position + aes_block_size
<1>1. /\ in.status = "up" /\ in.stage = "block"
      /\ Len(in.buffer) = aes_block_size
      /\ in.packet = <<>> /\ UNCHANGED <<sent, out, wire, tcp, altered>>
  BY DEF BlockRead, ReadDone, TypeInv, StageShape
<1>2. packet \in Seq(Bytes) /\ Len(packet) = aes_block_size
  BY <1>1, TypeFacts, DecryptedBytes
<1> HIDE DEF packet
<1>3. n \in Nat
  BY <1>2, Sizes, LengthNat
<1> HIDE DEF n
<1>4. CASE accepts_packet_length(TRUE, n)
  <2>1. in' = [x EXCEPT !.packet = packet, !.position = @ + aes_block_size]
        /\ got' = got
    BY <1>4 DEF BlockRead, packet, n, Throws
  <2>2. want \in Nat /\ want <= max_packet_size /\ want = 4 + n - aes_block_size
    BY <1>3, <1>4, Sizes DEF accepts_packet_length
  <2> HIDE DEF want
  <2>3. /\ x \in Receiver /\ x.active = in.active /\ x.sequence = in.sequence
        /\ x.position = in.position /\ x.status = in.status
        /\ x.stage = "rest" /\ x.want = want /\ x.buffer = <<>>
    <3>1. in \in Receiver /\ "rest" \in Stages
      BY TypeFacts, StageNames
    <3> QED
      BY <2>2, <3>1, NextRead, ZenonT(60)
  <2> HIDE DEF x
  <2>a. position \in Nat
    BY TypeFacts, Sizes, SMTT(30)
  <2>b. in' = [x EXCEPT !.packet = packet, !.position = position]
    BY <2>1, <2>3
  <2> HIDE DEF position
  <2>4. /\ in' \in Receiver /\ in'.active = x.active
        /\ in'.sequence = x.sequence /\ in'.position = position
        /\ in'.status = x.status /\ in'.stage = x.stage /\ in'.want = x.want
        /\ in'.buffer = x.buffer /\ in'.packet = packet
    <3>1. x \in Receiver /\ packet \in Seq(Bytes)
      BY <1>2, <2>3
    <3> QED
      BY <2>a, <2>b, <3>1 DEF Receiver
  <2>5. StageShape(in') /\ Len(in'.buffer) <= in'.want
    BY <1>2, <1>3, <2>2, <2>3, <2>4 DEF StageShape
  <2>6. got' \in Seq(Seq(Bytes)) /\ in'.want <= max_packet_size
    BY <2>1, <2>2, <2>3, <2>4, TypeFacts
  <2>7. TypeInv'
    BY <1>1, <2>4, <2>5, <2>6, ReceiverTypes
  <2> QED
    BY <1>1, <1>2, <1>3, <1>4, <2>1, <2>2, <2>3, <2>4, <2>7 DEF packet, n, position
<1>5. CASE ~accepts_packet_length(TRUE, n)
  <2>1. Throws
    BY <1>5 DEF BlockRead, packet, n
  <2>2. TypeInv' /\ in'.status = "failed" /\ got' = got
    BY <1>1, <2>1, ThrowsTypes
  <2> QED
    BY <1>1, <1>2, <1>3, <1>5, <2>2 DEF packet, n
<1> QED
  BY <1>4, <1>5

LEMMA RestTypes ==
    ASSUME TypeInv, RestRead
    PROVE  LET more == decrypt(in.buffer, in.position)
           IN  /\ TypeInv' /\ in.status = "up" /\ Len(in.buffer) = in.want
               /\ Len(in.packet) = aes_block_size
               /\ more \in Seq(Bytes) /\ got' = got
               /\ UNCHANGED <<sent, out, wire, tcp, altered>>
               /\ in'.active = in.active /\ in'.sequence = in.sequence
               /\ in'.position = in.position + in.want
               /\ in'.status = in.status /\ in'.stage = "mac"
               /\ in'.want = MAC_BYTES /\ in'.buffer = <<>>
               /\ in'.packet = in.packet \o more
<1> DEFINE more == decrypt(in.buffer, in.position)
           x == Reads(in, "mac", MAC_BYTES)
           packet == in.packet \o more
           position == in.position + in.want
<1>1. /\ in.status = "up" /\ in.stage = "rest" /\ Len(in.buffer) = in.want
      /\ Len(in.packet) = aes_block_size
      /\ UNCHANGED <<sent, out, wire, tcp, altered>>
  BY DEF RestRead, ReadDone, TypeInv, StageShape
<1>2. more \in Seq(Bytes)
  BY TypeFacts, DecryptedBytes
<1> HIDE DEF more
<1>3. packet \in Seq(Bytes) /\ Len(packet) >= aes_block_size /\ position \in Nat
  BY <1>1, <1>2, TypeFacts, Sizes, SMTT(30)
<1>4. /\ x \in Receiver /\ x.active = in.active /\ x.sequence = in.sequence
      /\ x.position = in.position /\ x.status = in.status
      /\ x.stage = "mac" /\ x.want = MAC_BYTES /\ x.buffer = <<>>
      /\ x.packet = in.packet
  <2>1. in \in Receiver /\ "mac" \in Stages /\ MAC_BYTES \in Nat
    BY TypeFacts, StageNames, Sizes
  <2>2. x.packet = in.packet
    BY <2>1 DEF Reads, Receiver
  <2> QED
    BY <2>1, <2>2, NextRead, ZenonT(60)
<1>5. in' = [x EXCEPT !.packet = packet, !.position = position] /\ got' = got
  <2>1. in' = [x EXCEPT !.packet = @ \o more, !.position = @ + in.want]
    BY DEF RestRead, more
  <2> HIDE DEF x
  <2> QED
    BY <1>4, <2>1 DEF RestRead
<1> HIDE DEF x, packet, position
<1>6. /\ in' \in Receiver /\ in'.active = in.active
      /\ in'.sequence = in.sequence /\ in'.position = position
      /\ in'.status = in.status /\ in'.stage = "mac" /\ in'.want = MAC_BYTES
      /\ in'.buffer = <<>> /\ in'.packet = packet
  BY <1>3, <1>4, <1>5 DEF Receiver
<1>7. StageShape(in') /\ Len(in'.buffer) <= in'.want
  BY <1>3, <1>6, Sizes DEF StageShape
<1>8. got' \in Seq(Seq(Bytes)) /\ in'.want <= max_packet_size
  BY <1>5, <1>6, TypeFacts, Sizes
<1>9. TypeInv'
  BY <1>1, <1>6, <1>7, <1>8, ReceiverTypes
<1> QED
  BY <1>1, <1>2, <1>5, <1>6, <1>9 DEF packet, position, more

LEMMA FirstReads ==
    ASSUME NEW active \in BOOLEAN
    PROVE  LET f == FirstRead(active)
           IN  /\ f.stage = IF active THEN "block" ELSE "length"
               /\ f.want = IF active THEN aes_block_size ELSE 4
               /\ f.stage \in Stages /\ f.want \in Nat /\ f.want <= max_packet_size
BY Sizes DEF FirstRead, Stages

LEMMA ReturnsTypes ==
    ASSUME TypeInv, NEW packet \in Seq(Bytes), Len(packet) >= 5,
           Returns(packet), UNCHANGED <<sent, out, wire, tcp, altered>>
    PROVE  LET padding == packet[5]
               payload == SubSeq(packet, 6, Len(packet) - padding)
               active == in.active \/ payload = NEWKEYS
           IN  /\ TypeInv'
               /\ \/ /\ accepts_padding(packet_length(packet), padding)
                     /\ got' = Append(got, payload)
                     /\ in'.active = active
                     /\ in'.sequence = Next_sequence(in.sequence)
                     /\ in'.position = IF payload = NEWKEYS THEN 0 ELSE in.position
                     /\ in'.status = in.status
                     /\ in'.stage = IF active THEN "block" ELSE "length"
                     /\ in'.want = IF active THEN aes_block_size ELSE 4
                     /\ in'.buffer = <<>> /\ in'.packet = <<>>
                  \/ /\ ~accepts_padding(packet_length(packet), padding)
                     /\ in'.status = "failed" /\ got' = got
<1> DEFINE padding == packet[5]
           payload == SubSeq(packet, 6, Len(packet) - padding)
           active == in.active \/ payload = NEWKEYS
           f == FirstRead(active)
           x == Reads(in, f.stage, f.want)
           sequence == Next_sequence(in.sequence)
           position == IF payload = NEWKEYS THEN 0 ELSE in.position
<1>1. payload \in Seq(Bytes)
  <2>1. padding \in Nat
    BY EncodingAssumption DEF Bytes
  <2> QED
    BY <2>1
<1>2. CASE accepts_padding(packet_length(packet), padding)
  <2>1. /\ got' = Append(got, payload)
        /\ in' = [x EXCEPT !.active = active, !.sequence = Next_sequence(@),
                           !.position = IF payload = NEWKEYS THEN 0 ELSE @,
                           !.packet = <<>>]
    BY <1>2, SMTT(30) DEF Returns, uint32_bytes
  <2> HIDE DEF payload, padding
  <2>2. active \in BOOLEAN
    BY TypeFacts
  <2> HIDE DEF active
  <2>3. /\ f.stage = IF active THEN "block" ELSE "length"
        /\ f.want = IF active THEN aes_block_size ELSE 4
        /\ f.stage \in Stages /\ f.want \in Nat /\ f.want <= max_packet_size
    BY <2>2, FirstReads
  <2> HIDE DEF f
  <2>4. /\ x \in Receiver /\ x.active = in.active /\ x.sequence = in.sequence
        /\ x.position = in.position /\ x.status = in.status
        /\ x.stage = f.stage /\ x.want = f.want /\ x.buffer = <<>>
    <3>1. in \in Receiver
      BY TypeFacts
    <3> QED
      BY <2>3, <3>1, NextRead, ZenonT(60)
  <2> HIDE DEF x
  <2>5. in' = [x EXCEPT !.active = active, !.sequence = sequence,
                        !.position = position, !.packet = <<>>]
    BY <2>1, <2>4
  <2>6. sequence \in 0..(SEQUENCE_NUMBERS - 1) /\ position \in Nat
        /\ <<>> \in Seq(Bytes)
    <3>1. sequence \in 0..(SEQUENCE_NUMBERS - 1)
      BY TypeFacts, NumbersWrap
    <3>2. position \in Nat
      BY TypeFacts
    <3> QED
      BY <3>1, <3>2
  <2> HIDE DEF sequence, position
  <2>7. /\ in' \in Receiver
        /\ in'.active = active /\ in'.sequence = sequence
        /\ in'.position = position /\ in'.status = x.status
        /\ in'.stage = x.stage /\ in'.want = x.want /\ in'.buffer = x.buffer
        /\ in'.packet = <<>>
    BY <2>2, <2>4, <2>5, <2>6 DEF Receiver
  <2>8. StageShape(in') /\ Len(in'.buffer) <= in'.want
    BY <2>2, <2>3, <2>4, <2>7, Sizes DEF StageShape
  <2>9. got' \in Seq(Seq(Bytes)) /\ in'.want <= max_packet_size
    BY <1>1, <2>1, <2>3, <2>4, <2>7, TypeFacts
  <2>10. TypeInv'
    BY <2>7, <2>8, <2>9, ReceiverTypes
  <2> QED
    BY <1>2, <2>1, <2>3, <2>4, <2>7, <2>10
       DEF padding, payload, active, sequence, position
<1>3. CASE ~accepts_padding(packet_length(packet), padding)
  <2>1. Throws
    BY <1>3 DEF Returns, uint32_bytes
  <2>2. TypeInv' /\ in'.status = "failed" /\ got' = got
    BY <2>1, ThrowsTypes
  <2> QED
    BY <1>3, <2>2 DEF padding
<1> QED
  BY <1>2, <1>3

LEMMA BodyTypes ==
    ASSUME TypeInv, BodyRead
    PROVE  LET more == Values(in.buffer)
               packet == in.packet \o more
           IN  /\ TypeInv' /\ in.status = "up" /\ in.stage = "body"
               /\ Len(in.buffer) = in.want
               /\ more \in Seq(Bytes) /\ Len(in.packet) = 4
               /\ packet \in Seq(Bytes) /\ Len(packet) >= 5 /\ Returns(packet)
               /\ UNCHANGED <<sent, out, wire, tcp, altered>>
<1> DEFINE more == Values(in.buffer)
           packet == in.packet \o more
<1>1. /\ in.status = "up" /\ in.stage = "body" /\ Len(in.buffer) = in.want
      /\ Len(in.packet) = 4 /\ in.want >= 1
      /\ UNCHANGED <<sent, out, wire, tcp, altered>>
  BY DEF BodyRead, ReadDone, TypeInv, StageShape
<1>2. more \in Seq(Bytes) /\ Len(more) = in.want
  BY <1>1, TypeFacts, ValueBytes
<1>3. Returns(packet)
  BY DEF BodyRead
<1> HIDE DEF more
<1>4. packet \in Seq(Bytes) /\ Len(packet) >= 5
  <2>1. in.packet \in Seq(Bytes) /\ in.want \in Nat
    BY TypeFacts
  <2>2. packet \in Seq(Bytes) /\ Len(packet) = Len(in.packet) + Len(more)
    BY <1>2, <2>1, Joined
  <2> QED
    BY <1>1, <1>2, <2>1, <2>2
<1> HIDE DEF packet
<1>5. TypeInv'
  BY <1>1, <1>3, <1>4, ReturnsTypes
<1> QED
  BY <1>1, <1>2, <1>3, <1>4, <1>5 DEF more, packet

LEMMA MacTypes ==
    ASSUME TypeInv, MacRead
    PROVE  /\ TypeInv' /\ in.status = "up" /\ in.stage = "mac"
           /\ Len(in.buffer) = MAC_BYTES
           /\ in.packet \in Seq(Bytes) /\ Len(in.packet) >= 5
           /\ UNCHANGED <<sent, out, wire, tcp, altered>>
           /\ \/ /\ in.buffer = calculate_hmac(in.sequence, in.packet)
                 /\ Returns(in.packet)
              \/ /\ in.buffer # calculate_hmac(in.sequence, in.packet)
                 /\ in'.status = "failed" /\ got' = got
<1>1. /\ in.status = "up" /\ in.stage = "mac" /\ Len(in.buffer) = MAC_BYTES
      /\ Len(in.packet) >= aes_block_size
      /\ UNCHANGED <<sent, out, wire, tcp, altered>>
  BY DEF MacRead, ReadDone, TypeInv, StageShape
<1>2. in.packet \in Seq(Bytes) /\ Len(in.packet) >= 5
  BY <1>1, TypeFacts, Sizes
<1>3. CASE in.buffer = calculate_hmac(in.sequence, in.packet)
  <2>1. Returns(in.packet)
    BY <1>3 DEF MacRead
  <2>2. TypeInv'
    BY <1>1, <1>2, <2>1, ReturnsTypes
  <2> QED
    BY <1>1, <1>2, <1>3, <2>1, <2>2
<1>4. CASE in.buffer # calculate_hmac(in.sequence, in.packet)
  <2>1. Throws
    BY <1>4 DEF MacRead
  <2>2. TypeInv' /\ in'.status = "failed" /\ got' = got
    BY <1>1, <2>1, ThrowsTypes
  <2> QED
    BY <1>1, <1>2, <1>4, <2>2
<1> QED
  BY <1>3, <1>4

LEMMA CutTypes ==
    ASSUME TypeInv, Cut
    PROVE  /\ TypeInv' /\ Len(wire') <= Len(wire)
           /\ \A i \in 1..Len(wire') : wire'[i] = wire[i]
<1>1. PICK n \in 0..Len(wire) : wire' = SubSeq(wire, 1, n)
  BY DEF Cut
<1>2. wire \in Seq(WireByte) /\ Len(wire) <= SOCKET_BUFFER
  BY TypeFacts
<1>3. /\ wire' \in Seq(WireByte) /\ Len(wire') = n
      /\ \A i \in 1..n : wire'[i] = wire[i]
  <2>1. n \in Nat /\ 0 \in Nat /\ 0 <= n /\ n <= Len(wire) /\ 0 + 1 = 1 /\ n - 0 = n
    BY <1>2
  <2>2. /\ wire' \in Seq(WireByte) /\ Len(wire') = n - 0
        /\ \A i \in 1..(n - 0) : wire'[i] = wire[0 + i]
    BY <1>1, <1>2, <2>1, Piece
  <2> QED
    BY <2>1, <2>2
<1>4. TypeInv'
  BY <1>2, <1>3, Sizes
     DEF TypeInv, TransportTypeOK, Cut, StageShape, LengthBounded
<1> QED
  BY <1>2, <1>3, <1>4

\* One byte differs, and only if it was protected.
LEMMA AlterTypes ==
    ASSUME TypeInv, NEW i \in DOMAIN wire,
           NEW difference \in {1, aes_block_size}, Alter(i, difference)
    PROVE  /\ TypeInv' /\ Len(wire') = Len(wire) /\ altered' > 0
           /\ \A j \in 1..Len(wire) : j # i => wire'[j] = wire[j]
           /\ i \in 1..Len(wire)
           /\ wire[i].at # PLAIN \/ wire[i].mac # <<>>
           /\ wire'[i].at = wire[i].at
           /\ wire'[i].mac = <<>>
<1> DEFINE b == wire[i]
           c == Altered(b, difference)
<1>1. wire \in Seq(WireByte) /\ i \in 1..Len(wire) /\ Len(wire) <= SOCKET_BUFFER
  BY TypeFacts
<1>2. b \in WireByte /\ b.v \in Bytes
  BY <1>1, WireValue
<1>3. wire' = [wire EXCEPT ![i] = c]
  BY <1>1 DEF Alter
<1>4. wire[i].at # PLAIN \/ wire[i].mac # <<>>
  BY DEF Alter
<1> HIDE DEF b
<1>5. c \in WireByte /\ c.at = b.at /\ c.mac = <<>>
  <2>1. (b.v + difference) % BYTE \in Bytes
    BY <1>2, EncodingAssumption, Sizes DEF Bytes
  <2> QED
    BY <1>2, <2>1 DEF WireByte, Altered
<1> HIDE DEF c
<1>6. /\ wire' \in Seq(WireByte) /\ Len(wire') = Len(wire) /\ wire'[i] = c
      /\ \A j \in 1..Len(wire) : j # i => wire'[j] = wire[j]
  BY <1>1, <1>3, <1>5
<1>7. altered' \in 0..MaxAltered /\ altered' > 0
  BY TransportAssumption, SMTT(30) DEF TypeInv, TransportTypeOK, Alter
<1>8. TypeInv'
  BY <1>1, <1>6, <1>7
     DEF TypeInv, TransportTypeOK, Alter, StageShape, LengthBounded
<1> QED
  BY <1>1, <1>4, <1>5, <1>6, <1>7, <1>8 DEF b

LEMMA TypeStep == TypeInv /\ [TransportNext]_transportVars => TypeInv'
<1> SUFFICES ASSUME TypeInv, [TransportNext]_transportVars
             PROVE  TypeInv'
  OBVIOUS
<1>1. ASSUME NEW payload \in Payloads, send_packet(payload)
      PROVE  TypeInv'
  BY <1>1, SendsAligned, SendsTypes DEF send_packet
<1>2. ASSUME NEW payload \in Payloads, send_packet_throws(payload)
      PROVE  TypeInv'
  BY <1>2 DEF TypeInv, TransportTypeOK, send_packet_throws, StageShape, LengthBounded
<1>3. ASSUME NEW payload \in Payloads, PeerSends(payload)
      PROVE  TypeInv'
  BY <1>3, SendsAligned, SendsTypes DEF PeerSends
<1>4. ASSUME NEW r \in 1..SOCKET_BUFFER, write_exact(r)
      PROVE  TypeInv'
  BY <1>4, WriteTypes
<1>5. ASSUME NEW r \in 1..SOCKET_BUFFER, read_exact(r)
      PROVE  TypeInv'
  BY <1>5, ReadTypes
<1>6. CASE read_exact_throws
  BY <1>6, ThrowsTypes DEF read_exact_throws, Throws
<1>7. CASE LengthRead
  BY <1>7, LengthTypes
<1>8. CASE BlockRead
  BY <1>8, BlockTypes
<1>9. CASE RestRead
  BY <1>9, RestTypes
<1>10. CASE BodyRead
  BY <1>10, BodyTypes
<1>11. CASE MacRead
  BY <1>11, MacTypes
<1>12. CASE Cut
  BY <1>12, CutTypes
<1>13. ASSUME NEW i \in DOMAIN wire, NEW difference \in {1, aes_block_size},
              Alter(i, difference)
       PROVE  TypeInv'
  BY <1>13, AlterTypes
<1>14. CASE UNCHANGED transportVars
  BY <1>14 DEF TypeInv, TransportTypeOK, StageShape, LengthBounded, transportVars
<1> QED
  BY <1>1, <1>2, <1>3, <1>4, <1>5, <1>6, <1>7, <1>8, <1>9, <1>10, <1>11, <1>12,
     <1>13, <1>14 DEF TransportNext, Writing, Reading

-------------------------------------------------------------------------------
(***************************************************************************)
(* The stream.  What has been sent fixes the packets, where each starts,   *)
(* and every byte.  packets are those packets, marks what held before each *)
(* and after the last (where it starts, the place in the key stream,       *)
(* whether it is encrypted), bytes all that was written or will be.        *)
(***************************************************************************)
Mark == [start : Nat, at : Nat, active : BOOLEAN]

Number(n) == n % SEQUENCE_NUMBERS

\* A packet of this payload, this number and these marks is in the bytes.
Logged(payload, packet, here, next, bytes, number) ==
    /\ \E p \in Nat : /\ Aligned(here.active, Len(payload), p)
                     /\ can_send(Len(payload), p)
                     /\ packet = Framed(payload, p)
    /\ payload = NEWKEYS => ~here.active
    /\ next.active = (here.active \/ payload = NEWKEYS)
    /\ next.at = IF here.active THEN here.at + Len(packet) ELSE 0
    /\ next.start = here.start + Len(packet)
                      + (IF here.active THEN MAC_BYTES ELSE 0)
    /\ next.start <= Len(bytes)
    /\ \A i \in 1..Len(packet) :
         bytes[here.start + i] =
            [v |-> packet[i], mac |-> <<>>,
             at |-> IF here.active THEN here.at + i - 1 ELSE PLAIN]
    /\ here.active =>
         \A i \in 1..MAC_BYTES :
            bytes[here.start + Len(packet) + i] =
               [v |-> 0, at |-> PLAIN, mac |-> <<i, number, packet>>]

\* A byte of a MAC is where the MAC of its packet is.
MacsInPlace(packets, marks, bytes) ==
    \A x \in 1..Len(bytes) :
        bytes[x].mac # <<>> =>
            \E j \in 1..Len(packets) : \E i \in 1..MAC_BYTES :
                /\ x = marks[j].start + Len(packets[j]) + i
                /\ bytes[x].mac = <<i, Number(j - 1), packets[j]>>

Log(payloads, packets, marks, bytes) ==
    LET n == Len(payloads)
    IN  /\ Len(packets) = n /\ Len(marks) = n + 1
        /\ Len(bytes) = marks[n + 1].start
        /\ \A j \in 1..n : Logged(payloads[j], packets[j], marks[j],
                                  marks[j + 1], bytes, Number(j - 1))
        /\ \A j \in 1..(n + 1) : ~marks[j].active => marks[j].at = 0
        /\ \A i, j \in 1..(n + 1) : i < j => marks[i].start < marks[j].start
        /\ MacsInPlace(packets, marks, bytes)

\* The sender, whose last packet is under way or written.
SenderAt(o, n, marks) ==
    /\ o.position = marks[n + 1].at
    /\ o.todo = <<>> => o.active = marks[n + 1].active /\ o.sequence = Number(n)
    /\ o.todo # <<>> => /\ n >= 1 /\ o.active = marks[n].active
                        /\ o.sequence = Number(n - 1)

\* The receiver, in its packet of number k + 1; what it has of it is right,
\* unless a byte was altered and its MAC not read.
ReceiverAt(r, k, packets, marks, clean) ==
    /\ r.active = marks[k + 1].active /\ r.sequence = Number(k)
    /\ r.position = marks[k + 1].at + (IF r.active THEN Len(r.packet) ELSE 0)
    /\ r.active <=> r.stage \in {"block", "rest", "mac"}
    /\ r.stage = "body" \/ (r.stage \in {"rest", "mac"} /\ clean) =>
         /\ k < Len(packets) /\ Len(r.packet) <= Len(packets[k + 1])
         /\ \A i \in 1..Len(r.packet) : r.packet[i] = packets[k + 1][i]
         /\ r.stage # "mac" => Len(r.packet) + r.want = Len(packets[k + 1])
         /\ r.stage = "mac" => Len(r.packet) = Len(packets[k + 1])

\* A byte as it was written, or altered where that can be noticed.
Approximates(b, written, clean) ==
    /\ b.at = written.at /\ b.mac \in {written.mac, <<>>}
    /\ clean \/ (written.at = PLAIN /\ written.mac = <<>>) => b = written

Follows(s, bytes, start, clean) ==
    /\ start + Len(s) <= Len(bytes)
    /\ \A i \in 1..Len(s) : Approximates(s[i], bytes[start + i], clean)

\* What is left to be written is the end of the stream.
Ends(todo, bytes, start) ==
    /\ start + Len(todo) = Len(bytes)
    /\ \A i \in 1..Len(todo) : todo[i] = bytes[start + i]

Flows(r, w, todo, up, bytes, start, clean) ==
    LET read == start + Len(r.packet)
    IN  /\ Follows(r.buffer, bytes, read, clean)
        /\ Follows(w, bytes, read + Len(r.buffer), clean)
        /\ up => Ends(todo, bytes, read + Len(r.buffer) + Len(w))

StreamAs(packets, marks, bytes) ==
    /\ Log(sent, packets, marks, bytes)
    /\ SenderAt(out, Len(sent), marks)
    /\ ReceiverAt(in, Len(got), packets, marks, altered = 0)
    /\ Flows(in, wire, out.todo, tcp = "up", bytes, marks[Len(got) + 1].start,
             altered = 0)

StreamInv ==
    /\ Len(got) <= Len(sent) /\ \A i \in 1..Len(got) : got[i] = sent[i]
    /\ RefusedForCause
    /\ in.status = "up" =>
         \E packets \in Seq(Seq(Bytes)), marks \in Seq(Mark),
            bytes \in Seq(WireByte) : StreamAs(packets, marks, bytes)

LEMMA SameByte ==
    ASSUME NEW b \in WireByte, NEW clean \in BOOLEAN
    PROVE  Approximates(b, b, clean)
BY DEF Approximates

LEMMA FollowsJoined ==
    ASSUME NEW s \in Seq(WireByte), NEW t \in Seq(WireByte),
           NEW bytes \in Seq(WireByte), NEW start \in Nat, NEW clean \in BOOLEAN,
           Follows(s, bytes, start, clean),
           Follows(t, bytes, start + Len(s), clean)
    PROVE  Follows(s \o t, bytes, start, clean)
<1>1. PICK r : r = s \o t
  OBVIOUS
<1>2. /\ r \in Seq(WireByte) /\ Len(r) = Len(s) + Len(t)
      /\ \A i \in 1..Len(s) : r[i] = s[i]
      /\ \A i \in 1..Len(t) : r[Len(s) + i] = t[i]
  BY <1>1, Joined
<1>3. Len(s) \in Nat /\ Len(t) \in Nat
  OBVIOUS
<1>4. start + Len(r) <= Len(bytes)
  BY <1>2, <1>3 DEF Follows
<1>5. ASSUME NEW i \in 1..Len(r)
      PROVE  Approximates(r[i], bytes[start + i], clean)
  <2>1. CASE i <= Len(s)
    BY <1>2, <2>1, <1>3 DEF Follows
  <2>2. CASE i > Len(s)
    <3>1. PICK j \in 1..Len(t) : i = Len(s) + j
      <4>1. i - Len(s) \in 1..Len(t) /\ i = Len(s) + (i - Len(s))
        BY <1>2, <1>3, <2>2
      <4> QED
        BY <4>1
    <3>2. r[i] = t[j] /\ start + i = (start + Len(s)) + j
      BY <1>2, <1>3, <3>1
    <3>3. Approximates(t[j], bytes[(start + Len(s)) + j], clean)
      BY DEF Follows
    <3> QED
      BY <3>2, <3>3
  <2> QED
    BY <2>1, <2>2, <1>3, <1>2
<1>6. Follows(r, bytes, start, clean)
  BY <1>4, <1>5 DEF Follows
<1> QED
  BY <1>1, <1>6

LEMMA FollowsSplit ==
    ASSUME NEW s \in Seq(WireByte), NEW r \in Nat, r <= Len(s),
           NEW bytes \in Seq(WireByte), NEW start \in Nat, NEW clean \in BOOLEAN,
           Follows(s, bytes, start, clean)
    PROVE  /\ Follows(SubSeq(s, 1, r), bytes, start, clean)
           /\ Follows(SubSeq(s, r + 1, Len(s)), bytes, start + r, clean)
<1>1. PICK a : a = SubSeq(s, 1, r)
  OBVIOUS
<1>2. PICK b : b = SubSeq(s, r + 1, Len(s))
  OBVIOUS
<1>3. Len(a) = r /\ \A i \in 1..r : a[i] = s[i]
  BY <1>1
<1>4. Len(b) = Len(s) - r /\ \A i \in 1..(Len(s) - r) : b[i] = s[r + i]
  BY <1>2
<1>5. Len(s) \in Nat /\ Len(bytes) \in Nat
  OBVIOUS
<1>6. Follows(a, bytes, start, clean)
  BY <1>3, <1>5 DEF Follows
<1>7. Follows(b, bytes, start + r, clean)
  <2>1. (start + r) + Len(b) <= Len(bytes)
    BY <1>4, <1>5 DEF Follows
  <2>2. ASSUME NEW i \in 1..Len(b)
        PROVE  Approximates(b[i], bytes[(start + r) + i], clean)
    <3>1. r + i \in 1..Len(s) /\ start + (r + i) = (start + r) + i /\ b[i] = s[r + i]
      BY <1>4, <1>5
    <3>2. Approximates(s[r + i], bytes[start + (r + i)], clean)
      BY <3>1 DEF Follows
    <3> QED
      BY <3>1, <3>2
  <2> QED
    BY <2>1, <2>2 DEF Follows
<1> QED
  BY <1>1, <1>2, <1>6, <1>7

LEMMA EndsSplit ==
    ASSUME NEW s \in Seq(WireByte), NEW r \in Nat, r <= Len(s),
           NEW bytes \in Seq(WireByte), NEW start \in Nat, NEW clean \in BOOLEAN,
           Ends(s, bytes, start)
    PROVE  /\ Follows(SubSeq(s, 1, r), bytes, start, clean)
           /\ Ends(SubSeq(s, r + 1, Len(s)), bytes, start + r)
<1>1. Len(s) \in Nat /\ Len(bytes) \in Nat /\ start + Len(s) = Len(bytes)
  BY DEF Ends
<1>2. Follows(s, bytes, start, clean)
  <2>1. ASSUME NEW i \in 1..Len(s)
        PROVE  Approximates(s[i], bytes[start + i], clean)
    <3>1. s[i] \in WireByte /\ s[i] = bytes[start + i]
      BY DEF Ends
    <3> QED
      BY <3>1, SameByte
  <2> QED
    BY <1>1, <2>1 DEF Follows
<1>3. Follows(SubSeq(s, 1, r), bytes, start, clean)
  BY <1>2, FollowsSplit
<1>4. PICK b : b = SubSeq(s, r + 1, Len(s))
  OBVIOUS
<1>5. Len(b) = Len(s) - r /\ \A i \in 1..(Len(s) - r) : b[i] = s[r + i]
  BY <1>4
<1>6. Ends(b, bytes, start + r)
  <2>1. (start + r) + Len(b) = Len(bytes)
    <3>1. Len(b) = Len(s) - r
      BY <1>5
    <3> QED
      BY <1>1, <3>1
  <2>2. ASSUME NEW i \in 1..Len(b)
        PROVE  b[i] = bytes[(start + r) + i]
    <3>1. r + i \in 1..Len(s) /\ start + (r + i) = (start + r) + i /\ b[i] = s[r + i]
      BY <1>1, <1>5
    <3>2. s[r + i] = bytes[start + (r + i)]
      BY <3>1 DEF Ends
    <3> QED
      BY <3>1, <3>2
  <2> QED
    BY <2>1, <2>2 DEF Ends
<1> QED
  BY <1>3, <1>4, <1>6

LEMMA FollowsLonger ==
    ASSUME NEW s \in Seq(WireByte), NEW bytes \in Seq(WireByte),
           NEW more \in Seq(WireByte), NEW start \in Nat, NEW clean \in BOOLEAN,
           Follows(s, bytes, start, clean)
    PROVE  Follows(s, bytes \o more, start, clean)
<1>1. PICK all : all = bytes \o more
  OBVIOUS
<1>2. /\ Len(all) = Len(bytes) + Len(more)
      /\ \A i \in 1..Len(bytes) : all[i] = bytes[i]
  BY <1>1, Joined, Zenon
<1>3. Len(s) \in Nat /\ Len(bytes) \in Nat /\ Len(more) \in Nat
  OBVIOUS
<1>4. Follows(s, all, start, clean)
  BY <1>2, <1>3 DEF Follows
<1> QED
  BY <1>1, <1>4

LEMMA MarkFacts ==
    ASSUME NEW payloads \in Seq(Payloads), NEW packets \in Seq(Seq(Bytes)),
           NEW marks \in Seq(Mark), NEW bytes \in Seq(WireByte),
           Log(payloads, packets, marks, bytes),
           NEW j \in 1..(Len(payloads) + 1)
    PROVE  /\ marks[j] \in Mark /\ marks[j].start \in Nat /\ marks[j].at \in Nat
           /\ marks[j].active \in BOOLEAN
           /\ ~marks[j].active => marks[j].at = 0
<1>1. Len(marks) = Len(payloads) + 1 /\ (~marks[j].active => marks[j].at = 0)
  BY DEF Log
<1>2. marks[j] \in Mark
  BY <1>1
<1> QED
  BY <1>1, <1>2 DEF Mark

LEMMA StreamInit == TransportInit => StreamInv
<1> SUFFICES ASSUME TransportInit
             PROVE  StreamInv
  OBVIOUS
<1> DEFINE m == [start |-> 0, at |-> 0, active |-> FALSE]
           marks == <<m>>
<1>1. m \in Mark /\ m.start = 0 /\ m.at = 0 /\ m.active = FALSE
  BY DEF Mark
<1> HIDE DEF m
<1>2. marks \in Seq(Mark) /\ Len(marks) = 1 /\ marks[1] = m
  BY <1>1
<1> HIDE DEF marks
<1>3. Log(<<>>, <<>>, marks, <<>>)
  BY <1>1, <1>2 DEF Log, MacsInPlace
<1>4. Number(0) = 0
  BY Sizes DEF Number
<1>a. /\ out.position = 0 /\ out.active = FALSE /\ out.sequence = 0
      /\ out.todo = <<>>
      /\ in.position = 0 /\ in.active = FALSE /\ in.sequence = 0
      /\ in.stage = "length" /\ in.packet = <<>> /\ in.buffer = <<>>
      /\ in.status = "up"
      /\ sent = <<>> /\ got = <<>> /\ wire = <<>> /\ tcp = "up" /\ altered = 0
  BY DEF TransportInit
<1>b. 0 + 1 = 1 /\ marks[1].at = 0 /\ marks[1].active = FALSE /\ 0 + 0 = 0
  BY <1>1, <1>2
<1>5. SenderAt(out, 0, marks)
  BY <1>4, <1>a, <1>b, Zenon DEF SenderAt
<1>6. ReceiverAt(in, 0, <<>>, marks, altered = 0)
  <2>1. /\ in.stage # "body" /\ ~(in.stage \in {"rest", "mac"})
        /\ ~(in.stage \in {"block", "rest", "mac"})
    BY <1>a
  <2>3. in.active <=> in.stage \in {"block", "rest", "mac"}
    BY <1>a
  <2>2. in.position = marks[0 + 1].at + (IF in.active THEN Len(in.packet) ELSE 0)
    BY <1>a, <1>b
  <2> QED
    BY <1>4, <1>a, <1>b, <2>1, <2>2, <2>3, Zenon DEF ReceiverAt
<1>7. Flows(in, wire, out.todo, tcp = "up", <<>>, marks[1].start, altered = 0)
  BY <1>1, <1>2, <1>a DEF Flows, Follows, Ends
<1>8. StreamAs(<<>>, marks, <<>>)
  <2>1. Len(sent) = 0 /\ Len(got) = 0 /\ Len(got) + 1 = 1 /\ sent = <<>>
    BY <1>a
  <2> QED
    BY <1>3, <1>5, <1>6, <1>7, <2>1, Zenon DEF StreamAs
<1>9. <<>> \in Seq(Seq(Bytes)) /\ <<>> \in Seq(WireByte)
  OBVIOUS
<1>10. \E packets \in Seq(Seq(Bytes)), ms \in Seq(Mark), bytes \in Seq(WireByte) :
         StreamAs(packets, ms, bytes)
  BY <1>2, <1>8, <1>9, Zenon
<1> QED
  BY <1>a, <1>10 DEF StreamInv, RefusedForCause

LEMMA GotFacts ==
    ASSUME TypeInv, StreamInv
    PROVE  /\ Len(sent) \in Nat /\ Len(got) \in Nat /\ Len(got) <= Len(sent)
           /\ Len(got) + 1 \in 1..(Len(sent) + 1)
<1>1. Len(sent) \in Nat /\ Len(got) \in Nat
  BY TypeFacts
<1>2. Len(got) <= Len(sent)
  BY DEF StreamInv
<1> QED
  BY <1>1, <1>2

\* A write moves bytes from what is left into the kernel.
LEMMA WriteKeeps ==
    ASSUME TypeInv, StreamInv, NEW r \in 1..SOCKET_BUFFER, write_exact(r)
    PROVE  StreamInv'
<1> USE TypeFacts
<1>0. /\ UNCHANGED <<sent, got, in, tcp, altered>> /\ tcp = "up"
      /\ wire' = wire \o SubSeq(out.todo, 1, r)
  BY DEF write_exact
<1>1. SUFFICES ASSUME in.status = "up", NEW packets \in Seq(Seq(Bytes)),
                      NEW marks \in Seq(Mark), NEW bytes \in Seq(WireByte),
                      StreamAs(packets, marks, bytes)
               PROVE  StreamAs(packets, marks, bytes)'
  BY <1>0 DEF StreamInv, RefusedForCause
<1> DEFINE n == Len(sent)
           rest == SubSeq(out.todo, r + 1, Len(out.todo))
           first == SubSeq(out.todo, 1, r)
           clean == altered = 0
           start == marks[Len(got) + 1].start
           place == start + Len(in.packet) + Len(in.buffer)
<1>2. /\ r <= Len(out.todo) /\ first \in Seq(WireByte) /\ Len(first) = r
      /\ out'.todo = rest
      /\ rest # <<>> => /\ out'.active = out.active
                        /\ out'.sequence = out.sequence
                        /\ out'.position = out.position
      /\ rest = <<>> =>
           /\ out'.active = (out.active \/ sent[n] = NEWKEYS)
           /\ out'.sequence = Next_sequence(out.sequence)
           /\ out'.position = IF sent[n] = NEWKEYS THEN 0 ELSE out.position
  BY WriteTypes
<1>3. Log(sent, packets, marks, bytes) /\ SenderAt(out, n, marks)
      /\ Flows(in, wire, out.todo, tcp = "up", bytes, start, clean)
  BY <1>1 DEF StreamAs
<1> HIDE DEF rest, first, clean
<1>4. SenderAt(out, n, marks)'
  <2>1. n >= 1 /\ out.active = marks[n].active /\ out.sequence = Number(n - 1)
        /\ out.position = marks[n + 1].at /\ n \in Nat
    BY <1>2, <1>3 DEF SenderAt
  <2>2. CASE rest # <<>>
    BY <1>0, <1>2, <2>1, <2>2 DEF SenderAt
  <2>3. CASE rest = <<>>
    <3>1. Logged(sent[n], packets[n], marks[n], marks[n + 1], bytes, Number(n - 1))
      BY <1>3, <2>1 DEF Log
    <3>2. /\ marks[n + 1].active = (marks[n].active \/ sent[n] = NEWKEYS)
          /\ sent[n] = NEWKEYS => marks[n + 1].at = 0
      BY <3>1 DEF Logged
    <3>3. Next_sequence(Number(n - 1)) = Number(n)
      <4>1. n - 1 \in Nat /\ (n - 1) + 1 = n
        BY <2>1
      <4> QED
        BY <4>1, SequenceStep, Sizes DEF Next_sequence, Number
    <3> QED
      BY <1>0, <1>2, <2>1, <2>3, <3>2, <3>3 DEF SenderAt
  <2> QED
    BY <2>2, <2>3
<1>5. Flows(in, wire, out.todo, tcp = "up", bytes, start, clean)'
  <2>1. start \in Nat
    <3>1. Len(got) + 1 \in 1..(n + 1)
      BY GotFacts
    <3> QED
      BY <1>3, <3>1, MarkFacts
  <2>2. place \in Nat /\ Len(wire) \in Nat /\ r \in Nat
    <3>1. Len(in.packet) \in Nat /\ Len(in.buffer) \in Nat /\ Len(wire) \in Nat
      BY SMTT(30)
    <3> HIDE DEF start
    <3>2. place \in Nat
      BY <2>1, <3>1, NatSum, Zenon
    <3> QED
      BY <3>1, <3>2
  <2>3. /\ Follows(in.buffer, bytes, start + Len(in.packet), clean)
        /\ Follows(wire, bytes, place, clean)
        /\ Ends(out.todo, bytes, place + Len(wire))
    BY <1>0, <1>3 DEF Flows
  <2> HIDE DEF place
  <2>4. clean \in BOOLEAN
    BY DEF clean
  <2>5. /\ Follows(first, bytes, place + Len(wire), clean)
        /\ Ends(rest, bytes, (place + Len(wire)) + r)
    BY <1>2, <2>2, <2>3, <2>4, EndsSplit DEF first, rest
  <2>6. Follows(wire \o first, bytes, place, clean)
    BY <1>2, <2>2, <2>3, <2>4, <2>5, FollowsJoined
  <2>7. Len(wire \o first) = Len(wire) + r
    <3>1. wire \in Seq(WireByte) /\ first \in Seq(WireByte)
      BY <1>2
    <3> QED
      BY <1>2, <3>1, Joined
  <2>8. place + Len(wire') = (place + Len(wire)) + r
    BY <1>0, <2>2, <2>7 DEF first
  <2> QED
    BY <1>0, <1>2, <2>3, <2>5, <2>6, <2>8 DEF Flows, first, clean, place
<1> QED
  BY <1>0, <1>1, <1>4, <1>5 DEF StreamAs, clean

\* Where the receiver's bytes are in the stream.
LEMMA FlowFacts ==
    ASSUME TypeInv, StreamInv, NEW packets \in Seq(Seq(Bytes)),
           NEW marks \in Seq(Mark), NEW bytes \in Seq(WireByte),
           StreamAs(packets, marks, bytes)
    PROVE  LET start == marks[Len(got) + 1].start
               read == start + Len(in.packet)
           IN  /\ start \in Nat /\ read \in Nat /\ read + Len(in.buffer) \in Nat
               /\ Len(in.packet) \in Nat /\ Len(in.buffer) \in Nat
               /\ Len(wire) \in Nat
               /\ Follows(in.buffer, bytes, read, altered = 0)
               /\ Follows(wire, bytes, read + Len(in.buffer), altered = 0)
               /\ tcp = "up" => Ends(out.todo, bytes,
                                     read + Len(in.buffer) + Len(wire))
               /\ (altered = 0) \in BOOLEAN
<1> DEFINE start == marks[Len(got) + 1].start
           read == start + Len(in.packet)
<1>1. Log(sent, packets, marks, bytes)
      /\ Flows(in, wire, out.todo, tcp = "up", bytes, start, altered = 0)
  BY DEF StreamAs
<1>2. sent \in Seq(Payloads) /\ Len(got) + 1 \in 1..(Len(sent) + 1)
  BY TypeFacts, GotFacts
<1>3. start \in Nat
  BY <1>1, <1>2, MarkFacts
<1>4. Len(in.packet) \in Nat /\ Len(in.buffer) \in Nat /\ Len(wire) \in Nat
  BY TypeFacts, SMTT(30)
<1> HIDE DEF start
<1>5. read \in Nat
  BY <1>3, <1>4
<1>6. read + Len(in.buffer) \in Nat
  BY <1>4, <1>5
<1>7. (altered = 0) \in BOOLEAN
  OBVIOUS
<1> QED
  BY <1>1, <1>3, <1>4, <1>5, <1>6, <1>7 DEF Flows, start

\* A read moves bytes from the kernel to the receiver's buffer.
LEMMA ReadKeeps ==
    ASSUME TypeInv, StreamInv, NEW r \in 1..SOCKET_BUFFER, read_exact(r)
    PROVE  StreamInv'
<1>0. UNCHANGED <<sent, got, out, tcp, altered>>
      /\ wire' = SubSeq(wire, r + 1, Len(wire))
  BY DEF read_exact
<1>1. /\ in.status = "up" /\ r <= Len(wire)
      /\ in'.active = in.active /\ in'.sequence = in.sequence
      /\ in'.position = in.position /\ in'.status = in.status
      /\ in'.stage = in.stage /\ in'.want = in.want /\ in'.packet = in.packet
      /\ in'.buffer = in.buffer \o SubSeq(wire, 1, r)
      /\ SubSeq(wire, 1, r) \in Seq(WireByte) /\ Len(SubSeq(wire, 1, r)) = r
  BY ReadTypes
<1>2. SUFFICES ASSUME NEW packets \in Seq(Seq(Bytes)),
                      NEW marks \in Seq(Mark), NEW bytes \in Seq(WireByte),
                      StreamAs(packets, marks, bytes)
               PROVE  StreamAs(packets, marks, bytes)'
  BY <1>0, <1>1 DEF StreamInv, RefusedForCause
<1> DEFINE first == SubSeq(wire, 1, r)
           rest == SubSeq(wire, r + 1, Len(wire))
           start == marks[Len(got) + 1].start
           read == start + Len(in.packet)
           clean == altered = 0
<1>3. ReceiverAt(in', Len(got), packets, marks, clean)
  <2>1. ReceiverAt(in, Len(got), packets, marks, clean)
    BY <1>2 DEF StreamAs
  <2> HIDE DEF clean
  <2> QED
    BY <1>1, <2>1 DEF ReceiverAt
<1>4. /\ start \in Nat /\ read \in Nat /\ read + Len(in.buffer) \in Nat
      /\ Len(in.packet) \in Nat /\ Len(in.buffer) \in Nat /\ Len(wire) \in Nat
      /\ Follows(in.buffer, bytes, read, clean)
      /\ Follows(wire, bytes, read + Len(in.buffer), clean)
      /\ tcp = "up" => Ends(out.todo, bytes, read + Len(in.buffer) + Len(wire))
      /\ clean \in BOOLEAN
  BY <1>2, FlowFacts
<1>5. wire \in Seq(WireByte) /\ in.buffer \in Seq(WireByte) /\ r \in Nat
  BY TypeFacts
<1> HIDE DEF first, rest, start, read, clean
<1>6. /\ Follows(first, bytes, read + Len(in.buffer), clean)
      /\ Follows(rest, bytes, (read + Len(in.buffer)) + r, clean)
  BY <1>1, <1>4, <1>5, FollowsSplit DEF first, rest
<1>7. Follows(in.buffer \o first, bytes, read, clean)
  BY <1>1, <1>4, <1>5, <1>6, FollowsJoined DEF first
<1>8. Len(in'.buffer) = Len(in.buffer) + r
  BY <1>1, <1>5, Joined
<1>9. Len(wire') = Len(wire) - r
  BY <1>0, <1>1, <1>5
<1>10. /\ read + Len(in'.buffer) = (read + Len(in.buffer)) + r
       /\ read + Len(in'.buffer) + Len(wire') = read + Len(in.buffer) + Len(wire)
  BY <1>4, <1>5, <1>8, <1>9
<1>11. Flows(in', wire', out.todo, tcp = "up", bytes, start, clean)
  <2>1. Follows(in'.buffer, bytes, read, clean)
    BY <1>1, <1>7 DEF first
  <2>2. Follows(wire', bytes, read + Len(in'.buffer), clean)
    BY <1>0, <1>6, <1>10 DEF rest
  <2>3. tcp = "up" => Ends(out.todo, bytes, read + Len(in'.buffer) + Len(wire'))
    BY <1>4, <1>10
  <2>4. read = start + Len(in'.packet)
    BY <1>1 DEF read
  <2> QED
    BY <2>1, <2>2, <2>3, <2>4, Zenon DEF Flows
<1> QED
  BY <1>0, <1>2, <1>3, <1>11 DEF StreamAs, clean, start

\* The end of the connection loses bytes at the end.
LEMMA CutKeeps ==
    ASSUME TypeInv, StreamInv, Cut
    PROVE  StreamInv'
<1>0. UNCHANGED <<sent, got, out, in, altered>> /\ tcp' = "closed"
  BY DEF Cut
<1>1. SUFFICES ASSUME in.status = "up", NEW packets \in Seq(Seq(Bytes)),
                      NEW marks \in Seq(Mark), NEW bytes \in Seq(WireByte),
                      StreamAs(packets, marks, bytes)
               PROVE  StreamAs(packets, marks, bytes)'
  BY <1>0 DEF StreamInv, RefusedForCause
<1> DEFINE start == marks[Len(got) + 1].start
           read == start + Len(in.packet)
           clean == altered = 0
<1>2. /\ read + Len(in.buffer) \in Nat /\ Len(wire) \in Nat
      /\ Follows(in.buffer, bytes, read, clean)
      /\ Follows(wire, bytes, read + Len(in.buffer), clean)
  BY <1>1, FlowFacts
<1>3. Len(wire') <= Len(wire) /\ \A i \in 1..Len(wire') : wire'[i] = wire[i]
  BY CutTypes
<1>4. Len(wire') \in Nat /\ Len(bytes) \in Nat
  BY CutTypes DEF TypeInv, TransportTypeOK
<1> DEFINE place == read + Len(in.buffer)
<1> HIDE DEF clean, place
<1>5. Follows(wire', bytes, place, clean)
  <2>1. place \in Nat /\ Follows(wire, bytes, place, clean)
    BY <1>2 DEF place
  <2> QED
    BY <1>2, <1>3, <1>4, <2>1 DEF Follows
<1>6. Flows(in, wire', out.todo, FALSE, bytes, start, clean)
  BY <1>2, <1>5 DEF Flows, place
<1>7. (tcp' = "up") = FALSE
  BY <1>0
<1> QED
  BY <1>0, <1>1, <1>6, <1>7 DEF StreamAs, clean

LEMMA FollowsLoosely ==
    ASSUME NEW s, NEW bytes, NEW start, NEW clean \in BOOLEAN,
           Follows(s, bytes, start, clean)
    PROVE  Follows(s, bytes, start, FALSE)
BY DEF Follows, Approximates

\* A byte is altered that the receiver will not take for another.
LEMMA AlterKeeps ==
    ASSUME TypeInv, StreamInv, NEW i \in DOMAIN wire,
           NEW difference \in {1, aes_block_size}, Alter(i, difference)
    PROVE  StreamInv'
<1>0. UNCHANGED <<sent, got, out, in, tcp>>
  BY DEF Alter
<1>1. /\ Len(wire') = Len(wire) /\ altered' > 0
      /\ \A j \in 1..Len(wire) : j # i => wire'[j] = wire[j]
      /\ i \in 1..Len(wire)
      /\ wire[i].at # PLAIN \/ wire[i].mac # <<>>
      /\ wire'[i].at = wire[i].at
      /\ wire'[i].mac = <<>>
  BY AlterTypes
<1>2. SUFFICES ASSUME in.status = "up", NEW packets \in Seq(Seq(Bytes)),
                      NEW marks \in Seq(Mark), NEW bytes \in Seq(WireByte),
                      StreamAs(packets, marks, bytes)
               PROVE  StreamAs(packets, marks, bytes)'
  BY <1>0, <1>1 DEF StreamInv, RefusedForCause
<1> DEFINE start == marks[Len(got) + 1].start
           read == start + Len(in.packet)
           place == read + Len(in.buffer)
           clean == altered = 0
<1>3. /\ Follows(in.buffer, bytes, read, clean)
      /\ Follows(wire, bytes, place, clean)
      /\ tcp = "up" => Ends(out.todo, bytes, place + Len(wire))
      /\ clean \in BOOLEAN
  BY <1>2, FlowFacts
<1>4. ReceiverAt(in, Len(got), packets, marks, clean)
  BY <1>2 DEF StreamAs
<1> HIDE DEF clean
<1>5. ReceiverAt(in, Len(got), packets, marks, FALSE)
  BY <1>3, <1>4 DEF ReceiverAt
<1>6. Follows(in.buffer, bytes, read, FALSE) /\ Follows(wire, bytes, place, FALSE)
  BY <1>3, FollowsLoosely
<1> HIDE DEF place
<1>7. Follows(wire', bytes, place, FALSE)
  <2>1. ASSUME NEW j \in 1..Len(wire')
        PROVE  Approximates(wire'[j], bytes[place + j], FALSE)
    <3>1. j \in 1..Len(wire) /\ Approximates(wire[j], bytes[place + j], FALSE)
      BY <1>1, <1>6 DEF Follows
    <3>2. CASE j # i
      BY <1>1, <3>1, <3>2
    <3>3. CASE j = i
      <4>1. wire'[j].at = bytes[place + j].at /\ wire'[j].mac = <<>>
        BY <1>1, <3>1, <3>3 DEF Approximates
      <4>2. bytes[place + j].at # PLAIN \/ bytes[place + j].mac # <<>>
        BY <1>1, <3>1, <3>3 DEF Approximates
      <4> QED
        BY <4>1, <4>2 DEF Approximates
    <3> QED
      BY <3>2, <3>3
  <2> QED
    BY <1>1, <1>6, <2>1 DEF Follows
<1>8. Flows(in, wire', out.todo, tcp = "up", bytes, start, FALSE)
  BY <1>1, <1>3, <1>6, <1>7 DEF Flows, place
<1>9. (altered' = 0) = FALSE
  BY <1>1
<1> QED
  BY <1>0, <1>2, <1>5, <1>8, <1>9 DEF StreamAs

-------------------------------------------------------------------------------
(***************************************************************************)
(* The receiver finds the packets.                                         *)
(***************************************************************************)
LEMMA PacketFacts ==
    ASSUME NEW payloads \in Seq(Payloads), NEW packets \in Seq(Seq(Bytes)),
           NEW marks \in Seq(Mark), NEW bytes \in Seq(WireByte),
           Log(payloads, packets, marks, bytes),
           NEW j \in 1..Len(payloads)
    PROVE  LET packet == packets[j]
               active == marks[j].active
           IN  /\ packet \in Seq(Bytes) /\ Len(packet) \in Nat
               /\ Len(packet) >= aes_block_size
               /\ packet_length(packet) = Len(packet) - 4
               /\ accepts_packet_length(active, Len(packet) - 4)
               /\ accepts_padding(Len(packet) - 4, packet[5])
               /\ SubSeq(packet, 6, Len(packet) - packet[5]) = payloads[j]
               /\ Logged(payloads[j], packet, marks[j], marks[j + 1], bytes,
                         Number(j - 1))
<1> DEFINE packet == packets[j]
           active == marks[j].active
<1>1. Logged(payloads[j], packet, marks[j], marks[j + 1], bytes, Number(j - 1))
  BY DEF Log
<1>2. payloads[j] \in Seq(Bytes)
  BY TransportAssumption
<1>3. active \in BOOLEAN
  <2>1. j \in 1..(Len(payloads) + 1)
    OBVIOUS
  <2> QED
    BY <2>1, MarkFacts
<1>4. PICK p \in Nat : /\ Aligned(active, Len(payloads[j]), p)
                       /\ can_send(Len(payloads[j]), p)
                       /\ packet = Framed(payloads[j], p)
  BY <1>1 DEF Logged
<1> HIDE DEF packet, active
<1>5. /\ packet \in Seq(Bytes) /\ Len(packet) = 5 + Len(payloads[j]) + p
      /\ packet_length(packet) = Len(packet) - 4
      /\ accepts_packet_length(active, Len(packet) - 4)
      /\ accepts_padding(Len(packet) - 4, p)
      /\ packet[5] = p /\ SubSeq(packet, 6, Len(packet) - p) = payloads[j]
  BY <1>2, <1>3, <1>4, FramedParts, SMTT(30)
<1>6. Len(packet) >= aes_block_size /\ Len(packet) \in Nat
  <2>1. Len(packet) \in Nat /\ Len(packet) - 4 >= min_packet_size - 4
    BY <1>5, Sizes DEF accepts_packet_length
  <2> QED
    BY <2>1, Sizes
<1> QED
  BY <1>1, <1>5, <1>6 DEF packet, active

LEMMA SameLength ==
    ASSUME NEW p \in Seq(Bytes), NEW q \in Seq(Bytes), Len(p) >= 4, Len(q) >= 4,
           \A i \in 1..4 : p[i] = q[i]
    PROVE  packet_length(p) = packet_length(q)
<1>1. SubSeq(p, 1, 4) = SubSeq(q, 1, 4)
  OBVIOUS
<1> QED
  BY <1>1, Zenon DEF packet_length, uint32_bytes

\* Bytes taken from the buffer stay where they are in the stream.
LEMMA FlowsMoved ==
    ASSUME TypeInv, StreamInv, NEW packets \in Seq(Seq(Bytes)),
           NEW marks \in Seq(Mark), NEW bytes \in Seq(WireByte),
           StreamAs(packets, marks, bytes), UNCHANGED <<out, wire, tcp, altered>>,
           in'.buffer = <<>>, NEW to,
           to + Len(in'.packet)
             = (marks[Len(got) + 1].start + Len(in.packet)) + Len(in.buffer)
    PROVE  Flows(in', wire', out'.todo, tcp' = "up", bytes, to, altered' = 0)
<1> DEFINE read == marks[Len(got) + 1].start + Len(in.packet)
           clean == altered = 0
<1>1. /\ read \in Nat /\ Len(in.buffer) \in Nat /\ Len(wire) \in Nat
      /\ Follows(in.buffer, bytes, read, clean)
      /\ Follows(wire, bytes, read + Len(in.buffer), clean)
      /\ tcp = "up" => Ends(out.todo, bytes, read + Len(in.buffer) + Len(wire))
  BY FlowFacts
<1>2. to + Len(in'.packet) = read + Len(in.buffer)
  OBVIOUS
<1> HIDE DEF read, clean
<1>3. /\ Len(<<>>) = 0 /\ read + Len(in.buffer) + Len(<<>>) = read + Len(in.buffer)
  BY <1>1
<1>4. Follows(<<>>, bytes, read + Len(in.buffer), clean)
  <2>1. read + Len(in.buffer) <= Len(bytes)
    BY <1>1 DEF Follows
  <2> QED
    BY <1>3, <2>1 DEF Follows
<1>5. Flows(in', wire, out.todo, tcp = "up", bytes, to, clean)
  BY <1>1, <1>2, <1>3, <1>4, Zenon DEF Flows
<1> QED
  BY <1>5 DEF clean

LEMMA FlowsTaken ==
    ASSUME TypeInv, StreamInv, NEW packets \in Seq(Seq(Bytes)),
           NEW marks \in Seq(Mark), NEW bytes \in Seq(WireByte),
           StreamAs(packets, marks, bytes), UNCHANGED <<got, out, wire, tcp, altered>>,
           in'.buffer = <<>>, Len(in'.packet) = Len(in.packet) + Len(in.buffer)
    PROVE  Flows(in', wire', out'.todo, tcp' = "up", bytes,
                 marks[Len(got') + 1].start, altered' = 0)
<1> DEFINE start == marks[Len(got) + 1].start
<1>1. start \in Nat /\ Len(in.packet) \in Nat /\ Len(in.buffer) \in Nat
  BY FlowFacts
<1>2. start + Len(in'.packet) = (start + Len(in.packet)) + Len(in.buffer)
  <2>1. start + (Len(in.packet) + Len(in.buffer)) = (start + Len(in.packet)) + Len(in.buffer)
    BY <1>1, NatAssoc
  <2>2. start + Len(in'.packet) = start + (Len(in.packet) + Len(in.buffer))
    BY Zenon
  <2> QED
    BY <2>1, <2>2
<1>3. Flows(in', wire', out'.todo, tcp' = "up", bytes, start, altered' = 0)
  BY <1>2, FlowsMoved
<1> QED
  BY <1>3

\* Once a byte of it has come, there is a packet.
LEMMA PacketUnderWay ==
    ASSUME TypeInv, StreamInv, NEW packets \in Seq(Seq(Bytes)),
           NEW marks \in Seq(Mark), NEW bytes \in Seq(WireByte),
           StreamAs(packets, marks, bytes), Len(in.packet) + Len(in.buffer) >= 1
    PROVE  Len(got) + 1 \in 1..Len(sent)
<1> DEFINE start == marks[Len(got) + 1].start
           read == start + Len(in.packet)
<1>1. /\ start \in Nat /\ Len(in.packet) \in Nat /\ Len(in.buffer) \in Nat
      /\ Follows(in.buffer, bytes, read, altered = 0)
  BY FlowFacts
<1>2. read + Len(in.buffer) <= Len(bytes)
  BY <1>1 DEF Follows
<1>3. Len(bytes) = marks[Len(sent) + 1].start /\ Len(bytes) \in Nat
  BY DEF StreamAs, Log
<1> HIDE DEF start
<1>4. start < Len(bytes)
  BY <1>1, <1>2, <1>3, NatRoom, Zenon
<1>5. Len(got) + 1 # Len(sent) + 1
  BY <1>1, <1>3, <1>4 DEF start
<1> QED
  BY <1>5, GotFacts

LEMMA LengthKeeps ==
    ASSUME TypeInv, StreamInv, LengthRead
    PROVE  StreamInv'
<1> DEFINE packet == Values(in.buffer)
           j == Len(got) + 1
<1>1. /\ in.status = "up" /\ Len(in.buffer) = 4 /\ in.packet = <<>>
      /\ packet \in Seq(Bytes) /\ got' = got /\ in.stage = "length"
      /\ UNCHANGED <<sent, out, wire, tcp, altered>>
      /\ \/ /\ accepts_packet_length(FALSE, packet_length(packet))
            /\ in'.active = in.active /\ in'.sequence = in.sequence
            /\ in'.position = in.position /\ in'.status = in.status
            /\ in'.stage = "body" /\ in'.want = packet_length(packet)
            /\ in'.buffer = <<>> /\ in'.packet = packet
         \/ /\ ~accepts_packet_length(FALSE, packet_length(packet))
            /\ in'.status = "failed"
  BY LengthTypes DEF LengthRead, ReadDone
<1>2. PICK packets \in Seq(Seq(Bytes)), marks \in Seq(Mark),
           bytes \in Seq(WireByte) : StreamAs(packets, marks, bytes)
  BY <1>1 DEF StreamInv
<1> DEFINE start == marks[j].start
<1>3. j \in 1..Len(sent)
  BY <1>1, <1>2, PacketUnderWay
<1>4. /\ ReceiverAt(in, Len(got), packets, marks, altered = 0)
      /\ Log(sent, packets, marks, bytes)
  BY <1>2 DEF StreamAs
<1>5. marks[j].active = FALSE /\ in.active = FALSE /\ marks[j].at = 0
  <2>1. marks[j].active \in BOOLEAN /\ (~marks[j].active => marks[j].at = 0)
    BY <1>3, <1>4, MarkFacts, TypeFacts
  <2> QED
    BY <1>1, <1>4, <2>1 DEF ReceiverAt
<1>6. /\ packets[j] \in Seq(Bytes) /\ Len(packets[j]) \in Nat
      /\ Len(packets[j]) >= aes_block_size
      /\ packet_length(packets[j]) = Len(packets[j]) - 4
      /\ accepts_packet_length(marks[j].active, Len(packets[j]) - 4)
      /\ Logged(sent[j], packets[j], marks[j], marks[j + 1], bytes, Number(j - 1))
  BY <1>3, <1>4, PacketFacts, TypeFacts
<1>7. Len(packet) = 4 /\ \A i \in 1..4 : packet[i] = packets[j][i]
  <2>1. Len(packet) = 4 /\ \A i \in 1..4 : packet[i] = in.buffer[i].v
    BY <1>1, ValueBytes, TypeFacts
  <2>2. ASSUME NEW i \in 1..4
        PROVE  in.buffer[i].v = packets[j][i]
    <3>1. start + Len(in.packet) = start
      BY <1>1, <1>2, FlowFacts
    <3>2. Approximates(in.buffer[i], bytes[start + i], altered = 0)
      BY <1>1, <1>2, <3>1, FlowFacts DEF Follows
    <3>3. bytes[start + i] = [v |-> packets[j][i], mac |-> <<>>, at |-> PLAIN]
      <4>1. i \in 1..Len(packets[j])
        BY <1>6, Sizes
      <4> QED
        BY <1>5, <1>6, <4>1 DEF Logged
    <3>4. in.buffer[i] = bytes[start + i]
      BY <3>2, <3>3 DEF Approximates
    <3> QED
      BY <3>3, <3>4
  <2> QED
    BY <2>1, <2>2
<1> HIDE DEF packet, j
<1>8. packet_length(packet) = Len(packets[j]) - 4
  <2>1. Len(packets[j]) >= 4 /\ Len(packet) >= 4
    BY <1>6, <1>7, Sizes
  <2>2. packet_length(packet) = packet_length(packets[j])
    BY <1>1, <1>6, <1>7, <2>1, SameLength
  <2> QED
    BY <1>6, <2>2
<1>9. /\ in'.active = in.active /\ in'.sequence = in.sequence
      /\ in'.position = in.position /\ in'.status = in.status
      /\ in'.stage = "body" /\ in'.want = Len(packets[j]) - 4
      /\ in'.buffer = <<>> /\ in'.packet = packet
  BY <1>1, <1>5, <1>6, <1>8
<1>10. Flows(in', wire', out'.todo, tcp' = "up", bytes,
             marks[Len(got') + 1].start, altered' = 0)
  <2>1. Len(in'.packet) = Len(in.packet) + Len(in.buffer)
    BY <1>1, <1>7, <1>9
  <2> QED
    BY <1>1, <1>2, <1>9, <2>1, FlowsTaken
<1>11. ReceiverAt(in', Len(got), packets, marks, altered = 0)
  <2>1. /\ Len(got) < Len(packets) /\ Len(in'.packet) <= Len(packets[j])
        /\ \A i \in 1..Len(in'.packet) : in'.packet[i] = packets[j][i]
        /\ Len(in'.packet) + in'.want = Len(packets[j])
    <3>1. Len(packets) = Len(sent) /\ Len(got) \in Nat /\ Len(sent) \in Nat
      BY <1>4, GotFacts DEF Log
    <3>2. Len(got) < Len(packets)
      BY <1>3, <3>1 DEF j
    <3>3. Len(in'.packet) = 4 /\ in'.want = Len(packets[j]) - 4
          /\ \A i \in 1..4 : in'.packet[i] = packets[j][i]
      BY <1>7, <1>9
    <3>4. Len(packets[j]) \in Nat /\ 4 <= Len(packets[j])
      BY <1>6, Sizes
    <3> QED
      BY <3>2, <3>3, <3>4
  <2>2. /\ in.active = marks[Len(got) + 1].active /\ in.sequence = Number(Len(got))
        /\ in.position = 0
    BY <1>4, <1>5 DEF ReceiverAt, j
  <2> QED
    BY <1>5, <1>9, <2>1, <2>2 DEF ReceiverAt, j
<1>12. StreamAs(packets, marks, bytes)'
  BY <1>1, <1>2, <1>10, <1>11 DEF StreamAs
<1> QED
  BY <1>1, <1>9, <1>12 DEF StreamInv, RefusedForCause

\* Unaltered bytes come out as they went in.
LEMMA CleanDecrypted ==
    ASSUME TypeInv, StreamInv, NEW packets \in Seq(Seq(Bytes)),
           NEW marks \in Seq(Mark), NEW bytes \in Seq(WireByte),
           StreamAs(packets, marks, bytes), in.active, altered = 0,
           Len(got) + 1 \in 1..Len(sent),
           Len(in.packet) + Len(in.buffer) <= Len(packets[Len(got) + 1])
    PROVE  \A i \in 1..Len(in.buffer) :
              decrypt(in.buffer, in.position)[i]
                = packets[Len(got) + 1][Len(in.packet) + i]
<1> DEFINE j == Len(got) + 1
           l == Len(in.packet)
           start == marks[j].start
<1>1. /\ ReceiverAt(in, Len(got), packets, marks, altered = 0)
      /\ Log(sent, packets, marks, bytes)
  BY DEF StreamAs
<1>2. marks[j].active /\ in.position = marks[j].at + l
  BY <1>1 DEF ReceiverAt
<1>3. /\ packets[j] \in Seq(Bytes) /\ Len(packets[j]) \in Nat
      /\ Logged(sent[j], packets[j], marks[j], marks[j + 1], bytes, Number(j - 1))
  BY <1>1, PacketFacts, TypeFacts
<1>4. marks[j].at \in Nat
  <2>1. j \in 1..(Len(sent) + 1)
    BY GotFacts
  <2> QED
    BY <1>1, <2>1, MarkFacts, TypeFacts
<1>5. /\ start \in Nat /\ l \in Nat /\ Len(in.buffer) \in Nat
      /\ Follows(in.buffer, bytes, start + l, altered = 0)
  BY FlowFacts
<1> SUFFICES ASSUME NEW i \in 1..Len(in.buffer)
             PROVE  decrypt(in.buffer, in.position)[i] = packets[j][l + i]
  OBVIOUS
<1> DEFINE b == bytes[(start + l) + i]
<1>6. in.buffer[i] = b
  BY <1>5 DEF Follows, Approximates
<1> HIDE DEF l, start, j
<1>7. l + i \in 1..Len(packets[j]) /\ start + (l + i) = (start + l) + i
      /\ marks[j].at + (l + i) - 1 = (marks[j].at + l) + i - 1
  <2>1. l + Len(in.buffer) <= Len(packets[j])
    BY DEF l, j
  <2>2. i \in Nat /\ i >= 1 /\ i <= Len(in.buffer)
    BY <1>5
  <2>3. start \in Nat /\ l \in Nat /\ Len(in.buffer) \in Nat
    BY <1>5 DEF l, start, j
  <2>4. l + i \in 1..Len(packets[j])
    BY <1>3, <2>1, <2>2, <2>3
  <2>5. start + (l + i) = (start + l) + i
    BY <2>2, <2>3, NatAssoc
  <2>6. marks[j].at + (l + i) - 1 = (marks[j].at + l) + i - 1
    BY <1>4, <2>2, <2>3, NatAssoc DEF j
  <2> QED
    BY <2>4, <2>5, <2>6
<1>8. b = [v |-> packets[j][l + i], mac |-> <<>>, at |-> marks[j].at + (l + i) - 1]
  <2>1. bytes[start + (l + i)] = [v |-> packets[j][l + i], mac |-> <<>>,
                                 at |-> marks[j].at + (l + i) - 1]
    BY <1>2, <1>3, <1>7 DEF Logged, start
  <2> QED
    BY <1>7, <2>1
<1> HIDE DEF b
<1>9. b.v = packets[j][l + i] /\ b.at = (marks[j].at + l) + i - 1
  BY <1>7, <1>8
<1>10. in.buffer[i].at = in.position + i - 1
  BY <1>2, <1>6, <1>9
<1>11. decrypt(in.buffer, in.position)[i] = in.buffer[i].v
  BY <1>10, DecryptedBytes, TypeFacts
<1> QED
  BY <1>6, <1>9, <1>11

\* A clean packet is refused for the loss of the connection only.
LEMMA AlteredSome ==
    ASSUME TypeInv, altered # 0
    PROVE  altered > 0
BY TransportAssumption DEF TypeInv, TransportTypeOK

LEMMA BlockKeeps ==
    ASSUME TypeInv, StreamInv, BlockRead
    PROVE  StreamInv'
<1> DEFINE packet == decrypt(in.buffer, in.position)
           j == Len(got) + 1
<1>1. /\ in.status = "up" /\ Len(in.buffer) = aes_block_size
      /\ in.packet = <<>> /\ packet \in Seq(Bytes) /\ got' = got
      /\ in.stage = "block" /\ packet_length(packet) \in Nat
      /\ UNCHANGED <<sent, out, wire, tcp, altered>>
      /\ \/ /\ accepts_packet_length(TRUE, packet_length(packet))
            /\ in'.active = in.active /\ in'.sequence = in.sequence
            /\ in'.position = in.position + aes_block_size
            /\ in'.status = in.status /\ in'.stage = "rest"
            /\ in'.want = 4 + packet_length(packet) - aes_block_size
            /\ in'.buffer = <<>> /\ in'.packet = packet
         \/ /\ ~accepts_packet_length(TRUE, packet_length(packet))
            /\ in'.status = "failed"
  BY BlockTypes DEF BlockRead, ReadDone
<1>2. PICK packets \in Seq(Seq(Bytes)), marks \in Seq(Mark),
           bytes \in Seq(WireByte) : StreamAs(packets, marks, bytes)
  BY <1>1 DEF StreamInv
<1>3. j \in 1..Len(sent)
  BY <1>1, <1>2, PacketUnderWay, Sizes
<1>4. /\ ReceiverAt(in, Len(got), packets, marks, altered = 0)
      /\ Log(sent, packets, marks, bytes)
  BY <1>2 DEF StreamAs
<1>5. in.active = TRUE /\ marks[j].active = TRUE /\ in.position = marks[j].at
  <2>1. in.active \in BOOLEAN
    BY TypeFacts
  <2>2. marks[j].at \in Nat
    <3>1. j \in 1..(Len(sent) + 1)
      BY GotFacts
    <3> QED
      BY <1>4, <3>1, MarkFacts, TypeFacts
  <2> QED
    BY <1>1, <1>4, <2>1, <2>2 DEF ReceiverAt
<1>6. /\ packets[j] \in Seq(Bytes) /\ Len(packets[j]) \in Nat
      /\ Len(packets[j]) >= aes_block_size
      /\ packet_length(packets[j]) = Len(packets[j]) - 4
      /\ accepts_packet_length(marks[j].active, Len(packets[j]) - 4)
  BY <1>3, <1>4, PacketFacts, TypeFacts
<1>7. Len(packet) = aes_block_size
  BY <1>1, DecryptedBytes, TypeFacts
<1>8. ASSUME altered = 0
      PROVE  /\ \A i \in 1..aes_block_size : packet[i] = packets[j][i]
             /\ packet_length(packet) = Len(packets[j]) - 4
  <2>0. Len(in.packet) = 0 /\ \A i \in 1..aes_block_size : 0 + i = i
    BY <1>1, Sizes
  <2>1. Len(in.packet) + Len(in.buffer) <= Len(packets[j])
    BY <1>1, <1>6, <2>0, Sizes
  <2>2. \A i \in 1..Len(in.buffer) : packet[i] = packets[j][Len(in.packet) + i]
    BY <1>2, <1>3, <1>5, <1>8, <2>1, CleanDecrypted
  <2> HIDE DEF packet, j
  <2>3. \A i \in 1..aes_block_size : packet[i] = packets[j][i]
    BY <1>1, <2>0, <2>2
  <2>4. Len(packet) >= 4 /\ Len(packets[j]) >= 4
        /\ \A i \in 1..4 : packet[i] = packets[j][i]
    BY <1>6, <1>7, <2>3, Sizes
  <2>5. packet_length(packet) = packet_length(packets[j])
    BY <1>1, <1>6, <2>4, SameLength
  <2> QED
    BY <1>6, <2>3, <2>5
<1> HIDE DEF packet
<1>9. CASE ~accepts_packet_length(TRUE, packet_length(packet))
  <2>1. altered # 0
    BY <1>5, <1>6, <1>8, <1>9
  <2>2. altered > 0
    BY <2>1, AlteredSome
  <2> QED
    BY <1>1, <1>9, <2>2 DEF StreamInv, RefusedForCause
<1>10. CASE accepts_packet_length(TRUE, packet_length(packet))
  <2>1. /\ in'.active = in.active /\ in'.sequence = in.sequence
        /\ in'.position = in.position + aes_block_size
        /\ in'.status = in.status /\ in'.stage = "rest"
        /\ in'.want = 4 + packet_length(packet) - aes_block_size
        /\ in'.buffer = <<>> /\ in'.packet = packet
    BY <1>1, <1>10
  <2>2. Flows(in', wire', out'.todo, tcp' = "up", bytes,
              marks[Len(got') + 1].start, altered' = 0)
    <3>1. Len(in'.packet) = Len(in.packet) + Len(in.buffer)
      BY <1>1, <1>7, <2>1, Sizes
    <3> QED
      BY <1>1, <1>2, <2>1, <3>1, FlowsTaken
  <2>3. ReceiverAt(in', Len(got), packets, marks, altered = 0)
    <3>1. ASSUME altered = 0
          PROVE  /\ Len(got) < Len(packets) /\ Len(in'.packet) <= Len(packets[j])
                 /\ \A i \in 1..Len(in'.packet) : in'.packet[i] = packets[j][i]
                 /\ Len(in'.packet) + in'.want = Len(packets[j])
      <4>1. Len(packets) = Len(sent) /\ Len(got) \in Nat /\ Len(sent) \in Nat
        BY <1>4, GotFacts DEF Log
      <4>2. Len(got) < Len(packets)
        BY <1>3, <4>1
      <4>3. /\ Len(in'.packet) = aes_block_size
            /\ \A i \in 1..aes_block_size : in'.packet[i] = packets[j][i]
            /\ in'.want = 4 + (Len(packets[j]) - 4) - aes_block_size
        BY <1>7, <1>8, <2>1, <3>1
      <4> HIDE DEF j
      <4> QED
        BY <1>6, <4>2, <4>3, Sizes
    <3>2. /\ in.active = marks[Len(got) + 1].active
          /\ in.sequence = Number(Len(got))
      BY <1>4 DEF ReceiverAt
    <3>3. in'.position = marks[Len(got) + 1].at
                           + (IF in'.active THEN Len(in'.packet) ELSE 0)
      BY <1>5, <1>7, <2>1
    <3>4. in'.active <=> in'.stage \in {"block", "rest", "mac"}
      BY <1>5, <2>1
    <3> QED
      BY <2>1, <3>1, <3>2, <3>3, <3>4 DEF ReceiverAt
  <2>4. StreamAs(packets, marks, bytes)'
    BY <1>1, <1>2, <2>2, <2>3 DEF StreamAs
  <2> QED
    BY <1>1, <2>1, <2>4 DEF StreamInv, RefusedForCause
<1> QED
  BY <1>9, <1>10

LEMMA RestKeeps ==
    ASSUME TypeInv, StreamInv, RestRead
    PROVE  StreamInv'
<1> DEFINE more == decrypt(in.buffer, in.position)
           j == Len(got) + 1
           l == Len(in.packet)
<1>1. /\ in.status = "up" /\ Len(in.buffer) = in.want /\ more \in Seq(Bytes)
      /\ got' = got /\ in.stage = "rest"
      /\ UNCHANGED <<sent, out, wire, tcp, altered>>
      /\ in'.active = in.active /\ in'.sequence = in.sequence
      /\ in'.position = in.position + in.want
      /\ in'.status = in.status /\ in'.stage = "mac"
      /\ in'.want = MAC_BYTES /\ in'.buffer = <<>>
      /\ in'.packet = in.packet \o more
  BY RestTypes DEF RestRead, ReadDone
<1>2. PICK packets \in Seq(Seq(Bytes)), marks \in Seq(Mark),
           bytes \in Seq(WireByte) : StreamAs(packets, marks, bytes)
  BY <1>1 DEF StreamInv
<1>3. /\ ReceiverAt(in, Len(got), packets, marks, altered = 0)
      /\ Log(sent, packets, marks, bytes)
  BY <1>2 DEF StreamAs
<1>4. in.active = TRUE /\ in.position = marks[j].at + l /\ marks[j].at \in Nat
  <2>1. in.active \in BOOLEAN
    BY TypeFacts
  <2>2. marks[j].at \in Nat
    <3>1. j \in 1..(Len(sent) + 1)
      BY GotFacts
    <3> QED
      BY <1>3, <3>1, MarkFacts, TypeFacts
  <2> QED
    BY <1>1, <1>3, <2>1, <2>2 DEF ReceiverAt
<1>5. Len(more) = in.want
  BY <1>1, DecryptedBytes, TypeFacts
<1>6. in.packet \in Seq(Bytes) /\ l \in Nat /\ in.want \in Nat
  BY TypeFacts
<1>7. ASSUME altered = 0
      PROVE  /\ Len(got) < Len(packets) /\ l + in.want = Len(packets[j])
             /\ \A i \in 1..l : in.packet[i] = packets[j][i]
             /\ \A i \in 1..in.want : more[i] = packets[j][l + i]
  <2>1. /\ Len(got) < Len(packets) /\ l + in.want = Len(packets[j])
        /\ \A i \in 1..l : in.packet[i] = packets[j][i]
    BY <1>1, <1>3, <1>7 DEF ReceiverAt
  <2>2. j \in 1..Len(sent)
    BY <1>3, <2>1, GotFacts DEF Log
  <2>3. Len(in.packet) + Len(in.buffer) <= Len(packets[j])
    BY <1>1, <1>6, <2>1
  <2>4. \A i \in 1..Len(in.buffer) : more[i] = packets[j][Len(in.packet) + i]
    BY <1>2, <1>4, <1>7, <2>2, <2>3, CleanDecrypted
  <2> QED
    BY <1>1, <2>1, <2>4
<1> HIDE DEF more
<1>8. /\ Len(in'.packet) = l + in.want
      /\ \A i \in 1..l : in'.packet[i] = in.packet[i]
      /\ \A i \in 1..in.want : in'.packet[l + i] = more[i]
  <2>1. /\ Len(in'.packet) = Len(in.packet) + Len(more)
        /\ \A i \in 1..Len(in.packet) : in'.packet[i] = in.packet[i]
        /\ \A i \in 1..Len(more) : in'.packet[Len(in.packet) + i] = more[i]
    BY <1>1, <1>6, Joined
  <2> QED
    BY <1>5, <2>1
<1>9. Flows(in', wire', out'.todo, tcp' = "up", bytes,
            marks[Len(got') + 1].start, altered' = 0)
  <2>1. Len(in'.packet) = Len(in.packet) + Len(in.buffer)
    BY <1>1, <1>8
  <2> QED
    BY <1>1, <1>2, <2>1, FlowsTaken
<1>10. ReceiverAt(in', Len(got), packets, marks, altered = 0)
  <2>1. ASSUME altered = 0
        PROVE  /\ Len(got) < Len(packets) /\ Len(in'.packet) = Len(packets[j])
               /\ Len(in'.packet) <= Len(packets[j])
               /\ \A i \in 1..Len(in'.packet) : in'.packet[i] = packets[j][i]
    <3>1. ASSUME NEW i \in 1..Len(in'.packet)
          PROVE  in'.packet[i] = packets[j][i]
      <4> HIDE DEF l
      <4>1. CASE i <= l
        <5>1. i \in 1..l
          BY <1>6, <1>8, <4>1
        <5> QED
          BY <1>7, <1>8, <2>1, <5>1
      <4>2. CASE i > l
        <5>1. PICK m \in 1..in.want : i = l + m
          <6>1. i - l \in 1..in.want /\ i = l + (i - l)
            BY <1>6, <1>8, <4>2 DEF l
          <6> QED
            BY <6>1
        <5> QED
          BY <1>7, <1>8, <2>1, <5>1
      <4> QED
        BY <4>1, <4>2, <1>6 DEF l
    <3>2. Len(in'.packet) = Len(packets[j]) /\ Len(in'.packet) \in Nat
      BY <1>6, <1>7, <1>8, <2>1
    <3> QED
      BY <1>7, <2>1, <3>1, <3>2
  <2>2. in.active = marks[Len(got) + 1].active /\ in.sequence = Number(Len(got))
    BY <1>3 DEF ReceiverAt
  <2>3. in'.position = marks[Len(got) + 1].at
                         + (IF in'.active THEN Len(in'.packet) ELSE 0)
    <3>1. in'.position = (marks[j].at + l) + in.want
      BY <1>1, <1>4
    <3>2. (marks[j].at + l) + in.want = marks[j].at + (l + in.want)
      BY <1>4, <1>6, NatAssoc
    <3> QED
      BY <1>1, <1>4, <1>8, <3>1, <3>2
  <2>4. in'.active <=> in'.stage \in {"block", "rest", "mac"}
    BY <1>1, <1>4
  <2> QED
    BY <1>1, <2>1, <2>2, <2>3, <2>4 DEF ReceiverAt
<1>11. StreamAs(packets, marks, bytes)'
  BY <1>1, <1>2, <1>9, <1>10 DEF StreamAs
<1> QED
  BY <1>1, <1>11 DEF StreamInv, RefusedForCause

\* The packet is the one that was sent; the receiver goes to the next.
LEMMA ReturnsRight ==
    ASSUME TypeInv, StreamInv, in.status = "up",
           NEW packets \in Seq(Seq(Bytes)),
           NEW marks \in Seq(Mark), NEW bytes \in Seq(WireByte),
           StreamAs(packets, marks, bytes), Len(got) + 1 \in 1..Len(sent),
           Returns(packets[Len(got) + 1]),
           UNCHANGED <<sent, out, wire, tcp, altered>>,
           Len(in.packet) + Len(in.buffer)
             = Len(packets[Len(got) + 1])
                 + (IF in.active THEN MAC_BYTES ELSE 0),
           in.position = marks[Len(got) + 1].at
                           + (IF in.active THEN Len(packets[Len(got) + 1]) ELSE 0)
    PROVE  /\ StreamInv'
           /\ got' = Append(got, sent[Len(got) + 1]) /\ in'.status = "up"
<1> DEFINE j == Len(got) + 1
           packet == packets[j]
           payload == SubSeq(packet, 6, Len(packet) - packet[5])
           active == in.active \/ payload = NEWKEYS
<1>1. /\ ReceiverAt(in, Len(got), packets, marks, altered = 0)
      /\ Log(sent, packets, marks, bytes) /\ SenderAt(out, Len(sent), marks)
  BY DEF StreamAs
<1>2. /\ packet \in Seq(Bytes) /\ Len(packet) \in Nat
      /\ Len(packet) >= aes_block_size
      /\ packet_length(packet) = Len(packet) - 4
      /\ accepts_padding(Len(packet) - 4, packet[5])
      /\ payload = sent[j]
      /\ Logged(sent[j], packet, marks[j], marks[j + 1], bytes, Number(j - 1))
  <2>1. sent \in Seq(Payloads)
    BY TypeFacts
  <2> QED
    BY <1>1, <2>1, PacketFacts, ZenonT(60)
<1>3. /\ got' = Append(got, payload)
      /\ in'.active = active
      /\ in'.sequence = Next_sequence(in.sequence)
      /\ in'.position = IF payload = NEWKEYS THEN 0 ELSE in.position
      /\ in'.status = in.status
      /\ in'.stage = IF active THEN "block" ELSE "length"
      /\ in'.buffer = <<>> /\ in'.packet = <<>>
  <2>1. Len(packet) >= 5
    BY <1>2, Sizes
  <2>2. accepts_padding(packet_length(packet), packet[5])
    BY <1>2
  <2> QED
    BY <1>2, <2>1, <2>2, ReturnsTypes
<1> HIDE DEF packet, payload
<1>4. /\ Len(got) \in Nat /\ j \in 1..Len(sent) /\ j + 1 \in 1..(Len(sent) + 1)
      /\ j \in 1..(Len(sent) + 1) /\ j - 1 = Len(got) /\ Len(sent) \in Nat
  BY GotFacts
<1>5. /\ in.active = marks[j].active /\ in.sequence = Number(Len(got))
      /\ in.active \in BOOLEAN
  BY <1>1, TypeFacts DEF ReceiverAt
<1>6. /\ marks[j].start \in Nat /\ marks[j].at \in Nat
      /\ ~marks[j].active => marks[j].at = 0
      /\ marks[j + 1].active \in BOOLEAN /\ marks[j + 1].at \in Nat
      /\ marks[j + 1].start \in Nat
  BY <1>1, <1>4, MarkFacts, TypeFacts
<1>7. /\ Len(got') = j /\ Len(got') + 1 = j + 1
      /\ \A i \in 1..Len(got) : got'[i] = got[i]
      /\ got'[j] = sent[j]
  <2>1. got \in Seq(Seq(Bytes)) /\ sent[j] \in Seq(Bytes)
    <3>1. sent \in Seq(Payloads) /\ got \in Seq(Seq(Bytes))
      BY TypeFacts
    <3>2. sent[j] \in Payloads
      BY <1>4, <3>1
    <3> QED
      BY <3>1, <3>2, TransportAssumption
  <2>2. got' = Append(got, sent[j])
    BY <1>2, <1>3
  <2> QED
    BY <2>1, <2>2
<1>8. Len(got') <= Len(sent') /\ \A i \in 1..Len(got') : got'[i] = sent'[i]
  <2>1. \A i \in 1..Len(got) : got[i] = sent[i]
    BY DEF StreamInv
  <2>2. sent' = sent
    OBVIOUS
  <2>3. ASSUME NEW i \in 1..Len(got')
        PROVE  got'[i] = sent[i]
    <3>1. i \in 1..Len(got) \/ i = j
      BY <1>4, <1>7
    <3> HIDE DEF j
    <3> QED
      BY <1>7, <2>1, <3>1
  <2>4. Len(got') <= Len(sent)
    BY <1>4, <1>7
  <2> QED
    BY <2>2, <2>3, <2>4, Zenon
<1>9. marks[j + 1].start = (marks[j].start + Len(in.packet)) + Len(in.buffer)
  <2> DEFINE m == IF in.active THEN MAC_BYTES ELSE 0
  <2>1. marks[j + 1].start = marks[j].start + Len(packet) + m
    BY <1>2, <1>5 DEF Logged
  <2>2. Len(in.packet) + Len(in.buffer) = Len(packet) + m
    BY DEF packet
  <2>3. m \in Nat /\ Len(in.packet) \in Nat /\ Len(in.buffer) \in Nat
    <3>1. m \in Nat
      BY Sizes
    <3>2. Len(in.packet) \in Nat /\ Len(in.buffer) \in Nat
      BY TypeFacts, SMTT(30)
    <3> QED
      BY <3>1, <3>2
  <2> HIDE DEF m, j
  <2>4. /\ marks[j].start + (Len(in.packet) + Len(in.buffer))
             = (marks[j].start + Len(in.packet)) + Len(in.buffer)
        /\ marks[j].start + (Len(packet) + m) = (marks[j].start + Len(packet)) + m
    <3>1. marks[j].start \in Nat /\ Len(packet) \in Nat
      BY <1>2, <1>6
    <3> QED
      BY <2>3, <3>1, NatAssoc, ZenonT(60)
  <2> QED
    BY <2>1, <2>2, <2>4
<1>10. Flows(in', wire', out'.todo, tcp' = "up", bytes,
             marks[j + 1].start, altered' = 0)
  <2>1. marks[j + 1].start + Len(in'.packet)
          = (marks[j].start + Len(in.packet)) + Len(in.buffer)
    <3>1. Len(in'.packet) = 0
      BY <1>3
    <3> QED
      BY <1>6, <1>9, <3>1
  <2> QED
    BY <1>3, <2>1, FlowsMoved
<1>11. ReceiverAt(in', j, packets, marks, altered = 0)
  <2>1. /\ marks[j + 1].active = (marks[j].active \/ sent[j] = NEWKEYS)
        /\ sent[j] = NEWKEYS => ~marks[j].active
        /\ marks[j + 1].at = IF marks[j].active THEN marks[j].at + Len(packet)
                             ELSE 0
    BY <1>2 DEF Logged
  <2>2. in'.active = marks[j + 1].active
    BY <1>2, <1>3, <1>5, <2>1
  <2>3. in'.sequence = Number(j)
    <3>1. ((Len(got) % SEQUENCE_NUMBERS) + 1) % SEQUENCE_NUMBERS
            = (Len(got) + 1) % SEQUENCE_NUMBERS
      BY <1>4, SequenceStep, Sizes
    <3> QED
      BY <1>3, <1>5, <3>1 DEF Next_sequence, Number
  <2>4. in'.position = marks[j + 1].at + (IF in'.active THEN Len(in'.packet) ELSE 0)
    <3>1. Len(in'.packet) = 0
      BY <1>3
    <3>2. in.position = marks[j].at + (IF marks[j].active THEN Len(packet) ELSE 0)
      BY <1>5 DEF packet
    <3>3. in'.position = marks[j + 1].at
      <4> HIDE DEF j
      <4>1. CASE marks[j].active
        BY <1>2, <1>3, <1>6, <2>1, <3>2, <4>1
      <4>2. CASE ~marks[j].active
        BY <1>2, <1>3, <1>6, <2>1, <3>2, <4>2
      <4> QED
        BY <4>1, <4>2
    <3> QED
      BY <1>6, <3>1, <3>3
  <2>5. /\ in'.active <=> in'.stage \in {"block", "rest", "mac"}
        /\ ~(in'.stage = "body" \/ in'.stage \in {"rest", "mac"})
    <3>1. active \in BOOLEAN
      BY <1>5
    <3> HIDE DEF active
    <3> QED
      BY <1>3, <3>1
  <2> QED
    BY <2>2, <2>3, <2>4, <2>5, Zenon DEF ReceiverAt
<1>12. StreamAs(packets, marks, bytes)'
  <2> HIDE DEF j
  <2> QED
    BY <1>1, <1>7, <1>10, <1>11 DEF StreamAs
<1>13. StreamInv'
  <2>1. in'.status = "up"
    BY <1>3
  <2> QED
    BY <1>8, <1>12, <2>1 DEF StreamInv, RefusedForCause
<1> QED
  BY <1>2, <1>3, <1>13

LEMMA BodyKeeps ==
    ASSUME TypeInv, StreamInv, BodyRead
    PROVE  /\ StreamInv' /\ Len(got) < Len(sent)
           /\ got' = Append(got, sent[Len(got) + 1]) /\ in'.status = "up"
<1> DEFINE more == Values(in.buffer)
           packet == in.packet \o more
           j == Len(got) + 1
           l == Len(in.packet)
<1>1. /\ in.status = "up" /\ in.stage = "body" /\ Len(in.buffer) = in.want
      /\ more \in Seq(Bytes) /\ packet \in Seq(Bytes) /\ Returns(packet)
      /\ UNCHANGED <<sent, out, wire, tcp, altered>>
  BY BodyTypes
<1>2. PICK packets \in Seq(Seq(Bytes)), marks \in Seq(Mark),
           bytes \in Seq(WireByte) : StreamAs(packets, marks, bytes)
  BY <1>1 DEF StreamInv
<1>3. /\ ReceiverAt(in, Len(got), packets, marks, altered = 0)
      /\ Log(sent, packets, marks, bytes)
  BY <1>2 DEF StreamAs
<1>4. /\ in.active = FALSE /\ marks[j].active = FALSE
      /\ Len(got) < Len(packets) /\ l + in.want = Len(packets[j])
      /\ \A i \in 1..l : in.packet[i] = packets[j][i]
  <2>1. in.active \in BOOLEAN
    BY TypeFacts
  <2> QED
    BY <1>1, <1>3, <2>1 DEF ReceiverAt
<1>5. j \in 1..Len(sent) /\ Len(got) < Len(sent)
  BY <1>3, <1>4, GotFacts DEF Log
<1>6. /\ packets[j] \in Seq(Bytes) /\ Len(packets[j]) \in Nat
      /\ Logged(sent[j], packets[j], marks[j], marks[j + 1], bytes, Number(j - 1))
  BY <1>3, <1>5, PacketFacts, TypeFacts
<1>7. Len(more) = in.want /\ \A i \in 1..in.want : more[i] = in.buffer[i].v
  BY <1>1, ValueBytes, TypeFacts
<1> DEFINE start == marks[j].start
<1>8. /\ start \in Nat /\ l \in Nat /\ in.want \in Nat
      /\ Follows(in.buffer, bytes, start + l, altered = 0)
  BY <1>2, FlowFacts, TypeFacts
<1> HIDE DEF more
<1>9. ASSUME NEW i \in 1..in.want
      PROVE  more[i] = packets[j][l + i]
  <2>1. Approximates(in.buffer[i], bytes[(start + l) + i], altered = 0)
    BY <1>1, <1>8 DEF Follows
  <2>2. bytes[(start + l) + i]
          = [v |-> packets[j][l + i], mac |-> <<>>, at |-> PLAIN]
    <3>1. l + i \in 1..Len(packets[j])
      BY <1>4, <1>6, <1>8, SMTT(30)
    <3>2. start + (l + i) = (start + l) + i
      <4>1. i \in Nat
        BY <1>8
      <4> QED
        BY <1>8, <4>1, NatAssoc
    <3>3. bytes[start + (l + i)]
            = [v |-> packets[j][l + i], mac |-> <<>>, at |-> PLAIN]
      BY <1>4, <1>6, <3>1 DEF Logged
    <3> QED
      BY <3>2, <3>3
  <2>3. in.buffer[i] = bytes[(start + l) + i]
    BY <2>1, <2>2 DEF Approximates
  <2>4. in.buffer[i].v = packets[j][l + i]
    BY <2>2, <2>3
  <2> QED
    BY <1>7, <2>4
<1>10. packet = packets[j]
  <2>0. in.packet \in Seq(Bytes)
    BY TypeFacts
  <2>1. /\ Len(packet) = Len(in.packet) + Len(more)
        /\ \A i \in 1..Len(in.packet) : packet[i] = in.packet[i]
        /\ \A i \in 1..Len(more) : packet[Len(in.packet) + i] = more[i]
    BY <1>1, <2>0, Joined
  <2>2. Len(packet) = Len(packets[j])
    BY <1>4, <1>7, <2>1
  <2> HIDE DEF packet, l, j
  <2>3. ASSUME NEW i \in 1..Len(packet)
        PROVE  packet[i] = packets[j][i]
    <3>1. CASE i <= l
      <4>1. i \in 1..l
        BY <1>8, <3>1
      <4> QED
        BY <1>4, <2>1, <4>1 DEF l
    <3>2. CASE i > l
      <4>1. PICK m \in 1..in.want : i = l + m
        <5>1. i - l \in 1..in.want /\ i = l + (i - l)
          BY <1>4, <1>6, <1>8, <2>2, <3>2, SMTT(30)
        <5> QED
          BY <5>1
      <4>2. packet[l + m] = more[m]
        BY <1>7, <2>1 DEF l
      <4> QED
        BY <1>9, <4>1, <4>2
    <3> QED
      BY <1>8, <3>1, <3>2
  <2> QED
    BY <1>1, <1>6, <2>2, <2>3, SameSequence
<1>11. /\ Len(in.packet) + Len(in.buffer)
            = Len(packets[j]) + (IF in.active THEN MAC_BYTES ELSE 0)
       /\ in.position = marks[j].at + (IF in.active THEN Len(packets[j]) ELSE 0)
  <2>1. in.position = marks[j].at + (IF in.active THEN Len(in.packet) ELSE 0)
    BY <1>3 DEF ReceiverAt
  <2> QED
    BY <1>1, <1>4, <1>6, <2>1
<1>12. Returns(packets[j])
  BY <1>1, <1>10
<1> HIDE DEF packet
<1> QED
  BY <1>1, <1>2, <1>5, <1>11, <1>12, ReturnsRight

\* A MAC that fits is the MAC of this packet: of what it was made is in it,
\* and it is where it was put.
LEMMA MacFits ==
    ASSUME TypeInv, StreamInv, NEW packets \in Seq(Seq(Bytes)),
           NEW marks \in Seq(Mark), NEW bytes \in Seq(WireByte),
           StreamAs(packets, marks, bytes),
           in.buffer = calculate_hmac(in.sequence, in.packet)
    PROVE  Len(got) + 1 \in 1..Len(sent) /\ in.packet = packets[Len(got) + 1]
<1> DEFINE j == Len(got) + 1
           start == marks[j].start
           l == Len(in.packet)
           x == (start + l) + 1
<1>1. Log(sent, packets, marks, bytes)
  BY DEF StreamAs
<1>2. /\ start \in Nat /\ l \in Nat
      /\ Follows(in.buffer, bytes, start + l, altered = 0)
  BY FlowFacts
<1>3. /\ Len(in.buffer) = MAC_BYTES
      /\ in.buffer[1].mac = <<1, in.sequence, in.packet>>
  <2>1. /\ Len(in.buffer) = MAC_BYTES
        /\ \A i \in 1..MAC_BYTES :
              in.buffer[i] = [v |-> 0, at |-> PLAIN,
                              mac |-> <<i, in.sequence, in.packet>>]
    BY MacOf, TypeFacts, SMTT(30)
  <2>2. 1 \in 1..MAC_BYTES
    BY Sizes
  <2>3. in.buffer[1] = [v |-> 0, at |-> PLAIN, mac |-> <<1, in.sequence, in.packet>>]
    BY <2>1, <2>2, Zenon
  <2> QED
    BY <2>1, <2>3
<1>4. x \in 1..Len(bytes) /\ bytes[x].mac = <<1, in.sequence, in.packet>>
  <2>1. Approximates(in.buffer[1], bytes[x], altered = 0)
        /\ (start + l) + MAC_BYTES <= Len(bytes)
    BY <1>2, <1>3, Sizes DEF Follows
  <2>2. in.buffer[1].mac # <<>>
    BY <1>3
  <2>3. bytes[x].mac = in.buffer[1].mac
    BY <2>1, <2>2 DEF Approximates
  <2>4. x \in 1..Len(bytes)
    <3>1. Len(bytes) \in Nat
      OBVIOUS
    <3> HIDE DEF start, l
    <3> QED
      BY <1>2, <2>1, <3>1, Sizes
  <2> QED
    BY <1>3, <2>3, <2>4
<1>5. bytes[x].mac # <<>>
  BY <1>4
<1>6. PICK m \in 1..Len(packets), i \in 1..MAC_BYTES :
         /\ x = marks[m].start + Len(packets[m]) + i
         /\ bytes[x].mac = <<i, Number(m - 1), packets[m]>>
  BY <1>1, <1>4, <1>5 DEF Log, MacsInPlace
<1>7. i = 1 /\ packets[m] = in.packet
  BY <1>4, <1>6
<1>8. m \in 1..Len(sent) /\ Len(packets) = Len(sent)
  BY <1>1 DEF Log
<1>9. marks[m].start \in Nat
  <2>1. m \in 1..(Len(sent) + 1)
    BY <1>8, GotFacts
  <2> QED
    BY <1>1, <2>1, MarkFacts, TypeFacts
<1>10. marks[m].start = marks[j].start
  <2>1. x = marks[m].start + l + 1
    BY <1>6, <1>7
  <2>2. start \in Nat /\ l \in Nat /\ marks[m].start \in Nat
    BY <1>2, <1>9
  <2>3. \A a, b, c \in Nat : (a + c) + 1 = (b + c) + 1 => b = a
    OBVIOUS
  <2> HIDE DEF l, start
  <2>4. marks[m].start = start
    BY <2>1, <2>2, <2>3
  <2> QED
    BY <2>4 DEF start
<1>11. m = j
  <2>1. m \in 1..(Len(sent) + 1) /\ j \in 1..(Len(sent) + 1)
    BY <1>8, GotFacts
  <2>2. \A a, b \in 1..(Len(sent) + 1) : a < b => marks[a].start < marks[b].start
    BY <1>1 DEF Log
  <2>3. ~(marks[m].start < marks[j].start) /\ ~(marks[j].start < marks[m].start)
    BY <1>9, <1>10
  <2>4. ~(m < j) /\ ~(j < m)
    BY <2>1, <2>2, <2>3
  <2> HIDE DEF j
  <2> QED
    BY <2>1, <2>4, GotFacts
<1> QED
  BY <1>7, <1>8, <1>11

LEMMA MacKeeps ==
    ASSUME TypeInv, StreamInv, MacRead
    PROVE  /\ StreamInv'
           /\ \/ /\ Len(got) < Len(sent) /\ in'.status = "up"
                 /\ got' = Append(got, sent[Len(got) + 1])
              \/ in'.status = "failed" /\ got' = got
<1> DEFINE j == Len(got) + 1
<1>1. /\ in.status = "up" /\ in.stage = "mac" /\ Len(in.buffer) = MAC_BYTES
      /\ UNCHANGED <<sent, out, wire, tcp, altered>>
      /\ \/ /\ in.buffer = calculate_hmac(in.sequence, in.packet)
            /\ Returns(in.packet)
         \/ /\ in.buffer # calculate_hmac(in.sequence, in.packet)
            /\ in'.status = "failed" /\ got' = got
  BY MacTypes
<1>2. PICK packets \in Seq(Seq(Bytes)), marks \in Seq(Mark),
           bytes \in Seq(WireByte) : StreamAs(packets, marks, bytes)
  BY <1>1 DEF StreamInv
<1>3. /\ ReceiverAt(in, Len(got), packets, marks, altered = 0)
      /\ Log(sent, packets, marks, bytes)
  BY <1>2 DEF StreamAs
<1>4. in.active = TRUE /\ marks[j].active = TRUE
  <2>1. in.active \in BOOLEAN
    BY TypeFacts
  <2> QED
    BY <1>1, <1>3, <2>1 DEF ReceiverAt
<1>5. CASE in.buffer = calculate_hmac(in.sequence, in.packet)
  <2>1. j \in 1..Len(sent) /\ in.packet = packets[j]
    BY <1>2, <1>5, MacFits
  <2>2. Returns(packets[j])
    BY <1>1, <1>5, <2>1
  <2>3. /\ Len(in.packet) + Len(in.buffer)
             = Len(packets[j]) + (IF in.active THEN MAC_BYTES ELSE 0)
        /\ in.position = marks[j].at + (IF in.active THEN Len(packets[j]) ELSE 0)
    BY <1>1, <1>3, <1>4, <2>1 DEF ReceiverAt
  <2>4. /\ StreamInv'
        /\ got' = Append(got, sent[Len(got) + 1]) /\ in'.status = "up"
    BY <1>1, <1>2, <2>1, <2>2, <2>3, ReturnsRight
  <2>5. Len(got) < Len(sent)
    BY <2>1, GotFacts
  <2> QED
    BY <2>4, <2>5
<1>6. CASE in.buffer # calculate_hmac(in.sequence, in.packet)
  <2>1. altered # 0
    <3> SUFFICES ASSUME altered = 0
                 PROVE  in.buffer = calculate_hmac(in.sequence, in.packet)
      BY <1>6
    <3>1. /\ Len(got) < Len(packets) /\ Len(in.packet) = Len(packets[j])
          /\ \A i \in 1..Len(in.packet) : in.packet[i] = packets[j][i]
          /\ in.sequence = Number(Len(got))
      BY <1>1, <1>3 DEF ReceiverAt
    <3>2. j \in 1..Len(sent) /\ j - 1 = Len(got)
      BY <1>3, <3>1, GotFacts DEF Log
    <3>3. /\ packets[j] \in Seq(Bytes)
          /\ Logged(sent[j], packets[j], marks[j], marks[j + 1], bytes, Number(j - 1))
      <4>1. sent \in Seq(Payloads)
        BY TypeFacts
      <4> QED
        BY <1>3, <3>2, <4>1, PacketFacts, ZenonT(60)
    <3>4. in.packet = packets[j]
      <4>1. in.packet \in Seq(Bytes)
        BY TypeFacts
      <4> QED
        BY <3>1, <3>3, <4>1, SameSequence
    <3>5. /\ Follows(in.buffer, bytes, marks[j].start + Len(in.packet), altered = 0)
      BY <1>2, FlowFacts
    <3> DEFINE h == calculate_hmac(in.sequence, in.packet)
    <3>6. /\ h \in Seq(WireByte) /\ Len(h) = MAC_BYTES
          /\ \A i \in 1..MAC_BYTES :
                h[i] = [v |-> 0, at |-> PLAIN, mac |-> <<i, in.sequence, in.packet>>]
      BY MacOf, TypeFacts
    <3> HIDE DEF h, j
    <3>7. ASSUME NEW i \in 1..Len(in.buffer)
          PROVE  in.buffer[i] = h[i]
      <4>1. in.buffer[i] = bytes[marks[j].start + Len(in.packet) + i]
        BY <3>5 DEF Follows, Approximates
      <4>2. bytes[marks[j].start + Len(packets[j]) + i]
              = [v |-> 0, at |-> PLAIN, mac |-> <<i, Number(j - 1), packets[j]>>]
        BY <1>1, <1>4, <3>3 DEF Logged
      <4> QED
        BY <1>1, <3>1, <3>2, <3>4, <3>6, <4>1, <4>2
    <3>8. in.buffer = h
      BY <1>1, <3>6, <3>7, SameSequence, TypeFacts
    <3> QED
      BY <3>8 DEF h
  <2>2. altered > 0
    BY <2>1, AlteredSome
  <2> QED
    BY <1>1, <1>6, <2>2 DEF StreamInv, RefusedForCause
<1> QED
  BY <1>5, <1>6

-------------------------------------------------------------------------------
(***************************************************************************)
(* A packet more.                                                          *)
(***************************************************************************)
LEMMA LoggedLonger ==
    ASSUME NEW payload, NEW packet \in Seq(Bytes), NEW here \in Mark,
           NEW next \in Mark, NEW bytes \in Seq(WireByte),
           NEW more \in Seq(WireByte), NEW number,
           Logged(payload, packet, here, next, bytes, number)
    PROVE  Logged(payload, packet, here, next, bytes \o more, number)
<1> DEFINE l == Len(packet)
           tail == IF here.active THEN MAC_BYTES ELSE 0
<1>1. PICK all : all = bytes \o more
  OBVIOUS
<1>2. /\ Len(all) = Len(bytes) + Len(more)
      /\ \A i \in 1..Len(bytes) : all[i] = bytes[i]
  BY <1>1, Joined, Zenon
<1>3. /\ Len(bytes) \in Nat /\ Len(more) \in Nat /\ l \in Nat
      /\ here.start \in Nat /\ next.start \in Nat /\ here.active \in BOOLEAN
  BY DEF Mark
<1>4. next.start = here.start + l + tail /\ next.start <= Len(bytes)
  BY DEF Logged
<1>5. next.start <= Len(all)
  BY <1>2, <1>3, <1>4
<1> HIDE DEF l
<1>6. ASSUME NEW i \in 1..l
      PROVE  all[here.start + i] = bytes[here.start + i]
  <2>1. here.start + i \in 1..Len(bytes)
    <3>1. tail \in Nat
      BY <1>3, Sizes
    <3> HIDE DEF tail
    <3> QED
      BY <1>3, <1>4, <3>1
  <2> QED
    BY <1>2, <2>1
<1>7. ASSUME here.active, NEW i \in 1..MAC_BYTES
      PROVE  all[here.start + l + i] = bytes[here.start + l + i]
  <2>1. here.start + l + i \in 1..Len(bytes)
    <3>1. tail = MAC_BYTES /\ MAC_BYTES \in Nat
      BY <1>7, Sizes
    <3> HIDE DEF tail
    <3> QED
      BY <1>3, <1>4, <3>1
  <2> QED
    BY <1>2, <2>1
<1>8. Logged(payload, packet, here, next, all, number)
  BY <1>5, <1>6, <1>7 DEF Logged, l
<1> QED
  BY <1>1, <1>8

\* The bytes of one packet, encrypted with its MAC or in the clear.
TodoIs(todo, packet, active, at, number) ==
    /\ todo \in Seq(WireByte)
    /\ Len(todo) = Len(packet) + (IF active THEN MAC_BYTES ELSE 0)
    /\ \A i \in 1..Len(packet) :
         todo[i] = [v |-> packet[i], mac |-> <<>>,
                    at |-> IF active THEN at + i - 1 ELSE PLAIN]
    /\ active => \A i \in 1..MAC_BYTES :
                    todo[Len(packet) + i]
                      = [v |-> 0, at |-> PLAIN, mac |-> <<i, number, packet>>]

LEMMA TodoBytes ==
    ASSUME NEW packet \in Seq(Bytes), NEW active \in BOOLEAN, NEW at \in Nat,
           NEW number \in Nat, NEW todo,
           todo = IF active THEN encrypt(packet, at) \o calculate_hmac(number, packet)
                  ELSE InClear(packet)
    PROVE  TodoIs(todo, packet, active, at, number)
<1>1. CASE active
  <2>1. PICK a : a = encrypt(packet, at)
    OBVIOUS
  <2>2. PICK b : b = calculate_hmac(number, packet)
    OBVIOUS
  <2>3. /\ a \in Seq(WireByte) /\ Len(a) = Len(packet)
        /\ \A i \in 1..Len(packet) :
              a[i] = [v |-> packet[i], at |-> at + i - 1, mac |-> <<>>]
    BY <2>1, EncryptedBytes
  <2>4. /\ b \in Seq(WireByte) /\ Len(b) = MAC_BYTES
        /\ \A i \in 1..MAC_BYTES :
              b[i] = [v |-> 0, at |-> PLAIN, mac |-> <<i, number, packet>>]
    BY <2>2, MacOf
  <2>5. todo = a \o b
    BY <1>1, <2>1, <2>2
  <2>6. /\ todo \in Seq(WireByte) /\ Len(todo) = Len(a) + Len(b)
        /\ \A i \in 1..Len(a) : todo[i] = a[i]
        /\ \A i \in 1..Len(b) : todo[Len(a) + i] = b[i]
    <3>1. a \in Seq(WireByte) /\ b \in Seq(WireByte)
      BY <2>3, <2>4
    <3>2. LET c == a \o b
          IN  /\ c \in Seq(WireByte) /\ Len(c) = Len(a) + Len(b)
              /\ \A i \in 1..Len(a) : c[i] = a[i]
              /\ \A i \in 1..Len(b) : c[Len(a) + i] = b[i]
      BY <3>1, Joined
    <3> QED
      BY <2>5, <3>2, Zenon
  <2>7. \A i \in 1..Len(packet) :
          todo[i] = [v |-> packet[i], mac |-> <<>>, at |-> at + i - 1]
    BY <2>3, <2>6
  <2>8. \A i \in 1..MAC_BYTES :
          todo[Len(packet) + i]
            = [v |-> 0, at |-> PLAIN, mac |-> <<i, number, packet>>]
    BY <2>3, <2>4, <2>6
  <2> QED
    BY <1>1, <2>3, <2>4, <2>6, <2>7, <2>8 DEF TodoIs
<1>2. CASE ~active
  <2>1. /\ todo \in Seq(WireByte) /\ Len(todo) = Len(packet)
        /\ \A i \in 1..Len(packet) :
              todo[i] = [v |-> packet[i], at |-> PLAIN, mac |-> <<>>]
    BY <1>2, ClearBytes
  <2>2. Len(packet) \in Nat
    OBVIOUS
  <2> QED
    BY <1>2, <2>1, <2>2 DEF TodoIs
<1> QED
  BY <1>1, <1>2

\* What holds after a packet with these bytes, sent where m holds.
After(m, packet, payload) ==
    [start |-> m.start + Len(packet) + (IF m.active THEN MAC_BYTES ELSE 0),
     at |-> IF m.active THEN m.at + Len(packet) ELSE 0,
     active |-> m.active \/ payload = NEWKEYS]

LEMMA AfterMark ==
    ASSUME NEW m \in Mark, NEW packet \in Seq(Bytes), NEW payload,
           Len(packet) >= 1
    PROVE  LET a == After(m, packet, payload)
           IN  /\ a \in Mark /\ a.start \in Nat /\ m.start < a.start
               /\ a.start = m.start + Len(packet)
                              + (IF m.active THEN MAC_BYTES ELSE 0)
               /\ a.at = IF m.active THEN m.at + Len(packet) ELSE 0
               /\ a.active = (m.active \/ payload = NEWKEYS)
               /\ ~a.active => a.at = 0
<1> DEFINE tail == IF m.active THEN MAC_BYTES ELSE 0
<1>1. m.start \in Nat /\ m.at \in Nat /\ m.active \in BOOLEAN /\ Len(packet) \in Nat
  BY DEF Mark
<1>2. tail \in Nat
  BY Sizes
<1>3. m.start + Len(packet) + tail \in Nat /\ m.start < m.start + Len(packet) + tail
  <2> HIDE DEF tail
  <2> QED
    BY <1>1, <1>2
<1>4. (IF m.active THEN m.at + Len(packet) ELSE 0) \in Nat
  BY <1>1
<1> QED
  BY <1>1, <1>3, <1>4 DEF After, Mark

LEMMA LastLogged ==
    ASSUME NEW m \in Mark, NEW payload \in Seq(Bytes), NEW p \in Nat,
           NEW packet \in Seq(Bytes), packet = Framed(payload, p),
           Aligned(m.active, Len(payload), p), can_send(Len(payload), p),
           payload = NEWKEYS => ~m.active, Len(packet) >= 1, NEW number \in Nat,
           NEW todo, TodoIs(todo, packet, m.active, m.at, number),
           NEW bytes \in Seq(WireByte), Len(bytes) = m.start
    PROVE  /\ Logged(payload, packet, m, After(m, packet, payload),
                     bytes \o todo, number)
           /\ Len(bytes \o todo) = After(m, packet, payload).start
<1> DEFINE next == After(m, packet, payload)
           tail == IF m.active THEN MAC_BYTES ELSE 0
<1>1. PICK all : all = bytes \o todo
  OBVIOUS
<1>2. todo \in Seq(WireByte) /\ Len(todo) = Len(packet) + tail
  BY DEF TodoIs
<1>3. /\ Len(all) = Len(bytes) + Len(todo)
      /\ \A i \in 1..Len(todo) : all[Len(bytes) + i] = todo[i]
  <2>0. bytes \in Seq(WireByte) /\ todo \in Seq(WireByte)
    BY <1>2
  <2>1. LET r == bytes \o todo
        IN  /\ r \in Seq(WireByte) /\ Len(r) = Len(bytes) + Len(todo)
            /\ \A i \in 1..Len(bytes) : r[i] = bytes[i]
            /\ \A i \in 1..Len(todo) : r[Len(bytes) + i] = todo[i]
    BY <2>0, BytesJoined
  <2> QED
    BY <1>1, <2>1, Zenon
<1>4. /\ m.start \in Nat /\ Len(packet) \in Nat /\ tail \in Nat
      /\ m.active => tail = MAC_BYTES
  BY Sizes DEF Mark
<1>5. /\ next.start = m.start + Len(packet) + tail
      /\ next.at = IF m.active THEN m.at + Len(packet) ELSE 0
      /\ next.active = (m.active \/ payload = NEWKEYS)
  BY AfterMark
<1> HIDE DEF tail, next
<1>6. Len(all) = next.start
  BY <1>2, <1>3, <1>4, <1>5
<1>7. ASSUME NEW i \in 1..Len(packet)
      PROVE  all[m.start + i] = [v |-> packet[i], mac |-> <<>>,
                                 at |-> IF m.active THEN m.at + i - 1 ELSE PLAIN]
  <2>1. i \in 1..Len(todo)
    BY <1>2, <1>4
  <2> QED
    BY <1>3, <2>1 DEF TodoIs
<1>8. ASSUME m.active, NEW i \in 1..MAC_BYTES
      PROVE  all[m.start + Len(packet) + i]
               = [v |-> 0, at |-> PLAIN, mac |-> <<i, number, packet>>]
  <2>0. i \in Nat /\ i >= 1 /\ i <= MAC_BYTES /\ MAC_BYTES \in Nat
    BY Sizes
  <2>1. Len(packet) + i \in 1..Len(todo)
    BY <1>2, <1>4, <1>8, <2>0
  <2>2. m.start + (Len(packet) + i) = m.start + Len(packet) + i
    BY <1>4, <2>0, NatAssoc
  <2>3. all[m.start + (Len(packet) + i)] = todo[Len(packet) + i]
    BY <1>3, <2>1
  <2> QED
    BY <1>8, <2>2, <2>3 DEF TodoIs
<1>9. next.start <= Len(all)
  BY <1>2, <1>4, <1>5, <1>6
<1>10. Logged(payload, packet, m, next, all, number)
  BY <1>4, <1>5, <1>7, <1>8, <1>9 DEF Logged, tail
<1> QED
  BY <1>1, <1>6, <1>10 DEF next

LEMMA Appended ==
    ASSUME NEW T, NEW s \in Seq(T), NEW e \in T
    PROVE  LET r == Append(s, e)
           IN  /\ r \in Seq(T) /\ Len(r) = Len(s) + 1 /\ r[Len(s) + 1] = e
               /\ \A i \in 1..Len(s) : r[i] = s[i]
OBVIOUS

LEMMA LogExtended ==
    ASSUME NEW payloads \in Seq(Payloads), NEW packets \in Seq(Seq(Bytes)),
           NEW marks \in Seq(Mark), NEW bytes \in Seq(WireByte),
           Log(payloads, packets, marks, bytes),
           NEW payload \in Payloads, NEW packet \in Seq(Bytes), NEW m \in Mark,
           m = marks[Len(payloads) + 1], NEW next \in Mark, m.start < next.start,
           ~next.active => next.at = 0,
           NEW todo, TodoIs(todo, packet, m.active, m.at, Number(Len(payloads))),
           Logged(payload, packet, m, next, bytes \o todo, Number(Len(payloads))),
           Len(bytes \o todo) = next.start
    PROVE  Log(Append(payloads, payload), Append(packets, packet),
               Append(marks, next), bytes \o todo)
<1> DEFINE n == Len(payloads)
<1>1. PICK all : all = bytes \o todo
  OBVIOUS
<1>2. PICK qs : qs = Append(packets, packet)
  OBVIOUS
<1>3. PICK ms : ms = Append(marks, next)
  OBVIOUS
<1>4. PICK ps : ps = Append(payloads, payload)
  OBVIOUS
<1>5. /\ n \in Nat /\ Len(packets) = n /\ Len(marks) = n + 1
      /\ Len(bytes) = m.start
  BY DEF Log
<1>6. /\ Len(ps) = n + 1 /\ ps[n + 1] = payload
      /\ \A j \in 1..n : ps[j] = payloads[j]
  BY <1>4
<1>7. /\ qs \in Seq(Seq(Bytes)) /\ Len(qs) = n + 1 /\ qs[n + 1] = packet
      /\ \A j \in 1..n : qs[j] = packets[j]
  BY <1>2, <1>5
<1>8. /\ ms \in Seq(Mark) /\ Len(ms) = n + 2 /\ ms[n + 2] = next
      /\ \A j \in 1..(n + 1) : ms[j] = marks[j]
  BY <1>3, <1>5
<1>9. todo \in Seq(WireByte) /\ Len(todo) \in Nat /\ Len(bytes) \in Nat
  BY DEF TodoIs
<1>10. /\ Len(all) = Len(bytes) + Len(todo)
       /\ \A i \in 1..Len(bytes) : all[i] = bytes[i]
       /\ \A i \in 1..Len(todo) : all[Len(bytes) + i] = todo[i]
  <2>1. LET r == bytes \o todo
        IN  /\ r \in Seq(WireByte) /\ Len(r) = Len(bytes) + Len(todo)
            /\ \A i \in 1..Len(bytes) : r[i] = bytes[i]
            /\ \A i \in 1..Len(todo) : r[Len(bytes) + i] = todo[i]
    BY <1>9, BytesJoined
  <2> QED
    BY <1>1, <2>1, Zenon
<1>11. Len(all) = ms[(n + 1) + 1].start
  <2>1. (n + 1) + 1 = n + 2
    BY <1>5
  <2>2. Len(all) = next.start
    BY <1>1
  <2> QED
    BY <1>8, <2>1, <2>2
<1>12. ASSUME NEW j \in 1..(n + 1)
       PROVE  Logged(ps[j], qs[j], ms[j], ms[j + 1], all, Number(j - 1))
  <2>1. CASE j \in 1..n
    <3>1. Logged(payloads[j], packets[j], marks[j], marks[j + 1], bytes, Number(j - 1))
      BY <2>1 DEF Log
    <3>2. packets[j] \in Seq(Bytes) /\ marks[j] \in Mark /\ marks[j + 1] \in Mark
      BY <1>5, <2>1
    <3>3. Logged(payloads[j], packets[j], marks[j], marks[j + 1], all, Number(j - 1))
      BY <1>1, <1>9, <3>1, <3>2, LoggedLonger
    <3>4. ps[j] = payloads[j] /\ qs[j] = packets[j] /\ ms[j] = marks[j]
          /\ ms[j + 1] = marks[j + 1]
      BY <1>5, <1>6, <1>7, <1>8, <2>1, SMTT(30)
    <3> QED
      BY <3>3, <3>4
  <2>2. CASE j = n + 1
    <3>1. /\ ps[j] = payload /\ qs[j] = packet /\ ms[j] = m /\ ms[j + 1] = next
          /\ j - 1 = n
      <4>1. j + 1 = n + 2 /\ j - 1 = n /\ n + 1 \in 1..(n + 1)
        BY <1>5, <2>2
      <4> QED
        BY <1>6, <1>7, <1>8, <2>2, <4>1
    <3> QED
      BY <1>1, <3>1
  <2> QED
    BY <1>5, <2>1, <2>2
<1>13. ASSUME NEW j \in 1..(n + 2), ~ms[j].active
       PROVE  ms[j].at = 0
  <2>1. CASE j \in 1..(n + 1)
    BY <1>8, <1>13, <2>1 DEF Log
  <2>2. CASE j = n + 2
    BY <1>8, <1>13, <2>2
  <2> QED
    BY <1>5, <2>1, <2>2
<1>14. ASSUME NEW i \in 1..(n + 2), NEW j \in 1..(n + 2), i < j
       PROVE  ms[i].start < ms[j].start
  <2>1. i \in 1..(n + 1) /\ (j \in 1..(n + 1) \/ j = n + 2)
    <3>1. n \in Nat /\ i \in 1..(n + 2) /\ j \in 1..(n + 2) /\ i < j
      BY <1>5, <1>14
    <3> HIDE DEF n
    <3>2. i < n + 2
      BY <3>1
    <3>3. i \in 1..(n + 1)
      BY <3>1, <3>2
    <3>4. j <= n + 1 \/ j = n + 2
      BY <3>1
    <3> QED
      BY <3>1, <3>3, <3>4
  <2>2. \A a, b \in 1..(n + 1) : a < b => marks[a].start < marks[b].start
    BY DEF Log
  <2>3. CASE j \in 1..(n + 1)
    BY <1>8, <1>14, <2>1, <2>2, <2>3
  <2>4. CASE j = n + 2
    <3>1. marks[i].start \in Nat /\ m.start \in Nat /\ next.start \in Nat
      BY <2>1, MarkFacts DEF Mark
    <3>2. marks[i].start <= m.start
      <4>1. CASE i = n + 1
        BY <3>1, <4>1
      <4>2. CASE i < n + 1
        <5>1. n + 1 \in 1..(n + 1)
          BY <1>5
        <5>2. marks[i].start < marks[n + 1].start
          BY <2>1, <2>2, <4>2, <5>1
        <5> QED
          BY <3>1, <5>2, SMTT(30)
      <4> QED
        BY <1>5, <2>1, <4>1, <4>2
    <3>3. marks[i].start < next.start
      BY <3>1, <3>2, SMTT(30)
    <3> QED
      BY <1>8, <2>1, <2>4, <3>3
  <2> QED
    BY <2>1, <2>3, <2>4
<1>15. ASSUME NEW x \in 1..Len(all), all[x].mac # <<>>
       PROVE  \E j \in 1..Len(qs) : \E i \in 1..MAC_BYTES :
                /\ x = ms[j].start + Len(qs[j]) + i
                /\ all[x].mac = <<i, Number(j - 1), qs[j]>>
  <2>1. CASE x <= Len(bytes)
    <3>1. x \in 1..Len(bytes) /\ all[x] = bytes[x]
      <4>1. Len(all) \in Nat /\ x \in 1..Len(all)
        BY <1>9, <1>10, <1>15
      <4>2. x \in 1..Len(bytes)
        BY <1>9, <2>1, <4>1
      <4> QED
        BY <1>10, <4>2
    <3>2. PICK j \in 1..Len(packets), i \in 1..MAC_BYTES :
             /\ x = marks[j].start + Len(packets[j]) + i
             /\ bytes[x].mac = <<i, Number(j - 1), packets[j]>>
      BY <1>15, <3>1 DEF Log, MacsInPlace
    <3>3. j \in 1..n /\ j \in 1..(n + 1) /\ j \in 1..Len(qs)
      BY <1>5, <1>7
    <3>4. ms[j] = marks[j] /\ qs[j] = packets[j]
      BY <1>7, <1>8, <3>3
    <3>5. x = ms[j].start + Len(qs[j]) + i
          /\ all[x].mac = <<i, Number(j - 1), qs[j]>>
      BY <3>1, <3>2, <3>4
    <3> QED
      BY <3>3, <3>5
  <2>2. CASE x > Len(bytes)
    <3>1. PICK y \in 1..Len(todo) : x = Len(bytes) + y
      <4>1. x - Len(bytes) \in 1..Len(todo) /\ x = Len(bytes) + (x - Len(bytes))
        BY <1>9, <1>10, <2>2
      <4> QED
        BY <4>1
    <3>2. all[x] = todo[y] /\ todo[y].mac # <<>>
      BY <1>10, <1>15, <3>1
    <3>3. Len(packet) \in Nat
      OBVIOUS
    <3>4. y > Len(packet)
      <4> SUFFICES ASSUME y <= Len(packet)
                   PROVE  FALSE
        BY <1>9, <3>3
      <4>1. y \in 1..Len(packet)
        BY <1>9, <3>3
      <4>2. todo[y] = [v |-> packet[y], mac |-> <<>>,
                       at |-> IF m.active THEN m.at + y - 1 ELSE PLAIN]
        BY <4>1 DEF TodoIs
      <4> QED
        BY <3>2, <4>2
    <3>5. Len(todo) = Len(packet) + (IF m.active THEN MAC_BYTES ELSE 0)
      BY DEF TodoIs
    <3>6. m.active
      BY <1>9, <3>3, <3>4, <3>5
    <3>7. PICK i \in 1..MAC_BYTES : y = Len(packet) + i
      <4>1. /\ y - Len(packet) \in 1..MAC_BYTES
            /\ y = Len(packet) + (y - Len(packet))
        BY <1>9, <3>3, <3>4, <3>5, <3>6, Sizes
      <4> QED
        BY <4>1
    <3>8. todo[y].mac = <<i, Number(n), packet>>
      <4>1. todo[Len(packet) + i]
              = [v |-> 0, at |-> PLAIN, mac |-> <<i, Number(n), packet>>]
        BY <3>6 DEF TodoIs
      <4> QED
        BY <3>7, <4>1
    <3>9. ms[n + 1] = m /\ qs[n + 1] = packet /\ n + 1 \in 1..Len(qs) /\ (n + 1) - 1 = n
      <4>1. n \in Nat
        BY <1>5
      <4>2. n + 1 \in 1..(n + 1) /\ (n + 1) - 1 = n
        BY <4>1
      <4>3. ms[n + 1] = m
        BY <1>8, <4>2
      <4>4. n + 1 \in 1..Len(qs)
        BY <1>7, <4>2
      <4> QED
        BY <1>7, <4>2, <4>3, <4>4
    <3>10. x = m.start + Len(packet) + i
      <4>1. i \in Nat /\ m.start \in Nat
        BY Sizes DEF Mark
      <4>2. m.start + (Len(packet) + i) = m.start + Len(packet) + i
        BY <3>3, <4>1, NatAssoc
      <4> QED
        BY <1>5, <3>1, <3>7, <4>2
    <3>11. /\ x = ms[n + 1].start + Len(qs[n + 1]) + i
           /\ all[x].mac = <<i, Number((n + 1) - 1), qs[n + 1]>>
      BY <3>2, <3>8, <3>9, <3>10
    <3> QED
      BY <3>9, <3>11
  <2> QED
    BY <1>9, <1>10, <2>1, <2>2, SMTT(30)
<1>16. MacsInPlace(qs, ms, all)
  BY <1>15 DEF MacsInPlace
<1>17. (n + 1) + 1 = n + 2
  BY <1>5
<1>18. Log(ps, qs, ms, all)
  BY <1>6, <1>7, <1>8, <1>11, <1>12, <1>13, <1>14, <1>16, <1>17 DEF Log
<1> QED
  BY <1>1, <1>2, <1>3, <1>4, <1>18

\* Bytes given to write_exact come after all that was written before.
LEMMA FlowsLonger ==
    ASSUME NEW r \in Receiver, NEW w \in Seq(WireByte), NEW bytes \in Seq(WireByte),
           NEW todo \in Seq(WireByte), NEW start \in Nat, NEW clean \in BOOLEAN,
           Flows(r, w, <<>>, TRUE, bytes, start, clean)
    PROVE  Flows(r, w, todo, TRUE, bytes \o todo, start, clean)
<1>1. r.packet \in Seq(Bytes) /\ r.buffer \in Seq(WireByte)
  BY DEF Receiver
<1>2. Len(r.packet) \in Nat /\ Len(r.buffer) \in Nat /\ Len(w) \in Nat
      /\ Len(todo) \in Nat /\ Len(bytes) \in Nat
  BY <1>1
<1>3. PICK read : read = start + Len(r.packet)
  OBVIOUS
<1>4. PICK place : place = read + Len(r.buffer)
  OBVIOUS
<1>5. read \in Nat
  BY <1>2, <1>3
<1>6. place \in Nat
  BY <1>2, <1>4, <1>5
<1>7. /\ Follows(r.buffer, bytes, read, clean) /\ Follows(w, bytes, place, clean)
      /\ Ends(<<>>, bytes, place + Len(w))
  BY <1>3, <1>4, Zenon DEF Flows
<1>8. Follows(r.buffer, bytes \o todo, read, clean)
  BY <1>1, <1>5, <1>7, FollowsLonger
<1>9. Follows(w, bytes \o todo, place, clean)
  BY <1>6, <1>7, FollowsLonger
<1>10. place + Len(w) = Len(bytes)
  <2>1. (place + Len(w)) + Len(<<>>) = Len(bytes) /\ Len(<<>>) = 0
    BY <1>7 DEF Ends
  <2> QED
    BY <1>2, <1>6, <2>1
<1>11. Ends(todo, bytes \o todo, place + Len(w))
  <2>1. LET s == bytes \o todo
        IN  /\ s \in Seq(WireByte) /\ Len(s) = Len(bytes) + Len(todo)
            /\ \A i \in 1..Len(bytes) : s[i] = bytes[i]
            /\ \A i \in 1..Len(todo) : s[Len(bytes) + i] = todo[i]
    BY BytesJoined
  <2>2. Ends(todo, bytes \o todo, Len(bytes))
    BY <2>1, Zenon DEF Ends
  <2> QED
    BY <1>10, <2>2
<1> QED
  BY <1>3, <1>4, <1>8, <1>9, <1>11, Zenon DEF Flows

LEMMA SendsKeeps ==
    ASSUME TypeInv, StreamInv, NEW payload \in Payloads, NEW p,
           Aligned(out.active, Len(payload), p), Sends(payload, p)
    PROVE  StreamInv'
<1> DEFINE n == Len(sent)
           j == Len(got) + 1
<1> USE TypeFacts
<1>1. /\ UNCHANGED <<got, in, wire, tcp, altered>> /\ sent' = Append(sent, payload)
      /\ out.todo = <<>> /\ tcp = "up" /\ can_send(Len(payload), p)
      /\ payload = NEWKEYS => ~out.active
  BY DEF Sends, Idle
<1>2. PICK packet : packet = Framed(payload, p)
  OBVIOUS
<1>3. /\ p \in Nat /\ packet \in Seq(Bytes) /\ payload \in Seq(Bytes)
      /\ out'.active = out.active /\ out'.sequence = out.sequence
      /\ out'.position = (IF out.active THEN out.position + Len(packet)
                          ELSE out.position)
      /\ out'.todo = (IF out.active
                      THEN encrypt(packet, out.position)
                             \o calculate_hmac(out.sequence, packet)
                      ELSE InClear(packet))
  BY <1>2, SendsTypes, Zenon
<1>4. n \in Nat /\ Len(got) \in Nat /\ Len(got) <= n /\ j \in 1..(n + 1) /\ n + 1 \in 1..(n + 1)
  BY GotFacts
<1>5. /\ Len(sent') = n + 1 /\ sent'[n + 1] = payload
      /\ \A i \in 1..n : sent'[i] = sent[i]
  BY <1>1, Appended
<1>6. Len(got') <= Len(sent') /\ \A i \in 1..Len(got') : got'[i] = sent'[i]
  <2>1. Len(got) <= n + 1
    BY <1>4
  <2>2. \A i \in 1..Len(got) : i \in 1..n
    BY <1>4
  <2>3. \A i \in 1..Len(got) : got[i] = sent[i]
    BY DEF StreamInv
  <2> QED
    BY <1>1, <1>5, <2>1, <2>2, <2>3
<1>7. RefusedForCause'
  BY <1>1 DEF StreamInv, RefusedForCause
<1>8. SUFFICES ASSUME in.status = "up", NEW packets \in Seq(Seq(Bytes)),
                      NEW marks \in Seq(Mark), NEW bytes \in Seq(WireByte),
                      StreamAs(packets, marks, bytes)
               PROVE  \E q \in Seq(Seq(Bytes)), k \in Seq(Mark),
                         b \in Seq(WireByte) : StreamAs(q, k, b)'
  BY <1>1, <1>6, <1>7 DEF StreamInv
<1>9. Log(sent, packets, marks, bytes)
  BY <1>8 DEF StreamAs
<1>10. Len(packets) = n /\ Len(marks) = n + 1 /\ Len(bytes) = marks[n + 1].start
  BY <1>9 DEF Log
<1>11. PICK m \in Mark : m = marks[n + 1]
  BY <1>4, <1>9, MarkFacts
<1>12. /\ m.start \in Nat /\ m.at \in Nat /\ m.active \in BOOLEAN
       /\ ~m.active => m.at = 0
  BY <1>4, <1>9, <1>11, MarkFacts
<1>13. out.position = m.at /\ out.active = m.active /\ out.sequence = Number(n)
  BY <1>1, <1>8, <1>11 DEF StreamAs, SenderAt
<1>14. Len(packet) \in Nat /\ Len(packet) >= 1
  <2>1. Len(packet) = 5 + Len(payload) + p
    BY <1>1, <1>2, <1>3, FramedParts
  <2>2. Len(payload) \in Nat /\ p \in Nat
    BY <1>3
  <2> QED
    BY <2>1, <2>2
<1>15. PICK todo : todo = out'.todo
  OBVIOUS
<1>16. Number(n) \in Nat
  BY <1>13
<1>17. TodoIs(todo, packet, m.active, m.at, Number(n))
  <2>1. todo = IF m.active THEN encrypt(packet, m.at) \o calculate_hmac(Number(n), packet)
               ELSE InClear(packet)
    BY <1>3, <1>13, <1>15
  <2> QED
    BY <1>3, <1>12, <1>16, <2>1, TodoBytes
<1>18. todo \in Seq(WireByte) /\ todo # <<>>
  <2>1. todo \in Seq(WireByte) /\ Len(todo) = Len(packet) + (IF m.active THEN MAC_BYTES ELSE 0)
    BY <1>17 DEF TodoIs
  <2>2. Len(todo) # 0
    BY <1>14, <2>1, Sizes
  <2> QED
    BY <2>1, <2>2
<1>19. PICK next : next = After(m, packet, payload)
  OBVIOUS
<1>20. /\ next \in Mark /\ next.start \in Nat /\ m.start < next.start
       /\ next.at = IF m.active THEN m.at + Len(packet) ELSE 0
       /\ ~next.active => next.at = 0
  BY <1>3, <1>14, <1>19, AfterMark, SMTT(30)
<1>21. /\ Logged(payload, packet, m, next, bytes \o todo, Number(n))
       /\ Len(bytes \o todo) = next.start
  <2>1. /\ Aligned(m.active, Len(payload), p) /\ (payload = NEWKEYS => ~m.active)
        /\ Len(bytes) = m.start
    BY <1>1, <1>10, <1>11, <1>13
  <2> QED
    BY <1>1, <1>2, <1>3, <1>14, <1>16, <1>17, <1>19, <2>1, LastLogged, SMTT(30)
<1>22. Log(Append(sent, payload), Append(packets, packet), Append(marks, next), bytes \o todo)
  BY <1>3, <1>9, <1>11, <1>17, <1>20, <1>21, LogExtended
<1>23. PICK qs : qs = Append(packets, packet)
  OBVIOUS
<1>24. PICK ms : ms = Append(marks, next)
  OBVIOUS
<1>25. PICK all : all = bytes \o todo
  OBVIOUS
<1>26. /\ qs \in Seq(Seq(Bytes)) /\ Len(qs) = n + 1
       /\ \A i \in 1..n : qs[i] = packets[i]
  <2>1. Append(packets, packet) \in Seq(Seq(Bytes)) /\ Len(Append(packets, packet)) = Len(packets) + 1
        /\ \A i \in 1..Len(packets) : Append(packets, packet)[i] = packets[i]
    BY <1>3, Appended
  <2> QED
    BY <1>10, <1>23, <2>1
<1>27. /\ ms \in Seq(Mark) /\ ms[n + 2] = next /\ \A i \in 1..(n + 1) : ms[i] = marks[i]
  <2>1. Append(marks, next) \in Seq(Mark)
        /\ Append(marks, next)[Len(marks) + 1] = next
        /\ \A i \in 1..Len(marks) : Append(marks, next)[i] = marks[i]
    BY <1>20, Appended
  <2>2. Len(marks) + 1 = n + 2
    BY <1>4, <1>10
  <2> QED
    BY <1>10, <1>24, <2>1, <2>2
<1>28. all \in Seq(WireByte)
  BY <1>18, <1>25
<1>29. Log(sent', qs, ms, all)
  BY <1>1, <1>22, <1>23, <1>24, <1>25
<1>30. SenderAt(out', Len(sent'), ms)
  <2>1. (n + 1) + 1 = n + 2 /\ n + 1 >= 1 /\ (n + 1) - 1 = n
    BY <1>4
  <2>2. out'.position = next.at
    BY <1>3, <1>12, <1>13, <1>20
  <2>3. ms[n + 1] = m
    BY <1>4, <1>11, <1>27
  <2>4. SenderAt(out', n + 1, ms)
    BY <1>3, <1>13, <1>15, <1>18, <1>27, <2>1, <2>2, <2>3 DEF SenderAt
  <2> QED
    BY <1>5, <2>4
<1>31. ms[j] = marks[j]
  BY <1>4, <1>27
<1>32. ReceiverAt(in, Len(got), qs, ms, altered = 0)
  <2>1. ReceiverAt(in, Len(got), packets, marks, altered = 0)
    BY <1>8 DEF StreamAs
  <2>2. /\ Len(got) < Len(packets) => Len(got) < Len(qs) /\ qs[Len(got) + 1] = packets[Len(got) + 1]
    <3>1. Len(got) < n => Len(got) + 1 \in 1..n /\ Len(got) < n + 1
      BY <1>4
    <3> QED
      BY <1>10, <1>26, <3>1
  <2> QED
    BY <1>31, <2>1, <2>2 DEF ReceiverAt
<1>33. Flows(in, wire, todo, TRUE, all, marks[j].start, altered = 0)
  <2>1. Flows(in, wire, <<>>, TRUE, bytes, marks[j].start, altered = 0)
    BY <1>1, <1>8 DEF StreamAs
  <2>2. marks[j].start \in Nat
    BY <1>4, <1>9, MarkFacts
  <2> QED
    BY <1>18, <1>25, <2>1, <2>2, FlowsLonger
<1>34. StreamAs(qs, ms, all)'
  <2>1. (tcp' = "up") = TRUE
    BY <1>1
  <2> QED
    BY <1>1, <1>15, <1>29, <1>30, <1>31, <1>32, <1>33, <2>1 DEF StreamAs
<1> QED
  BY <1>26, <1>27, <1>28, <1>34

LEMMA ThrowsKeeps ==
    ASSUME TypeInv, StreamInv, read_exact_throws
    PROVE  StreamInv'
<1>1. UNCHANGED <<sent, got>> /\ tcp' = "closed" /\ in'.status = "failed"
  BY TypeFacts DEF read_exact_throws, Receiver
<1> QED
  BY <1>1 DEF StreamInv, RefusedForCause

LEMMA SendThrowsKeeps ==
    ASSUME TypeInv, StreamInv, NEW payload \in Payloads, send_packet_throws(payload)
    PROVE  StreamInv'
<1>1. UNCHANGED <<sent, got, out, in, wire, altered>> /\ tcp' = "closed"
  BY DEF send_packet_throws
<1>2. SUFFICES ASSUME in.status = "up", NEW packets \in Seq(Seq(Bytes)),
                      NEW marks \in Seq(Mark), NEW bytes \in Seq(WireByte),
                      StreamAs(packets, marks, bytes)
               PROVE  StreamAs(packets, marks, bytes)'
  BY <1>1 DEF StreamInv, RefusedForCause
<1>3. (tcp' = "up") = FALSE
  BY <1>1
<1>4. Flows(in, wire, out.todo, FALSE, bytes, marks[Len(got) + 1].start, altered = 0)
  BY <1>2 DEF StreamAs, Flows
<1> QED
  BY <1>1, <1>2, <1>3, <1>4 DEF StreamAs

LEMMA StreamStep ==
    TypeInv /\ StreamInv /\ [TransportNext]_transportVars => StreamInv'
<1> SUFFICES ASSUME TypeInv, StreamInv, [TransportNext]_transportVars
             PROVE  StreamInv'
  OBVIOUS
<1>1. ASSUME NEW payload \in Payloads, send_packet(payload)
      PROVE  StreamInv'
  BY <1>1, SendsAligned, SendsKeeps DEF send_packet
<1>2. ASSUME NEW payload \in Payloads, send_packet_throws(payload)
      PROVE  StreamInv'
  BY <1>2, SendThrowsKeeps
<1>3. ASSUME NEW payload \in Payloads, PeerSends(payload)
      PROVE  StreamInv'
  BY <1>3, SendsAligned, SendsKeeps DEF PeerSends
<1>4. ASSUME NEW r \in 1..SOCKET_BUFFER, write_exact(r)
      PROVE  StreamInv'
  BY <1>4, WriteKeeps
<1>5. ASSUME NEW r \in 1..SOCKET_BUFFER, read_exact(r)
      PROVE  StreamInv'
  BY <1>5, ReadKeeps
<1>6. CASE read_exact_throws
  BY <1>6, ThrowsKeeps
<1>7. CASE LengthRead
  BY <1>7, LengthKeeps
<1>8. CASE BlockRead
  BY <1>8, BlockKeeps
<1>9. CASE RestRead
  BY <1>9, RestKeeps
<1>10. CASE BodyRead
  BY <1>10, BodyKeeps
<1>11. CASE MacRead
  BY <1>11, MacKeeps
<1>12. CASE Cut
  BY <1>12, CutKeeps
<1>13. ASSUME NEW i \in DOMAIN wire, NEW difference \in {1, aes_block_size},
              Alter(i, difference)
       PROVE  StreamInv'
  BY <1>13, AlterKeeps
<1>14. CASE UNCHANGED transportVars
  BY <1>14 DEF StreamInv, RefusedForCause, StreamAs, transportVars
<1> QED
  BY <1>1, <1>2, <1>3, <1>4, <1>5, <1>6, <1>7, <1>8, <1>9, <1>10, <1>11, <1>12,
     <1>13, <1>14 DEF TransportNext, Writing, Reading

-------------------------------------------------------------------------------
(***************************************************************************)
(* In every run of Transport, whatever the sizes of packets, blocks, MACs  *)
(* and the kernel's buffer: the receiver's state has its shape, and there  *)
(* is one stream of packets that the sender has written up to a place and  *)
(* the receiver read up to another, of which what the receiver has is the  *)
(* part it should have (transport.cpp, socket.cpp).                        *)
(***************************************************************************)
THEOREM TransportInductive == TransportSpec => [](TypeInv /\ StreamInv)
<1>1. TransportInit => TypeInv /\ StreamInv
  BY TypeInit, StreamInit
<1>2. TypeInv /\ StreamInv /\ [TransportNext]_transportVars
        => (TypeInv /\ StreamInv)'
  BY TypeStep, StreamStep
<1> QED
  BY <1>1, <1>2, PTL DEF TransportSpec

(***************************************************************************)
(* Every member of Transport and every byte in the kernel has its type,    *)
(* whatever the network does (transport.hpp:36-66).                        *)
(***************************************************************************)
THEOREM TransportTypes == TransportSpec => []TransportTypeOK
<1>1. TypeInv => TransportTypeOK
  BY DEF TypeInv
<1> QED
  BY <1>1, TransportInductive, PTL

(***************************************************************************)
(* No read waits for more than a packet of the largest size, although the  *)
(* length is used before the packet is authenticated                       *)
(* (transport.cpp:75-79, 101-105).                                         *)
(***************************************************************************)
THEOREM LengthIsBounded == TransportSpec => []LengthBounded
<1>1. TypeInv => LengthBounded
  BY DEF TypeInv
<1> QED
  BY <1>1, TransportInductive, PTL

(***************************************************************************)
(* receive_packet throws only if the connection was lost or a byte altered *)
(* on the way: no packet of a sender that keeps to the format, whatever    *)
(* its payload and however it comes, fails a check (transport.cpp:39-66).  *)
(***************************************************************************)
THEOREM RefusedOnlyForCause == TransportSpec => []RefusedForCause
<1>1. StreamInv => RefusedForCause
  BY DEF StreamInv
<1> QED
  BY <1>1, TransportInductive, PTL

LEMMA InStep ==
    ASSUME TypeInv, StreamInv
    PROVE  EndsInStep
<1> DEFINE n == Len(sent)
           j == Len(got) + 1
<1> USE TypeFacts
<1>1. SUFFICES ASSUME out.todo = <<>>, wire = <<>>, in.buffer = <<>>,
                      in.stage = FirstRead(in.active).stage,
                      in.status = "up", tcp = "up"
               PROVE  /\ in.active = out.active /\ in.sequence = out.sequence
                      /\ in.position = out.position
  BY DEF EndsInStep
<1>2. PICK packets \in Seq(Seq(Bytes)), marks \in Seq(Mark), bytes \in Seq(WireByte) :
         StreamAs(packets, marks, bytes)
  BY <1>1 DEF StreamInv
<1>3. in.packet = <<>>
  BY <1>1 DEF TypeInv, StageShape, FirstRead
<1>4. Log(sent, packets, marks, bytes)
  BY <1>2 DEF StreamAs
<1>5. n \in Nat /\ Len(got) \in Nat /\ j \in 1..(n + 1) /\ n + 1 \in 1..(n + 1)
  BY GotFacts
<1>6. marks[j].start \in Nat /\ marks[j].at \in Nat /\ marks[n + 1].start \in Nat
  BY <1>4, <1>5, MarkFacts
\* Everything written has been read.
<1>7. marks[j].start = Len(bytes)
  <2>1. Ends(<<>>, bytes, marks[j].start + Len(<<>>) + Len(<<>>) + Len(<<>>))
    BY <1>1, <1>2, <1>3 DEF StreamAs, Flows
  <2>2. Len(<<>>) = 0 /\ marks[j].start + 0 + 0 + 0 = marks[j].start
    BY <1>6, SMTT(30)
  <2>3. marks[j].start + Len(<<>>) = Len(bytes)
    BY <2>1, <2>2 DEF Ends
  <2> QED
    BY <1>6, <2>2, <2>3
\* So the packet the receiver waits for is the one the sender would send.
<1>8. j = n + 1
  <2>1. marks[n + 1].start = Len(bytes)
    BY <1>4 DEF Log
  <2>2. \A a, b \in 1..(n + 1) : a < b => marks[a].start < marks[b].start
    BY <1>4 DEF Log
  <2>3. j < n + 1 => marks[j].start < marks[n + 1].start
    BY <1>5, <2>2
  <2>4. ~(j < n + 1)
    BY <1>6, <1>7, <2>1, <2>3
  <2> QED
    BY <1>5, <2>4
<1>9. Len(got) = n
  BY <1>5, <1>8
<1>10. in.active = marks[j].active /\ in.sequence = Number(Len(got))
       /\ in.position = marks[j].at + (IF in.active THEN Len(in.packet) ELSE 0)
  BY <1>2 DEF StreamAs, ReceiverAt
<1>11. /\ out.position = marks[n + 1].at /\ out.active = marks[n + 1].active
       /\ out.sequence = Number(n)
  BY <1>1, <1>2 DEF StreamAs, SenderAt
<1>12. in.position = marks[j].at
  <2>1. Len(in.packet) = 0
    BY <1>3
  <2> QED
    BY <1>6, <1>10, <2>1
<1> QED
  BY <1>8, <1>9, <1>10, <1>11, <1>12

(***************************************************************************)
(* Whenever nothing is under way, sender and receiver have the same keys,  *)
(* packet number and place in the key stream, for any number of packets,   *)
(* wherever NEWKEYS comes among them and wherever the numbers wrap         *)
(* (transport.cpp:138, 221).                                               *)
(***************************************************************************)
THEOREM EndsStayInStep == TransportSpec => []EndsInStep
<1>1. TypeInv /\ StreamInv => EndsInStep
  BY InStep
<1> QED
  BY <1>1, TransportInductive, PTL

-------------------------------------------------------------------------------
(***************************************************************************)
(* Refinement: a send is a Send, the end of receive_packet a Deliver, an   *)
(* exception in it a Fail, and everything else a stutter.                  *)
(***************************************************************************)
LEMMA QuietSteps ==
    ASSUME TypeInv, UNCHANGED <<sent, got>>, in'.status = in.status
    PROVE  UNCHANGED Stream!streamVars
BY DEF Stream!streamVars

LEMMA FailingSteps ==
    ASSUME TypeInv, in.status = "up", Throws \/ read_exact_throws,
           UNCHANGED sent
    PROVE  Stream!Fail
<1>1. in' = [in EXCEPT !.status = "failed"] /\ UNCHANGED got
  BY DEF Throws, read_exact_throws
<1>2. in'.status = "failed"
  BY <1>1, TypeFacts DEF Receiver
<1> QED
  BY <1>1, <1>2 DEF Stream!Fail

LEMMA StreamImplemented ==
    TypeInv /\ StreamInv /\ [TransportNext]_transportVars
      => [Stream!StreamNext]_(Stream!streamVars)
<1> SUFFICES ASSUME TypeInv, StreamInv, [TransportNext]_transportVars
             PROVE  Stream!StreamNext \/ UNCHANGED Stream!streamVars
  OBVIOUS
<1> USE TypeFacts
<1>1. ASSUME NEW payload \in Payloads, NEW p, Sends(payload, p)
      PROVE  Stream!StreamNext
  <2>1. sent' = Append(sent, payload) /\ UNCHANGED <<got, in>>
    BY <1>1 DEF Sends
  <2> QED
    BY <2>1 DEF Stream!StreamNext, Stream!Send
<1>2. ASSUME NEW payload \in Payloads, send_packet(payload) \/ PeerSends(payload)
      PROVE  Stream!StreamNext
  BY <1>1, <1>2 DEF send_packet, PeerSends
<1>3. ASSUME NEW payload \in Payloads, send_packet_throws(payload)
      PROVE  UNCHANGED Stream!streamVars
  BY <1>3, QuietSteps DEF send_packet_throws
<1>4. ASSUME NEW r \in 1..SOCKET_BUFFER, write_exact(r)
      PROVE  UNCHANGED Stream!streamVars
  BY <1>4, QuietSteps DEF write_exact
<1>5. ASSUME NEW r \in 1..SOCKET_BUFFER, read_exact(r)
      PROVE  UNCHANGED Stream!streamVars
  <2>1. in' = [in EXCEPT !.buffer = @ \o SubSeq(wire, 1, r)] /\ UNCHANGED <<sent, got>>
    BY <1>5 DEF read_exact
  <2>2. in'.status = in.status
    BY <2>1 DEF Receiver
  <2> QED
    BY <2>1, <2>2, QuietSteps
<1>6. CASE read_exact_throws
  <2>1. in.status = "up" /\ UNCHANGED sent
    BY <1>6 DEF read_exact_throws, Receiving
  <2> QED
    BY <1>6, <2>1, FailingSteps DEF Stream!StreamNext
<1>7. CASE LengthRead
  <2>1. in.status = "up" /\ UNCHANGED sent
    BY <1>7 DEF LengthRead, ReadDone
  <2>2. CASE Throws
    BY <2>1, <2>2, FailingSteps DEF Stream!StreamNext
  <2>3. CASE ~Throws
    <3>1. PICK n, q : in' = [Reads(in, "body", n) EXCEPT !.packet = q] /\ UNCHANGED got
      BY <1>7, <2>3 DEF LengthRead
    <3>2. in'.status = in.status
      BY <3>1 DEF Reads, Receiver
    <3> QED
      BY <2>1, <3>1, <3>2, QuietSteps
  <2> QED
    BY <2>2, <2>3
<1>8. CASE BlockRead
  <2>1. in.status = "up" /\ UNCHANGED sent
    BY <1>8 DEF BlockRead, ReadDone
  <2>2. CASE Throws
    BY <2>1, <2>2, FailingSteps DEF Stream!StreamNext
  <2>3. CASE ~Throws
    <3>1. PICK n, q : /\ in' = [Reads(in, "rest", n)
                                  EXCEPT !.packet = q, !.position = @ + aes_block_size]
                      /\ UNCHANGED got
      BY <1>8, <2>3 DEF BlockRead
    <3>2. in'.status = in.status
      BY <3>1 DEF Reads, Receiver
    <3> QED
      BY <2>1, <3>1, <3>2, QuietSteps
  <2> QED
    BY <2>2, <2>3
<1>9. CASE RestRead
  <2>1. UNCHANGED <<sent, got>>
    BY <1>9 DEF RestRead, ReadDone
  <2>2. in'.status = in.status
    BY <1>9 DEF RestRead, Reads, Receiver
  <2> QED
    BY <2>1, <2>2, QuietSteps
<1>10. CASE BodyRead
  <2>1. in.status = "up" /\ UNCHANGED sent
    BY <1>10 DEF BodyRead, ReadDone
  <2>2. /\ Len(got) < Len(sent) /\ got' = Append(got, sent[Len(got) + 1])
        /\ in'.status = "up"
    BY <1>10, BodyKeeps
  <2> QED
    BY <2>1, <2>2 DEF Stream!StreamNext, Stream!Deliver
<1>11. CASE MacRead
  <2>1. in.status = "up" /\ UNCHANGED sent
    BY <1>11 DEF MacRead, ReadDone
  <2>2. \/ /\ Len(got) < Len(sent) /\ in'.status = "up"
           /\ got' = Append(got, sent[Len(got) + 1])
        \/ in'.status = "failed" /\ got' = got
    BY <1>11, MacKeeps
  <2> QED
    BY <2>1, <2>2 DEF Stream!StreamNext, Stream!Deliver, Stream!Fail
<1>12. CASE Cut
  BY <1>12, QuietSteps DEF Cut
<1>13. ASSUME NEW i \in DOMAIN wire, NEW difference \in {1, aes_block_size},
              Alter(i, difference)
       PROVE  UNCHANGED Stream!streamVars
  BY <1>13, QuietSteps DEF Alter
<1>14. CASE UNCHANGED transportVars
  BY <1>14, QuietSteps DEF transportVars
<1> QED
  BY <1>2, <1>3, <1>4, <1>5, <1>6, <1>7, <1>8, <1>9, <1>10, <1>11, <1>12,
     <1>13, <1>14 DEF TransportNext, Writing, Reading

(***************************************************************************)
(* The bytes on the wire implement the stream of payloads that the rest of *)
(* the program is written for: what receive_packet returns is what was     *)
(* given to send_packet, in order and once each, however reads and writes  *)
(* are cut, wherever the connection ends and whichever protected bytes are *)
(* altered, and nothing after an exception (transport.hpp:22-26).          *)
(***************************************************************************)
THEOREM PacketsAreAStream == TransportSpec => ImplementsStream
<1>1. TransportInit => Stream!StreamInit
  BY DEF TransportInit, Stream!StreamInit
<1>2. TypeInv /\ StreamInv /\ [TransportNext]_transportVars
        => [Stream!StreamNext]_(Stream!streamVars)
  BY StreamImplemented
<1> QED
  BY <1>1, <1>2, TransportInductive, PTL DEF TransportSpec, ImplementsStream, Stream!StreamSpec

===============================================================================

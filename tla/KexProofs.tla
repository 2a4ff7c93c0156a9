------------------------------- MODULE KexProofs -------------------------------
(***************************************************************************)
(* Kex for every size of byte, key and message, every offer and secret and *)
(* any number of alterations: a client that accepts the signature has had  *)
(* the server's exchange and has the server's keys.                        *)
(***************************************************************************)
EXTENDS Kex, SequenceTheorems, WellFoundedInduction, TLAPS

-------------------------------------------------------------------------------
(***************************************************************************)
(* Induction, stated with a set so that its instances are first-order.     *)
(***************************************************************************)
LEMMA LeastNumber ==
    ASSUME NEW T \in SUBSET Nat, T # {}
    PROVE  \E n \in T : \A m \in T : n <= m
<1> DEFINE R == OpToRel(<, Nat)
<1>1. IsWellFoundedOn(R, Nat)
  BY NatLessThanWellFounded
<1>2. \A x, y \in Nat : x < y => <<x, y>> \in R
  BY DEF OpToRel
<1> HIDE DEF R
<1>3. PICK x \in T : \A y \in T : ~(<<y, x>> \in R)
  BY <1>1, WFMin
<1>4. \A y \in T : ~(y < x)
  BY <1>2, <1>3
<1> QED
  BY <1>4

LEMMA Induction ==
    ASSUME NEW S, 0 \in S, \A n \in Nat : n \in S => n + 1 \in S
    PROVE  \A n \in Nat : n \in S
<1> DEFINE T == Nat \ S
<1>1. SUFFICES ASSUME T # {} PROVE FALSE
  OBVIOUS
<1>2. PICK n \in T : \A m \in T : n <= m
  BY <1>1, LeastNumber
<1>3. n # 0 /\ n - 1 \in Nat /\ n - 1 \notin T
  BY <1>2
<1> QED
  BY <1>2, <1>3

\* A function on 0..N that is given by its first value and by how each
\* value follows from the one before.
Recursive(g, N, base, follows) ==
    g[0] = base /\ \A n \in 1..N : g[n] = follows[<<n, g[n - 1]>>]

LEMMA Recursion ==
    ASSUME NEW A, NEW N \in Nat, NEW base \in A,
           NEW follows \in [(1..N) \X A -> A]
    PROVE  \E g \in [0..N -> A] : Recursive(g, N, base, follows)
<1> USE DEF Recursive
<1> DEFINE Defined(k, g) ==
        g[0] = base /\ \A n \in 1..k : g[n] = follows[<<n, g[n - 1]>>]
           S == {k \in Nat : k <= N => \E g \in [0..k -> A] : Defined(k, g)}
<1>1. 0 \in S
  <2>1. [n \in 0..0 |-> base] \in [0..0 -> A]
    OBVIOUS
  <2>2. Defined(0, [n \in 0..0 |-> base])
    OBVIOUS
  <2> QED
    BY <2>1, <2>2
<1>2. ASSUME NEW k \in Nat, k \in S PROVE k + 1 \in S
  <2>1. SUFFICES ASSUME k + 1 <= N
                 PROVE  \E h \in [0..(k + 1) -> A] : Defined(k + 1, h)
    OBVIOUS
  <2>2. PICK g \in [0..k -> A] : Defined(k, g)
    BY <1>2, <2>1
  <2> DEFINE h == [n \in 0..(k + 1) |->
                     IF n <= k THEN g[n] ELSE follows[<<k + 1, g[k]>>]]
  <2>3. follows[<<k + 1, g[k]>>] \in A
    BY <2>1
  <2>4. h \in [0..(k + 1) -> A]
    BY <2>3
  <2>5. h[0] = base
    BY <2>2
  <2>6. ASSUME NEW n \in 1..(k + 1) PROVE h[n] = follows[<<n, h[n - 1]>>]
    <3>1. n - 1 \in 0..k /\ h[n - 1] = g[n - 1]
      OBVIOUS
    <3>2. CASE n = k + 1
      <4>1. h[n] = follows[<<k + 1, g[k]>>] /\ n - 1 = k
        BY <3>2
      <4> QED
        BY <3>1, <3>2, <4>1
    <3>3. CASE n # k + 1
      BY <2>2, <3>1, <3>3
    <3> QED
      BY <3>2, <3>3
  <2> QED
    BY <2>4, <2>5, <2>6
<1> HIDE DEF S
<1>3. N \in S
  BY <1>1, <1>2, Induction
<1> QED
  BY <1>3 DEF S

LEMMA RecursionType ==
    ASSUME NEW A, NEW N \in Nat, NEW g, g = [n \in 0..N |-> g[n]],
           g[0] \in A, \A n \in 1..N : g[n - 1] \in A => g[n] \in A
    PROVE  g \in [0..N -> A]
<1> DEFINE S == {n \in Nat : n <= N => g[n] \in A}
<1>1. 0 \in S
  OBVIOUS
<1>2. ASSUME NEW n \in Nat, n \in S PROVE n + 1 \in S
  <2>1. SUFFICES ASSUME n + 1 <= N PROVE g[n + 1] \in A
    OBVIOUS
  <2>2. n + 1 \in 1..N /\ (n + 1) - 1 = n /\ g[n] \in A
    BY <1>2, <2>1
  <2> QED
    BY <2>2
<1> HIDE DEF S
<1>3. \A n \in Nat : n \in S
  BY <1>1, <1>2, Induction
<1>4. \A n \in 0..N : g[n] \in A
  BY <1>3 DEF S
<1> QED
  BY <1>4

-------------------------------------------------------------------------------
(***************************************************************************)
(* Numbers.                                                                *)
(***************************************************************************)
LEMMA DivMod ==
    ASSUME NEW x \in Nat, NEW b \in Nat \ {0}
    PROVE  /\ x \div b \in Nat /\ x % b \in 0..(b - 1)
           /\ (x \div b) * b + (x % b) = x
OBVIOUS

LEMMA DivBound ==
    ASSUME NEW x \in Nat, NEW b \in Nat \ {0}, NEW m \in Nat, x < m * b
    PROVE  x \div b < m
OBVIOUS

LEMMA DivUnique ==
    ASSUME NEW q \in Nat, NEW b \in Nat \ {0}, NEW r \in 0..(b - 1)
    PROVE  (q * b + r) \div b = q /\ (q * b + r) % b = r
OBVIOUS

\* A number is read as it was written.
LEMMA EncodedDecoded ==
    ASSUME NEW value \in UInt32
    PROVE  LET e == encode_uint32(value)
           IN  e \in Seq(Bytes) /\ Len(e) = 4 /\ decode_uint32(e) = value
<1> DEFINE third == value \div BYTE
           second == third \div BYTE
           first == second \div BYTE
           e == encode_uint32(value)
<1>1. BYTE \in Nat \ {0} /\ BYTE * BYTE \in Nat /\ BYTE * BYTE * BYTE \in Nat
  BY EncodingAssumption
<1>2. value \in Nat /\ value < BYTE * BYTE * BYTE * BYTE
  BY EncodingAssumption DEF UInt32
<1>3. /\ third \in Nat /\ third < BYTE * BYTE * BYTE
      /\ third * BYTE + (value % BYTE) = value /\ value % BYTE \in Bytes
  BY <1>1, <1>2, DivMod, DivBound DEF Bytes
<1> HIDE DEF third
<1>4. /\ second \in Nat /\ second < BYTE * BYTE
      /\ second * BYTE + (third % BYTE) = third /\ third % BYTE \in Bytes
  BY <1>1, <1>3, DivMod, DivBound DEF Bytes
<1> HIDE DEF second
<1>5. /\ first \in Nat /\ first < BYTE
      /\ first * BYTE + (second % BYTE) = second /\ second % BYTE \in Bytes
  BY <1>1, <1>4, DivMod, DivBound DEF Bytes
<1> HIDE DEF first
<1>6. first % BYTE = first /\ first \in Bytes
  BY <1>1, <1>5 DEF Bytes
<1>7. e = <<first, second % BYTE, third % BYTE, value % BYTE>>
  BY <1>6 DEF encode_uint32, first, second, third
<1> HIDE DEF e
<1>8. e \in Seq(Bytes) /\ Len(e) = 4
  BY <1>3, <1>4, <1>5, <1>6, <1>7
<1>9. /\ e[1] = first /\ e[2] = second % BYTE
      /\ e[3] = third % BYTE /\ e[4] = value % BYTE
  BY <1>7
<1>10. decode_uint32(e) = value
  BY <1>3, <1>4, <1>5, <1>9 DEF decode_uint32
<1> QED
  BY <1>8, <1>10 DEF e

LEMMA Scaled ==
    ASSUME NEW x \in Nat, NEW m \in Nat, x < m, NEW b \in Nat \ {0},
           NEW r \in 0..(b - 1)
    PROVE  x * b + r \in Nat /\ x * b + r < m * b
<1>1. (x + 1) * b <= m * b
  <2>1. PICK k \in Nat : m = x + 1 + k
    <3>1. m - (x + 1) \in Nat /\ m = x + 1 + (m - (x + 1))
      OBVIOUS
    <3> QED
      BY <3>1
  <2>2. m * b = (x + 1) * b + k * b /\ k * b \in Nat /\ (x + 1) * b \in Nat
    BY <2>1
  <2> QED
    BY <2>2
<1>2. (x + 1) * b = x * b + b /\ x * b \in Nat /\ m * b \in Nat
  OBVIOUS
<1> QED
  BY <1>1, <1>2

\* Four bytes are written as they were read.
LEMMA DecodedEncoded ==
    ASSUME NEW s \in Seq(Bytes), Len(s) = 4
    PROVE  decode_uint32(s) \in UInt32 /\ encode_uint32(decode_uint32(s)) = s
<1> DEFINE a == s[1]
           b == s[2]
           c == s[3]
           d == s[4]
           second == a * BYTE + b
           third == second * BYTE + c
           value == third * BYTE + d
<1>1. BYTE \in Nat \ {0}
  BY EncodingAssumption
<1>2. /\ a \in 0..(BYTE - 1) /\ b \in 0..(BYTE - 1)
      /\ c \in 0..(BYTE - 1) /\ d \in 0..(BYTE - 1)
  <2>1. \A i \in 1..4 : s[i] \in Bytes
    BY ElementOfSeq
  <2>2. a \in Bytes /\ b \in Bytes /\ c \in Bytes /\ d \in Bytes
    BY <2>1
  <2> QED
    BY <2>2 DEF Bytes
<1>3. s = <<a, b, c, d>>
  OBVIOUS
<1> HIDE DEF a, b, c, d
<1>4. second \in Nat /\ second < BYTE * BYTE
  BY <1>1, <1>2, Scaled
<1>5. second \div BYTE = a /\ second % BYTE = b
  BY <1>1, <1>2, DivUnique
<1> HIDE DEF second
<1>6. third \in Nat /\ third < BYTE * BYTE * BYTE
  BY <1>1, <1>2, <1>4, Scaled
<1>7. third \div BYTE = second /\ third % BYTE = c
  BY <1>1, <1>2, <1>4, DivUnique
<1> HIDE DEF third
<1>8. value \in Nat /\ value < BYTE * BYTE * BYTE * BYTE
  BY <1>1, <1>2, <1>6, Scaled
<1>9. value \div BYTE = third /\ value % BYTE = d
  BY <1>1, <1>2, <1>6, DivUnique
<1>10. decode_uint32(s) = value
  BY DEF decode_uint32, value, third, second, a, b, c, d
<1> HIDE DEF value
<1>11. a % BYTE = a
  BY <1>1, <1>2
<1>12. encode_uint32(value) = <<a, b, c, d>>
  BY <1>5, <1>7, <1>9, <1>11 DEF encode_uint32
<1>13. value \in UInt32
  BY <1>1, <1>8 DEF UInt32
<1> QED
  BY <1>3, <1>10, <1>12, <1>13

-------------------------------------------------------------------------------
(***************************************************************************)
(* Sequences.                                                              *)
(***************************************************************************)
LEMMA Concatenated ==
    ASSUME NEW T, NEW s \in Seq(T), NEW t \in Seq(T)
    PROVE  LET r == s \o t
           IN  /\ r \in Seq(T) /\ Len(r) = Len(s) + Len(t)
               /\ \A i \in 1..Len(s) : r[i] = s[i]
               /\ \A i \in 1..Len(t) : r[Len(s) + i] = t[i]
<1> DEFINE r == s \o t
<1>1. /\ r \in Seq(T) /\ Len(r) = Len(s) + Len(t)
      /\ \A i \in 1..(Len(s) + Len(t)) :
            r[i] = IF i <= Len(s) THEN s[i] ELSE t[i - Len(s)]
  BY ConcatProperties
<1>2. Len(s) \in Nat /\ Len(t) \in Nat
  OBVIOUS
<1> HIDE DEF r
<1>3. \A i \in 1..Len(s) : r[i] = s[i]
  BY <1>1, <1>2
<1>4. \A i \in 1..Len(t) : r[Len(s) + i] = t[i]
  <2> TAKE i \in 1..Len(t)
  <2>1. Len(s) + i \in 1..(Len(s) + Len(t)) /\ ~(Len(s) + i <= Len(s))
        /\ (Len(s) + i) - Len(s) = i
    BY <1>2
  <2> QED
    BY <1>1, <2>1
<1> QED
  BY <1>1, <1>3, <1>4 DEF r

LEMMA Piece ==
    ASSUME NEW T, NEW s \in Seq(T), NEW m \in Nat, NEW n \in Nat,
           m <= n, n <= Len(s)
    PROVE  LET r == SubSeq(s, m + 1, n)
           IN  /\ r \in Seq(T) /\ Len(r) = n - m
               /\ \A i \in 1..(n - m) : r[i] = s[m + i]
<1> DEFINE r == SubSeq(s, m + 1, n)
<1>1. \A i \in (m + 1)..n : s[i] \in T
  OBVIOUS
<1>2. /\ r \in Seq(T) /\ Len(r) = IF m + 1 <= n THEN n - (m + 1) + 1 ELSE 0
      /\ \A i \in 1..(n - (m + 1) + 1) : r[i] = s[(m + 1) + i - 1]
  BY <1>1, SubSeqProperties
<1> HIDE DEF r
<1> QED
  BY <1>2 DEF r

LEMMA SameSequence ==
    ASSUME NEW T, NEW s \in Seq(T), NEW t \in Seq(T), Len(s) = Len(t),
           \A i \in 1..Len(s) : s[i] = t[i]
    PROVE  s = t
OBVIOUS

\* The part between what comes before and after it.
LEMMA Middle ==
    ASSUME NEW S, NEW p \in Seq(S), NEW m \in Seq(S), NEW r \in Seq(S)
    PROVE  /\ (p \o m) \o r \in Seq(S)
           /\ Len((p \o m) \o r) = Len(p) + Len(m) + Len(r)
           /\ SubSeq((p \o m) \o r, Len(p) + 1, Len(p) + Len(m)) = m
<1> DEFINE t == (p \o m) \o r
           c == SubSeq(t, Len(p) + 1, Len(p) + Len(m))
<1>1. /\ p \o m \in Seq(S) /\ Len(p \o m) = Len(p) + Len(m)
      /\ \A i \in 1..Len(m) : (p \o m)[Len(p) + i] = m[i]
  BY Concatenated
<1>2. /\ t \in Seq(S) /\ Len(t) = Len(p \o m) + Len(r)
      /\ \A i \in 1..Len(p \o m) : t[i] = (p \o m)[i]
  BY <1>1, Concatenated
<1>3. Len(p) \in Nat /\ Len(m) \in Nat /\ Len(r) \in Nat
  OBVIOUS
<1> HIDE DEF t
<1>4. Len(p) + Len(m) \in Nat /\ Len(p) <= Len(p) + Len(m)
      /\ Len(p) + Len(m) <= Len(t) /\ (Len(p) + Len(m)) - Len(p) = Len(m)
  BY <1>1, <1>2, <1>3
<1>5. /\ c \in Seq(S) /\ Len(c) = Len(m)
      /\ \A i \in 1..Len(m) : c[i] = t[Len(p) + i]
  BY <1>2, <1>3, <1>4, Piece
<1>6. ASSUME NEW i \in 1..Len(m) PROVE c[i] = m[i]
  <2>1. Len(p) + i \in 1..Len(p \o m)
    BY <1>1, <1>3
  <2> QED
    BY <1>1, <1>2, <1>5, <2>1
<1> HIDE DEF c
<1>7. c = m
  BY <1>5, <1>6, SameSequence
<1> QED
  BY <1>1, <1>2, <1>3, <1>7 DEF t, c

\* A sequence in two parts.
LEMMA Halves ==
    ASSUME NEW S, NEW t \in Seq(S), NEW m \in 0..Len(t), NEW n \in m..Len(t)
    PROVE  SubSeq(t, 1, n) = SubSeq(t, 1, m) \o SubSeq(t, m + 1, n)
<1> DEFINE a == SubSeq(t, 1, m)
           b == SubSeq(t, m + 1, n)
           c == SubSeq(t, 1, n)
<1>1. m \in Nat /\ n \in Nat /\ Len(t) \in Nat /\ m <= n /\ n <= Len(t)
      /\ m <= Len(t)
  OBVIOUS
<1>2. a \in Seq(S) /\ Len(a) = m /\ \A i \in 1..m : a[i] = t[i]
  BY <1>1, Piece
<1>3. b \in Seq(S) /\ Len(b) = n - m /\ \A i \in 1..(n - m) : b[i] = t[m + i]
  BY <1>1, Piece
<1>4. c \in Seq(S) /\ Len(c) = n /\ \A i \in 1..n : c[i] = t[i]
  BY <1>1, Piece
<1> HIDE DEF a, b, c
<1>5. /\ a \o b \in Seq(S) /\ Len(a \o b) = Len(a) + Len(b)
      /\ \A i \in 1..Len(a) : (a \o b)[i] = a[i]
      /\ \A i \in 1..Len(b) : (a \o b)[Len(a) + i] = b[i]
  BY <1>2, <1>3, Concatenated
<1>6. Len(a \o b) = Len(c)
  BY <1>1, <1>2, <1>3, <1>4, <1>5
<1>7. ASSUME NEW i \in 1..Len(c) PROVE c[i] = (a \o b)[i]
  <2>1. CASE i <= m
    <3>1. i \in 1..m /\ i \in 1..n
      BY <1>1, <1>4, <2>1
    <3> QED
      BY <1>2, <1>4, <1>5, <3>1
  <2>2. CASE ~(i <= m)
    <3>1. i - m \in 1..(n - m) /\ m + (i - m) = i /\ i \in 1..n
      BY <1>1, <1>4, <2>2
    <3>2. b[i - m] = t[i] /\ (a \o b)[i] = b[i - m]
      BY <1>2, <1>3, <1>5, <3>1
    <3> QED
      BY <1>4, <3>1, <3>2
  <2> QED
    BY <2>1, <2>2
<1>8. c = a \o b
  BY <1>4, <1>5, <1>6, <1>7, SameSequence
<1> QED
  BY <1>8 DEF a, b, c

-------------------------------------------------------------------------------
(***************************************************************************)
(* Strings.  What append_string has written read_string finds, wherever it *)
(* stands; what read_string finds, append_string would write.              *)
(***************************************************************************)
Str == {v \in Seq(Bytes) : Len(v) \in UInt32}

LEMMA BytesJoined ==
    ASSUME NEW p \in Seq(Bytes), NEW q \in Seq(Bytes)
    PROVE  p \o q \in Seq(Bytes) /\ Len(p \o q) = Len(p) + Len(q)
BY Concatenated

LEMMA BytesConcatenated ==
    ASSUME NEW p \in Seq(Bytes), NEW q \in Seq(Bytes)
    PROVE  /\ p \o q \in Seq(Bytes) /\ Len(p \o q) = Len(p) + Len(q)
           /\ \A i \in 1..Len(p) : (p \o q)[i] = p[i]
           /\ \A i \in 1..Len(q) : (p \o q)[Len(p) + i] = q[i]
BY Concatenated

LEMMA BytesPiece ==
    ASSUME NEW t \in Seq(Bytes), NEW m \in Nat, NEW n \in Nat,
           m <= n, n <= Len(t)
    PROVE  /\ SubSeq(t, m + 1, n) \in Seq(Bytes)
           /\ Len(SubSeq(t, m + 1, n)) = n - m
           /\ \A i \in 1..(n - m) : SubSeq(t, m + 1, n)[i] = t[m + i]
BY Piece

LEMMA BytesPrefix ==
    ASSUME NEW t \in Seq(Bytes), NEW n \in Nat, n <= Len(t)
    PROVE  /\ SubSeq(t, 1, n) \in Seq(Bytes) /\ Len(SubSeq(t, 1, n)) = n
           /\ \A i \in 1..n : SubSeq(t, 1, n)[i] = t[i]
<1>1. 0 \in Nat /\ 0 <= n /\ 0 + 1 = 1 /\ n - 0 = n /\ \A i \in 1..n : 0 + i = i
  OBVIOUS
<1>2. /\ SubSeq(t, 0 + 1, n) \in Seq(Bytes) /\ Len(SubSeq(t, 0 + 1, n)) = n - 0
      /\ \A i \in 1..(n - 0) : SubSeq(t, 0 + 1, n)[i] = t[0 + i]
  BY <1>1, BytesPiece, Zenon
<1> QED
  BY <1>1, <1>2

LEMMA OneByte ==
    ASSUME NEW p \in Seq(Bytes), Len(p) = 1
    PROVE  p = <<p[1]>>
OBVIOUS

LEMMA BytesRegrouped ==
    ASSUME NEW p \in Seq(Bytes), NEW q \in Seq(Bytes), NEW r \in Seq(Bytes)
    PROVE  (p \o q) \o r = p \o (q \o r)
BY ConcatAssociative

LEMMA BytesBetween ==
    ASSUME NEW p \in Seq(Bytes), NEW m \in Seq(Bytes), NEW r \in Seq(Bytes)
    PROVE  SubSeq((p \o m) \o r, Len(p) + 1, Len(p) + Len(m)) = m
BY Middle

LEMMA LengthFits ==
    ASSUME NEW n \in UInt32
    PROVE  n \in Nat /\ \A m \in 0..n : m \in UInt32
BY EncodingAssumption DEF UInt32

LEMMA StringIs ==
    ASSUME NEW v \in Str
    PROVE  /\ String(v) \in Seq(Bytes) /\ Len(String(v)) = Len(v) + 4
           /\ encode_uint32(Len(v)) \in Seq(Bytes)
           /\ Len(encode_uint32(Len(v))) = 4
<1>1. v \in Seq(Bytes) /\ Len(v) \in UInt32
  BY DEF Str
<1>2. encode_uint32(Len(v)) \in Seq(Bytes) /\ Len(encode_uint32(Len(v))) = 4
  BY <1>1, EncodedDecoded
<1>3. /\ encode_uint32(Len(v)) \o v \in Seq(Bytes)
      /\ Len(encode_uint32(Len(v)) \o v) = Len(encode_uint32(Len(v))) + Len(v)
  BY <1>1, <1>2, BytesJoined, Zenon
<1>4. Len(encode_uint32(Len(v)) \o v) = Len(v) + 4
  BY <1>1, <1>2, <1>3
<1> QED
  BY <1>2, <1>3, <1>4, Zenon DEF String

LEMMA AppendedString ==
    ASSUME NEW d \in Seq(Bytes), NEW v \in Str
    PROVE  append_string(d, v) = d \o String(v)
<1>1. v \in Seq(Bytes) /\ encode_uint32(Len(v)) \in Seq(Bytes)
  BY StringIs DEF Str
<1> QED
  BY <1>1, BytesRegrouped DEF append_string, String

LEMMA StringFound ==
    ASSUME NEW p \in Seq(Bytes), NEW v \in Str, NEW r \in Seq(Bytes)
    PROVE  LET t == (p \o String(v)) \o r
           IN  /\ t \in Seq(Bytes)
               /\ after_string(t, Len(p)) = Len(p \o String(v))
               /\ read_string(t, Len(p)) = v
<1> DEFINE t == (p \o String(v)) \o r
           e == encode_uint32(Len(v))
<1>1. /\ v \in Seq(Bytes) /\ Len(v) \in UInt32 /\ Len(v) \in Nat
      /\ Len(p) \in Nat /\ Len(r) \in Nat
  BY DEF Str
<1>2. e \in Seq(Bytes) /\ Len(e) = 4 /\ decode_uint32(e) = Len(v)
  BY <1>1, EncodedDecoded
<1>3. String(v) \in Seq(Bytes) /\ Len(String(v)) = Len(v) + 4
  BY StringIs
<1>4. String(v) = e \o v
  BY DEF String
<1> HIDE DEF e
<1>5. p \o e \in Seq(Bytes) /\ Len(p \o e) = Len(p) + 4
  <2>1. p \o e \in Seq(Bytes) /\ Len(p \o e) = Len(p) + Len(e)
    BY <1>2, BytesJoined, Zenon
  <2> QED
    BY <1>2, <2>1
<1>6. p \o String(v) \in Seq(Bytes) /\ Len(p \o String(v)) = Len(p) + 4 + Len(v)
  <2>1. /\ p \o String(v) \in Seq(Bytes)
        /\ Len(p \o String(v)) = Len(p) + Len(String(v))
    BY <1>3, BytesJoined, Zenon
  <2> QED
    BY <1>1, <1>3, <2>1
<1>7. t \in Seq(Bytes) /\ Len(t) = Len(p) + 4 + Len(v) + Len(r)
  BY <1>6, BytesJoined
<1>8. p \o String(v) = (p \o e) \o v
  <2>1. (p \o e) \o v = p \o (e \o v)
    BY <1>1, <1>2, BytesRegrouped, Zenon
  <2> QED
    BY <1>4, <2>1, Zenon
<1>9. v \o r \in Seq(Bytes)
  BY <1>1, BytesJoined
<1>10. t = (p \o e) \o (v \o r)
  BY <1>1, <1>5, <1>8, BytesRegrouped
<1>11. SubSeq(t, Len(p) + 1, Len(p) + 4) = e
  <2>1. SubSeq((p \o e) \o (v \o r), Len(p) + 1, Len(p) + Len(e)) = e
    BY <1>2, <1>9, BytesBetween, Zenon
  <2> QED
    BY <1>2, <1>10, <2>1, Zenon
<1>12. SubSeq(t, Len(p) + 4 + 1, Len(p) + 4 + Len(v)) = v
  <2>1. t = ((p \o e) \o v) \o r
    BY <1>8
  <2> QED
    BY <1>1, <1>5, <2>1, BytesBetween
<1> HIDE DEF t
<1>13. read_uint32(t, Len(p)) = Len(v)
  BY <1>2, <1>11 DEF read_uint32, Slice, uint32_bytes
<1>14. read_string(t, Len(p)) = v
  BY <1>12, <1>13 DEF read_string, Slice, uint32_bytes
<1>15. /\ Remain(t, Len(p), 4) /\ Remain(t, Len(p) + 4, Len(v))
  BY <1>1, <1>7 DEF Remain, FAILED
<1>16. after_string(t, Len(p)) = Len(p) + 4 + Len(v)
  BY <1>13, <1>15 DEF after_string, uint32_bytes
<1> QED
  BY <1>6, <1>7, <1>14, <1>16 DEF t

LEMMA StringTaken ==
    ASSUME NEW t \in Seq(Bytes), NEW p \in Nat, after_string(t, p) # FAILED
    PROVE  LET e == after_string(t, p)
               v == read_string(t, p)
           IN  /\ e \in Nat /\ p + 4 <= e /\ e <= Len(t)
               /\ v \in Str /\ Len(v) = e - (p + 4)
               /\ SubSeq(t, 1, e) = SubSeq(t, 1, p) \o String(v)
<1> DEFINE n == read_uint32(t, p)
           c == SubSeq(t, p + 1, p + 4)
           v == read_string(t, p)
           e == p + 4 + n
<1>1. Remain(t, p, 4) /\ Remain(t, p + 4, n) /\ after_string(t, p) = e
  BY DEF after_string, uint32_bytes
<1>2. p + 4 <= Len(t) /\ Len(t) \in Nat
  BY <1>1 DEF Remain
<1>3. c \in Seq(Bytes) /\ Len(c) = 4
  BY <1>2, Piece
<1>4. n \in UInt32 /\ n \in Nat /\ encode_uint32(n) = c
  <2>1. n = decode_uint32(c)
    BY DEF read_uint32, Slice, uint32_bytes
  <2> QED
    BY <1>3, <2>1, DecodedEncoded, LengthFits
<1> HIDE DEF n, c
<1>5. e \in Nat /\ p + 4 <= e /\ e <= Len(t)
  BY <1>1, <1>2, <1>4 DEF Remain
<1>6. v = SubSeq(t, p + 4 + 1, e)
  BY DEF read_string, Slice, uint32_bytes, n
<1>7. v \in Seq(Bytes) /\ Len(v) = n
  <2>1. p + 4 \in Nat /\ e - (p + 4) = n
    BY <1>4
  <2>2. /\ SubSeq(t, (p + 4) + 1, e) \in Seq(Bytes)
        /\ Len(SubSeq(t, (p + 4) + 1, e)) = e - (p + 4)
    BY <1>5, <2>1, BytesPiece, Zenon
  <2> QED
    BY <1>6, <2>1, <2>2
<1> HIDE DEF v
<1>8. SubSeq(t, 1, p + 4) = SubSeq(t, 1, p) \o c
  BY <1>2, Halves DEF c
<1>9. SubSeq(t, 1, e) = SubSeq(t, 1, p + 4) \o v
  BY <1>2, <1>5, <1>6, Halves
<1>10. SubSeq(t, 1, p) \in Seq(Bytes)
  BY <1>2, Piece
<1>11. SubSeq(t, 1, e) = SubSeq(t, 1, p) \o String(v)
  <2>1. SubSeq(t, 1, e) = (SubSeq(t, 1, p) \o c) \o v
    BY <1>8, <1>9
  <2>2. SubSeq(t, 1, e) = SubSeq(t, 1, p) \o (c \o v)
    BY <1>3, <1>7, <1>10, <2>1, BytesRegrouped
  <2> QED
    BY <1>4, <1>7, <2>2 DEF String
<1>12. v \in Str /\ Len(v) = e - (p + 4)
  BY <1>2, <1>4, <1>7 DEF Str
<1> QED
  BY <1>1, <1>5, <1>11, <1>12 DEF v

-------------------------------------------------------------------------------
(***************************************************************************)
(* The multiple precision integer: the client's loop and the definition    *)
(* of the fewest bytes agree.                                              *)
(***************************************************************************)
LeadingZeros(value, n) ==
    /\ \A i \in 1..n : value[i] = 0
    /\ n = Len(value) \/ value[n + 1] # 0

Zeros(value) == CHOOSE n \in 0..Len(value) : LeadingZeros(value, n)

Magnitude(value) == SubSeq(value, Zeros(value) + 1, Len(value))

Number(value) ==
    IF Magnitude(value) # <<>> /\ SignBit(Magnitude(value)[1])
    THEN <<0>> \o Magnitude(value) ELSE Magnitude(value)

LEMMA ZerosIs ==
    ASSUME NEW value \in Seq(Bytes)
    PROVE  Zeros(value) \in 0..Len(value) /\ LeadingZeros(value, Zeros(value))
<1> DEFINE S == {i \in 1..Len(value) : value[i] # 0}
<1>1. \E n \in 0..Len(value) : LeadingZeros(value, n)
  <2>1. CASE S = {}
    <3>1. LeadingZeros(value, Len(value)) /\ Len(value) \in 0..Len(value)
      BY <2>1 DEF LeadingZeros
    <3> QED
      BY <3>1
  <2>2. CASE S # {}
    <3>1. S \in SUBSET Nat
      OBVIOUS
    <3>2. PICK k \in S : \A m \in S : k <= m
      BY <2>2, <3>1, LeastNumber
    <3>3. k - 1 \in 0..Len(value) /\ (k - 1) + 1 = k /\ value[k] # 0
      OBVIOUS
    <3>4. \A i \in 1..(k - 1) : value[i] = 0
      BY <3>2
    <3> QED
      BY <3>3, <3>4 DEF LeadingZeros
  <2> QED
    BY <2>1, <2>2
<1> QED
  BY <1>1, Zenon DEF Zeros

LEMMA AppendedNumber ==
    ASSUME NEW d, NEW value
    PROVE  append_positive_mpint(d, value) = append_string(d, Number(value))
BY DEF append_positive_mpint, Number, Magnitude, Zeros, LeadingZeros

LEMMA MagnitudeIs ==
    ASSUME NEW value \in Seq(Bytes)
    PROVE  LET z == Zeros(value)
               m == Magnitude(value)
           IN  /\ z \in Nat /\ z <= Len(value) /\ Len(value) \in Nat
               /\ m \in Seq(Bytes) /\ Len(m) = Len(value) - z
               /\ \A i \in 1..(Len(value) - z) : m[i] = value[z + i]
               /\ m # <<>> <=> z < Len(value)
<1> DEFINE z == Zeros(value)
           m == Magnitude(value)
<1>1. z \in Nat /\ z <= Len(value) /\ Len(value) \in Nat
  BY ZerosIs
<1>2. m = SubSeq(value, z + 1, Len(value))
  BY DEF Magnitude
<1> HIDE DEF z, m
<1>3. /\ m \in Seq(Bytes) /\ Len(m) = Len(value) - z
      /\ \A i \in 1..(Len(value) - z) : m[i] = value[z + i]
  BY <1>1, <1>2, Piece
<1>4. m # <<>> <=> z < Len(value)
  BY <1>1, <1>3
<1> QED
  BY <1>1, <1>3, <1>4 DEF z, m

LEMMA ZeroByte == 0 \in Bytes /\ ~SignBit(0) /\ <<0>> \in Seq(Bytes)
<1>1. BYTE \in Nat /\ BYTE >= 2
  BY EncodingAssumption
<1>2. BYTE \div 2 >= 1
  BY <1>1
<1>3. 0 \in Bytes
  BY <1>1 DEF Bytes
<1> QED
  BY <1>1, <1>2, <1>3 DEF SignBit

LEMMA NumberIs ==
    ASSUME NEW value \in [1..length_of_key -> Bytes]
    PROVE  Number(value) \in Str
<1> DEFINE m == Magnitude(value)
<1>1. length_of_key \in Nat
  BY KexAssumption
<1>2. value \in Seq(Bytes) /\ Len(value) = length_of_key
  BY <1>1
<1>3. m \in Seq(Bytes) /\ Len(m) \in Nat /\ Len(m) <= length_of_key
  BY <1>1, <1>2, MagnitudeIs
<1> HIDE DEF m
<1>4. <<0>> \o m \in Seq(Bytes) /\ Len(<<0>> \o m) = 1 + Len(m)
  BY <1>3, ZeroByte, BytesJoined
<1>5. \A n \in 0..(length_of_key + 1) : n \in UInt32
  BY SizesAssumption, LengthFits
<1>6. m \in Str /\ <<0>> \o m \in Str
  BY <1>1, <1>3, <1>4, <1>5 DEF Str
<1> QED
  BY <1>6 DEF Number, m

LEMMA ZeroBefore ==
    ASSUME NEW v \in Seq(Bytes)
    PROVE  LET d == <<0>> \o v
           IN  /\ d \in Seq(Bytes) /\ Len(d) = 1 + Len(v) /\ d[1] = 0
               /\ \A i \in 1..Len(v) : d[1 + i] = v[i]
<1> DEFINE d == <<0>> \o v
<1>1. /\ d \in Seq(Bytes) /\ Len(d) = Len(<<0>>) + Len(v)
      /\ \A i \in 1..Len(<<0>>) : d[i] = <<0>>[i]
      /\ \A i \in 1..Len(v) : d[Len(<<0>>) + i] = v[i]
  BY ZeroByte, Concatenated
<1>2. Len(<<0>>) = 1 /\ <<0>>[1] = 0
  OBVIOUS
<1> HIDE DEF d
<1> QED
  BY <1>1, <1>2 DEF d

LEMMA MpintIs ==
    ASSUME NEW value \in Seq(Bytes)
    PROVE  mpint(value) = Number(value)
<1> DEFINE z == Zeros(value)
           m == Magnitude(value)
           n == Len(value)
           padded == <<0>> \o value
           Clear(k) == /\ \A i \in 1..k : padded[i] = 0
                       /\ k = Len(padded) \/ ~SignBit(padded[k + 1])
           Most(k) == Clear(k) /\ \A j \in 0..Len(padded) : Clear(j) => j <= k
           most == CHOOSE k \in 0..Len(padded) : Most(k)
<1>1. /\ z \in Nat /\ z <= n /\ n \in Nat
      /\ m \in Seq(Bytes) /\ Len(m) = n - z
      /\ \A i \in 1..(n - z) : m[i] = value[z + i]
      /\ m # <<>> <=> z < n
  BY MagnitudeIs
<1>2. /\ \A i \in 1..z : value[i] = 0
      /\ z = n \/ value[z + 1] # 0
  BY ZerosIs DEF LeadingZeros
<1>3. Number(value) = IF m # <<>> /\ SignBit(m[1]) THEN <<0>> \o m ELSE m
  BY DEF Number
<1>4. mpint(value) = SubSeq(padded, most + 1, Len(padded))
  BY DEF mpint
<1>5. /\ padded \in Seq(Bytes) /\ Len(padded) = 1 + n
      /\ padded[1] = 0
      /\ \A i \in 1..n : padded[1 + i] = value[i]
  BY ZeroBefore
<1> HIDE DEF z, m, n, padded
<1>6. \A i \in 1..(z + 1) : padded[i] = 0
  <2> TAKE i \in 1..(z + 1)
  <2>1. CASE i = 1
    BY <1>5, <2>1
  <2>2. CASE i # 1
    <3>1. i - 1 \in 1..z /\ i - 1 \in 1..n /\ 1 + (i - 1) = i
      BY <1>1, <2>2
    <3> QED
      BY <1>2, <1>5, <3>1
  <2> QED
    BY <2>1, <2>2
<1>7. ASSUME NEW j \in 0..Len(padded), Clear(j) PROVE j <= z + 1
  <2>1. SUFFICES ASSUME j >= z + 2 PROVE FALSE
    BY <1>1
  <2>2. z < n /\ z + 1 \in 1..n /\ z + 2 \in 1..j /\ 1 + (z + 1) = z + 2
    BY <1>1, <1>5, <2>1
  <2>3. padded[z + 2] = 0 /\ padded[z + 2] = value[z + 1]
    BY <1>5, <1>7, <2>2
  <2>4. z # n
    BY <1>1, <2>2
  <2> QED
    BY <1>2, <2>3, <2>4
<1>8. CASE z < n /\ SignBit(m[1])
  <2>1. m[1] = value[z + 1] /\ padded[z + 2] = value[z + 1] /\ SignBit(padded[z + 2])
    BY <1>1, <1>5, <1>8
  <2>2. ~Clear(z + 1)
    BY <1>1, <1>5, <1>8, <2>1
  <2>3. Clear(z)
    BY <1>1, <1>6, ZeroByte
  <2>4. \A j \in 0..Len(padded) : Clear(j) => j <= z
    <3> TAKE j \in 0..Len(padded)
    <3> HAVE Clear(j)
    <3>1. j <= z + 1
      BY <1>7
    <3>2. j # z + 1
      BY <2>2
    <3> QED
      BY <1>1, <3>1, <3>2
  <2>5. z \in 0..Len(padded)
    BY <1>1, <1>5
  <2> HIDE DEF Clear
  <2>6. most = z
    <3>1. Most(z)
      BY <2>3, <2>4
    <3>2. most \in 0..Len(padded) /\ Most(most)
      BY <2>5, <3>1, Zenon
    <3>3. most <= z /\ z <= most
      BY <2>4, <2>5, <3>1, <3>2
    <3> QED
      BY <1>1, <3>2, <3>3
  <2> HIDE DEF most
  <2>7. <<0>> \o m = SubSeq(padded, z + 1, n + 1)
    <3> DEFINE c == SubSeq(padded, z + 1, n + 1)
               d == <<0>> \o m
    <3>1. /\ c \in Seq(Bytes) /\ Len(c) = (n + 1) - z
          /\ \A i \in 1..((n + 1) - z) : c[i] = padded[z + i]
      <4>1. n + 1 \in Nat /\ z <= n + 1 /\ n + 1 <= Len(padded)
        BY <1>1, <1>5
      <4> QED
        BY <1>1, <1>5, <4>1, Piece
    <3>2. /\ d \in Seq(Bytes) /\ Len(d) = 1 + Len(m) /\ d[1] = 0
          /\ \A i \in 1..Len(m) : d[1 + i] = m[i]
      BY <1>1, ZeroBefore
    <3> HIDE DEF c, d
    <3>4. Len(c) = Len(d)
      BY <1>1, <3>1, <3>2
    <3>5. ASSUME NEW i \in 1..Len(d) PROVE d[i] = c[i]
      <4>1. CASE i = 1
        <5>1. c[1] = padded[z + 1] /\ padded[z + 1] = 0
          BY <1>1, <1>6, <3>1
        <5>2. d[1] = 0
          BY <3>2
        <5> QED
          BY <4>1, <5>1, <5>2
      <4>2. CASE i # 1
        <5>1. /\ i - 1 \in 1..Len(m) /\ 1 + (i - 1) = i
              /\ i - 1 \in 1..(n - z) /\ z + (i - 1) \in 1..n
              /\ 1 + (z + (i - 1)) = z + i /\ i \in 1..((n + 1) - z)
          BY <1>1, <3>2, <4>2
        <5>2. d[i] = m[i - 1]
          BY <3>2, <5>1
        <5>3. m[i - 1] = value[z + (i - 1)] /\ padded[z + i] = value[z + (i - 1)]
          BY <1>1, <1>5, <5>1
        <5> QED
          BY <3>1, <5>1, <5>2, <5>3
      <4> QED
        BY <4>1, <4>2
    <3>6. d = c
      BY <3>1, <3>2, <3>4, <3>5, SameSequence
    <3> QED
      BY <3>6 DEF c, d
  <2>8. m # <<>> /\ Len(padded) = n + 1
    BY <1>1, <1>5, <1>8
  <2> QED
    BY <1>3, <1>4, <1>8, <2>6, <2>7, <2>8
<1>9. CASE ~(z < n /\ SignBit(m[1]))
  <2>1. z + 1 = Len(padded) \/ ~SignBit(padded[(z + 1) + 1])
    <3>1. CASE z = n
      BY <1>1, <1>5, <3>1
    <3>2. CASE z < n
      <4>1. z + 1 \in 1..n /\ 1 \in 1..(n - z) /\ 1 + (z + 1) = (z + 1) + 1
        BY <1>1, <3>2
      <4>2. m[1] = value[z + 1] /\ padded[(z + 1) + 1] = value[z + 1]
        BY <1>1, <1>5, <4>1
      <4> QED
        BY <1>9, <3>2, <4>2
    <3> QED
      BY <1>1, <3>1, <3>2
  <2>2. Clear(z + 1)
    BY <1>6, <2>1
  <2>3. \A j \in 0..Len(padded) : Clear(j) => j <= z + 1
    BY <1>7
  <2>4. z + 1 \in 0..Len(padded)
    BY <1>1, <1>5
  <2> HIDE DEF Clear
  <2>5. most = z + 1
    <3>1. Most(z + 1)
      BY <2>2, <2>3
    <3>2. most \in 0..Len(padded) /\ Most(most)
      BY <2>4, <3>1, Zenon
    <3>3. most <= z + 1 /\ z + 1 <= most
      BY <2>3, <2>4, <3>1, <3>2
    <3> QED
      BY <1>1, <3>2, <3>3
  <2> HIDE DEF most
  <2>6. m = SubSeq(padded, (z + 1) + 1, n + 1)
    <3> DEFINE c == SubSeq(padded, (z + 1) + 1, n + 1)
    <3>1. z + 1 \in Nat /\ n + 1 \in Nat /\ z + 1 <= n + 1 /\ n + 1 <= Len(padded)
          /\ (n + 1) - (z + 1) = n - z
      BY <1>1, <1>5
    <3>2. /\ c \in Seq(Bytes) /\ Len(c) = n - z
          /\ \A i \in 1..(n - z) : c[i] = padded[(z + 1) + i]
      <4>1. /\ c \in Seq(Bytes) /\ Len(c) = (n + 1) - (z + 1)
            /\ \A i \in 1..((n + 1) - (z + 1)) : c[i] = padded[(z + 1) + i]
        BY <1>5, <3>1, BytesPiece, Zenon
      <4> QED
        BY <3>1, <4>1
    <3> HIDE DEF c
    <3>3. ASSUME NEW i \in 1..Len(m) PROVE m[i] = c[i]
      <4>1. i \in 1..(n - z) /\ z + i \in 1..n /\ 1 + (z + i) = (z + 1) + i
        BY <1>1
      <4> QED
        BY <1>1, <1>5, <3>2, <4>1
    <3>4. m = c
      BY <1>1, <3>2, <3>3, SameSequence
    <3> QED
      BY <3>4 DEF c
  <2>7. Number(value) = m /\ Len(padded) = n + 1
    BY <1>1, <1>3, <1>5, <1>9
  <2> QED
    BY <1>4, <2>5, <2>6, <2>7
<1> QED
  BY <1>8, <1>9

-------------------------------------------------------------------------------
(***************************************************************************)
(* The exchange hash: the length before each string leaves one way to read *)
(* the eight of them.                                                      *)
(***************************************************************************)
Begins(t, p) == \E r \in Seq(Bytes) : t = p \o r

LEMMA BeginsItself ==
    ASSUME NEW t \in Seq(Bytes)
    PROVE  Begins(t, t)
<1>1. t \o <<>> = t /\ <<>> \in Seq(Bytes)
  OBVIOUS
<1> QED
  BY <1>1, Zenon DEF Begins

LEMMA BeginsShorter ==
    ASSUME NEW t, NEW p \in Seq(Bytes), NEW q \in Seq(Bytes), Begins(t, p \o q)
    PROVE  Begins(t, p)
<1>1. PICK r \in Seq(Bytes) : t = (p \o q) \o r
  BY Zenon DEF Begins
<1>2. q \o r \in Seq(Bytes)
  BY BytesJoined, Zenon
<1>3. (p \o q) \o r = p \o (q \o r)
  BY BytesRegrouped, Zenon
<1> QED
  BY <1>1, <1>2, <1>3, Zenon DEF Begins

LEMMA StringAt ==
    ASSUME NEW t, NEW p \in Seq(Bytes), NEW v \in Str, Begins(t, p \o String(v))
    PROVE  after_string(t, Len(p)) = Len(p \o String(v)) /\ read_string(t, Len(p)) = v
<1>1. PICK r \in Seq(Bytes) : t = (p \o String(v)) \o r
  BY Zenon DEF Begins
<1>2. /\ after_string((p \o String(v)) \o r, Len(p)) = Len(p \o String(v))
      /\ read_string((p \o String(v)) \o r, Len(p)) = v
  BY StringFound
<1> QED
  BY <1>1, <1>2, Zenon

LEMMA SameString ==
    ASSUME NEW t, NEW p \in Seq(Bytes), NEW v \in Str, NEW w \in Str,
           Begins(t, p \o String(v)), Begins(t, p \o String(w))
    PROVE  v = w
<1>1. read_string(t, Len(p)) = v
  BY StringAt, Zenon
<1>2. read_string(t, Len(p)) = w
  BY StringAt, Zenon
<1> QED
  BY <1>1, <1>2, Zenon

LEMMA WithString ==
    ASSUME NEW p \in Seq(Bytes), NEW v \in Str
    PROVE  p \o String(v) \in Seq(Bytes)
BY StringIs, BytesJoined

CompleteView ==
    [client_id : Str, server_id : Str, client_kexinit : Str,
     server_kexinit : Str, host_key : Str, client_key : Str, server_key : Str]

ExchangeHash(view, number) ==
    String(view.client_id) \o String(view.server_id)
      \o String(view.client_kexinit) \o String(view.server_kexinit)
      \o String(view.host_key) \o String(view.client_key)
      \o String(view.server_key) \o String(number)

\* The strings of a hash and the parts of it that end with each.
LEMMA HashParts ==
    ASSUME NEW v \in CompleteView, NEW number \in Str
    PROVE  LET t == ExchangeHash(v, number)
               p1 == String(v.client_id)
               p2 == p1 \o String(v.server_id)
               p3 == p2 \o String(v.client_kexinit)
               p4 == p3 \o String(v.server_kexinit)
               p5 == p4 \o String(v.host_key)
               p6 == p5 \o String(v.client_key)
               p7 == p6 \o String(v.server_key)
           IN  /\ p1 \in Seq(Bytes) /\ p2 \in Seq(Bytes) /\ p3 \in Seq(Bytes)
               /\ p4 \in Seq(Bytes) /\ p5 \in Seq(Bytes) /\ p6 \in Seq(Bytes)
               /\ p7 \in Seq(Bytes) /\ t \in Seq(Bytes)
               /\ t = p7 \o String(number)
               /\ Begins(t, p1) /\ Begins(t, p2) /\ Begins(t, p3)
               /\ Begins(t, p4) /\ Begins(t, p5) /\ Begins(t, p6)
               /\ Begins(t, p7) /\ Begins(t, t)
<1> DEFINE t == ExchangeHash(v, number)
           p1 == String(v.client_id)
           p2 == p1 \o String(v.server_id)
           p3 == p2 \o String(v.client_kexinit)
           p4 == p3 \o String(v.server_kexinit)
           p5 == p4 \o String(v.host_key)
           p6 == p5 \o String(v.client_key)
           p7 == p6 \o String(v.server_key)
<1>1. /\ v.client_id \in Str /\ v.server_id \in Str /\ v.client_kexinit \in Str
      /\ v.server_kexinit \in Str /\ v.host_key \in Str /\ v.client_key \in Str
      /\ v.server_key \in Str
  BY DEF CompleteView
<1>2. /\ String(v.server_id) \in Seq(Bytes) /\ String(v.client_kexinit) \in Seq(Bytes)
      /\ String(v.server_kexinit) \in Seq(Bytes) /\ String(v.host_key) \in Seq(Bytes)
      /\ String(v.client_key) \in Seq(Bytes) /\ String(v.server_key) \in Seq(Bytes)
      /\ String(number) \in Seq(Bytes) /\ p1 \in Seq(Bytes)
  BY <1>1, StringIs
<1>3. t = p7 \o String(number)
  BY DEF ExchangeHash
<1> HIDE DEF t, p1
<1>4. p2 \in Seq(Bytes)
  BY <1>2, BytesJoined
<1> HIDE DEF p2
<1>5. p3 \in Seq(Bytes)
  BY <1>2, <1>4, BytesJoined
<1> HIDE DEF p3
<1>6. p4 \in Seq(Bytes)
  BY <1>2, <1>5, BytesJoined
<1> HIDE DEF p4
<1>7. p5 \in Seq(Bytes)
  BY <1>2, <1>6, BytesJoined
<1> HIDE DEF p5
<1>8. p6 \in Seq(Bytes)
  BY <1>2, <1>7, BytesJoined
<1> HIDE DEF p6
<1>9. p7 \in Seq(Bytes)
  BY <1>2, <1>8, BytesJoined
<1> HIDE DEF p7
<1>10. t \in Seq(Bytes) /\ Begins(t, t)
  BY <1>2, <1>3, <1>9, BytesJoined, BeginsItself
<1>11. Begins(t, p7)
  BY <1>2, <1>3, <1>9, <1>10, BeginsShorter
<1>12. Begins(t, p6)
  BY <1>2, <1>8, <1>11, BeginsShorter DEF p7
<1>13. Begins(t, p5)
  BY <1>2, <1>7, <1>12, BeginsShorter DEF p6
<1>14. Begins(t, p4)
  BY <1>2, <1>6, <1>13, BeginsShorter DEF p5
<1>15. Begins(t, p3)
  BY <1>2, <1>5, <1>14, BeginsShorter DEF p4
<1>16. Begins(t, p2)
  BY <1>2, <1>4, <1>15, BeginsShorter DEF p3
<1>17. Begins(t, p1)
  BY <1>2, <1>16, BeginsShorter DEF p2
<1> QED
  BY <1>2, <1>3, <1>4, <1>5, <1>6, <1>7, <1>8, <1>9, <1>10, <1>11, <1>12, <1>13,
     <1>14, <1>15, <1>16, <1>17 DEF t, p1, p2, p3, p4, p5, p6, p7

LEMMA HashInjective ==
    ASSUME NEW v \in CompleteView, NEW w \in CompleteView,
           NEW m \in Str, NEW n \in Str,
           ExchangeHash(v, m) = ExchangeHash(w, n)
    PROVE  v = w /\ m = n
<1> DEFINE t == ExchangeHash(v, m)
           p1 == String(v.client_id)
           p2 == p1 \o String(v.server_id)
           p3 == p2 \o String(v.client_kexinit)
           p4 == p3 \o String(v.server_kexinit)
           p5 == p4 \o String(v.host_key)
           p6 == p5 \o String(v.client_key)
           p7 == p6 \o String(v.server_key)
           q1 == String(w.client_id)
           q2 == q1 \o String(w.server_id)
           q3 == q2 \o String(w.client_kexinit)
           q4 == q3 \o String(w.server_kexinit)
           q5 == q4 \o String(w.host_key)
           q6 == q5 \o String(w.client_key)
           q7 == q6 \o String(w.server_key)
<1>1. /\ v.client_id \in Str /\ v.server_id \in Str /\ v.client_kexinit \in Str
      /\ v.server_kexinit \in Str /\ v.host_key \in Str /\ v.client_key \in Str
      /\ v.server_key \in Str
      /\ w.client_id \in Str /\ w.server_id \in Str /\ w.client_kexinit \in Str
      /\ w.server_kexinit \in Str /\ w.host_key \in Str /\ w.client_key \in Str
      /\ w.server_key \in Str
  BY DEF CompleteView
<1>2. /\ p1 \in Seq(Bytes) /\ p2 \in Seq(Bytes) /\ p3 \in Seq(Bytes)
      /\ p4 \in Seq(Bytes) /\ p5 \in Seq(Bytes) /\ p6 \in Seq(Bytes)
      /\ p7 \in Seq(Bytes) /\ t = p7 \o String(m)
      /\ Begins(t, p1) /\ Begins(t, p2) /\ Begins(t, p3) /\ Begins(t, p4)
      /\ Begins(t, p5) /\ Begins(t, p6) /\ Begins(t, p7) /\ Begins(t, t)
  BY HashParts, Zenon
<1>3. /\ t = q7 \o String(n)
      /\ Begins(t, q1) /\ Begins(t, q2) /\ Begins(t, q3) /\ Begins(t, q4)
      /\ Begins(t, q5) /\ Begins(t, q6) /\ Begins(t, q7)
  BY HashParts, Zenon
<1> HIDE DEF t
<1>4. v.client_id = w.client_id
  <2>1. /\ <<>> \o String(v.client_id) = p1 /\ <<>> \o String(w.client_id) = q1
        /\ <<>> \in Seq(Bytes)
    BY <1>1, StringIs
  <2>2. Begins(t, <<>> \o String(v.client_id)) /\ Begins(t, <<>> \o String(w.client_id))
    BY <1>2, <1>3, <2>1, Zenon
  <2> QED
    BY <1>1, <2>1, <2>2, SameString, Zenon
<1>5. p1 = q1
  BY <1>4
<1> HIDE DEF p1, q1
<1>6. v.server_id = w.server_id
  <2>1. Begins(t, p1 \o String(v.server_id)) /\ Begins(t, p1 \o String(w.server_id))
    BY <1>2, <1>3, <1>5, Zenon
  <2> QED
    BY <1>1, <1>2, <2>1, SameString, Zenon
<1>7. p2 = q2
  BY <1>5, <1>6
<1> HIDE DEF p2, q2
<1>8. v.client_kexinit = w.client_kexinit
  <2>1. Begins(t, p2 \o String(v.client_kexinit)) /\ Begins(t, p2 \o String(w.client_kexinit))
    BY <1>2, <1>3, <1>7, Zenon
  <2> QED
    BY <1>1, <1>2, <2>1, SameString, Zenon
<1>9. p3 = q3
  BY <1>7, <1>8
<1> HIDE DEF p3, q3
<1>10. v.server_kexinit = w.server_kexinit
  <2>1. Begins(t, p3 \o String(v.server_kexinit)) /\ Begins(t, p3 \o String(w.server_kexinit))
    BY <1>2, <1>3, <1>9, Zenon
  <2> QED
    BY <1>1, <1>2, <2>1, SameString, Zenon
<1>11. p4 = q4
  BY <1>9, <1>10
<1> HIDE DEF p4, q4
<1>12. v.host_key = w.host_key
  <2>1. Begins(t, p4 \o String(v.host_key)) /\ Begins(t, p4 \o String(w.host_key))
    BY <1>2, <1>3, <1>11, Zenon
  <2> QED
    BY <1>1, <1>2, <2>1, SameString, Zenon
<1>13. p5 = q5
  BY <1>11, <1>12
<1> HIDE DEF p5, q5
<1>14. v.client_key = w.client_key
  <2>1. Begins(t, p5 \o String(v.client_key)) /\ Begins(t, p5 \o String(w.client_key))
    BY <1>2, <1>3, <1>13, Zenon
  <2> QED
    BY <1>1, <1>2, <2>1, SameString, Zenon
<1>15. p6 = q6
  BY <1>13, <1>14
<1> HIDE DEF p6, q6
<1>16. v.server_key = w.server_key
  <2>1. Begins(t, p6 \o String(v.server_key)) /\ Begins(t, p6 \o String(w.server_key))
    BY <1>2, <1>3, <1>15, Zenon
  <2> QED
    BY <1>1, <1>2, <2>1, SameString, Zenon
<1>17. p7 = q7
  BY <1>15, <1>16
<1> HIDE DEF p7, q7
<1>18. m = n
  <2>1. Begins(t, p7 \o String(m)) /\ Begins(t, p7 \o String(n))
    BY <1>2, <1>3, <1>17, Zenon
  <2> QED
    BY <1>2, <2>1, SameString, Zenon
<1> QED
  BY <1>4, <1>6, <1>8, <1>10, <1>12, <1>14, <1>16, <1>18 DEF CompleteView

LEMMA ServerHashIs ==
    ASSUME NEW v
    PROVE  ServerHash(v) = ExchangeHash(v, mpint(secret))
BY DEF ServerHash, ExchangeHash

LEMMA ClientHashIs ==
    ASSUME NEW v \in CompleteView, NEW s \in [1..length_of_key -> Bytes]
    PROVE  /\ calculate_exchange_hash(v, s) = ExchangeHash(v, Number(s))
           /\ calculate_exchange_hash(v, s) \in Seq(Bytes)
<1> DEFINE p1 == String(v.client_id)
           p2 == p1 \o String(v.server_id)
           p3 == p2 \o String(v.client_kexinit)
           p4 == p3 \o String(v.server_kexinit)
           p5 == p4 \o String(v.host_key)
           p6 == p5 \o String(v.client_key)
           p7 == p6 \o String(v.server_key)
           t == ExchangeHash(v, Number(s))
<1>1. /\ v.client_id \in Str /\ v.server_id \in Str /\ v.client_kexinit \in Str
      /\ v.server_kexinit \in Str /\ v.host_key \in Str /\ v.client_key \in Str
      /\ v.server_key \in Str /\ Number(s) \in Str
  BY NumberIs DEF CompleteView
<1>2. /\ p1 \in Seq(Bytes) /\ p2 \in Seq(Bytes) /\ p3 \in Seq(Bytes)
      /\ p4 \in Seq(Bytes) /\ p5 \in Seq(Bytes) /\ p6 \in Seq(Bytes)
      /\ p7 \in Seq(Bytes) /\ t \in Seq(Bytes) /\ t = p7 \o String(Number(s))
  BY <1>1, HashParts, Zenon
<1>3. append_string(<<>>, v.client_id) = p1
  <2>1. <<>> \in Seq(Bytes) /\ <<>> \o p1 = p1
    BY <1>2
  <2> QED
    BY <1>1, <2>1, AppendedString, Zenon
<1>4. append_string(p1, v.server_id) = p2
  BY <1>1, <1>2, AppendedString, Zenon
<1>5. append_string(p2, v.client_kexinit) = p3
  BY <1>1, <1>2, AppendedString, Zenon
<1>6. append_string(p3, v.server_kexinit) = p4
  BY <1>1, <1>2, AppendedString, Zenon
<1>7. append_string(p4, v.host_key) = p5
  BY <1>1, <1>2, AppendedString, Zenon
<1>8. append_string(p5, v.client_key) = p6
  BY <1>1, <1>2, AppendedString, Zenon
<1>9. append_string(p6, v.server_key) = p7
  BY <1>1, <1>2, AppendedString, Zenon
<1> HIDE DEF p1, p2, p3, p4, p5, p6, p7, t
<1>10. append_positive_mpint(p7, s) = t
  BY <1>1, <1>2, AppendedNumber, AppendedString, Zenon
<1>11. calculate_exchange_hash(v, s) = append_positive_mpint(p7, s)
  BY <1>3, <1>4, <1>5, <1>6, <1>7, <1>8, <1>9, Zenon DEF calculate_exchange_hash
<1> QED
  BY <1>2, <1>10, <1>11, Zenon DEF t

-------------------------------------------------------------------------------
(***************************************************************************)
(* The recursive functions: each is the function that its equation says.   *)
(***************************************************************************)
Position == Nat \cup {FAILED}

LEMMA AfterType ==
    ASSUME NEW t \in Seq(Bytes), NEW p \in Position
    PROVE  /\ after_string(t, p) \in Position
           /\ p = FAILED => after_string(t, p) = FAILED
<1>1. CASE p = FAILED
  BY <1>1 DEF after_string, Remain, Position
<1>2. CASE p \in Nat
  <2>1. CASE after_string(t, p) # FAILED
    BY <1>2, <2>1, StringTaken DEF Position, FAILED
  <2>2. CASE after_string(t, p) = FAILED
    BY <1>2, <2>2 DEF Position, FAILED
  <2> QED
    BY <2>1, <2>2
<1> QED
  BY <1>1, <1>2 DEF Position

LEMMA ListEndsIs ==
    ASSUME NEW t \in Seq(Bytes)
    PROVE  LET e == ListEnds(t)
           IN  /\ e \in [0..10 -> Position]
               /\ e[0] = 1 + cookie_bytes
               /\ \A n \in 1..10 : e[n] = after_string(t, e[n - 1])
<1> DEFINE follows == [x \in (1..10) \X Position |-> after_string(t, x[2])]
           Eq(g) == g = [n \in 0..10 |->
                          IF n = 0 THEN 1 + cookie_bytes
                          ELSE after_string(t, g[n - 1])]
           e == ListEnds(t)
<1>1. 1 + cookie_bytes \in Position
  BY KexAssumption DEF Position
<1>2. follows \in [(1..10) \X Position -> Position]
  BY AfterType
<1>3. PICK g \in [0..10 -> Position] : Recursive(g, 10, 1 + cookie_bytes, follows)
  <2> HIDE DEF follows
  <2>1. 10 \in Nat
    OBVIOUS
  <2> QED
    BY <1>1, <1>2, <2>1, Recursion, Zenon
<1>4. ASSUME NEW n \in 1..10 PROVE g[n] = after_string(t, g[n - 1])
  <2>1. <<n, g[n - 1]>> \in (1..10) \X Position
    OBVIOUS
  <2> QED
    BY <1>3, <2>1 DEF Recursive
<1> HIDE DEF follows
<1>5. Eq(g)
  BY <1>3, <1>4 DEF Recursive
<1>6. e = CHOOSE h : Eq(h)
  BY DEF ListEnds
<1>7. Eq(e)
  BY <1>5, <1>6, Zenon
<1>8. /\ e = [n \in 0..10 |-> e[n]] /\ e[0] = 1 + cookie_bytes
      /\ \A n \in 1..10 : e[n] = after_string(t, e[n - 1])
  BY <1>7
<1> HIDE DEF e
<1>9. \A n \in 1..10 : e[n - 1] \in Position => e[n] \in Position
  BY <1>8, AfterType
<1>10. e \in [0..10 -> Position]
  <2>1. ASSUME NEW N \in Nat, N = 10 PROVE e \in [0..N -> Position]
    <3>1. /\ e = [n \in 0..N |-> e[n]] /\ e[0] \in Position
          /\ \A n \in 1..N : e[n - 1] \in Position => e[n] \in Position
      BY <1>1, <1>8, <1>9, <2>1
    <3> QED
      BY <3>1, RecursionType
  <2> QED
    BY <2>1
<1> QED
  BY <1>8, <1>10 DEF e

LEMMA AppendedType ==
    ASSUME NEW d \in Seq(Bytes), NEW v \in Seq(Bytes)
    PROVE  append_string(d, v) \in Seq(Bytes) /\ Len(append_string(d, v)) = Len(d) + 4 + Len(v)
<1> DEFINE e == encode_uint32(Len(v))
<1>1. BYTE \in Nat \ {0} /\ Len(v) \in Nat /\ Len(d) \in Nat
  BY EncodingAssumption
<1>2. e \in Seq(Bytes) /\ Len(e) = 4
  <2> DEFINE third == Len(v) \div BYTE
             second == third \div BYTE
             first == second \div BYTE
  <2>1. third \in Nat /\ Len(v) % BYTE \in Bytes
    BY <1>1, DivMod DEF Bytes
  <2> HIDE DEF third
  <2>2. second \in Nat /\ third % BYTE \in Bytes
    BY <1>1, <2>1, DivMod DEF Bytes
  <2> HIDE DEF second
  <2>3. first \in Nat /\ second % BYTE \in Bytes
    BY <1>1, <2>2, DivMod DEF Bytes
  <2> HIDE DEF first
  <2>4. first % BYTE \in Bytes
    BY <1>1, <2>3, DivMod DEF Bytes
  <2>5. e = <<first % BYTE, second % BYTE, third % BYTE, Len(v) % BYTE>>
    BY DEF encode_uint32, first, second, third
  <2> QED
    BY <2>1, <2>2, <2>3, <2>4, <2>5
<1> HIDE DEF e
<1>3. d \o e \in Seq(Bytes) /\ Len(d \o e) = Len(d) + Len(e)
  BY <1>2, BytesJoined, Zenon
<1>4. (d \o e) \o v \in Seq(Bytes) /\ Len((d \o e) \o v) = Len(d \o e) + Len(v)
  BY <1>3, BytesJoined, Zenon
<1>5. append_string(d, v) = (d \o e) \o v
  BY DEF append_string, e
<1>6. Len((d \o e) \o v) = Len(d) + 4 + Len(v)
  BY <1>1, <1>2, <1>3, <1>4
<1> QED
  BY <1>4, <1>5, <1>6, Zenon

\* A KEXINIT up to each of its lists.
Written(cookie, lists) ==
    LET written[n \in 0..10] ==
            IF n = 0 THEN <<KEXINIT>> \o cookie
            ELSE append_name_list(written[n - 1], lists[n])
    IN  written

LEMMA WrittenIs ==
    ASSUME NEW cookie \in Seq(Bytes), NEW lists \in [Lists -> Seq(Bytes)]
    PROVE  LET w == Written(cookie, lists)
           IN  /\ w \in [0..10 -> Seq(Bytes)]
               /\ w[0] = <<KEXINIT>> \o cookie
               /\ \A n \in 1..10 : w[n] = append_string(w[n - 1], lists[n])
<1> DEFINE first == <<KEXINIT>> \o cookie
           follows == [x \in (1..10) \X Seq(Bytes) |-> append_string(x[2], lists[x[1]])]
           Eq(g) == g = [n \in 0..10 |->
                          IF n = 0 THEN first ELSE append_string(g[n - 1], lists[n])]
           w == Written(cookie, lists)
<1>1. first \in Seq(Bytes)
  <2>1. <<KEXINIT>> \in Seq(Bytes)
    BY KexAssumption
  <2> QED
    BY <2>1, BytesJoined
<1>2. \A n \in 1..10, v \in Seq(Bytes) : append_string(v, lists[n]) \in Seq(Bytes)
  BY AppendedType DEF Lists
<1>3. follows \in [(1..10) \X Seq(Bytes) -> Seq(Bytes)]
  BY <1>2
<1>4. PICK g \in [0..10 -> Seq(Bytes)] : Recursive(g, 10, first, follows)
  <2> HIDE DEF follows, first
  <2>1. 10 \in Nat
    OBVIOUS
  <2> QED
    BY <1>1, <1>3, <2>1, Recursion, Zenon
<1>5. w = CHOOSE h : Eq(h)
  BY DEF Written, append_name_list
<1> HIDE DEF first
<1>6. ASSUME NEW n \in 1..10 PROVE g[n] = append_string(g[n - 1], lists[n])
  <2>1. <<n, g[n - 1]>> \in (1..10) \X Seq(Bytes)
    <3>1. n - 1 \in 0..10
      OBVIOUS
    <3>2. g[n - 1] \in Seq(Bytes)
      BY <3>1, Zenon
    <3> QED
      BY <3>2, Zenon
  <2> QED
    BY <1>4, <2>1 DEF Recursive
<1> HIDE DEF follows
<1>7. Eq(g)
  BY <1>4, <1>6 DEF Recursive
<1>8. Eq(w)
  BY <1>5, <1>7, Zenon
<1>9. /\ w = [n \in 0..10 |-> w[n]] /\ w[0] = first
      /\ \A n \in 1..10 : w[n] = append_string(w[n - 1], lists[n])
  BY <1>8
<1> HIDE DEF w
<1>10. \A n \in 1..10 : w[n - 1] \in Seq(Bytes) => w[n] \in Seq(Bytes)
  BY <1>2, <1>9
<1>11. w \in [0..10 -> Seq(Bytes)]
  <2>1. ASSUME NEW N \in Nat, N = 10 PROVE w \in [0..N -> Seq(Bytes)]
    <3>1. /\ w = [n \in 0..N |-> w[n]] /\ w[0] \in Seq(Bytes)
          /\ \A n \in 1..N : w[n - 1] \in Seq(Bytes) => w[n] \in Seq(Bytes)
      BY <1>1, <1>9, <1>10, <2>1
    <3> QED
      BY <3>1, RecursionType
  <2> QED
    BY <2>1
<1> QED
  BY <1>9, <1>11 DEF w, first

LEMMA KexinitIs ==
    ASSUME NEW cookie, NEW lists
    PROVE  Kexinit(cookie, lists) = (Written(cookie, lists)[10] \o <<0>>) \o encode_uint32(0)
BY Zenon DEF Kexinit, Written

LEMMA ZeroEncoded ==
    /\ encode_uint32(0) \in Seq(Bytes) /\ Len(encode_uint32(0)) = 4
    /\ decode_uint32(encode_uint32(0)) = 0
<1>1. 0 \in UInt32
  <2>1. BYTE * BYTE \in Nat /\ BYTE * BYTE >= 1
    BY EncodingAssumption
  <2>2. BYTE * BYTE * BYTE \in Nat /\ BYTE * BYTE * BYTE >= 1
    BY <2>1, EncodingAssumption
  <2>3. BYTE * BYTE * BYTE * BYTE \in Nat /\ BYTE * BYTE * BYTE * BYTE >= 1
    BY <2>2, EncodingAssumption
  <2> QED
    BY <2>3 DEF UInt32
<1> QED
  BY <1>1, EncodedDecoded

\* In a KEXINIT that is accepted every list is found.
LEMMA EveryListEnds ==
    ASSUME NEW t \in Seq(Bytes), ListEnds(t)[10] # FAILED
    PROVE  LET e == ListEnds(t)
           IN  \A n \in 0..10 : e[n] \in Nat /\ e[n] # FAILED
<1> DEFINE e == ListEnds(t)
           S == {k \in Nat : k <= 10 => e[10 - k] # FAILED}
<1>1. /\ e \in [0..10 -> Position]
      /\ \A n \in 1..10 : e[n] = after_string(t, e[n - 1])
  BY ListEndsIs
<1>2. \A n \in 1..10 : e[n - 1] = FAILED => e[n] = FAILED
  BY <1>1, AfterType
<1> HIDE DEF e
<1>3. 0 \in S
  BY DEF e
<1>4. ASSUME NEW k \in Nat, k \in S PROVE k + 1 \in S
  <2>1. SUFFICES ASSUME k + 1 <= 10 PROVE e[10 - (k + 1)] # FAILED
    OBVIOUS
  <2>2. 10 - k \in 1..10 /\ (10 - k) - 1 = 10 - (k + 1) /\ e[10 - k] # FAILED
    BY <1>4, <2>1
  <2> QED
    BY <1>2, <2>2
<1> HIDE DEF S
<1>5. \A k \in Nat : k \in S
  BY <1>3, <1>4, Induction
<1>6. ASSUME NEW n \in 0..10 PROVE e[n] # FAILED
  <2>1. 10 - n \in Nat /\ 10 - n <= 10 /\ 10 - (10 - n) = n
    OBVIOUS
  <2> QED
    BY <1>5, <2>1 DEF S
<1> QED
  BY <1>1, <1>6 DEF e, Position

\* The lists of an accepted KEXINIT, written again, are what was read.
LEMMA ListsWritten ==
    ASSUME NEW t \in Seq(Bytes), ListEnds(t)[10] # FAILED, t # <<>>, t[1] = KEXINIT
    PROVE  LET e == ListEnds(t)
               cookie == Slice(t, 1, cookie_bytes)
               lists == read_name_lists(t)
           IN  /\ cookie \in Seq(Bytes) /\ lists \in [Lists -> Str]
               /\ \A n \in 0..10 : e[n] <= Len(t)
               /\ \A n \in 0..10 : Written(cookie, lists)[n] = SubSeq(t, 1, e[n])
<1> DEFINE e == ListEnds(t)
           cookie == Slice(t, 1, cookie_bytes)
           lists == read_name_lists(t)
           w == Written(cookie, lists)
<1>1. /\ e[0] = 1 + cookie_bytes
      /\ \A n \in 1..10 : e[n] = after_string(t, e[n - 1])
  BY ListEndsIs
<1>2. \A n \in 0..10 : e[n] \in Nat /\ e[n] # FAILED
  BY EveryListEnds
<1>3. lists = [i \in Lists |-> read_string(t, e[i - 1])]
  BY DEF read_name_lists
<1> HIDE DEF e
<1>4. ASSUME NEW n \in 1..10
      PROVE  /\ e[n - 1] + 4 <= e[n] /\ e[n] <= Len(t)
             /\ lists[n] \in Str
             /\ SubSeq(t, 1, e[n]) = SubSeq(t, 1, e[n - 1]) \o String(lists[n])
  <2>1. n - 1 \in 0..10 /\ n \in 0..10
    OBVIOUS
  <2>2. e[n - 1] \in Nat /\ e[n] = after_string(t, e[n - 1]) /\ e[n] # FAILED
    BY <1>1, <1>2, <2>1
  <2>3. lists[n] = read_string(t, e[n - 1])
    BY <1>3 DEF Lists
  <2> HIDE DEF lists
  <2>4. /\ e[n - 1] + 4 <= e[n] /\ e[n] <= Len(t)
        /\ read_string(t, e[n - 1]) \in Str
        /\ SubSeq(t, 1, e[n]) = SubSeq(t, 1, e[n - 1]) \o String(read_string(t, e[n - 1]))
    BY <2>2, StringTaken
  <2> QED
    BY <2>3, <2>4
<1>5. lists \in [Lists -> Str]
  <2>1. lists = [i \in Lists |-> lists[i]]
    BY <1>3
  <2> HIDE DEF lists
  <2> QED
    BY <1>4, <2>1 DEF Lists
<1> HIDE DEF lists
<1>6. \A n \in 0..10 : e[n] <= Len(t)
  <2>1. e[0] <= Len(t)
    <3>1. 1 \in 1..10 /\ 1 - 1 = 0 /\ 0 \in 0..10 /\ 1 \in 0..10
      OBVIOUS
    <3>2. e[0] + 4 <= e[1] /\ e[1] <= Len(t) /\ e[0] \in Nat /\ e[1] \in Nat /\ Len(t) \in Nat
      BY <1>2, <1>4, <3>1
    <3> QED
      BY <3>2
  <2> TAKE n \in 0..10
  <2>2. CASE n = 0
    BY <2>1, <2>2
  <2>3. CASE n \in 1..10
    BY <1>4, <2>3
  <2> QED
    BY <2>2, <2>3
<1>7. 1 <= e[0] /\ e[0] \in Nat /\ e[0] <= Len(t) /\ Len(t) \in Nat
  <2>1. 0 \in 0..10
    OBVIOUS
  <2>2. e[0] \in Nat /\ e[0] <= Len(t)
    BY <1>2, <1>6, <2>1
  <2> QED
    BY <1>1, <2>2, KexAssumption
<1>8. cookie = SubSeq(t, 1 + 1, e[0]) /\ cookie \in Seq(Bytes)
  <2>1. cookie = SubSeq(t, 1 + 1, e[0])
    BY <1>1 DEF Slice
  <2>2. 1 \in Nat
    OBVIOUS
  <2>3. SubSeq(t, 1 + 1, e[0]) \in Seq(Bytes)
    BY <1>7, <2>2, BytesPiece, Zenon
  <2> QED
    BY <2>1, <2>3
<1> HIDE DEF cookie
<1>9. SubSeq(t, 1, e[0]) = <<KEXINIT>> \o cookie
  <2>1. SubSeq(t, 1, e[0]) = SubSeq(t, 1, 1) \o SubSeq(t, 1 + 1, e[0])
    BY <1>7, Halves
  <2>2. SubSeq(t, 1, 1) = <<KEXINIT>>
    <3>1. 1 \in Nat /\ 1 <= Len(t) /\ 1 \in 1..1
      BY <1>7
    <3>2. SubSeq(t, 1, 1) \in Seq(Bytes) /\ Len(SubSeq(t, 1, 1)) = 1
          /\ SubSeq(t, 1, 1)[1] = t[1]
      BY <3>1, BytesPrefix, Zenon
    <3> QED
      BY <3>2, OneByte, Zenon
  <2> QED
    BY <1>8, <2>1, <2>2
<1>10. lists \in [Lists -> Seq(Bytes)]
  BY <1>5 DEF Str
<1>11. /\ w \in [0..10 -> Seq(Bytes)] /\ w[0] = <<KEXINIT>> \o cookie
       /\ \A n \in 1..10 : w[n] = append_string(w[n - 1], lists[n])
  BY <1>8, <1>10, WrittenIs
<1> HIDE DEF w
<1>12. ASSUME NEW n \in 1..10, w[n - 1] = SubSeq(t, 1, e[n - 1])
       PROVE  w[n] = SubSeq(t, 1, e[n])
  <2>1. w[n - 1] \in Seq(Bytes)
    <3>1. n - 1 \in 0..10
      OBVIOUS
    <3> QED
      BY <1>11, <3>1
  <2>2. append_string(w[n - 1], lists[n]) = w[n - 1] \o String(lists[n])
    BY <1>4, <2>1, AppendedString, Zenon
  <2> QED
    BY <1>4, <1>11, <1>12, <2>2
<1>13. \A n \in 0..10 : w[n] = SubSeq(t, 1, e[n])
  <2> DEFINE S == {k \in Nat : k <= 10 => w[k] = SubSeq(t, 1, e[k])}
  <2>1. 0 \in S
    BY <1>9, <1>11
  <2>2. ASSUME NEW k \in Nat, k \in S PROVE k + 1 \in S
    <3>1. SUFFICES ASSUME k + 1 <= 10 PROVE w[k + 1] = SubSeq(t, 1, e[k + 1])
      OBVIOUS
    <3>2. k + 1 \in 1..10 /\ (k + 1) - 1 = k /\ w[k] = SubSeq(t, 1, e[k])
      BY <2>2, <3>1
    <3> QED
      BY <1>12, <3>2
  <2> HIDE DEF S
  <2>3. \A k \in Nat : k \in S
    BY <2>1, <2>2, Induction
  <2> QED
    BY <2>3 DEF S
<1> QED
  BY <1>5, <1>6, <1>8, <1>13 DEF w, e, cookie, lists

\* KexinitExact of one payload.
LEMMA Exact ==
    ASSUME NEW t \in Seq(Bytes), accepts_kexinit(t)
    PROVE  LET exact == Kexinit(Slice(t, 1, cookie_bytes), read_name_lists(t))
           IN  /\ Len(exact) = Len(t)
               /\ \A i \in DOMAIN exact :
                    t[i] = exact[i] \/ i = Len(exact) - uint32_bytes
<1> DEFINE position == ListEnds(t)[10]
           cookie == Slice(t, 1, cookie_bytes)
           lists == read_name_lists(t)
           start == SubSeq(t, 1, position)
           zero == encode_uint32(0)
           exact == Kexinit(cookie, lists)
<1>1. /\ Len(t) >= 1 /\ t[1] = KEXINIT /\ position # FAILED
      /\ read_uint32(t, position + 1) = 0 /\ Len(t) = position + 1 + 4
  BY DEF accepts_kexinit, Remain, uint32_bytes
<1>2. t # <<>>
  BY <1>1
<1>3. /\ cookie \in Seq(Bytes) /\ lists \in [Lists -> Str]
      /\ Written(cookie, lists)[10] = start /\ position \in Nat
  <2>1. 10 \in 0..10
    OBVIOUS
  <2> QED
    BY <1>1, <1>2, <2>1, ListsWritten, EveryListEnds
<1>4. exact = (start \o <<0>>) \o zero
  BY <1>3, KexinitIs
<1>5. start \in Seq(Bytes) /\ Len(start) = position /\ \A i \in 1..position : start[i] = t[i]
  <2>1. position <= Len(t) /\ 0 <= position /\ Len(t) \in Nat
    BY <1>1, <1>3
  <2> QED
    BY <1>3, <2>1, BytesPrefix
<1>6. <<0>> \in Seq(Bytes) /\ Len(<<0>>) = 1
  BY EncodingAssumption DEF Bytes
<1>7. zero \in Seq(Bytes) /\ Len(zero) = 4 /\ \A i \in 1..4 : zero[i] = t[position + 1 + i]
  <2> DEFINE c == SubSeq(t, position + 1 + 1, position + 1 + 4)
  <2>1. c \in Seq(Bytes) /\ Len(c) = 4 /\ \A i \in 1..4 : c[i] = t[position + 1 + i]
    <3>1. position + 1 \in Nat /\ position + 1 + 4 \in Nat /\ position + 1 + 4 <= Len(t)
          /\ (position + 1 + 4) - (position + 1) = 4 /\ position + 1 <= position + 1 + 4
      BY <1>1, <1>3
    <3>2. /\ c \in Seq(Bytes) /\ Len(c) = (position + 1 + 4) - (position + 1)
          /\ \A i \in 1..((position + 1 + 4) - (position + 1)) : c[i] = t[position + 1 + i]
      BY <3>1, BytesPiece, Zenon
    <3> QED
      BY <3>1, <3>2
  <2>2. decode_uint32(c) = 0
    BY <1>1 DEF read_uint32, Slice, uint32_bytes
  <2> HIDE DEF c
  <2>3. zero = c
    BY <2>1, <2>2, DecodedEncoded
  <2> QED
    BY <2>1, <2>3
<1> HIDE DEF position, start, zero, exact, cookie, lists
<1> DEFINE a == start \o <<0>>
<1>8. a \in Seq(Bytes) /\ Len(a) = position + 1 /\ \A i \in 1..position : a[i] = start[i]
  <2>1. /\ a \in Seq(Bytes) /\ Len(a) = Len(start) + Len(<<0>>)
        /\ \A i \in 1..Len(start) : a[i] = start[i]
    BY <1>5, <1>6, Concatenated
  <2> QED
    BY <1>5, <1>6, <2>1
<1> HIDE DEF a
<1>9. /\ a \o zero \in Seq(Bytes) /\ Len(a \o zero) = Len(a) + Len(zero)
      /\ \A i \in 1..Len(a) : (a \o zero)[i] = a[i]
      /\ \A i \in 1..Len(zero) : (a \o zero)[Len(a) + i] = zero[i]
  BY <1>7, <1>8, BytesConcatenated, Zenon
<1>10. exact = a \o zero
  BY <1>4 DEF a
<1>11. exact \in Seq(Bytes) /\ Len(exact) = position + 1 + 4 /\ Len(exact) = Len(t)
  BY <1>1, <1>3, <1>7, <1>8, <1>9, <1>10
<1>12. ASSUME NEW i \in 1..(position + 1 + 4), i # position + 1
       PROVE  t[i] = exact[i]
  <2>1. CASE i <= position
    <3>1. i \in 1..position /\ i \in 1..Len(a)
      BY <1>3, <1>8, <2>1
    <3> QED
      BY <1>5, <1>8, <1>9, <1>10, <3>1
  <2>2. CASE ~(i <= position)
    <3>1. i - (position + 1) \in 1..4 /\ (position + 1) + (i - (position + 1)) = i
      BY <1>3, <1>12, <2>2
    <3>2. exact[i] = zero[i - (position + 1)]
      <4>1. \A j \in 1..4 : (a \o zero)[(position + 1) + j] = zero[j]
        BY <1>7, <1>8, <1>9
      <4> QED
        BY <1>10, <3>1, <4>1
    <3> QED
      BY <1>7, <3>1, <3>2
  <2> QED
    BY <2>1, <2>2
<1>13. DOMAIN exact = 1..(position + 1 + 4) /\ Len(exact) - uint32_bytes = position + 1
  BY <1>3, <1>11 DEF uint32_bytes
<1> QED
  BY <1>11, <1>12, <1>13 DEF exact, cookie, lists

-------------------------------------------------------------------------------
(***************************************************************************)
(* The identification lines.                                               *)
(***************************************************************************)
Plain == Bytes \ {CR}

\* The version after each byte of the line.
Version(line) ==
    LET version[n \in 0..Len(line)] ==
            IF n = 0 THEN <<>>
            ELSE IF line[n] = CR THEN version[n - 1]
            ELSE Append(version[n - 1], line[n])
    IN  version

LEMMA PlainByte ==
    ASSUME NEW line \in Seq(Bytes), NEW n \in 1..Len(line), NEW v \in Seq(Plain)
    PROVE  (IF line[n] = CR THEN v ELSE Append(v, line[n])) \in Seq(Plain)
<1>1. CASE line[n] = CR
  BY <1>1
<1>2. CASE line[n] # CR
  <2>1. line[n] \in Plain
    BY <1>2, ElementOfSeq DEF Plain
  <2>2. Append(v, line[n]) \in Seq(Plain)
    BY <2>1, AppendProperties, Zenon
  <2> QED
    BY <1>2, <2>2
<1> QED
  BY <1>1, <1>2

LEMMA VersionIs ==
    ASSUME NEW line \in Seq(Bytes)
    PROVE  LET v == Version(line)
           IN  /\ v \in [0..Len(line) -> Seq(Plain)]
               /\ v[0] = <<>>
               /\ \A n \in 1..Len(line) :
                    v[n] = IF line[n] = CR THEN v[n - 1] ELSE Append(v[n - 1], line[n])
<1> DEFINE N == Len(line)
           Next(n, x) == IF line[n] = CR THEN x ELSE Append(x, line[n])
           follows == [x \in (1..N) \X Seq(Plain) |-> Next(x[1], x[2])]
           Eq(g) == g = [n \in 0..N |-> IF n = 0 THEN <<>> ELSE Next(n, g[n - 1])]
           v == Version(line)
<1>1. N \in Nat /\ <<>> \in Seq(Plain)
  OBVIOUS
<1>2. \A n \in 1..N, x \in Seq(Plain) : Next(n, x) \in Seq(Plain)
  BY PlainByte
<1>5. v = CHOOSE h : Eq(h)
  BY DEF Version
<1> HIDE DEF Next, N
<1>3. follows \in [(1..N) \X Seq(Plain) -> Seq(Plain)]
  BY <1>2
<1>4. PICK g \in [0..N -> Seq(Plain)] : Recursive(g, N, <<>>, follows)
  <2> HIDE DEF follows
  <2> QED
    BY <1>1, <1>3, Recursion, Zenon
<1>6. ASSUME NEW n \in 1..N PROVE g[n] = Next(n, g[n - 1])
  <2>1. <<n, g[n - 1]>> \in (1..N) \X Seq(Plain)
    <3>1. n - 1 \in 0..N
      BY <1>1
    <3>2. g[n - 1] \in Seq(Plain)
      BY <3>1, Zenon
    <3> QED
      BY <3>2, Zenon
  <2> QED
    BY <1>4, <2>1 DEF Recursive
<1> HIDE DEF follows
<1>7. Eq(g)
  BY <1>1, <1>4, <1>6 DEF Recursive
<1>8. Eq(v)
  BY <1>5, <1>7, Zenon
<1>9. /\ v = [n \in 0..N |-> v[n]] /\ v[0] = <<>>
      /\ \A n \in 1..N : v[n] = Next(n, v[n - 1])
  <2> HIDE DEF v
  <2>1. v = [n \in 0..N |-> IF n = 0 THEN <<>> ELSE Next(n, v[n - 1])]
    BY <1>8
  <2>2. v[0] = <<>>
    BY <1>1, <2>1
  <2>3. ASSUME NEW n \in 1..N PROVE v[n] = Next(n, v[n - 1])
    <3>1. n \in 0..N /\ n # 0
      BY <1>1
    <3> QED
      BY <2>1, <3>1, Zenon
  <2>4. v = [n \in 0..N |-> v[n]]
    BY <2>1, Zenon
  <2> QED
    BY <2>2, <2>3, <2>4
<1> HIDE DEF v
<1>10. \A n \in 1..N : v[n - 1] \in Seq(Plain) => v[n] \in Seq(Plain)
  BY <1>2, <1>9
<1>11. v \in [0..N -> Seq(Plain)]
  BY <1>1, <1>9, <1>10, RecursionType
<1> QED
  BY <1>9, <1>11 DEF v, Next, N

LEMMA VersionRead ==
    ASSUME NEW line \in Seq(Bytes)
    PROVE  /\ read_version(line) \in Seq(Plain) /\ read_version(line) \in Seq(Bytes)
           /\ Len(read_version(line)) <= Len(line)
<1> DEFINE v == Version(line)
           N == Len(line)
           S == {n \in Nat : n <= N => Len(v[n]) <= n}
<1>1. read_version(line) = v[N]
  BY Zenon DEF read_version, Version
<1>2. /\ v \in [0..N -> Seq(Plain)] /\ v[0] = <<>>
      /\ \A n \in 1..N : v[n] = IF line[n] = CR THEN v[n - 1] ELSE Append(v[n - 1], line[n])
  BY VersionIs
<1>3. N \in Nat
  OBVIOUS
<1> HIDE DEF v
<1>4. 0 \in S
  BY <1>2
<1>5. ASSUME NEW n \in Nat, n \in S PROVE n + 1 \in S
  <2>1. SUFFICES ASSUME n + 1 <= N PROVE Len(v[n + 1]) <= n + 1
    OBVIOUS
  <2>2. n \in 0..N /\ n + 1 \in 1..N /\ (n + 1) - 1 = n /\ Len(v[n]) <= n
    BY <1>3, <1>5, <2>1
  <2>3. v[n] \in Seq(Plain)
    BY <1>2, <2>2, Zenon
  <2>4. CASE line[n + 1] = CR
    <3>1. v[n + 1] = v[n]
      BY <1>2, <2>2, <2>4
    <3> QED
      BY <2>2, <2>3, <3>1
  <2>5. CASE line[n + 1] # CR
    <3>1. v[n + 1] = Append(v[n], line[n + 1])
      BY <1>2, <2>2, <2>5
    <3>2. line[n + 1] \in Plain
      BY <2>2, <2>5, ElementOfSeq DEF Plain
    <3>3. Len(Append(v[n], line[n + 1])) = Len(v[n]) + 1 /\ Len(v[n]) \in Nat
      BY <2>3, <3>2, AppendProperties
    <3> QED
      BY <2>2, <3>1, <3>3
  <2> QED
    BY <2>4, <2>5
<1> HIDE DEF S
<1>6. N \in S
  BY <1>3, <1>4, <1>5, Induction
<1>7. Len(v[N]) <= N
  BY <1>3, <1>6 DEF S
<1>8. v[N] \in Seq(Plain)
  <2>1. N \in 0..N
    BY <1>3
  <2> QED
    BY <1>2, <2>1, Zenon
<1>9. \A x \in Seq(Plain) : x \in Seq(Bytes)
  BY DEF Plain
<1> QED
  BY <1>1, <1>7, <1>8, <1>9

\* A line without a '\r' but the one at its end gives what is before it.
LEMMA VersionKept ==
    ASSUME NEW x \in Seq(Plain)
    PROVE  read_version(x \o <<CR>>) = x
<1> DEFINE line == x \o <<CR>>
           v == Version(line)
           N == Len(x)
           S == {n \in Nat : n <= N => v[n] = SubSeq(x, 1, n)}
<1>1. x \in Seq(Bytes) /\ <<CR>> \in Seq(Bytes) /\ N \in Nat
  BY KexAssumption DEF Plain
<1>2. /\ line \in Seq(Bytes) /\ Len(line) = N + 1
      /\ \A i \in 1..N : line[i] = x[i]
      /\ line[N + 1] = CR
  <2>1. /\ line \in Seq(Bytes) /\ Len(line) = N + Len(<<CR>>)
        /\ \A i \in 1..N : line[i] = x[i]
        /\ \A i \in 1..Len(<<CR>>) : line[N + i] = <<CR>>[i]
    BY <1>1, BytesConcatenated, Zenon
  <2> QED
    BY <2>1
<1> HIDE DEF line
<1>3. read_version(line) = v[N + 1]
  BY <1>2, Zenon DEF read_version, Version
<1>4. /\ v \in [0..(N + 1) -> Seq(Plain)] /\ v[0] = <<>>
      /\ \A n \in 1..(N + 1) :
           v[n] = IF line[n] = CR THEN v[n - 1] ELSE Append(v[n - 1], line[n])
  BY <1>2, VersionIs
<1> HIDE DEF v
<1>5. 0 \in S
  <2>1. SubSeq(x, 1, 0) = <<>>
    OBVIOUS
  <2> QED
    BY <1>4, <2>1
<1>6. ASSUME NEW n \in Nat, n \in S PROVE n + 1 \in S
  <2>1. SUFFICES ASSUME n + 1 <= N PROVE v[n + 1] = SubSeq(x, 1, n + 1)
    OBVIOUS
  <2>2. n + 1 \in 1..(N + 1) /\ n + 1 \in 1..N /\ (n + 1) - 1 = n /\ v[n] = SubSeq(x, 1, n)
    BY <1>1, <1>6, <2>1
  <2>3. x[n + 1] \in Plain
    BY <2>2, ElementOfSeq
  <2>4. line[n + 1] = x[n + 1] /\ x[n + 1] # CR
    BY <1>2, <2>2, <2>3 DEF Plain
  <2>5. v[n + 1] = Append(SubSeq(x, 1, n), x[n + 1])
    BY <1>4, <2>2, <2>4
  <2>6. Append(SubSeq(x, 1, n), x[n + 1]) = SubSeq(x, 1, n + 1)
    BY <1>1, <2>2
  <2> QED
    BY <2>5, <2>6
<1> HIDE DEF S
<1>7. N \in S
  BY <1>1, <1>5, <1>6, Induction
<1>8. v[N] = SubSeq(x, 1, N)
  BY <1>1, <1>7 DEF S
<1>9. SubSeq(x, 1, N) = x
  OBVIOUS
<1>10. v[N + 1] = v[N]
  <2>1. N + 1 \in 1..(N + 1) /\ (N + 1) - 1 = N
    BY <1>1
  <2> QED
    BY <1>2, <1>4, <2>1
<1> QED
  BY <1>3, <1>8, <1>9, <1>10 DEF line

-------------------------------------------------------------------------------
(***************************************************************************)
(* The messages as they are sent, and their sizes.                         *)
(***************************************************************************)
Named == Seq(Bytes \ {COMMA})

\* The list after each of its names.
JoinedUpTo(names) ==
    LET joined[n \in 0..Len(names)] ==
            IF n = 0 THEN <<>>
            ELSE IF n = 1 THEN names[1]
            ELSE joined[n - 1] \o <<COMMA>> \o names[n]
    IN  joined

LEMMA NamesAreBytes ==
    ASSUME NEW name \in Named
    PROVE  name \in Seq(Bytes)
BY DEF Named

LEMMA JoinedIs ==
    ASSUME NEW names \in Seq(Named)
    PROVE  LET v == JoinedUpTo(names)
           IN  /\ v \in [0..Len(names) -> Seq(Bytes)]
               /\ v[0] = <<>>
               /\ \A n \in 1..Len(names) :
                    v[n] = IF n = 1 THEN names[1]
                           ELSE (v[n - 1] \o <<COMMA>>) \o names[n]
<1> DEFINE N == Len(names)
           Next(n, x) == IF n = 1 THEN names[1] ELSE (x \o <<COMMA>>) \o names[n]
           follows == [x \in (1..N) \X Seq(Bytes) |-> Next(x[1], x[2])]
           Eq(g) == g = [n \in 0..N |-> IF n = 0 THEN <<>> ELSE Next(n, g[n - 1])]
           v == JoinedUpTo(names)
<1>1. N \in Nat /\ <<>> \in Seq(Bytes)
  OBVIOUS
<1>2. ASSUME NEW n \in 1..N, NEW x \in Seq(Bytes) PROVE Next(n, x) \in Seq(Bytes)
  <2>1. names[n] \in Seq(Bytes) /\ (n = 1 => names[1] \in Seq(Bytes))
    BY ElementOfSeq, NamesAreBytes
  <2>2. <<COMMA>> \in Seq(Bytes)
    BY KexAssumption
  <2>3. x \o <<COMMA>> \in Seq(Bytes)
    BY <2>2, BytesJoined, Zenon
  <2>4. (x \o <<COMMA>>) \o names[n] \in Seq(Bytes)
    BY <2>1, <2>3, BytesJoined, Zenon
  <2> QED
    BY <2>1, <2>4
<1>3. v = CHOOSE h : Eq(h)
  BY DEF JoinedUpTo
<1> HIDE DEF Next, N
<1>4. follows \in [(1..N) \X Seq(Bytes) -> Seq(Bytes)]
  BY <1>2
<1>5. PICK g \in [0..N -> Seq(Bytes)] : Recursive(g, N, <<>>, follows)
  <2> HIDE DEF follows
  <2> QED
    BY <1>1, <1>4, Recursion, Zenon
<1>6. ASSUME NEW n \in 1..N PROVE g[n] = Next(n, g[n - 1])
  <2>1. <<n, g[n - 1]>> \in (1..N) \X Seq(Bytes)
    <3>1. n - 1 \in 0..N
      BY <1>1
    <3>2. g[n - 1] \in Seq(Bytes)
      BY <3>1, Zenon
    <3> QED
      BY <3>2, Zenon
  <2> QED
    BY <1>5, <2>1 DEF Recursive
<1> HIDE DEF follows
<1>7. Eq(g)
  BY <1>1, <1>5, <1>6 DEF Recursive
<1>8. Eq(v)
  BY <1>3, <1>7, Zenon
<1>9. /\ v = [n \in 0..N |-> v[n]] /\ v[0] = <<>>
      /\ \A n \in 1..N : v[n] = Next(n, v[n - 1])
  <2> HIDE DEF v
  <2>1. v = [n \in 0..N |-> IF n = 0 THEN <<>> ELSE Next(n, v[n - 1])]
    BY <1>8
  <2>2. v[0] = <<>>
    BY <1>1, <2>1
  <2>3. ASSUME NEW n \in 1..N PROVE v[n] = Next(n, v[n - 1])
    <3>1. n \in 0..N /\ n # 0
      BY <1>1
    <3> QED
      BY <2>1, <3>1, Zenon
  <2>4. v = [n \in 0..N |-> v[n]]
    BY <2>1, Zenon
  <2> QED
    BY <2>2, <2>3, <2>4
<1> HIDE DEF v
<1>10. \A n \in 1..N : v[n - 1] \in Seq(Bytes) => v[n] \in Seq(Bytes)
  BY <1>2, <1>9
<1>11. v \in [0..N -> Seq(Bytes)]
  BY <1>1, <1>9, <1>10, RecursionType
<1> QED
  BY <1>9, <1>11 DEF v, Next, N

LEMMA JoinedType ==
    ASSUME NEW names \in Seq(Named)
    PROVE  /\ Joined(names) = JoinedUpTo(names)[Len(names)]
           /\ Joined(names) \in Seq(Bytes)
<1>1. Joined(names) = JoinedUpTo(names)[Len(names)]
  BY Zenon DEF Joined, JoinedUpTo
<1>2. JoinedUpTo(names) \in [0..Len(names) -> Seq(Bytes)] /\ Len(names) \in 0..Len(names)
  BY JoinedIs
<1> QED
  BY <1>1, <1>2, Zenon

LEMMA StringType ==
    ASSUME NEW v \in Seq(Bytes)
    PROVE  String(v) \in Seq(Bytes) /\ Len(String(v)) = Len(v) + 4
<1>1. <<>> \in Seq(Bytes) /\ Len(<<>>) = 0 /\ Len(v) \in Nat
  OBVIOUS
<1>2. /\ append_string(<<>>, v) \in Seq(Bytes)
      /\ Len(append_string(<<>>, v)) = Len(<<>>) + 4 + Len(v)
  BY <1>1, AppendedType, Zenon
<1>3. append_string(<<>>, v) = String(v)
  <2>1. encode_uint32(Len(v)) = <<encode_uint32(Len(v))[1], encode_uint32(Len(v))[2],
                                  encode_uint32(Len(v))[3], encode_uint32(Len(v))[4]>>
    BY DEF encode_uint32
  <2>2. <<>> \o encode_uint32(Len(v)) = encode_uint32(Len(v))
    BY <2>1
  <2> QED
    BY <2>2 DEF append_string, String
<1>4. Len(<<>>) + 4 + Len(v) = Len(v) + 4
  BY <1>1
<1> QED
  BY <1>2, <1>3, <1>4

LEMMA KeyIsBytes ==
    ASSUME NEW n \in Nat, NEW key \in [1..n -> Bytes]
    PROVE  key \in Seq(Bytes) /\ Len(key) = n
OBVIOUS

LEMMA KexinitType ==
    ASSUME NEW cookie \in Seq(Bytes), NEW lists \in [Lists -> Seq(Bytes)]
    PROVE  /\ Kexinit(cookie, lists) \in Seq(Bytes)
           /\ Len(Kexinit(cookie, lists)) = Len(Written(cookie, lists)[10]) + 5
<1> DEFINE w == Written(cookie, lists)[10]
<1>1. w \in Seq(Bytes)
  <2>1. 10 \in 0..10
    OBVIOUS
  <2>2. Written(cookie, lists) \in [0..10 -> Seq(Bytes)]
    BY WrittenIs
  <2> QED
    BY <2>1, <2>2, Zenon
<1>2. Kexinit(cookie, lists) = (w \o <<0>>) \o encode_uint32(0)
  BY KexinitIs
<1> HIDE DEF w
<1>3. <<0>> \in Seq(Bytes) /\ Len(<<0>>) = 1
  BY EncodingAssumption DEF Bytes
<1> DEFINE x == w \o <<0>>
           y == x \o encode_uint32(0)
<1>4. x \in Seq(Bytes) /\ Len(x) = Len(w) + Len(<<0>>)
  BY <1>1, <1>3, BytesJoined, Zenon
<1>5. Len(x) = Len(w) + 1 /\ Len(w) \in Nat
  BY <1>1, <1>3, <1>4
<1>6. Kexinit(cookie, lists) = y
  BY <1>2
<1> HIDE DEF x
<1>7. y \in Seq(Bytes) /\ Len(y) = Len(x) + Len(encode_uint32(0))
  BY <1>4, ZeroEncoded, BytesJoined, Zenon
<1> HIDE DEF y
<1>8. Len(y) = Len(w) + 5
  <2>1. Len(encode_uint32(0)) = 4
    BY ZeroEncoded
  <2>2. Len(y) = Len(x) + 4
    BY <1>7, <2>1, Zenon
  <2> QED
    BY <1>5, <2>2
<1> QED
  BY <1>6, <1>7, <1>8 DEF w

LEMMA ClientKexinitType == create_client_kexinit \in Seq(Bytes)
<1>1. [i \in 1..cookie_bytes |-> 0] \in Seq(Bytes)
  <2>1. [i \in 1..cookie_bytes |-> 0] \in [1..cookie_bytes -> Bytes]
    BY EncodingAssumption DEF Bytes
  <2> QED
    BY <2>1, KexAssumption, KeyIsBytes, Zenon
<1>2. Supported \in [Lists -> Seq(Bytes)]
  BY KexAssumption
<1> QED
  BY <1>1, <1>2, KexinitType, Zenon DEF create_client_kexinit

LEMMA ServerKexinitType ==
    ASSUME NEW names \in Offers
    PROVE  /\ ServerKexinit(names) \in Seq(Bytes)
           /\ [i \in 1..cookie_bytes |-> 1] \in Seq(Bytes)
           /\ [i \in Lists |-> Joined(names[i])] \in [Lists -> Seq(Bytes)]
           /\ \A i \in Lists : names[i] \in Seq(Named)
<1>1. [i \in 1..cookie_bytes |-> 1] \in Seq(Bytes)
  <2>1. [i \in 1..cookie_bytes |-> 1] \in [1..cookie_bytes -> Bytes]
    BY EncodingAssumption DEF Bytes
  <2> QED
    BY <2>1, KexAssumption, KeyIsBytes, Zenon
<1>2. \A i \in Lists : names[i] \in Seq(Named)
  BY KexAssumption DEF Named
<1>3. [i \in Lists |-> Joined(names[i])] \in [Lists -> Seq(Bytes)]
  <2>1. \A i \in Lists : Joined(names[i]) \in Seq(Bytes)
    BY <1>2, JoinedType
  <2> QED
    BY <2>1, Zenon
<1> QED
  BY <1>1, <1>2, <1>3, KexinitType, Zenon DEF ServerKexinit

LEMMA KeysAreBytes ==
    /\ CLIENT_KEY \in Seq(Bytes) /\ Len(CLIENT_KEY) = length_of_key
    /\ SERVER_KEY \in Seq(Bytes) /\ Len(SERVER_KEY) = length_of_key
    /\ HOST_KEY \in Seq(Bytes) /\ Len(HOST_KEY) = length_of_key
    /\ SIGNATURE \in Seq(Bytes) /\ Len(SIGNATURE) = signature_bytes
    /\ ED25519 \in Seq(Bytes)
<1>1. /\ CLIENT_KEY \in [1..length_of_key -> Bytes] /\ SERVER_KEY \in [1..length_of_key -> Bytes]
      /\ HOST_KEY \in [1..length_of_key -> Bytes] /\ SIGNATURE \in [1..signature_bytes -> Bytes]
      /\ length_of_key \in Nat /\ signature_bytes \in Nat
  BY KexAssumption
<1>2. ED25519 \in Seq(Bytes)
  <2>1. 2 \in Lists
    BY DEF Lists
  <2> QED
    BY <2>1, KexAssumption
<1> QED
  BY <1>1, <1>2, KeyIsBytes, Zenon

LEMMA BlobType ==
    ASSUME NEW v \in Seq(Bytes)
    PROVE  /\ Ed25519Blob(v) \in Seq(Bytes)
           /\ Len(Ed25519Blob(v)) = Len(ED25519) + Len(v) + 8
<1>1. /\ String(ED25519) \in Seq(Bytes) /\ Len(String(ED25519)) = Len(ED25519) + 4
      /\ String(v) \in Seq(Bytes) /\ Len(String(v)) = Len(v) + 4
  BY KeysAreBytes, StringType
<1>2. /\ Ed25519Blob(v) \in Seq(Bytes)
      /\ Len(Ed25519Blob(v)) = Len(String(ED25519)) + Len(String(v))
  BY <1>1, BytesJoined, Zenon DEF Ed25519Blob
<1>3. Len(ED25519) \in Nat /\ Len(v) \in Nat
  BY KeysAreBytes
<1> QED
  BY <1>1, <1>2, <1>3

LEMMA ReplyParts ==
    LET p1 == <<KEX_ECDH_REPLY>> \o String(Ed25519Blob(HOST_KEY))
        p2 == p1 \o String(SERVER_KEY)
    IN  /\ <<KEX_ECDH_REPLY>> \in Seq(Bytes) /\ p1 \in Seq(Bytes) /\ p2 \in Seq(Bytes)
        /\ ServerReply = p2 \o String(Ed25519Blob(SIGNATURE))
        /\ ServerReply \in Seq(Bytes)
        /\ Len(Ed25519Blob(HOST_KEY)) <= Len(ServerReply)
        /\ Len(Ed25519Blob(SIGNATURE)) <= Len(ServerReply)
        /\ Len(ED25519) <= Len(ServerReply)
        /\ Len(SIGNATURE) <= Len(ServerReply)
<1> DEFINE p0 == <<KEX_ECDH_REPLY>>
           h == Ed25519Blob(HOST_KEY)
           s == Ed25519Blob(SIGNATURE)
           p1 == p0 \o String(h)
           p2 == p1 \o String(SERVER_KEY)
           p3 == p2 \o String(s)
<1>1. p0 \in Seq(Bytes) /\ Len(p0) = 1
  BY KexAssumption
<1>2. /\ h \in Seq(Bytes) /\ s \in Seq(Bytes)
      /\ Len(h) = Len(ED25519) + Len(HOST_KEY) + 8
      /\ Len(s) = Len(ED25519) + Len(SIGNATURE) + 8
  BY KeysAreBytes, BlobType, Zenon
<1>3. ServerReply = p3
  BY DEF ServerReply
<1> HIDE DEF p0, h, s
<1>4. /\ String(h) \in Seq(Bytes) /\ String(s) \in Seq(Bytes)
      /\ String(SERVER_KEY) \in Seq(Bytes)
      /\ Len(String(h)) = Len(h) + 4 /\ Len(String(s)) = Len(s) + 4
      /\ Len(String(SERVER_KEY)) = Len(SERVER_KEY) + 4
  BY <1>2, KeysAreBytes, StringType, Zenon
<1>5. p1 \in Seq(Bytes) /\ Len(p1) = Len(p0) + Len(String(h))
  BY <1>1, <1>4, BytesJoined, Zenon
<1> HIDE DEF p1
<1>6. p2 \in Seq(Bytes) /\ Len(p2) = Len(p1) + Len(String(SERVER_KEY))
  BY <1>4, <1>5, BytesJoined, Zenon
<1> HIDE DEF p2
<1>7. p3 \in Seq(Bytes) /\ Len(p3) = Len(p2) + Len(String(s))
  BY <1>4, <1>6, BytesJoined, Zenon
<1> HIDE DEF p3
<1>8. /\ Len(ED25519) \in Nat /\ Len(SERVER_KEY) \in Nat /\ Len(HOST_KEY) \in Nat
      /\ Len(SIGNATURE) \in Nat /\ Len(h) \in Nat /\ Len(s) \in Nat
  BY <1>2, KeysAreBytes
<1>9. Len(h) <= Len(p3) /\ Len(s) <= Len(p3)
  <2> DEFINE a == Len(h)
             b == Len(s)
             c == Len(SERVER_KEY)
             d == Len(p3)
  <2>1. Len(p1) = 1 + (a + 4)
    BY <1>1, <1>4, <1>5, Zenon
  <2>2. Len(p2) = 1 + (a + 4) + (c + 4)
    BY <1>4, <1>6, <2>1, Zenon
  <2>3. d = 1 + (a + 4) + (c + 4) + (b + 4)
    BY <1>4, <1>7, <2>2, Zenon
  <2>4. a \in Nat /\ b \in Nat /\ c \in Nat
    BY <1>8
  <2> HIDE DEF a, b, c, d
  <2>5. a <= d /\ b <= d
    BY <2>3, <2>4
  <2> QED
    BY <2>5 DEF a, b, d
<1>10. Len(p3) \in Nat
  BY <1>7
<1>11. Len(ED25519) <= Len(p3) /\ Len(SIGNATURE) <= Len(p3)
  BY <1>2, <1>8, <1>9, <1>10
<1> QED
  BY <1>1, <1>3, <1>5, <1>6, <1>7, <1>9, <1>11 DEF p3, p2, p1, p0, h, s

LEMMA LineType ==
    ASSUME NEW x \in {CLIENT_ID, SERVER_ID}
    PROVE  /\ x \in Seq(Plain) /\ x \in Seq(Bytes)
           /\ x \o <<CR>> \in Seq(Bytes) /\ Len(x \o <<CR>>) = Len(x) + 1
<1>1. x \in Seq(Plain)
  BY KexAssumption DEF Plain
<1>2. x \in Seq(Bytes) /\ <<CR>> \in Seq(Bytes) /\ Len(<<CR>>) = 1
  BY <1>1, KexAssumption DEF Plain
<1>3. x \o <<CR>> \in Seq(Bytes) /\ Len(x \o <<CR>>) = Len(x) + Len(<<CR>>)
  BY <1>2, BytesJoined, Zenon
<1> QED
  BY <1>1, <1>2, <1>3

LEMMA EcdhInitType ==
    /\ create_ecdh_init_payload(CLIENT_KEY) \in Seq(Bytes)
    /\ <<KEX_ECDH_INIT>> \in Seq(Bytes) /\ Len(<<KEX_ECDH_INIT>>) = 1
<1>1. <<KEX_ECDH_INIT>> \in Seq(Bytes) /\ Len(<<KEX_ECDH_INIT>>) = 1
  BY KexAssumption
<1> QED
  BY <1>1, KeysAreBytes, AppendedType, Zenon DEF create_ecdh_init_payload

LEMMA OriginalType ==
    ASSUME NEW kind \in Kinds, NEW names \in Offers
    PROVE  Original(kind, names) \in Seq(Bytes)
<1>1. SERVER_ID \o <<CR>> \in Seq(Bytes) /\ CLIENT_ID \o <<CR>> \in Seq(Bytes)
  BY LineType
<1>2. ServerKexinit(names) \in Seq(Bytes)
  BY ServerKexinitType
<1>3. ServerReply \in Seq(Bytes)
  BY ReplyParts
<1> HIDE DEF ServerReply
<1> QED
  BY <1>1, <1>2, <1>3, ClientKexinitType, EcdhInitType DEF Original, Kinds

\* What was sent, altered as often as may be, is still a string.
LEMMA Fits ==
    ASSUME NEW names \in Offers, NEW kind \in Kinds, NEW v \in Seq(Bytes),
           Len(v) <= Len(Original(kind, names)) + MaxAltered
    PROVE  v \in Str
<1>1. Len(Original(kind, names)) + MaxAltered \in UInt32
  BY SizesAssumption
<1>2. Len(Original(kind, names)) + MaxAltered \in Nat /\ Len(v) \in Nat
  BY <1>1, LengthFits
<1>3. Len(v) \in 0..(Len(Original(kind, names)) + MaxAltered)
  BY <1>2
<1> QED
  BY <1>1, <1>3, LengthFits DEF Str

LEMMA Originals ==
    ASSUME NEW names
    PROVE  /\ Original("server_id", names) = SERVER_ID \o <<CR>>
           /\ Original("client_id", names) = CLIENT_ID \o <<CR>>
           /\ Original("server_kexinit", names) = ServerKexinit(names)
           /\ Original("client_kexinit", names) = create_client_kexinit
           /\ Original("ecdh_init", names) = create_ecdh_init_payload(CLIENT_KEY)
           /\ Original("reply", names) = ServerReply
BY DEF Original

LEMMA SentFits ==
    ASSUME NEW names \in Offers
    PROVE  /\ CLIENT_ID \in Str /\ SERVER_ID \in Str
           /\ create_client_kexinit \in Str /\ ServerKexinit(names) \in Str
           /\ Ed25519Blob(HOST_KEY) \in Str /\ Ed25519Blob(SIGNATURE) \in Str
           /\ ED25519 \in Str /\ SIGNATURE \in Str
           /\ CLIENT_KEY \in Str /\ SERVER_KEY \in Str /\ HOST_KEY \in Str
<1> DEFINE O(kind) == Original(kind, names)
<1>1. \A kind \in Kinds, v \in Seq(Bytes) :
         Len(v) <= Len(O(kind)) => v \in Str
  <2> TAKE kind \in Kinds, v \in Seq(Bytes)
  <2> HAVE Len(v) <= Len(O(kind))
  <2>1. O(kind) \in Seq(Bytes)
    BY OriginalType
  <2>2. Len(O(kind)) \in Nat /\ Len(v) \in Nat
    BY <2>1
  <2>3. Len(v) <= Len(O(kind)) + MaxAltered
    BY <2>2, KexAssumption
  <2> QED
    BY <2>3, Fits
<1>2. /\ "server_id" \in Kinds /\ "client_id" \in Kinds /\ "server_kexinit" \in Kinds
      /\ "client_kexinit" \in Kinds /\ "reply" \in Kinds
  BY DEF Kinds
<1>3. CLIENT_ID \in Str
  <2>1. CLIENT_ID \in Seq(Bytes) /\ Len(CLIENT_ID \o <<CR>>) = Len(CLIENT_ID) + 1
    BY LineType
  <2>2. Len(CLIENT_ID) <= Len(CLIENT_ID \o <<CR>>)
    BY <2>1
  <2> QED
    BY <1>1, <1>2, <2>1, <2>2, Originals
<1>4. SERVER_ID \in Str
  <2>1. SERVER_ID \in Seq(Bytes) /\ Len(SERVER_ID \o <<CR>>) = Len(SERVER_ID) + 1
    BY LineType
  <2>2. Len(SERVER_ID) <= Len(SERVER_ID \o <<CR>>)
    BY <2>1
  <2> QED
    BY <1>1, <1>2, <2>1, <2>2, Originals
<1>5. create_client_kexinit \in Str /\ ServerKexinit(names) \in Str
  <2>1. create_client_kexinit \in Seq(Bytes) /\ ServerKexinit(names) \in Seq(Bytes)
    BY ClientKexinitType, ServerKexinitType
  <2>2. /\ Len(create_client_kexinit) <= Len(create_client_kexinit)
        /\ Len(ServerKexinit(names)) <= Len(ServerKexinit(names))
    BY <2>1
  <2> QED
    BY <1>1, <1>2, <2>1, <2>2, Originals
<1>6. /\ Ed25519Blob(HOST_KEY) \in Str /\ Ed25519Blob(SIGNATURE) \in Str
      /\ ED25519 \in Str /\ SIGNATURE \in Str
  <2>1. /\ Ed25519Blob(HOST_KEY) \in Seq(Bytes) /\ Ed25519Blob(SIGNATURE) \in Seq(Bytes)
        /\ ED25519 \in Seq(Bytes) /\ SIGNATURE \in Seq(Bytes)
    BY KeysAreBytes, BlobType, Zenon
  <2>2. /\ Len(Ed25519Blob(HOST_KEY)) <= Len(O("reply"))
        /\ Len(Ed25519Blob(SIGNATURE)) <= Len(O("reply"))
        /\ Len(ED25519) <= Len(O("reply")) /\ Len(SIGNATURE) <= Len(O("reply"))
    BY ReplyParts, Originals, Zenon
  <2> QED
    BY <1>1, <1>2, <2>1, <2>2, Zenon
<1>7. CLIENT_KEY \in Str /\ SERVER_KEY \in Str /\ HOST_KEY \in Str
  <2>1. length_of_key \in UInt32
    <3>1. length_of_key + 1 \in UInt32 /\ length_of_key \in Nat
      BY SizesAssumption, KexAssumption
    <3>2. length_of_key \in 0..(length_of_key + 1)
      BY <3>1
    <3> QED
      BY <3>1, <3>2, LengthFits
  <2> QED
    BY <2>1, KeysAreBytes DEF Str
<1> QED
  BY <1>3, <1>4, <1>5, <1>6, <1>7

-------------------------------------------------------------------------------
(***************************************************************************)
(* The inductive invariant.  Typing and Sizes make every message a string; *)
(* the client has read its part of the exchange, the server has signed the *)
(* whole of its own, and Agreement relates the two.                        *)
(***************************************************************************)
Message == Seq(Bytes) \cup {NONE}

View == [client_id : Message, server_id : Message, client_kexinit : Message,
         server_kexinit : Message, host_key : Message, client_key : Message,
         server_key : Message]

Stages == {"identification", "kexinit", "reply", "verified", "rejected"}

Typing ==
    /\ offer \in Offers /\ secret \in SharedSecrets /\ altered \in 0..MaxAltered
    /\ net \in [Kinds -> Message]
    /\ client = [stage |-> client.stage, view |-> client.view,
                 algorithms |-> client.algorithms, keys |-> client.keys]
    /\ client.stage \in Stages /\ client.view \in View
    /\ server = [stage |-> server.stage, view |-> server.view,
                 signed |-> server.signed, keys |-> server.keys]
    /\ server.stage \in {"waiting", "replied"}

Sizes ==
    \A kind \in Kinds :
        net[kind] # NONE => Len(net[kind]) <= Len(Original(kind, offer)) + altered

ClientSent ==
    client.stage \in {"kexinit", "reply"} \/ net["ecdh_init"] # NONE =>
        net["client_id"] # NONE /\ net["client_kexinit"] # NONE

ClientKnows ==
    LET view == client.view
    IN  /\ view.client_id = CLIENT_ID
        /\ view.server_id = NONE \/ view.server_id \in Seq(Plain)
        /\ client.stage \in {"kexinit", "reply"} =>
             view.server_id \in Str /\ view.client_kexinit = create_client_kexinit
        /\ client.stage \in {"reply", "verified"} =>
             view.server_kexinit \in Str /\ accepts_kexinit(view.server_kexinit)
        /\ client.stage = "reply" => view.client_key = CLIENT_KEY

ServerKnows ==
    /\ server.stage = "waiting" => server.signed = NONE
    /\ server.stage = "replied" =>
         /\ server.view \in CompleteView
         /\ server.signed = ServerHash(server.view)
         /\ server.keys = ServerKeys(server.signed)

Agreement ==
    client.stage = "verified" =>
        /\ server.stage = "replied"
        /\ client.view = server.view /\ client.keys = server.keys

ExchangeInv ==
    Typing /\ Sizes /\ ClientSent /\ ClientKnows /\ ServerKnows /\ Agreement

LEMMA NoneIs == \A v \in Seq(Bytes) : v # NONE
<1> SUFFICES ASSUME NEW v \in Seq(Bytes), v = NONE PROVE FALSE
  OBVIOUS
<1>1. Len(v) = 1 /\ v[1] = -1
  BY DEF NONE
<1>2. v[1] \in Bytes
  BY <1>1, ElementOfSeq
<1> QED
  BY <1>1, <1>2 DEF Bytes

LEMMA AlteredType ==
    ASSUME NEW m \in Seq(Bytes), NEW a \in Alterations(m)
    PROVE  a \in Seq(Bytes) /\ Len(a) <= Len(m) + 1
<1> DEFINE Ways(i) == {SubSeq(m, 1, i - 1) \o SubSeq(m, i + 1, Len(m)),
                       SubSeq(m, 1, i) \o SubSeq(m, i, Len(m)),
                       [m EXCEPT ![i] = (@ + 1) % BYTE]}
<1>1. PICK i \in 1..Len(m) : a \in Ways(i)
  <2>1. a \in UNION {Ways(i) : i \in DOMAIN m}
    BY Zenon DEF Alterations
  <2>2. DOMAIN m = 1..Len(m)
    OBVIOUS
  <2> HIDE DEF Ways
  <2> QED
    BY <2>1, <2>2
<1>2. i \in Nat /\ i - 1 \in Nat /\ Len(m) \in Nat /\ i <= Len(m) /\ i - 1 <= Len(m)
      /\ (i - 1) + 1 = i
  OBVIOUS
<1> DEFINE n == Len(m)
           before == SubSeq(m, 1, i - 1)
           upto == SubSeq(m, 1, i)
           from == SubSeq(m, i, n)
           after == SubSeq(m, i + 1, n)
<1>3. /\ before \in Seq(Bytes) /\ Len(before) = i - 1
      /\ upto \in Seq(Bytes) /\ Len(upto) = i
  BY <1>2, BytesPrefix
<1>4. after \in Seq(Bytes) /\ Len(after) = n - i
  <2>1. n <= n
    BY <1>2
  <2> QED
    BY <1>2, <2>1, BytesPiece, Zenon
<1>5. from \in Seq(Bytes) /\ Len(from) = n - (i - 1)
  <2>1. i - 1 <= n /\ n <= n
    BY <1>2
  <2>2. /\ SubSeq(m, (i - 1) + 1, n) \in Seq(Bytes)
        /\ Len(SubSeq(m, (i - 1) + 1, n)) = n - (i - 1)
    BY <1>2, <2>1, BytesPiece, Zenon
  <2> QED
    BY <1>2, <2>2, Zenon
<1> HIDE DEF before, upto, from, after
<1>6. CASE a = before \o after
  <2>1. before \o after \in Seq(Bytes) /\ Len(before \o after) = Len(before) + Len(after)
    BY <1>3, <1>4, BytesJoined, Zenon
  <2>2. Len(a) = (i - 1) + (n - i)
    BY <1>3, <1>4, <1>6, <2>1
  <2> QED
    BY <1>2, <1>6, <2>1, <2>2
<1>7. CASE a = upto \o from
  <2>1. upto \o from \in Seq(Bytes) /\ Len(upto \o from) = Len(upto) + Len(from)
    BY <1>3, <1>5, BytesJoined, Zenon
  <2>2. Len(a) = i + (n - (i - 1))
    BY <1>3, <1>5, <1>7, <2>1
  <2> QED
    BY <1>2, <1>7, <2>1, <2>2
<1>8. CASE a = [m EXCEPT ![i] = (@ + 1) % BYTE]
  <2>1. m[i] \in Bytes
    BY ElementOfSeq
  <2>2. (m[i] + 1) % BYTE \in Bytes
    BY <2>1, EncodingAssumption DEF Bytes
  <2>3. [m EXCEPT ![i] = (m[i] + 1) % BYTE] \in Seq(Bytes)
        /\ Len([m EXCEPT ![i] = (m[i] + 1) % BYTE]) = Len(m)
    BY <2>2, ExceptSeq
  <2> QED
    BY <1>2, <1>8, <2>3
<1> QED
  BY <1>1, <1>6, <1>7, <1>8 DEF before, upto, from, after

LEMMA ExchangeInitially == KexInit => ExchangeInv
<1> SUFFICES ASSUME KexInit PROVE ExchangeInv
  OBVIOUS
<1> USE DEF KexInit
<1>1. SERVER_ID \o <<CR>> \in Seq(Bytes) /\ ServerKexinit(offer) \in Seq(Bytes)
  BY LineType, ServerKexinitType
<1>2. CLIENT_ID \in Seq(Bytes)
  BY LineType
<1>3. /\ net["server_id"] = SERVER_ID \o <<CR>>
      /\ net["server_kexinit"] = ServerKexinit(offer)
      /\ \A kind \in Kinds \ {"server_id", "server_kexinit"} : net[kind] = NONE
  BY DEF Kinds
<1>4. net \in [Kinds -> Message]
  <2>1. net = [kind \in Kinds |-> net[kind]]
    BY Zenon
  <2>2. \A kind \in Kinds : net[kind] \in Message
    BY <1>1, <1>3 DEF Message
  <2> QED
    BY <2>1, <2>2, Zenon
<1>5. client.view \in View /\ client.view.client_id = CLIENT_ID /\ client.view.server_id = NONE
  BY <1>2 DEF View, NoView, Message
<1>6. Typing
  BY <1>4, <1>5, KexAssumption DEF Typing, Stages
<1>7. Sizes
  <2> SUFFICES ASSUME NEW kind \in Kinds, net[kind] # NONE
               PROVE  Len(net[kind]) <= Len(Original(kind, offer)) + 0
    BY DEF Sizes
  <2>1. kind \in {"server_id", "server_kexinit"} /\ net[kind] = Original(kind, offer)
    BY <1>3, Originals
  <2>2. Len(net[kind]) \in Nat
    BY <1>1, <1>3, <2>1
  <2> QED
    BY <2>1, <2>2
<1>8. ClientSent
  BY <1>3 DEF ClientSent, Kinds
<1>9. ClientKnows /\ ServerKnows /\ Agreement
  BY <1>5 DEF ClientKnows, ServerKnows, Agreement
<1> QED
  BY <1>6, <1>7, <1>8, <1>9 DEF ExchangeInv

LEMMA ServerKeeps ==
    ServerKnows /\ UNCHANGED <<server, secret>> => ServerKnows'
BY DEF ServerKnows, ServerHash, ServerKeys

\* A message that is there is a string.
LEMMA MessageFits ==
    ASSUME Typing, Sizes, NEW kind \in Kinds, net[kind] # NONE
    PROVE  /\ net[kind] \in Seq(Bytes) /\ net[kind] \in Str
           /\ Len(net[kind]) <= Len(Original(kind, offer)) + MaxAltered
<1>1. /\ net[kind] \in Seq(Bytes) /\ offer \in Offers
      /\ altered \in 0..MaxAltered
  BY DEF Typing, Message
<1>2. Original(kind, offer) \in Seq(Bytes)
  BY <1>1, OriginalType
<1>3. Len(net[kind]) <= Len(Original(kind, offer)) + altered
  BY DEF Sizes
<1>4. Len(net[kind]) \in Nat /\ Len(Original(kind, offer)) \in Nat /\ MaxAltered \in Nat
  BY <1>1, <1>2, KexAssumption
<1>5. Len(net[kind]) <= Len(Original(kind, offer)) + MaxAltered
  BY <1>1, <1>3, <1>4
<1> QED
  BY <1>1, <1>5, Fits

LEMMA AlterStep ==
    ASSUME ExchangeInv, NEW kind \in Kinds, Alter(kind)
    PROVE  ExchangeInv'
<1>1. Typing /\ Sizes /\ ClientSent /\ ClientKnows /\ ServerKnows /\ Agreement
  BY DEF ExchangeInv
<1>2. /\ altered < MaxAltered /\ net[kind] # NONE /\ altered' = altered + 1
      /\ UNCHANGED <<client, server, offer, secret>>
  BY DEF Alter
<1>3. PICK message \in Alterations(net[kind]) : net' = [net EXCEPT ![kind] = message]
  BY DEF Alter
<1>4. net[kind] \in Seq(Bytes) /\ net \in [Kinds -> Message] /\ altered \in 0..MaxAltered
  BY <1>1, <1>2 DEF Typing, Message
<1>5. /\ message \in Seq(Bytes) /\ Len(message) <= Len(net[kind]) + 1 /\ message # NONE
  BY <1>3, <1>4, AlteredType, NoneIs
<1>6. /\ net' \in [Kinds -> Message] /\ net'[kind] = message
      /\ \A k \in Kinds : k # kind => net'[k] = net[k]
  BY <1>3, <1>4, <1>5 DEF Message
<1>7. \A k \in Kinds : net'[k] = NONE <=> net[k] = NONE
  BY <1>2, <1>5, <1>6
<1>8. altered' \in 0..MaxAltered
  BY <1>2, <1>4, KexAssumption
<1>9. Typing'
  BY <1>1, <1>2, <1>6, <1>8 DEF Typing
<1>10. Sizes'
  <2> SUFFICES ASSUME NEW k \in Kinds, net'[k] # NONE
               PROVE  Len(net'[k]) <= Len(Original(k, offer)) + altered'
    BY <1>2 DEF Sizes
  <2>1. net[k] # NONE
    BY <1>7
  <2>2. Len(net[k]) <= Len(Original(k, offer)) + altered
    BY <1>1, <2>1 DEF Sizes
  <2>3. net[k] \in Seq(Bytes) /\ Original(k, offer) \in Seq(Bytes)
    BY <1>1, <2>1, OriginalType DEF Typing, Message
  <2>4. Len(net'[k]) \in Nat /\ Len(net'[k]) <= Len(net[k]) + 1
    <3>1. CASE k = kind
      BY <1>5, <1>6, <3>1
    <3>2. CASE k # kind
      <4>1. net'[k] = net[k] /\ Len(net[k]) \in Nat
        BY <1>6, <2>3, <3>2
      <4> QED
        BY <4>1
    <3> QED
      BY <3>1, <3>2
  <2>5. Len(net[k]) \in Nat /\ Len(Original(k, offer)) \in Nat
    BY <2>3
  <2> QED
    BY <1>2, <1>4, <2>2, <2>4, <2>5
<1>11. ClientSent'
  <2>1. "ecdh_init" \in Kinds /\ "client_id" \in Kinds /\ "client_kexinit" \in Kinds
    BY DEF Kinds
  <2> QED
    BY <1>1, <1>2, <1>7, <2>1 DEF ClientSent
<1>12. ClientKnows' /\ Agreement'
  BY <1>1, <1>2 DEF ClientKnows, Agreement
<1>13. ServerKnows'
  BY <1>1, <1>2, ServerKeeps
<1> QED
  BY <1>9, <1>10, <1>11, <1>12, <1>13 DEF ExchangeInv

LEMMA ThrowStep ==
    ASSUME ExchangeInv, ClientThrows, UNCHANGED <<server, offer, secret, altered>>
    PROVE  ExchangeInv'
<1>1. Typing /\ Sizes /\ ClientSent /\ ClientKnows /\ ServerKnows /\ Agreement
  BY DEF ExchangeInv
<1>2. /\ client' = [client EXCEPT !.stage = "rejected"] /\ net' = net
      /\ client = [stage |-> client.stage, view |-> client.view,
                   algorithms |-> client.algorithms, keys |-> client.keys]
  BY <1>1 DEF ClientThrows, Typing
<1>3. client' = [stage |-> "rejected", view |-> client.view,
                 algorithms |-> client.algorithms, keys |-> client.keys]
  BY <1>2
<1>4. /\ client'.stage = "rejected" /\ client'.view = client.view
      /\ client'.algorithms = client.algorithms /\ client'.keys = client.keys
  BY <1>3
<1>5. Typing'
  BY <1>1, <1>2, <1>3, <1>4 DEF Typing, Stages
<1>6. Sizes'
  BY <1>1, <1>2 DEF Sizes
<1>7. ClientSent'
  BY <1>1, <1>2, <1>4 DEF ClientSent
<1>8. ClientKnows' /\ Agreement'
  BY <1>1, <1>4 DEF ClientKnows, Agreement
<1>9. ServerKnows'
  BY <1>1, ServerKeeps
<1> QED
  BY <1>5, <1>6, <1>7, <1>8, <1>9 DEF ExchangeInv

\* A step of the client that takes it to stage with this view and these
\* messages, every one of which it has or sends as it is made.
LEMMA ClientStep ==
    ASSUME ExchangeInv, UNCHANGED <<server, offer, secret, altered>>,
           NEW stage \in Stages, NEW view \in View,
           NEW algorithms, NEW keys,
           client' = [stage |-> stage, view |-> view,
                      algorithms |-> algorithms, keys |-> keys],
           net' \in [Kinds -> Message],
           \A kind \in Kinds :
              net'[kind] = net[kind] \/ net'[kind] = Original(kind, offer)
    PROVE  Typing' /\ Sizes' /\ ServerKnows'
<1>1. Typing /\ Sizes /\ ServerKnows
  BY DEF ExchangeInv
<1>2. /\ client'.stage = stage /\ client'.view = view
      /\ client'.algorithms = algorithms /\ client'.keys = keys
  OBVIOUS
<1>3. Typing'
  BY <1>1, <1>2 DEF Typing
<1>4. Sizes'
  <2> SUFFICES ASSUME NEW k \in Kinds, net'[k] # NONE
               PROVE  Len(net'[k]) <= Len(Original(k, offer)) + altered
    BY DEF Sizes
  <2>1. CASE net'[k] = net[k]
    BY <1>1, <2>1 DEF Sizes
  <2>2. CASE net'[k] = Original(k, offer)
    <3>1. Original(k, offer) \in Seq(Bytes) /\ altered \in 0..MaxAltered
      BY <1>1, OriginalType DEF Typing
    <3>2. Len(Original(k, offer)) \in Nat /\ altered \in Nat
      BY <3>1, KexAssumption
    <3> QED
      BY <2>2, <3>2
  <2> QED
    BY <2>1, <2>2
<1>5. ServerKnows'
  BY <1>1, ServerKeeps
<1> QED
  BY <1>3, <1>4, <1>5

LEMMA IdentificationStep ==
    ASSUME ExchangeInv, exchange_identification
    PROVE  ExchangeInv'
<1> DEFINE line == read_version(net["server_id"])
           view == [client.view EXCEPT !.server_id = line,
                                       !.client_kexinit = create_client_kexinit]
<1>1. Typing /\ Sizes /\ ClientSent /\ ClientKnows /\ ServerKnows /\ Agreement
  BY DEF ExchangeInv
<1>2. /\ client.stage = "identification" /\ net["server_id"] # NONE
      /\ UNCHANGED <<server, offer, secret, altered>>
  BY DEF exchange_identification, ClientAt
<1>3. CASE ClientThrows
  BY <1>2, <1>3, ThrowStep
<1>4. CASE /\ client' = [client EXCEPT !.stage = "kexinit",
                                       !.view.server_id = line,
                                       !.view.client_kexinit = create_client_kexinit]
           /\ net' = [net EXCEPT !["client_id"] = CLIENT_ID \o <<CR>>,
                                 !["client_kexinit"] = create_client_kexinit]
  <2>1. line \in Seq(Plain) /\ line \in Str /\ line \in Seq(Bytes)
    <3>1. "server_id" \in Kinds
      BY DEF Kinds
    <3>2. /\ net["server_id"] \in Seq(Bytes)
          /\ Len(net["server_id"]) <= Len(Original("server_id", offer)) + MaxAltered
      BY <1>1, <1>2, <3>1, MessageFits
    <3>3. /\ line \in Seq(Plain) /\ line \in Seq(Bytes)
          /\ Len(line) <= Len(net["server_id"])
      BY <3>2, VersionRead
    <3> HIDE DEF line
    <3>4. Len(Original("server_id", offer)) + MaxAltered \in Nat
      BY <1>1, <3>1, SizesAssumption, LengthFits DEF Typing
    <3>5. Len(line) \in Nat /\ Len(net["server_id"]) \in Nat
      BY <3>2, <3>3
    <3>6. Len(line) <= Len(Original("server_id", offer)) + MaxAltered
      BY <3>2, <3>3, <3>4, <3>5
    <3> QED
      BY <1>1, <3>1, <3>3, <3>6, Fits DEF Typing
  <2> HIDE DEF line
  <2>2. client.view \in View /\ net \in [Kinds -> Message] /\ offer \in Offers
    BY <1>1 DEF Typing
  <2>3. /\ create_client_kexinit \in Seq(Bytes) /\ CLIENT_ID \o <<CR>> \in Seq(Bytes)
        /\ create_client_kexinit # NONE /\ CLIENT_ID \o <<CR>> # NONE
    BY ClientKexinitType, LineType, NoneIs
  <2>4. /\ view \in View /\ view.server_id = line
        /\ view.client_kexinit = create_client_kexinit
        /\ view.client_id = client.view.client_id
    BY <2>1, <2>2, <2>3 DEF View, Message
  <2>5. client' = [stage |-> "kexinit", view |-> view,
                   algorithms |-> client.algorithms, keys |-> client.keys]
    <3>1. client = [stage |-> client.stage, view |-> client.view,
                    algorithms |-> client.algorithms, keys |-> client.keys]
      BY <1>1 DEF Typing
    <3> QED
      BY <1>4, <3>1
  <2> HIDE DEF view
  <2>6. /\ net' \in [Kinds -> Message]
        /\ net'["client_id"] = CLIENT_ID \o <<CR>>
        /\ net'["client_kexinit"] = create_client_kexinit
        /\ \A kind \in Kinds \ {"client_id", "client_kexinit"} : net'[kind] = net[kind]
    BY <1>4, <2>2, <2>3 DEF Kinds, Message
  <2>7. \A kind \in Kinds : net'[kind] = net[kind] \/ net'[kind] = Original(kind, offer)
    BY <2>6, Originals
  <2>8. "kexinit" \in Stages
    BY DEF Stages
  <2>9. Typing' /\ Sizes' /\ ServerKnows'
    BY <1>2, <2>4, <2>5, <2>6, <2>7, <2>8, ClientStep
  <2>10. client'.stage = "kexinit" /\ client'.view = view
    BY <2>5
  <2>11. ClientSent'
    BY <2>3, <2>6 DEF ClientSent
  <2>12. ClientKnows' /\ Agreement'
    BY <1>1, <2>1, <2>4, <2>10 DEF ClientKnows, Agreement
  <2> QED
    BY <2>9, <2>11, <2>12 DEF ExchangeInv
<1> QED
  BY <1>3, <1>4 DEF exchange_identification

LEMMA KexinitStep ==
    ASSUME ExchangeInv, ReceiveKexinit
    PROVE  ExchangeInv'
<1> DEFINE payload == net["server_kexinit"]
           lists == read_name_lists(payload)
           view == [client.view EXCEPT !.server_kexinit = payload,
                                       !.client_key = CLIENT_KEY]
<1>1. Typing /\ Sizes /\ ClientSent /\ ClientKnows /\ ServerKnows /\ Agreement
  BY DEF ExchangeInv
<1>2. /\ client.stage = "kexinit" /\ payload # NONE
      /\ UNCHANGED <<server, offer, secret, altered>>
  BY DEF ReceiveKexinit, ClientAt
<1>3. CASE ClientThrows
  BY <1>2, <1>3, ThrowStep
<1>4. CASE /\ accepts_kexinit(payload)
           /\ client' = [client EXCEPT !.stage = "reply",
                                       !.algorithms = negotiate(lists),
                                       !.view.server_kexinit = payload,
                                       !.view.client_key = CLIENT_KEY]
           /\ net' = [net EXCEPT !["ecdh_init"] = create_ecdh_init_payload(CLIENT_KEY)]
  <2>1. payload \in Seq(Bytes) /\ payload \in Str
    <3>1. "server_kexinit" \in Kinds
      BY DEF Kinds
    <3> QED
      BY <1>1, <1>2, <3>1, MessageFits
  <2>2. client.view \in View /\ net \in [Kinds -> Message] /\ offer \in Offers
    BY <1>1 DEF Typing
  <2>3. /\ create_ecdh_init_payload(CLIENT_KEY) \in Seq(Bytes) /\ CLIENT_KEY \in Seq(Bytes)
    BY EcdhInitType, KeysAreBytes
  <2> DEFINE algorithms == negotiate(lists)
  <2> HIDE DEF algorithms, lists, payload
  <2>4. /\ view \in View /\ view.server_kexinit = payload /\ view.client_key = CLIENT_KEY
        /\ view.client_id = client.view.client_id
        /\ view.server_id = client.view.server_id
        /\ view.client_kexinit = client.view.client_kexinit
    BY <2>1, <2>2, <2>3 DEF View, Message
  <2>5. client' = [stage |-> "reply", view |-> view,
                   algorithms |-> algorithms, keys |-> client.keys]
    <3>1. client = [stage |-> client.stage, view |-> client.view,
                    algorithms |-> client.algorithms, keys |-> client.keys]
      BY <1>1 DEF Typing
    <3>2. client' = [client EXCEPT !.stage = "reply", !.algorithms = algorithms,
                                   !.view.server_kexinit = payload,
                                   !.view.client_key = CLIENT_KEY]
      BY <1>4 DEF algorithms, lists, payload
    <3> QED
      BY <3>1, <3>2
  <2> HIDE DEF view
  <2>6. /\ net' \in [Kinds -> Message]
        /\ net'["ecdh_init"] = create_ecdh_init_payload(CLIENT_KEY)
        /\ \A kind \in Kinds \ {"ecdh_init"} : net'[kind] = net[kind]
    BY <1>4, <2>2, <2>3 DEF Kinds, Message
  <2>7. \A kind \in Kinds : net'[kind] = net[kind] \/ net'[kind] = Original(kind, offer)
    BY <2>6, Originals
  <2>8. "reply" \in Stages
    BY DEF Stages
  <2>9. Typing' /\ Sizes' /\ ServerKnows'
    BY <1>2, <2>4, <2>5, <2>6, <2>7, <2>8, ClientStep
  <2>10. client'.stage = "reply" /\ client'.view = view
    BY <2>5
  <2>11. ClientSent'
    BY <1>1, <1>2, <2>6 DEF ClientSent, Kinds
  <2>12. ClientKnows' /\ Agreement'
    <3>1. accepts_kexinit(payload)
      BY <1>4 DEF payload
    <3> QED
      BY <1>1, <1>2, <2>1, <2>4, <2>10, <3>1 DEF ClientKnows, Agreement
  <2> QED
    BY <2>9, <2>11, <2>12 DEF ExchangeInv
<1> QED
  BY <1>3, <1>4 DEF ReceiveKexinit

\* The fields of a reply that is accepted.
LEMMA ReplyFields ==
    ASSUME NEW t \in Seq(Bytes), accepts_ecdh_reply(t)
    PROVE  /\ ReplyField(t, 1) \in Str /\ ReplyField(t, 2) \in Str
           /\ ReplyField(t, 3) \in Str
<1> DEFINE first == after_string(t, 1)
           second == after_string(t, first)
           third == after_string(t, second)
<1>1. ReplyEnds(t) = <<1, first, second, third>>
  BY DEF ReplyEnds
<1>2. third # FAILED
  <2>1. third = Len(t)
    BY <1>1 DEF accepts_ecdh_reply
  <2> QED
    BY <2>1 DEF FAILED
<1>3. /\ ReplyField(t, 1) = read_string(t, 1) /\ ReplyField(t, 2) = read_string(t, first)
      /\ ReplyField(t, 3) = read_string(t, second)
  BY <1>1 DEF ReplyField
<1>4. first \in Position /\ 1 \in Nat
  <2>1. 1 \in Position
    BY DEF Position
  <2> QED
    BY <2>1, AfterType
<1> HIDE DEF first
<1>5. second \in Position /\ (first = FAILED => second = FAILED)
  BY <1>4, AfterType
<1> HIDE DEF second
<1>6. second = FAILED => third = FAILED
  BY <1>5, AfterType
<1>7. second \in Nat /\ first \in Nat /\ first # FAILED /\ second # FAILED
  BY <1>2, <1>4, <1>5, <1>6 DEF Position
<1>8. read_string(t, second) \in Str
  BY <1>2, <1>7, StringTaken
<1>9. read_string(t, first) \in Str
  BY <1>7, StringTaken DEF second
<1>10. read_string(t, 1) \in Str
  BY <1>4, <1>7, StringTaken DEF first
<1> QED
  BY <1>3, <1>8, <1>9, <1>10

\* The server can only have signed the exchange that the client has had.
LEMMA OneExchange ==
    ASSUME ServerKnows, Typing, NEW view \in CompleteView,
           NEW shared_secret \in SharedSecrets,
           calculate_exchange_hash(view, shared_secret) = server.signed
    PROVE  /\ server.stage = "replied" /\ view = server.view
           /\ derive_transport_keys(shared_secret, server.signed, server.signed)
                = server.keys
<1>1. secret \in SharedSecrets /\ server.stage \in {"waiting", "replied"}
  BY DEF Typing
<1>2. /\ secret \in [1..length_of_key -> Bytes]
      /\ shared_secret \in [1..length_of_key -> Bytes]
  BY <1>1, KexAssumption
<1>3. /\ calculate_exchange_hash(view, shared_secret) = ExchangeHash(view, Number(shared_secret))
      /\ server.signed \in Seq(Bytes)
  BY <1>2, ClientHashIs
<1>4. server.stage = "replied"
  BY <1>1, <1>3, NoneIs DEF ServerKnows
<1>5. /\ server.view \in CompleteView /\ server.signed = ServerHash(server.view)
      /\ server.keys = ServerKeys(server.signed)
  BY <1>4 DEF ServerKnows
<1>6. ServerHash(server.view) = ExchangeHash(server.view, Number(secret))
  <2>1. mpint(secret) = Number(secret)
    BY <1>2, MpintIs, KeyIsBytes, KexAssumption, Zenon
  <2> QED
    BY <2>1, ServerHashIs
<1>7. Number(shared_secret) \in Str /\ Number(secret) \in Str
  BY <1>2, NumberIs
<1>8. view = server.view /\ Number(shared_secret) = Number(secret)
  <2>1. ExchangeHash(view, Number(shared_secret)) = ExchangeHash(server.view, Number(secret))
    <3>1. server.signed = ExchangeHash(view, Number(shared_secret))
      BY <1>3, Zenon
    <3> QED
      BY <1>5, <1>6, <3>1, Zenon
  <2> QED
    BY <1>5, <1>7, <2>1, HashInjective, ZenonT(60)
<1>9. append_positive_mpint(<<>>, shared_secret) = String(mpint(secret))
  <2>1. append_positive_mpint(<<>>, shared_secret) = append_string(<<>>, Number(secret))
    BY <1>8, AppendedNumber, Zenon
  <2>2. <<>> \in Seq(Bytes) /\ String(Number(secret)) \in Seq(Bytes)
    BY <1>7, StringIs
  <2>3. append_string(<<>>, Number(secret)) = <<>> \o String(Number(secret))
    BY <1>7, <2>2, AppendedString, Zenon
  <2>4. <<>> \o String(Number(secret)) = String(Number(secret))
    BY <2>2
  <2>5. mpint(secret) = Number(secret)
    BY <1>2, MpintIs, KeyIsBytes, KexAssumption, Zenon
  <2> QED
    BY <2>1, <2>3, <2>4, <2>5, Zenon
<1>10. derive_transport_keys(shared_secret, server.signed, server.signed)
         = ServerKeys(server.signed)
  BY <1>9 DEF derive_transport_keys, derive_key_material, ServerKeys
<1> QED
  BY <1>4, <1>5, <1>8, <1>10

LEMMA ReplyStep ==
    ASSUME ExchangeInv, ReceiveReply
    PROVE  ExchangeInv'
<1> DEFINE reply == net["reply"]
           host_key == ReplyField(reply, 1)
           key == ReplyField(reply, 2)
           view == [client.view EXCEPT !.host_key = host_key, !.server_key = key]
           hash(s) == calculate_exchange_hash(view, s)
<1>1. Typing /\ Sizes /\ ClientSent /\ ClientKnows /\ ServerKnows /\ Agreement
  BY DEF ExchangeInv
<1>2. /\ client.stage = "reply" /\ reply # NONE
      /\ UNCHANGED <<server, offer, secret, altered>>
  BY DEF ReceiveReply, ClientAt
<1>3. CASE ClientThrows
  BY <1>2, <1>3, ThrowStep
<1>4. ASSUME accepts_ecdh_reply(reply),
             NEW shared_secret \in calculate_shared_secret(view.server_key),
             shared_secret # NONE,
             hash(shared_secret) = server.signed,
             client' = [client EXCEPT !.stage = "verified", !.view = view,
                          !.keys = derive_transport_keys(shared_secret,
                                     hash(shared_secret), hash(shared_secret))],
             net' = net
      PROVE  ExchangeInv'
  <2>1. reply \in Seq(Bytes)
    <3>1. "reply" \in Kinds
      BY DEF Kinds
    <3> QED
      BY <1>1, <1>2, <3>1, MessageFits
  <2>2. host_key \in Str /\ key \in Str
    BY <1>4, <2>1, ReplyFields
  <2> HIDE DEF host_key, key
  <2>3. client.view \in View /\ offer \in Offers /\ secret \in SharedSecrets
    BY <1>1 DEF Typing
  <2>4. /\ client.view.client_id = CLIENT_ID /\ client.view.server_id \in Str
        /\ client.view.client_kexinit = create_client_kexinit
        /\ client.view.server_kexinit \in Str /\ client.view.client_key = CLIENT_KEY
        /\ accepts_kexinit(client.view.server_kexinit)
        /\ client.view.server_id = NONE \/ client.view.server_id \in Seq(Plain)
    BY <1>1, <1>2 DEF ClientKnows
  <2>5. CLIENT_ID \in Str /\ create_client_kexinit \in Str /\ CLIENT_KEY \in Str
    BY <2>3, SentFits
  <2>6. /\ view \in View /\ view.host_key = host_key /\ view.server_key = key
        /\ view.client_id = client.view.client_id
        /\ view.server_id = client.view.server_id
        /\ view.client_kexinit = client.view.client_kexinit
        /\ view.server_kexinit = client.view.server_kexinit
        /\ view.client_key = client.view.client_key
    BY <2>2, <2>3 DEF View, Message, Str
  <2>7. view \in CompleteView
    <3> HIDE DEF view
    <3> QED
      BY <2>2, <2>4, <2>5, <2>6 DEF CompleteView, View
  <2>8. /\ view.client_id = CLIENT_ID /\ view.server_id = client.view.server_id
        /\ view.server_kexinit = client.view.server_kexinit
    BY <2>4, <2>6
  <2>9. shared_secret \in SharedSecrets
    BY <1>4, <2>3 DEF calculate_shared_secret
  <2> HIDE DEF view
  <2>10. /\ server.stage = "replied" /\ view = server.view
         /\ derive_transport_keys(shared_secret, server.signed, server.signed) = server.keys
    BY <1>1, <1>4, <2>7, <2>9, OneExchange
  <2>11. client' = [stage |-> "verified", view |-> view,
                    algorithms |-> client.algorithms, keys |-> server.keys]
    <3>1. client = [stage |-> client.stage, view |-> client.view,
                    algorithms |-> client.algorithms, keys |-> client.keys]
      BY <1>1 DEF Typing
    <3>2. client' = [client EXCEPT !.stage = "verified", !.view = view,
                                   !.keys = server.keys]
      BY <1>4, <2>10
    <3> QED
      BY <3>1, <3>2
  <2>12. view \in View
    BY <2>7 DEF CompleteView, View, Message, Str
  <2>13. net' \in [Kinds -> Message] /\ \A kind \in Kinds : net'[kind] = net[kind]
    BY <1>1, <1>4 DEF Typing
  <2>14. "verified" \in Stages
    BY DEF Stages
  <2>15. Typing' /\ Sizes' /\ ServerKnows'
    BY <1>2, <2>11, <2>12, <2>13, <2>14, ClientStep
  <2>16. client'.stage = "verified" /\ client'.view = view /\ client'.keys = server.keys
    BY <2>11
  <2>17. ClientSent'
    BY <1>1, <1>2, <1>4, <2>16 DEF ClientSent
  <2>18. ClientKnows' /\ Agreement'
    BY <1>2, <2>4, <2>8, <2>10, <2>16 DEF ClientKnows, Agreement
  <2> QED
    BY <2>15, <2>17, <2>18 DEF ExchangeInv
<1> QED
  BY <1>3, <1>4 DEF ReceiveReply, verify_ed25519_signature

LEMMA ServerStep ==
    ASSUME ExchangeInv, ServerReplies
    PROVE  ExchangeInv'
<1> DEFINE view == [client_id |-> read_version(net["client_id"]),
                    server_id |-> SERVER_ID,
                    client_kexinit |-> net["client_kexinit"],
                    server_kexinit |-> ServerKexinit(offer),
                    host_key |-> Ed25519Blob(HOST_KEY),
                    client_key |-> read_string(net["ecdh_init"], 1),
                    server_key |-> SERVER_KEY]
<1>1. Typing /\ Sizes /\ ClientSent /\ ClientKnows /\ ServerKnows /\ Agreement
  BY DEF ExchangeInv
<1>2. /\ server.stage = "waiting" /\ net["ecdh_init"] # NONE
      /\ after_string(net["ecdh_init"], 1) = Len(net["ecdh_init"])
      /\ net' = [net EXCEPT !["reply"] = ServerReply]
      /\ server' = [stage |-> "replied", view |-> view, signed |-> ServerHash(view),
                    keys |-> ServerKeys(ServerHash(view))]
      /\ UNCHANGED <<client, offer, secret, altered>>
  BY DEF ServerReplies
<1>3. /\ net["client_id"] # NONE /\ net["client_kexinit"] # NONE
  BY <1>1, <1>2 DEF ClientSent
<1>4. /\ "client_id" \in Kinds /\ "client_kexinit" \in Kinds /\ "ecdh_init" \in Kinds
      /\ "reply" \in Kinds
  BY DEF Kinds
<1>5. read_version(net["client_id"]) \in Str
  <2>1. /\ net["client_id"] \in Seq(Bytes)
        /\ Len(net["client_id"]) <= Len(Original("client_id", offer)) + MaxAltered
    BY <1>1, <1>3, <1>4, MessageFits
  <2> DEFINE line == read_version(net["client_id"])
  <2>2. line \in Seq(Bytes) /\ Len(line) <= Len(net["client_id"])
    BY <2>1, VersionRead
  <2> HIDE DEF line
  <2>3. Len(Original("client_id", offer)) + MaxAltered \in Nat
    BY <1>1, <1>4, SizesAssumption, LengthFits DEF Typing
  <2>4. Len(line) \in Nat /\ Len(net["client_id"]) \in Nat
    BY <2>1, <2>2
  <2>5. Len(line) <= Len(Original("client_id", offer)) + MaxAltered
    BY <2>1, <2>2, <2>3, <2>4
  <2>6. line \in Str
    BY <1>1, <1>4, <2>2, <2>5, Fits DEF Typing
  <2> QED
    BY <2>6 DEF line
<1>6. net["client_kexinit"] \in Str
  BY <1>1, <1>3, <1>4, MessageFits
<1>7. read_string(net["ecdh_init"], 1) \in Str
  <2>1. net["ecdh_init"] \in Seq(Bytes) /\ 1 \in Nat
    BY <1>1, <1>2, <1>4, MessageFits
  <2>2. after_string(net["ecdh_init"], 1) # FAILED
    BY <1>2, <2>1 DEF FAILED
  <2> QED
    BY <2>1, <2>2, StringTaken
<1>8. /\ SERVER_ID \in Str /\ ServerKexinit(offer) \in Str
      /\ Ed25519Blob(HOST_KEY) \in Str /\ SERVER_KEY \in Str
  BY <1>1, SentFits DEF Typing
<1>9. view \in CompleteView
  BY <1>5, <1>6, <1>7, <1>8 DEF CompleteView
<1> HIDE DEF view
<1>10. /\ server'.stage = "replied" /\ server'.view = view
       /\ server'.signed = ServerHash(view) /\ server'.keys = ServerKeys(ServerHash(view))
       /\ server' = [stage |-> server'.stage, view |-> server'.view,
                     signed |-> server'.signed, keys |-> server'.keys]
  BY <1>2
<1>11. ServerKnows'
  <2>1. /\ ServerHash(server.view)' = ServerHash(view)
        /\ ServerKeys(server.signed)' = ServerKeys(ServerHash(view))
    <3> DEFINE h == ServerHash(view)
    <3>1. ServerHash(server.view)' = h
      BY <1>2, <1>10 DEF ServerHash
    <3>2. server'.signed = h
      BY <1>10
    <3> HIDE DEF h
    <3>3. ServerKeys(server.signed)' = ServerKeys(h)
      BY <1>2, <3>2 DEF ServerKeys
    <3> QED
      BY <3>1, <3>3 DEF h
  <2> QED
    BY <1>9, <1>10, <2>1 DEF ServerKnows
<1>12. /\ net' \in [Kinds -> Message]
       /\ net'["reply"] = Original("reply", offer)
       /\ \A kind \in Kinds \ {"reply"} : net'[kind] = net[kind]
  <2>1. ServerReply \in Seq(Bytes) /\ net \in [Kinds -> Message]
    BY <1>1, ReplyParts DEF Typing
  <2> QED
    BY <1>2, <1>4, <2>1, Originals DEF Message
<1>13. Typing'
  BY <1>1, <1>2, <1>10, <1>12 DEF Typing
<1>14. Sizes'
  <2> SUFFICES ASSUME NEW k \in Kinds, net'[k] # NONE
               PROVE  Len(net'[k]) <= Len(Original(k, offer)) + altered
    BY <1>2 DEF Sizes
  <2>1. CASE k # "reply"
    BY <1>1, <1>12, <2>1 DEF Sizes
  <2>2. CASE k = "reply"
    <3>1. Original(k, offer) \in Seq(Bytes) /\ altered \in 0..MaxAltered
      BY <1>1, OriginalType DEF Typing
    <3>2. Len(Original(k, offer)) \in Nat /\ altered \in Nat
      BY <3>1, KexAssumption
    <3> QED
      BY <1>12, <2>2, <3>2
  <2> QED
    BY <2>1, <2>2
<1>15. ClientSent'
  BY <1>1, <1>2, <1>4, <1>12 DEF ClientSent
<1>16. ClientKnows'
  BY <1>1, <1>2 DEF ClientKnows
<1>17. Agreement'
  BY <1>1, <1>2 DEF Agreement
<1> QED
  BY <1>11, <1>13, <1>14, <1>15, <1>16, <1>17 DEF ExchangeInv

LEMMA ExchangeStep == ExchangeInv /\ [KexNext]_kexVars => ExchangeInv'
<1> SUFFICES ASSUME ExchangeInv, [KexNext]_kexVars PROVE ExchangeInv'
  OBVIOUS
<1>1. CASE UNCHANGED kexVars
  <2>1. UNCHANGED <<client, server, net, offer, secret, altered>>
    BY <1>1 DEF kexVars
  <2>2. ServerKnows'
    BY <2>1, ServerKeeps DEF ExchangeInv
  <2>3. Typing' /\ Sizes' /\ ClientSent' /\ ClientKnows' /\ Agreement'
    BY <2>1 DEF ExchangeInv, Typing, Sizes, ClientSent, ClientKnows, Agreement
  <2> QED
    BY <2>2, <2>3 DEF ExchangeInv
<1>2. CASE exchange_identification
  BY <1>2, IdentificationStep
<1>3. CASE ReceiveKexinit
  BY <1>3, KexinitStep
<1>4. CASE ReceiveReply
  BY <1>4, ReplyStep
<1>5. CASE ServerReplies
  BY <1>5, ServerStep
<1>6. CASE \E kind \in Kinds : Alter(kind)
  BY <1>6, AlterStep
<1>7. CASE KexOver
  BY <1>1, <1>7 DEF KexOver
<1> QED
  BY <1>1, <1>2, <1>3, <1>4, <1>5, <1>6, <1>7 DEF KexNext

(***************************************************************************)
(* The inductive invariant holds in every state: the messages stay strings *)
(* however they are altered, the server signs the exchange that it has     *)
(* had, and a client that has accepted the signature agrees with it        *)
(* (kex.cpp:282-377, main.cpp:332-393).                                    *)
(***************************************************************************)
THEOREM ExchangeInductive == KexSpec => []ExchangeInv
<1> QED
  BY ExchangeInitially, ExchangeStep, PTL DEF KexSpec

(***************************************************************************)
(* Every message is made of bytes and the identification that the client   *)
(* keeps has no '\r' in it, whatever line came (main.cpp:110-140).         *)
(***************************************************************************)
THEOREM KexTypes == KexSpec => []KexTypeOK
<1>1. ExchangeInv => KexTypeOK
  <2> SUFFICES ASSUME ExchangeInv PROVE KexTypeOK
    OBVIOUS
  <2>1. Typing /\ ClientKnows
    BY DEF ExchangeInv
  <2>2. \A kind \in Kinds :
           net[kind] = NONE \/ \A i \in DOMAIN net[kind] : net[kind][i] \in Bytes
    <3>1. \A kind \in Kinds : net[kind] = NONE \/ net[kind] \in Seq(Bytes)
      BY <2>1 DEF Typing, Message
    <3>2. \A v \in Seq(Bytes) : \A i \in DOMAIN v : v[i] \in Bytes
      OBVIOUS
    <3> QED
      BY <3>1, <3>2, Zenon
  <2>3. \A i \in DOMAIN client.view.server_id : client.view.server_id[i] # CR
    <3>1. CASE client.view.server_id = NONE
      <4>1. DOMAIN client.view.server_id = {1} /\ client.view.server_id[1] = -1
        BY <3>1 DEF NONE
      <4>2. CR \in Bytes
        BY KexAssumption
      <4>3. -1 # CR
        BY <4>2 DEF Bytes
      <4> QED
        BY <4>1, <4>3
    <3>2. CASE client.view.server_id \in Seq(Plain)
      <4>1. \A v \in Seq(Plain) : \A i \in DOMAIN v : v[i] \in Plain
        OBVIOUS
      <4> QED
        BY <3>2, <4>1 DEF Plain
    <3> QED
      BY <2>1, <3>1, <3>2 DEF ClientKnows
  <2> QED
    BY <2>1, <2>2, <2>3 DEF KexTypeOK, Typing, Stages
<1> QED
  BY <1>1, ExchangeInductive, PTL

(***************************************************************************)
(* A client that has verified the signature has had the server's exchange, *)
(* byte for byte, however often and wherever the messages were altered.    *)
(***************************************************************************)
THEOREM SameExchangeAlways == KexSpec => []SameExchange
<1>1. ExchangeInv => SameExchange
  BY DEF ExchangeInv, Agreement, SameExchange
<1> QED
  BY <1>1, ExchangeInductive, PTL

(***************************************************************************)
(* The two ends then have the same six keys and vectors: the client's loop *)
(* for the secret gives the number that the server hashes.                 *)
(***************************************************************************)
THEOREM SameKeysAlways == KexSpec => []SameKeys
<1>1. ExchangeInv => SameKeys
  BY DEF ExchangeInv, Agreement, SameKeys
<1> QED
  BY <1>1, ExchangeInductive, PTL

(***************************************************************************)
(* A KEXINIT that the client goes on with is the encoding of the lists it  *)
(* took from it, for lists of every length (kex.cpp:18-120).               *)
(***************************************************************************)
THEOREM KexinitExactAlways == KexSpec => []KexinitExact
<1>1. ExchangeInv => KexinitExact
  <2> SUFFICES ASSUME ExchangeInv, client.stage \in {"reply", "verified"}
               PROVE  LET payload == client.view.server_kexinit
                          exact == Kexinit(Slice(payload, 1, cookie_bytes),
                                           read_name_lists(payload))
                      IN  /\ Len(exact) = Len(payload)
                          /\ \A i \in DOMAIN exact :
                               payload[i] = exact[i] \/ i = Len(exact) - uint32_bytes
    BY DEF KexinitExact
  <2>1. client.view.server_kexinit \in Seq(Bytes) /\ accepts_kexinit(client.view.server_kexinit)
    BY DEF ExchangeInv, ClientKnows, Str
  <2> QED
    BY <2>1, Exact, Zenon
<1> QED
  BY <1>1, ExchangeInductive, PTL

-------------------------------------------------------------------------------
(***************************************************************************)
(* Name lists: the items that getline finds in a list of names joined by   *)
(* commas are the names.                                                   *)
(***************************************************************************)
\* The name is an item of the list, the one that begins at p.
At(list, p, name) ==
    /\ p \in 0..Len(list) /\ p + Len(name) <= Len(list)
    /\ p = 0 \/ list[p] = COMMA
    /\ \A i \in 1..Len(name) : list[p + i] = name[i]
    /\ p + Len(name) = Len(list) \/ list[p + Len(name) + 1] = COMMA

Ends(list, p, q) ==
    /\ \A i \in (p + 1)..q : list[i] # COMMA
    /\ q = Len(list) \/ list[q + 1] = COMMA

LEMMA NoComma ==
    ASSUME NEW name \in Named
    PROVE  Len(name) \in Nat /\ \A i \in 1..Len(name) : name[i] # COMMA
<1>1. Len(name) \in Nat
  BY DEF Named
<1>2. \A i \in 1..Len(name) : name[i] \in Bytes \ {COMMA}
  BY ElementOfSeq DEF Named
<1> QED
  BY <1>1, <1>2

LEMMA ItemIs ==
    ASSUME NEW list \in Seq(Bytes), NEW p \in 0..Len(list), p = 0 \/ list[p] = COMMA,
           NEW name \in Named
    PROVE  Item(list, p) = name <=> At(list, p, name)
<1> DEFINE n == Len(list)
           end == CHOOSE q \in p..n : Ends(list, p, q)
           item == SubSeq(list, p + 1, end)
           m == Len(name)
<1>1. n \in Nat /\ p \in Nat /\ p <= n
  OBVIOUS
<1>2. Item(list, p) = item
  BY DEF Item, Ends
<1>3. \E q \in p..n : Ends(list, p, q)
  <2> DEFINE T == {q \in p..n : q = n \/ list[q + 1] = COMMA}
  <2>1. T \in SUBSET Nat /\ n \in T
    BY <1>1
  <2>2. PICK q \in T : \A r \in T : q <= r
    BY <2>1, LeastNumber
  <2>3. \A i \in (p + 1)..q : list[i] # COMMA
    <3> SUFFICES ASSUME NEW i \in (p + 1)..q, list[i] = COMMA PROVE FALSE
      OBVIOUS
    <3>1. i - 1 \in p..n /\ (i - 1) + 1 = i /\ ~(q <= i - 1)
      BY <1>1, <2>2
    <3>2. i - 1 \in T
      BY <3>1
    <3> QED
      BY <2>2, <3>1, <3>2
  <2> QED
    BY <2>2, <2>3 DEF Ends
<1>4. end \in p..n /\ Ends(list, p, end)
  BY <1>3, Zenon
<1> HIDE DEF end, n
<1>5. end \in Nat /\ p <= end /\ end <= n
  BY <1>1, <1>4
<1>6. /\ item \in Seq(Bytes) /\ Len(item) = end - p
      /\ \A i \in 1..(end - p) : item[i] = list[p + i]
  BY <1>1, <1>5, BytesPiece, Zenon DEF n
<1> HIDE DEF item
<1>7. m \in Nat /\ name \in Seq(Bytes) /\ \A i \in 1..m : name[i] # COMMA
  BY NoComma, NamesAreBytes
<1> HIDE DEF m
<1>8. ASSUME item = name PROVE At(list, p, name)
  <2>1. m = end - p /\ p + m = end
    <3>1. m = end - p
      BY <1>6, <1>8, Zenon DEF m
    <3> QED
      BY <1>1, <1>5, <3>1
  <2>2. \A i \in 1..m : list[p + i] = name[i]
    BY <1>6, <1>8, <2>1
  <2>3. p + m <= n /\ (p + m = n \/ list[p + m + 1] = COMMA)
    BY <1>4, <1>5, <2>1 DEF Ends, n
  <2> QED
    BY <2>2, <2>3 DEF At, m, n
<1>9. ASSUME At(list, p, name) PROVE item = name
  <2>1. /\ p + m <= n /\ \A i \in 1..m : list[p + i] = name[i]
        /\ p + m = n \/ list[p + m + 1] = COMMA
    BY <1>9 DEF At, m, n
  <2>2. \A i \in (p + 1)..(p + m) : list[i] # COMMA
    <3> TAKE i \in (p + 1)..(p + m)
    <3>1. i - p \in 1..m /\ p + (i - p) = i
      BY <1>1, <1>7
    <3> QED
      BY <1>7, <2>1, <3>1
  <2>3. ~(end < p + m)
    <3> SUFFICES ASSUME end < p + m PROVE FALSE
      OBVIOUS
    <3>1. end # n /\ end + 1 \in (p + 1)..(p + m)
      BY <1>1, <1>5, <1>7, <2>1
    <3> QED
      BY <1>4, <2>2, <3>1 DEF Ends, n
  <2>4. ~(p + m < end)
    <3> SUFFICES ASSUME p + m < end PROVE FALSE
      OBVIOUS
    <3>1. p + m # n /\ p + m + 1 \in (p + 1)..end
      BY <1>1, <1>5, <1>7, <2>1
    <3> QED
      BY <1>4, <2>1, <3>1 DEF Ends
  <2>5. end = p + m /\ end - p = m
    BY <1>1, <1>5, <1>7, <2>3, <2>4
  <2>6. Len(item) = Len(name) /\ \A i \in 1..Len(item) : item[i] = name[i]
    BY <1>6, <2>1, <2>5 DEF m
  <2> QED
    BY <1>6, <1>7, <2>6, SameSequence
<1> QED
  BY <1>2, <1>8, <1>9

\* An item that is not empty is found where getline looks.
LEMMA ItemFound ==
    ASSUME NEW list \in Seq(Bytes), NEW name \in Named, name # <<>>
    PROVE  (\E p \in Starts(list) : Item(list, p) = name) <=> (\E p \in Nat : At(list, p, name))
<1>1. Len(list) \in Nat /\ Len(name) \in Nat /\ Len(name) > 0
  BY NoComma DEF Named
<1>2. ASSUME NEW p \in Starts(list), Item(list, p) = name
      PROVE  \E q \in Nat : At(list, q, name)
  <2>1. p \in 0..Len(list) /\ p \in Nat /\ (p = 0 \/ list[p] = COMMA)
    BY <1>1 DEF Starts
  <2> QED
    BY <1>2, <2>1, ItemIs
<1>3. ASSUME NEW p \in Nat, At(list, p, name)
      PROVE  \E q \in Starts(list) : Item(list, q) = name
  <2>1. /\ p \in 0..Len(list) /\ p + Len(name) <= Len(list)
        /\ p = 0 \/ list[p] = COMMA
    BY <1>3 DEF At
  <2>2. p \in Starts(list)
    BY <1>1, <2>1 DEF Starts
  <2> QED
    BY <1>3, <2>1, <2>2, ItemIs
<1> QED
  BY <1>2, <1>3

\* A list of one name has one item.
LEMMA OneItem ==
    ASSUME NEW list \in Named, NEW name \in Named, NEW p \in Nat
    PROVE  At(list, p, name) <=> p = 0 /\ list = name
<1>1. /\ Len(list) \in Nat /\ Len(name) \in Nat
      /\ \A i \in 1..Len(list) : list[i] # COMMA
  BY NoComma
<1>2. ASSUME At(list, p, name) PROVE p = 0 /\ list = name
  <2>1. p = 0
    BY <1>1, <1>2 DEF At
  <2>2. Len(name) <= Len(list) /\ \A i \in 1..Len(name) : list[i] = name[i]
    <3>1. \A i \in 1..Len(name) : list[0 + i] = name[i] /\ 0 + i = i
      BY <1>1, <1>2, <2>1 DEF At
    <3>2. 0 + Len(name) <= Len(list)
      BY <1>2, <2>1 DEF At
    <3> QED
      BY <1>1, <3>1, <3>2
  <2>3. Len(name) = Len(list)
    <3> SUFFICES ASSUME Len(name) # Len(list) PROVE FALSE
      OBVIOUS
    <3>1. Len(name) + 1 \in 1..Len(list) /\ 0 + Len(name) + 1 = Len(name) + 1
          /\ 0 + Len(name) = Len(name)
      BY <1>1, <2>2
    <3>2. list[Len(name) + 1] = COMMA
      BY <1>2, <2>1, <3>1 DEF At
    <3> QED
      BY <1>1, <3>1, <3>2
  <2>4. list = name
    BY <2>2, <2>3, NamesAreBytes, SameSequence
  <2> QED
    BY <2>1, <2>4
<1>3. ASSUME p = 0, list = name PROVE At(list, p, name)
  BY <1>1, <1>3 DEF At
<1> QED
  BY <1>2, <1>3

\* With one name more the list has one item more.
LEMMA NextItem ==
    ASSUME NEW list \in Seq(Bytes), NEW last \in Named, NEW name \in Named,
           name # <<>>, NEW p \in Nat
    PROVE  At((list \o <<COMMA>>) \o last, p, name)
             <=> At(list, p, name) \/ (p = Len(list) + 1 /\ last = name)
<1> DEFINE n == Len(list)
           l == Len(last)
           m == Len(name)
           a == list \o <<COMMA>>
           t == a \o last
<1>1. /\ n \in Nat /\ l \in Nat /\ m \in Nat /\ m > 0
      /\ \A i \in 1..l : last[i] # COMMA
      /\ \A i \in 1..m : name[i] # COMMA
  <2>1. m # 0
    BY DEF Named
  <2> QED
    BY <2>1, NoComma
<1>2. <<COMMA>> \in Seq(Bytes) /\ Len(<<COMMA>>) = 1 /\ <<COMMA>>[1] = COMMA
  BY KexAssumption
<1>3. /\ a \in Seq(Bytes) /\ Len(a) = n + 1
      /\ \A i \in 1..n : a[i] = list[i]
      /\ a[n + 1] = COMMA
  <2>1. /\ a \in Seq(Bytes) /\ Len(a) = Len(list) + Len(<<COMMA>>)
        /\ \A i \in 1..Len(list) : a[i] = list[i]
        /\ \A i \in 1..Len(<<COMMA>>) : a[Len(list) + i] = <<COMMA>>[i]
    BY <1>2, BytesConcatenated, Zenon
  <2> HIDE DEF a
  <2> QED
    BY <1>2, <2>1
<1> HIDE DEF a
<1>4. /\ t \in Seq(Bytes) /\ Len(t) = (n + 1) + l
      /\ \A i \in 1..(n + 1) : t[i] = a[i]
      /\ \A i \in 1..l : t[(n + 1) + i] = last[i]
  <2>1. last \in Seq(Bytes)
    BY NamesAreBytes
  <2>2. /\ t \in Seq(Bytes) /\ Len(t) = Len(a) + Len(last)
        /\ \A i \in 1..Len(a) : t[i] = a[i]
        /\ \A i \in 1..Len(last) : t[Len(a) + i] = last[i]
    BY <1>3, <2>1, BytesConcatenated, Zenon
  <2> HIDE DEF t
  <2> QED
    BY <1>3, <2>2
<1> HIDE DEF t, n, l, m
<1>5. /\ \A i \in 1..n : t[i] = list[i]
      /\ t[n + 1] = COMMA
  BY <1>1, <1>3, <1>4
<1>6. ASSUME At(list, p, name) PROVE At(t, p, name)
  <2>1. /\ p \in 0..n /\ p + m <= n /\ (p = 0 \/ list[p] = COMMA)
        /\ \A i \in 1..m : list[p + i] = name[i]
        /\ p + m = n \/ list[p + m + 1] = COMMA
    BY <1>6 DEF At, n, m
  <2>2. p = 0 \/ t[p] = COMMA
    BY <1>1, <1>5, <2>1
  <2>3. \A i \in 1..m : t[p + i] = name[i]
    <3> TAKE i \in 1..m
    <3>1. p + i \in 1..n
      BY <1>1, <2>1
    <3> QED
      BY <1>5, <2>1, <3>1
  <2>4. t[p + m + 1] = COMMA
    <3>1. CASE p + m = n
      BY <1>5, <3>1
    <3>2. CASE p + m # n
      <4>1. p + m + 1 \in 1..n
        BY <1>1, <2>1, <3>2
      <4> QED
        BY <1>5, <2>1, <3>2, <4>1
    <3> QED
      BY <3>1, <3>2
  <2>5. p \in 0..Len(t) /\ p + m <= Len(t)
    BY <1>1, <1>4, <2>1
  <2> QED
    BY <2>2, <2>3, <2>4, <2>5 DEF At, m
<1>7. ASSUME p = n + 1, last = name PROVE At(t, p, name)
  <2>1. l = m
    BY <1>7 DEF l, m
  <2>2. p \in 0..Len(t) /\ p + m = Len(t)
    BY <1>1, <1>4, <1>7, <2>1
  <2>3. t[p] = COMMA /\ \A i \in 1..m : t[p + i] = name[i]
    BY <1>4, <1>5, <1>7, <2>1
  <2>4. p + m <= Len(t)
    BY <1>1, <1>4, <2>2
  <2> QED
    BY <2>2, <2>3, <2>4 DEF At, m
<1>8. ASSUME At(t, p, name)
      PROVE  At(list, p, name) \/ (p = n + 1 /\ last = name)
  <2>1. /\ p \in 0..Len(t) /\ p + m <= Len(t) /\ (p = 0 \/ t[p] = COMMA)
        /\ \A i \in 1..m : t[p + i] = name[i]
        /\ p + m = Len(t) \/ t[p + m + 1] = COMMA
    BY <1>8 DEF At, m
  <2>2. CASE p <= n
    <3>1. p + m <= n
      <4> SUFFICES ASSUME ~(p + m <= n) PROVE FALSE
        OBVIOUS
      <4>1. (n + 1) - p \in 1..m /\ p + ((n + 1) - p) = n + 1
        BY <1>1, <2>2
      <4>2. t[n + 1] = name[(n + 1) - p]
        BY <2>1, <4>1
      <4> QED
        BY <1>1, <1>5, <4>1, <4>2
    <3>2. p \in 0..n /\ (p = 0 \/ list[p] = COMMA)
      BY <1>1, <1>5, <2>1, <2>2
    <3>3. \A i \in 1..m : list[p + i] = name[i]
      <4> TAKE i \in 1..m
      <4>1. p + i \in 1..n
        BY <1>1, <3>1
      <4> QED
        BY <1>5, <2>1, <4>1
    <3>4. p + m = n \/ list[p + m + 1] = COMMA
      <4> SUFFICES ASSUME p + m # n PROVE list[p + m + 1] = COMMA
        OBVIOUS
      <4>1. p + m + 1 \in 1..n /\ p + m # Len(t)
        BY <1>1, <1>4, <3>1
      <4> QED
        BY <1>5, <2>1, <4>1
    <3> QED
      BY <3>1, <3>2, <3>3, <3>4 DEF At, n, m
  <2>3. CASE p = n + 1
    <3>1. m <= l
      BY <1>1, <1>4, <2>1, <2>3
    <3>2. \A i \in 1..m : last[i] = name[i]
      <4> TAKE i \in 1..m
      <4>1. i \in 1..l
        BY <1>1, <3>1
      <4> QED
        BY <1>4, <2>1, <2>3, <4>1
    <3>3. m = l
      <4> SUFFICES ASSUME m # l PROVE FALSE
        OBVIOUS
      <4>1. m + 1 \in 1..l /\ p + m # Len(t) /\ p + m + 1 = (n + 1) + (m + 1)
        BY <1>1, <1>4, <2>3, <3>1
      <4>2. t[(n + 1) + (m + 1)] = COMMA
        BY <2>1, <4>1
      <4> QED
        BY <1>1, <1>4, <4>1, <4>2
    <3>4. last = name
      <4>1. last \in Seq(Bytes) /\ name \in Seq(Bytes)
        BY NamesAreBytes
      <4>2. Len(last) = Len(name) /\ \A i \in 1..Len(last) : last[i] = name[i]
        BY <3>2, <3>3 DEF l, m
      <4> QED
        BY <4>1, <4>2, SameSequence
    <3> QED
      BY <2>3, <3>4
  <2>4. CASE p > n + 1
    <3>1. p - (n + 1) \in 1..l /\ (n + 1) + (p - (n + 1)) = p /\ p # 0
      BY <1>1, <1>4, <2>1, <2>4
    <3>2. t[p] = last[p - (n + 1)]
      BY <1>4, <3>1
    <3> QED
      BY <1>1, <2>1, <3>1, <3>2
  <2> QED
    BY <1>1, <2>2, <2>3, <2>4
<1> QED
  BY <1>6, <1>7, <1>8 DEF t, a, n

LEMMA NamesFound ==
    ASSUME NEW names \in Seq(Named), NEW name \in Named, name # <<>>
    PROVE  (\E p \in Nat : At(Joined(names), p, name))
             <=> (\E j \in DOMAIN names : names[j] = name)
<1> DEFINE N == Len(names)
           v == JoinedUpTo(names)
           Found(k) == \E p \in Nat : At(v[k], p, name)
           Among(k) == \E j \in 1..k : names[j] = name
           S == {k \in Nat : k <= N => (Found(k) <=> Among(k))}
<1>1. N \in Nat /\ DOMAIN names = 1..N /\ \A j \in 1..N : names[j] \in Named
  BY ElementOfSeq
<1>2. /\ v \in [0..N -> Seq(Bytes)] /\ v[0] = <<>>
      /\ \A n \in 1..N : v[n] = IF n = 1 THEN names[1]
                                ELSE (v[n - 1] \o <<COMMA>>) \o names[n]
  BY JoinedIs
<1>3. Joined(names) = v[N]
  BY JoinedType
<1> HIDE DEF v, N
<1>4. 0 \in S
  <2>1. ~Among(0)
    OBVIOUS
  <2>2. ASSUME NEW p \in Nat, At(<<>>, p, name) PROVE FALSE
    <3>1. <<>> \in Named /\ <<>> # name
      BY DEF Named
    <3> QED
      BY <2>2, <3>1, OneItem
  <2>3. ~Found(0)
    BY <1>2, <2>2
  <2> QED
    BY <2>1, <2>3
<1>5. ASSUME NEW k \in Nat, k \in S PROVE k + 1 \in S
  <2>1. SUFFICES ASSUME k + 1 <= N PROVE Found(k + 1) <=> Among(k + 1)
    OBVIOUS
  <2>2. k + 1 \in 1..N /\ k \in 0..N /\ (k + 1) - 1 = k /\ (Found(k) <=> Among(k))
    BY <1>1, <1>5, <2>1
  <2>3. names[k + 1] \in Named
    BY <1>1, <2>2
  <2>4. Among(k + 1) <=> Among(k) \/ names[k + 1] = name
    BY <2>2
  <2>5. CASE k = 0
    <3>1. v[k + 1] = names[k + 1] /\ ~Among(k)
      BY <1>2, <2>2, <2>5
    <3>2. \A p \in Nat : At(names[k + 1], p, name) <=> p = 0 /\ names[k + 1] = name
      BY <2>3, OneItem
    <3>3. 0 \in Nat
      OBVIOUS
    <3>4. Found(k + 1) <=> names[k + 1] = name
      BY <3>1, <3>2, <3>3, Zenon
    <3> QED
      BY <2>4, <3>1, <3>4
  <2>6. CASE k # 0
    <3>1. v[k + 1] = (v[k] \o <<COMMA>>) \o names[k + 1]
      <4>1. k + 1 # 1
        BY <2>6
      <4> QED
        BY <1>2, <2>2, <4>1
    <3>2. v[k] \in Seq(Bytes)
      BY <1>2, <2>2, Zenon
    <3>3. \A p \in Nat : At((v[k] \o <<COMMA>>) \o names[k + 1], p, name)
             <=> At(v[k], p, name) \/ (p = Len(v[k]) + 1 /\ names[k + 1] = name)
      BY <2>3, <3>2, NextItem, Zenon
    <3>4. Len(v[k]) + 1 \in Nat
      BY <3>2
    <3>5. Found(k + 1) <=> Found(k) \/ names[k + 1] = name
      BY <3>1, <3>3, <3>4, Zenon
    <3> QED
      BY <2>2, <2>4, <3>5
  <2> QED
    BY <2>5, <2>6
<1> HIDE DEF S
<1>6. N \in S
  BY <1>1, <1>4, <1>5, Induction
<1>7. Found(N) <=> Among(N)
  BY <1>1, <1>6 DEF S
<1> QED
  BY <1>1, <1>3, <1>7

\* The client's list is one name, and so is what it shares with a server.
LEMMA OneShared ==
    ASSUME NEW mine \in Named, mine # <<>>, NEW names \in Seq(Named)
    PROVE  /\ Shared(mine, Joined(names)) # {} <=> \E j \in DOMAIN names : names[j] = mine
           /\ Shared(mine, Joined(names)) # {} =>
                choose_algorithm(mine, Joined(names)) = mine
<1> DEFINE list == Joined(names)
           shared == Shared(mine, list)
<1>1. list \in Seq(Bytes) /\ mine \in Seq(Bytes)
  BY JoinedType, NamesAreBytes
<1>2. Starts(mine) = {0}
  <2>1. Len(mine) \in Nat /\ Len(mine) # 0 /\ \A i \in 1..Len(mine) : mine[i] # COMMA
    BY NoComma DEF Named
  <2> QED
    BY <2>1 DEF Starts
<1>3. Item(mine, 0) = mine
  <2>1. 0 \in 0..Len(mine) /\ 0 \in Nat
    BY <1>1
  <2>2. At(mine, 0, mine)
    BY <2>1, OneItem
  <2> QED
    BY <1>1, <2>1, <2>2, ItemIs
<1>4. shared = {p \in {0} : \E q \in Starts(list) : Item(list, q) = mine}
  BY <1>2, <1>3 DEF Shared
<1>5. (\E q \in Starts(list) : Item(list, q) = mine) <=> \E j \in DOMAIN names : names[j] = mine
  BY <1>1, ItemFound, NamesFound, Zenon
<1>6. shared # {} => shared = {0}
  BY <1>4
<1>7. ASSUME shared # {} PROVE choose_algorithm(mine, list) = mine
  <2>1. shared = {0}
    BY <1>6, <1>7
  <2>2. (CHOOSE p \in {0} : \A q \in {0} : p <= q) = 0
    OBVIOUS
  <2>3. choose_algorithm(mine, list)
          = Item(mine, CHOOSE p \in shared : \A q \in shared : p <= q)
    BY DEF choose_algorithm
  <2> HIDE DEF shared
  <2> QED
    BY <1>3, <2>1, <2>2, <2>3
<1>8. shared # {} <=> \E q \in Starts(list) : Item(list, q) = mine
  BY <1>4
<1> QED
  BY <1>5, <1>7, <1>8

(***************************************************************************)
(* A KEXINIT is read as it was written.                                    *)
(***************************************************************************)
LEMMA KexinitReadBack ==
    ASSUME NEW cookie \in Seq(Bytes), Len(cookie) = cookie_bytes,
           NEW lists \in [Lists -> Seq(Bytes)], Kexinit(cookie, lists) \in Str
    PROVE  /\ accepts_kexinit(Kexinit(cookie, lists))
           /\ read_name_lists(Kexinit(cookie, lists)) = lists
           /\ \A i \in Lists : lists[i] \in Str
<1> DEFINE w == Written(cookie, lists)
           zero == encode_uint32(0)
           t == Kexinit(cookie, lists)
           e == ListEnds(t)
<1>1. /\ w \in [0..10 -> Seq(Bytes)] /\ w[0] = <<KEXINIT>> \o cookie
      /\ \A n \in 1..10 : w[n] = append_string(w[n - 1], lists[n])
  BY WrittenIs
<1>2. t = (w[10] \o <<0>>) \o zero
  BY KexinitIs
<1>3. t \in Seq(Bytes) /\ Len(t) = Len(w[10]) + 5 /\ Len(t) \in UInt32
  BY KexinitType DEF Str
<1>4. /\ e \in [0..10 -> Position] /\ e[0] = 1 + cookie_bytes
      /\ \A n \in 1..10 : e[n] = after_string(t, e[n - 1])
  BY <1>3, ListEndsIs
<1>5. read_name_lists(t) = [i \in Lists |-> read_string(t, e[i - 1])]
  BY DEF read_name_lists
<1> HIDE DEF w, t, e
<1>6. \A n \in 0..10 : w[n] \in Seq(Bytes) /\ Len(w[n]) \in Nat
  <2> TAKE n \in 0..10
  <2>1. w[n] \in Seq(Bytes)
    BY <1>1, Zenon
  <2> QED
    BY <2>1
<1>7. ASSUME NEW n \in 1..10
      PROVE  /\ n - 1 \in 0..10 /\ n \in 0..10
             /\ lists[n] \in Seq(Bytes) /\ Len(lists[n]) \in Nat
             /\ Len(w[n]) = Len(w[n - 1]) + 4 + Len(lists[n])
  <2>1. n - 1 \in 0..10 /\ n \in 0..10
    OBVIOUS
  <2>2. lists[n] \in Seq(Bytes)
    BY Zenon DEF Lists
  <2>3. Len(append_string(w[n - 1], lists[n])) = Len(w[n - 1]) + 4 + Len(lists[n])
    BY <1>6, <2>1, <2>2, AppendedType
  <2>4. Len(lists[n]) \in Nat
    BY <2>2
  <2> QED
    BY <1>1, <2>1, <2>2, <2>3, <2>4
<1>8. \A n \in 0..10 : Len(w[n]) <= Len(w[10])
  <2> DEFINE S == {k \in Nat : k <= 10 => Len(w[10 - k]) <= Len(w[10])}
  <2>1. 0 \in S
    <3>1. 10 \in 0..10 /\ 10 - 0 = 10
      OBVIOUS
    <3>2. Len(w[10]) \in Nat
      BY <1>6, <3>1
    <3> QED
      BY <3>1, <3>2
  <2>2. ASSUME NEW k \in Nat, k \in S PROVE k + 1 \in S
    <3>1. SUFFICES ASSUME k + 1 <= 10 PROVE Len(w[10 - (k + 1)]) <= Len(w[10])
      OBVIOUS
    <3>2. /\ 10 - k \in 1..10 /\ (10 - k) - 1 = 10 - (k + 1)
          /\ 10 - (k + 1) \in 0..10 /\ 10 - k \in 0..10 /\ 10 \in 0..10
          /\ Len(w[10 - k]) <= Len(w[10])
      BY <2>2, <3>1
    <3>3. /\ Len(w[10 - k]) = Len(w[10 - (k + 1)]) + 4 + Len(lists[10 - k])
          /\ Len(lists[10 - k]) \in Nat
      BY <1>7, <3>2
    <3>4. Len(w[10 - (k + 1)]) \in Nat /\ Len(w[10 - k]) \in Nat /\ Len(w[10]) \in Nat
      BY <1>6, <3>2
    <3> DEFINE x == Len(w[10 - (k + 1)])
               y == Len(w[10 - k])
               z == Len(w[10])
               u == Len(lists[10 - k])
    <3>5. x \in Nat /\ y \in Nat /\ z \in Nat /\ u \in Nat /\ y = x + 4 + u /\ y <= z
      BY <3>2, <3>3, <3>4, Zenon
    <3> HIDE DEF x, y, z, u
    <3>6. x <= z
      BY <3>5
    <3> QED
      BY <3>6 DEF x, z
  <2> HIDE DEF S
  <2>3. \A k \in Nat : k \in S
    BY <2>1, <2>2, Induction
  <2> TAKE n \in 0..10
  <2>4. 10 - n \in Nat /\ 10 - n <= 10 /\ 10 - (10 - n) = n
    OBVIOUS
  <2> QED
    BY <2>3, <2>4 DEF S
<1>9. ASSUME NEW n \in 1..10 PROVE lists[n] \in Str /\ w[n] = w[n - 1] \o String(lists[n])
  <2>1. 10 \in 0..10
    OBVIOUS
  <2>2. Len(lists[n]) \in 0..Len(t)
    <3>1. /\ Len(w[n]) <= Len(w[10]) /\ Len(w[n - 1]) \in Nat
          /\ Len(w[10]) \in Nat /\ Len(w[n]) \in Nat
      BY <1>6, <1>7, <1>8, <2>1
    <3> DEFINE x == Len(w[n - 1])
               y == Len(w[n])
               z == Len(w[10])
               u == Len(lists[n])
               r == Len(t)
    <3>2. /\ x \in Nat /\ y \in Nat /\ z \in Nat /\ u \in Nat
          /\ y = x + 4 + u /\ y <= z /\ r = z + 5
      BY <1>3, <1>7, <3>1, Zenon
    <3> HIDE DEF x, y, z, u, r
    <3>3. u \in 0..r
      BY <3>2
    <3> QED
      BY <3>3 DEF u, r
  <2>3. lists[n] \in Str
    BY <1>3, <1>7, <2>2, LengthFits DEF Str
  <2>4. append_string(w[n - 1], lists[n]) = w[n - 1] \o String(lists[n])
    BY <1>6, <1>7, <2>3, AppendedString, Zenon
  <2> QED
    BY <1>1, <2>3, <2>4
<1>10. \A n \in 0..10 : Begins(t, w[n])
  <2> DEFINE S == {k \in Nat : k <= 10 => Begins(t, w[10 - k])}
  <2>1. 0 \in S
    <3>1. 10 \in 0..10 /\ 10 - 0 = 10
      OBVIOUS
    <3>2. w[10] \in Seq(Bytes) /\ <<0>> \in Seq(Bytes) /\ zero \in Seq(Bytes)
      BY <1>6, <3>1, ZeroEncoded, EncodingAssumption DEF Bytes
    <3>3. w[10] \o <<0>> \in Seq(Bytes)
      BY <3>2, BytesJoined, Zenon
    <3>4. Begins(t, w[10] \o <<0>>)
      BY <1>2, <3>2, Zenon DEF Begins
    <3>5. Begins(t, w[10])
      BY <3>2, <3>4, BeginsShorter, Zenon
    <3> QED
      BY <3>1, <3>5
  <2>2. ASSUME NEW k \in Nat, k \in S PROVE k + 1 \in S
    <3>1. SUFFICES ASSUME k + 1 <= 10 PROVE Begins(t, w[10 - (k + 1)])
      OBVIOUS
    <3>2. /\ 10 - k \in 1..10 /\ (10 - k) - 1 = 10 - (k + 1)
          /\ 10 - (k + 1) \in 0..10 /\ Begins(t, w[10 - k])
      BY <2>2, <3>1
    <3>3. /\ w[10 - k] = w[10 - (k + 1)] \o String(lists[10 - k])
          /\ lists[10 - k] \in Str
      BY <1>9, <3>2
    <3>4. String(lists[10 - k]) \in Seq(Bytes) /\ w[10 - (k + 1)] \in Seq(Bytes)
      BY <1>6, <3>2, <3>3, StringIs
    <3> QED
      BY <3>2, <3>3, <3>4, BeginsShorter, Zenon
  <2> HIDE DEF S
  <2>3. \A k \in Nat : k \in S
    BY <2>1, <2>2, Induction
  <2> TAKE n \in 0..10
  <2>4. 10 - n \in Nat /\ 10 - n <= 10 /\ 10 - (10 - n) = n
    OBVIOUS
  <2> QED
    BY <2>3, <2>4 DEF S
<1>11. ASSUME NEW n \in 1..10
       PROVE  /\ after_string(t, Len(w[n - 1])) = Len(w[n])
              /\ read_string(t, Len(w[n - 1])) = lists[n]
  <2>1. Begins(t, w[n - 1] \o String(lists[n])) /\ w[n - 1] \in Seq(Bytes)
    BY <1>6, <1>7, <1>9, <1>10
  <2>2. w[n] = w[n - 1] \o String(lists[n]) /\ lists[n] \in Str
    BY <1>9
  <2>3. /\ after_string(t, Len(w[n - 1])) = Len(w[n - 1] \o String(lists[n]))
        /\ read_string(t, Len(w[n - 1])) = lists[n]
    BY <2>1, <2>2, StringAt, Zenon
  <2> QED
    BY <2>2, <2>3, Zenon
<1>12. \A n \in 0..10 : e[n] = Len(w[n])
  <2> DEFINE S == {k \in Nat : k <= 10 => e[k] = Len(w[k])}
  <2>1. 0 \in S
    <3>1. <<KEXINIT>> \in Seq(Bytes) /\ Len(<<KEXINIT>>) = 1
      BY KexAssumption
    <3>2. Len(<<KEXINIT>> \o cookie) = Len(<<KEXINIT>>) + Len(cookie)
      BY <3>1, BytesJoined, Zenon
    <3>3. Len(w[0]) = Len(<<KEXINIT>>) + cookie_bytes
      BY <1>1, <3>2, Zenon
    <3>4. Len(w[0]) = 1 + cookie_bytes
      BY <3>1, <3>3
    <3> QED
      BY <1>4, <3>4
  <2>2. ASSUME NEW k \in Nat, k \in S PROVE k + 1 \in S
    <3>1. SUFFICES ASSUME k + 1 <= 10 PROVE e[k + 1] = Len(w[k + 1])
      OBVIOUS
    <3>2. k + 1 \in 1..10 /\ (k + 1) - 1 = k /\ e[k] = Len(w[k])
      BY <2>2, <3>1
    <3> QED
      BY <1>4, <1>11, <3>2
  <2> HIDE DEF S
  <2>3. \A k \in Nat : k \in S
    BY <2>1, <2>2, Induction
  <2> QED
    BY <2>3 DEF S
<1>13. read_name_lists(t) = lists
  <2>1. \A i \in Lists : read_string(t, e[i - 1]) = lists[i]
    BY <1>7, <1>11, <1>12 DEF Lists
  <2>2. lists = [i \in Lists |-> lists[i]]
    OBVIOUS
  <2> QED
    BY <1>5, <2>1, <2>2, Zenon
<1>14. accepts_kexinit(t)
  <2> DEFINE position == e[10]
             a == w[10] \o <<0>>
  <2>1. 10 \in 0..10 /\ 0 \in 0..10
    OBVIOUS
  <2>2. position = Len(w[10]) /\ position \in Nat /\ w[10] \in Seq(Bytes)
    BY <1>6, <1>12, <2>1
  <2>3. Len(t) = position + 5
    BY <1>3, <2>2
  <2>4. t[1] = KEXINIT
    <3>1. <<KEXINIT>> \in Seq(Bytes)
      BY KexAssumption
    <3>2. Begins(t, <<KEXINIT>> \o cookie)
      BY <1>1, <1>10, <2>1, Zenon
    <3>3. Begins(t, <<KEXINIT>>)
      BY <3>1, <3>2, BeginsShorter, Zenon
    <3>4. PICK r \in Seq(Bytes) : t = <<KEXINIT>> \o r
      BY <3>3 DEF Begins
    <3> QED
      BY <3>4
  <2>5. <<0>> \in Seq(Bytes) /\ Len(<<0>>) = 1
    BY EncodingAssumption DEF Bytes
  <2>6. a \in Seq(Bytes) /\ Len(a) = Len(w[10]) + Len(<<0>>)
    BY <2>2, <2>5, BytesJoined, Zenon
  <2>7. Len(a) = position + 1
    BY <2>2, <2>5, <2>6
  <2>8. t = a \o zero
    BY <1>2
  <2> HIDE DEF a, position
  <2>9. SubSeq(t, Len(a) + 1, Len(a) + 4) = zero
    <3>1. zero \in Seq(Bytes) /\ Len(zero) = 4 /\ <<>> \in Seq(Bytes)
      BY ZeroEncoded
    <3>2. SubSeq((a \o zero) \o <<>>, Len(a) + 1, Len(a) + Len(zero)) = zero
      BY <2>6, <3>1, BytesBetween, Zenon
    <3>3. (a \o zero) \o <<>> = t
      BY <1>3, <2>8
    <3> QED
      BY <3>1, <3>2, <3>3, Zenon
  <2>10. read_uint32(t, position + 1) = 0
    BY <2>7, <2>9, ZeroEncoded DEF read_uint32, Slice, uint32_bytes
  <2>11. Remain(t, position, 1 + uint32_bytes) /\ Len(t) = position + 1 + uint32_bytes
         /\ Len(t) >= 1
    BY <2>2, <2>3 DEF Remain, FAILED, uint32_bytes
  <2>12. position = ListEnds(t)[10]
    BY DEF position, e
  <2> QED
    BY <2>4, <2>10, <2>11, <2>12 DEF accepts_kexinit
<1>15. \A i \in Lists : lists[i] \in Str
  BY <1>9 DEF Lists
<1> QED
  BY <1>13, <1>14, <1>15 DEF t

\* The server's KEXINIT gives the client the server's names, and the
\* negotiation what is common.
LEMMA ServerKexinitRead ==
    ASSUME offer \in Offers
    PROVE  LET t == ServerKexinit(offer)
               lists == read_name_lists(t)
           IN  /\ accepts_kexinit(t)
               /\ agrees(lists) <=> Common
               /\ Common => negotiate(lists)[2] = ED25519
<1> DEFINE t == ServerKexinit(offer)
           cookie == [i \in 1..cookie_bytes |-> 1]
           lists == [i \in Lists |-> Joined(offer[i])]
<1>1. /\ t = Kexinit(cookie, lists) /\ cookie \in Seq(Bytes)
      /\ lists \in [Lists -> Seq(Bytes)] /\ \A i \in Lists : offer[i] \in Seq(Named)
  BY ServerKexinitType DEF ServerKexinit
<1>2. Len(cookie) = cookie_bytes
  BY KexAssumption
<1>3. t \in Str
  BY SentFits
<1>4. accepts_kexinit(t) /\ read_name_lists(t) = lists
  <2> HIDE DEF cookie, lists, t
  <2> QED
    BY <1>1, <1>2, <1>3, KexinitReadBack, Zenon
<1>5. ASSUME NEW i \in Negotiated
      PROVE  /\ lists[i] = Joined(offer[i]) /\ offer[i] \in Seq(Named)
             /\ Supported[i] \in Named /\ Supported[i] # <<>>
  <2>1. i \in Lists
    BY DEF Negotiated, Lists
  <2>2. lists[i] = Joined(offer[i])
    BY <2>1
  <2>3. offer[i] \in Seq(Named)
    BY <1>1, <2>1
  <2>4. Supported[i] \in Named /\ Supported[i] # <<>>
    BY KexAssumption, Zenon DEF Named
  <2> QED
    BY <2>2, <2>3, <2>4
<1>6. ASSUME NEW i \in Negotiated
      PROVE  /\ Shared(Supported[i], lists[i]) # {}
                  <=> \E j \in DOMAIN offer[i] : offer[i][j] = Supported[i]
             /\ Shared(Supported[i], lists[i]) # {} =>
                  choose_algorithm(Supported[i], lists[i]) = Supported[i]
  <2> HIDE DEF lists
  <2> QED
    BY <1>5, OneShared
<1>7. agrees(lists) <=> Common
  BY <1>6 DEF agrees, Common
<1>8. ASSUME Common PROVE negotiate(lists)[2] = ED25519
  <2>1. 2 \in Negotiated
    BY DEF Negotiated
  <2>2. Shared(Supported[2], lists[2]) # {}
    BY <1>7, <1>8, <2>1 DEF agrees
  <2>3. choose_algorithm(Supported[2], lists[2]) = ED25519
    BY <1>6, <2>1, <2>2, KexAssumption
  <2> HIDE DEF lists
  <2> QED
    BY <2>1, <2>3 DEF negotiate
<1> QED
  BY <1>4, <1>7, <1>8

LEMMA BlobRead ==
    ASSUME NEW v \in Str, ED25519 \in Str
    PROVE  /\ accepts_ed25519(Ed25519Blob(v), ED25519, Len(v))
           /\ ed25519_value(Ed25519Blob(v)) = v
<1> DEFINE t == Ed25519Blob(v)
           name == String(ED25519)
<1>1. name \in Seq(Bytes) /\ String(v) \in Seq(Bytes) /\ <<>> \in Seq(Bytes) /\ Len(<<>>) = 0
  BY StringIs
<1>2. t = name \o String(v) /\ <<>> \o name = name
  BY <1>1 DEF Ed25519Blob
<1>3. t \in Seq(Bytes)
  BY <1>1, <1>2, BytesJoined, Zenon
<1> HIDE DEF t, name
<1>4. Begins(t, name \o String(v)) /\ Begins(t, name)
  BY <1>1, <1>2, <1>3, BeginsItself, BeginsShorter, Zenon
<1>5. after_string(t, 0) = Len(name) /\ read_string(t, 0) = ED25519
  <2>1. Begins(t, <<>> \o String(ED25519))
    BY <1>2, <1>4 DEF name
  <2>2. /\ after_string(t, Len(<<>>)) = Len(<<>> \o String(ED25519))
        /\ read_string(t, Len(<<>>)) = ED25519
    BY <1>1, <2>1, StringAt, Zenon
  <2>3. <<>> \o String(ED25519) = name
    BY <1>2 DEF name
  <2> QED
    BY <1>1, <2>2, <2>3, Zenon
<1>6. after_string(t, Len(name)) = Len(t) /\ read_string(t, Len(name)) = v
  BY <1>1, <1>2, <1>4, StringAt, Zenon
<1> QED
  BY <1>5, <1>6 DEF accepts_ed25519, ed25519_value, t

LEMMA ReplyRead ==
    ASSUME offer \in Offers
    PROVE  /\ accepts_ecdh_reply(ServerReply)
           /\ ReplyField(ServerReply, 1) = Ed25519Blob(HOST_KEY)
           /\ ReplyField(ServerReply, 2) = SERVER_KEY
           /\ ReplyField(ServerReply, 3) = Ed25519Blob(SIGNATURE)
<1> DEFINE p0 == <<KEX_ECDH_REPLY>>
           h == Ed25519Blob(HOST_KEY)
           s == Ed25519Blob(SIGNATURE)
           p1 == p0 \o String(h)
           p2 == p1 \o String(SERVER_KEY)
           t == ServerReply
<1>1. /\ p0 \in Seq(Bytes) /\ p1 \in Seq(Bytes) /\ p2 \in Seq(Bytes)
      /\ t = p2 \o String(s) /\ t \in Seq(Bytes)
  BY ReplyParts, Zenon
<1>2. h \in Str /\ s \in Str /\ SERVER_KEY \in Str
  BY SentFits
<1>3. Len(p0) = 1 /\ p0[1] = KEX_ECDH_REPLY
  OBVIOUS
<1>4. String(h) \in Seq(Bytes) /\ String(s) \in Seq(Bytes) /\ String(SERVER_KEY) \in Seq(Bytes)
  BY <1>2, StringIs
<1> HIDE DEF t, h, s, p0
<1>5. Begins(t, p2 \o String(s))
  BY <1>1, BeginsItself, Zenon
<1>6. Begins(t, p2)
  BY <1>1, <1>4, <1>5, BeginsShorter, Zenon
<1>7. Begins(t, p1)
  BY <1>1, <1>4, <1>6, BeginsShorter, Zenon
<1>8. Begins(t, p0)
  BY <1>1, <1>4, <1>7, BeginsShorter, Zenon
<1>9. after_string(t, Len(p0)) = Len(p1) /\ read_string(t, Len(p0)) = h
  BY <1>1, <1>2, <1>7, StringAt, Zenon
<1>10. after_string(t, Len(p1)) = Len(p2) /\ read_string(t, Len(p1)) = SERVER_KEY
  BY <1>1, <1>2, <1>6, StringAt, Zenon
<1>11. after_string(t, Len(p2)) = Len(t) /\ read_string(t, Len(p2)) = s
  BY <1>1, <1>2, <1>5, StringAt, Zenon
<1> HIDE DEF p1, p2
<1>12. ReplyEnds(t) = <<1, Len(p1), Len(p2), Len(t)>>
  BY <1>3, <1>9, <1>10, <1>11 DEF ReplyEnds
<1>13. /\ ReplyField(t, 1) = h /\ ReplyField(t, 2) = SERVER_KEY /\ ReplyField(t, 3) = s
  BY <1>3, <1>9, <1>10, <1>11, <1>12 DEF ReplyField
<1>14. t[1] = KEX_ECDH_REPLY /\ Len(t) >= 1
  <2>1. PICK r \in Seq(Bytes) : t = p0 \o r
    BY <1>8 DEF Begins
  <2>2. /\ Len(p0 \o r) = Len(p0) + Len(r) /\ \A i \in 1..Len(p0) : (p0 \o r)[i] = p0[i]
    BY <1>1, BytesConcatenated, Zenon
  <2> QED
    BY <1>3, <2>1, <2>2
<1>15. accepts_ecdh_reply(t)
  <2>1. ReplyEnds(t)[4] = Len(t)
    BY <1>12
  <2> QED
    BY <1>13, <1>14, <2>1, KeysAreBytes DEF accepts_ecdh_reply
<1> QED
  BY <1>13, <1>15 DEF t, h, s

LEMMA EcdhInitRead ==
    ASSUME offer \in Offers
    PROVE  read_string(create_ecdh_init_payload(CLIENT_KEY), 1) = CLIENT_KEY
<1> DEFINE p == <<KEX_ECDH_INIT>>
           t == create_ecdh_init_payload(CLIENT_KEY)
<1>1. p \in Seq(Bytes) /\ Len(p) = 1 /\ t \in Seq(Bytes) /\ CLIENT_KEY \in Str
  BY EcdhInitType, SentFits
<1>2. t = p \o String(CLIENT_KEY)
  BY <1>1, AppendedString, Zenon DEF create_ecdh_init_payload
<1> HIDE DEF p, t
<1>3. Begins(t, p \o String(CLIENT_KEY))
  BY <1>1, <1>2, BeginsItself, Zenon
<1>4. read_string(t, Len(p)) = CLIENT_KEY
  BY <1>1, <1>3, StringAt, Zenon
<1> QED
  BY <1>1, <1>4 DEF t

-------------------------------------------------------------------------------
(***************************************************************************)
(* Without interference.                                                   *)
(***************************************************************************)
HonestView ==
    [client_id |-> CLIENT_ID, server_id |-> SERVER_ID,
     client_kexinit |-> create_client_kexinit, server_kexinit |-> ServerKexinit(offer),
     host_key |-> Ed25519Blob(HOST_KEY), client_key |-> CLIENT_KEY,
     server_key |-> SERVER_KEY]

Honest ==
    /\ \A kind \in Kinds : net[kind] \in {NONE, Original(kind, offer)}
    /\ client.stage \in {"kexinit", "reply"} => client.view.server_id = SERVER_ID
    /\ client.stage = "reply" =>
         /\ client.view.server_kexinit = ServerKexinit(offer)
         /\ client.algorithms[2] = ED25519
    /\ client.stage \in {"reply", "verified"} => Common
    /\ client.stage = "rejected" => ~Common
    /\ net["reply"] # NONE => server.stage = "replied"
    /\ server.stage = "replied" => server.view = HonestView

HonestInv == altered = 0 => Honest

LEMMA HonestInitially == KexInit => HonestInv
<1> SUFFICES ASSUME KexInit PROVE HonestInv
  OBVIOUS
<1>1. /\ net["server_id"] = SERVER_ID \o <<CR>>
      /\ net["server_kexinit"] = ServerKexinit(offer)
      /\ \A kind \in Kinds \ {"server_id", "server_kexinit"} : net[kind] = NONE
  BY DEF KexInit, Kinds
<1>2. \A kind \in Kinds : net[kind] \in {NONE, Original(kind, offer)}
  BY <1>1, Originals
<1>3. net["reply"] = NONE
  BY <1>1 DEF Kinds
<1> QED
  BY <1>2, <1>3 DEF HonestInv, Honest, KexInit

LEMMA HonestIdentification ==
    ASSUME ExchangeInv, Honest, exchange_identification
    PROVE  Honest'
<1> DEFINE line == read_version(net["server_id"])
<1>1. /\ client.stage = "identification" /\ net["server_id"] # NONE
      /\ UNCHANGED <<server, offer, secret, altered>>
  BY DEF exchange_identification, ClientAt
<1>2. net["server_id"] = SERVER_ID \o <<CR>>
  BY <1>1, Originals DEF Honest, Kinds
<1>3. line = SERVER_ID /\ is_ssh2(line)
  <2>1. line = SERVER_ID
    BY <1>2, LineType, VersionKept
  <2>2. is_ssh2(SERVER_ID)
    BY KexAssumption DEF is_ssh2
  <2> QED
    BY <2>1, <2>2
<1>4. /\ client' = [client EXCEPT !.stage = "kexinit",
                                  !.view.server_id = line,
                                  !.view.client_kexinit = create_client_kexinit]
      /\ net' = [net EXCEPT !["client_id"] = CLIENT_ID \o <<CR>>,
                            !["client_kexinit"] = create_client_kexinit]
  BY <1>3 DEF exchange_identification
<1> HIDE DEF line
<1>5. client'.stage = "kexinit" /\ client'.view.server_id = SERVER_ID
  <2>1. /\ client = [stage |-> client.stage, view |-> client.view,
                     algorithms |-> client.algorithms, keys |-> client.keys]
        /\ client.view \in View
    BY DEF ExchangeInv, Typing
  <2> QED
    BY <1>3, <1>4, <2>1 DEF View
<1>6. net \in [Kinds -> Message]
  BY DEF ExchangeInv, Typing
<1>7. /\ net'["client_id"] = CLIENT_ID \o <<CR>>
      /\ net'["client_kexinit"] = create_client_kexinit
      /\ \A kind \in Kinds \ {"client_id", "client_kexinit"} : net'[kind] = net[kind]
  BY <1>4, <1>6 DEF Kinds
<1>8. \A kind \in Kinds : net'[kind] \in {NONE, Original(kind, offer)}
  BY <1>7, Originals DEF Honest
<1>9. net'["reply"] = net["reply"]
  BY <1>7 DEF Kinds
<1>10. HonestView' = HonestView
  BY <1>1 DEF HonestView
<1> QED
  BY <1>1, <1>5, <1>8, <1>9, <1>10 DEF Honest

LEMMA HonestKexinit ==
    ASSUME ExchangeInv, Honest, ReceiveKexinit
    PROVE  Honest'
<1> DEFINE payload == net["server_kexinit"]
           lists == read_name_lists(payload)
<1>1. /\ client.stage = "kexinit" /\ payload # NONE
      /\ UNCHANGED <<server, offer, secret, altered>>
  BY DEF ReceiveKexinit, ClientAt
<1>2. payload = ServerKexinit(offer)
  BY <1>1, Originals DEF Honest, Kinds
<1>3. /\ accepts_kexinit(payload) /\ (agrees(lists) <=> Common)
      /\ Common => negotiate(lists)[2] = ED25519
  BY <1>2, ServerKexinitRead DEF ExchangeInv, Typing
<1>4. /\ client = [stage |-> client.stage, view |-> client.view,
                   algorithms |-> client.algorithms, keys |-> client.keys]
      /\ client.view \in View /\ net \in [Kinds -> Message]
  BY DEF ExchangeInv, Typing
<1>5. HonestView' = HonestView /\ (Common' <=> Common)
  BY <1>1 DEF HonestView, Common
<1> DEFINE algorithms == negotiate(lists)
<1>6. CASE Common
  <2>1. /\ client' = [client EXCEPT !.stage = "reply",
                                    !.algorithms = algorithms,
                                    !.view.server_kexinit = payload,
                                    !.view.client_key = CLIENT_KEY]
        /\ net' = [net EXCEPT !["ecdh_init"] = create_ecdh_init_payload(CLIENT_KEY)]
    BY <1>3, <1>6 DEF ReceiveKexinit
  <2>2. algorithms[2] = ED25519
    BY <1>3, <1>6
  <2> HIDE DEF algorithms, lists, payload
  <2>3. /\ client'.stage = "reply" /\ client'.algorithms = algorithms
        /\ client'.view.server_kexinit = payload
        /\ client'.view.server_id = client.view.server_id
    BY <1>4, <2>1 DEF View
  <2>4. /\ net'["ecdh_init"] = create_ecdh_init_payload(CLIENT_KEY)
        /\ \A kind \in Kinds \ {"ecdh_init"} : net'[kind] = net[kind]
    BY <1>4, <2>1 DEF Kinds
  <2>5. \A kind \in Kinds : net'[kind] \in {NONE, Original(kind, offer)}
    BY <2>4, Originals DEF Honest
  <2>6. net'["reply"] = net["reply"]
    BY <2>4 DEF Kinds
  <2> QED
    BY <1>1, <1>2, <1>5, <1>6, <2>2, <2>3, <2>5, <2>6 DEF Honest
<1>7. CASE ~Common
  <2>1. client' = [client EXCEPT !.stage = "rejected"] /\ net' = net
    BY <1>3, <1>7 DEF ReceiveKexinit, ClientThrows
  <2>2. client'.stage = "rejected"
    BY <1>4, <2>1
  <2> QED
    BY <1>1, <1>5, <1>7, <2>1, <2>2 DEF Honest
<1> QED
  BY <1>6, <1>7

LEMMA HonestReply ==
    ASSUME ExchangeInv, Honest, ReceiveReply
    PROVE  Honest'
<1> DEFINE reply == net["reply"]
           host_key == ReplyField(reply, 1)
           signature == ReplyField(reply, 3)
           view == [client.view EXCEPT !.host_key = host_key,
                                       !.server_key = ReplyField(reply, 2)]
           name == client.algorithms[2]
           hash(s) == calculate_exchange_hash(view, s)
           Verified(s) ==
              /\ s # NONE
              /\ accepts_ed25519(host_key, name, length_of_key)
              /\ accepts_ed25519(signature, name, signature_bytes)
              /\ verify_ed25519_signature(ed25519_value(host_key),
                                          ed25519_value(signature), hash(s))
<1>1. /\ client.stage = "reply" /\ reply # NONE
      /\ UNCHANGED <<server, offer, secret, altered>>
  BY DEF ReceiveReply, ClientAt
<1>2. reply = ServerReply
  BY <1>1, Originals DEF Honest, Kinds
<1>3. /\ client = [stage |-> client.stage, view |-> client.view,
                   algorithms |-> client.algorithms, keys |-> client.keys]
      /\ client.view \in View /\ offer \in Offers /\ secret \in SharedSecrets
      /\ ServerKnows /\ ClientKnows
  BY DEF ExchangeInv, Typing
<1>4. /\ accepts_ecdh_reply(reply) /\ host_key = Ed25519Blob(HOST_KEY)
      /\ ReplyField(reply, 2) = SERVER_KEY /\ signature = Ed25519Blob(SIGNATURE)
  BY <1>2, <1>3, ReplyRead
<1>5. name = ED25519 /\ server.stage = "replied" /\ server.view = HonestView /\ Common
  BY <1>1 DEF Honest
<1>6. view = HonestView /\ view.server_key = SERVER_KEY
  <2>1. /\ view \in View /\ view.host_key = Ed25519Blob(HOST_KEY)
        /\ view.server_key = SERVER_KEY
        /\ view.client_id = CLIENT_ID /\ view.server_id = SERVER_ID
        /\ view.client_kexinit = create_client_kexinit
        /\ view.server_kexinit = ServerKexinit(offer)
        /\ view.client_key = CLIENT_KEY
    <3>1. /\ client.view.client_id = CLIENT_ID /\ client.view.server_id = SERVER_ID
          /\ client.view.client_kexinit = create_client_kexinit
          /\ client.view.server_kexinit = ServerKexinit(offer)
          /\ client.view.client_key = CLIENT_KEY
      BY <1>1, <1>3 DEF Honest, ClientKnows
    <3>2. Ed25519Blob(HOST_KEY) \in Seq(Bytes) /\ SERVER_KEY \in Seq(Bytes)
      BY KeysAreBytes, BlobType, Zenon
    <3> HIDE DEF host_key, signature, reply
    <3> QED
      BY <1>3, <1>4, <3>1, <3>2 DEF View, Message
  <2> HIDE DEF view
  <2> QED
    BY <2>1 DEF View, HonestView
<1> HIDE DEF view
<1>7. hash(secret) = server.signed
  <2>1. server.view \in CompleteView /\ server.signed = ServerHash(server.view)
    BY <1>3, <1>5 DEF ServerKnows
  <2>2. secret \in [1..length_of_key -> Bytes]
    BY <1>3, KexAssumption
  <2>3. hash(secret) = ExchangeHash(view, Number(secret))
    BY <1>5, <1>6, <2>1, <2>2, ClientHashIs
  <2>4. mpint(secret) = Number(secret)
    BY <2>2, MpintIs, KeyIsBytes, KexAssumption, Zenon
  <2> QED
    BY <1>5, <1>6, <2>1, <2>3, <2>4, ServerHashIs
<1>8. calculate_shared_secret(view.server_key) = {secret}
  BY <1>6 DEF calculate_shared_secret
<1>9. Verified(secret)
  <2>1. HOST_KEY \in Str /\ SIGNATURE \in Str /\ ED25519 \in Str
    BY <1>3, SentFits
  <2>2. /\ accepts_ed25519(host_key, name, length_of_key)
        /\ accepts_ed25519(signature, name, signature_bytes)
        /\ ed25519_value(host_key) = HOST_KEY /\ ed25519_value(signature) = SIGNATURE
    BY <1>4, <1>5, <2>1, BlobRead, KeysAreBytes
  <2>3. secret # NONE
    <3>1. secret \in Seq(Bytes)
      BY <1>3, KexAssumption, KeyIsBytes
    <3> QED
      BY <3>1, NoneIs
  <2> QED
    BY <1>7, <2>2, <2>3 DEF verify_ed25519_signature
<1>10. /\ client' = [client EXCEPT !.stage = "verified", !.view = view,
                       !.keys = derive_transport_keys(secret, hash(secret), hash(secret))]
       /\ net' = net
  <2>1. \E s \in calculate_shared_secret(view.server_key) :
          \/ /\ Verified(s)
             /\ client' = [client EXCEPT !.stage = "verified", !.view = view,
                             !.keys = derive_transport_keys(s, hash(s), hash(s))]
             /\ net' = net
          \/ ~Verified(s) /\ ClientThrows
    BY <1>4, Zenon DEF ReceiveReply, view
  <2> HIDE DEF Verified
  <2> QED
    BY <1>8, <1>9, <2>1
<1>11. client'.stage = "verified"
  BY <1>3, <1>10
<1>12. HonestView' = HonestView /\ (Common' <=> Common)
  BY <1>1 DEF HonestView, Common
<1> QED
  BY <1>1, <1>5, <1>10, <1>11, <1>12 DEF Honest

LEMMA HonestServer ==
    ASSUME ExchangeInv, Honest, ServerReplies
    PROVE  Honest'
<1>1. /\ net["ecdh_init"] # NONE
      /\ net' = [net EXCEPT !["reply"] = ServerReply]
      /\ server'.stage = "replied"
      /\ server'.view = [client_id |-> read_version(net["client_id"]),
                         server_id |-> SERVER_ID,
                         client_kexinit |-> net["client_kexinit"],
                         server_kexinit |-> ServerKexinit(offer),
                         host_key |-> Ed25519Blob(HOST_KEY),
                         client_key |-> read_string(net["ecdh_init"], 1),
                         server_key |-> SERVER_KEY]
      /\ UNCHANGED <<client, offer, secret, altered>>
  BY DEF ServerReplies
<1>2. /\ net["client_id"] # NONE /\ net["client_kexinit"] # NONE
      /\ net \in [Kinds -> Message] /\ offer \in Offers
  BY <1>1 DEF ExchangeInv, ClientSent, Typing
<1>3. /\ net["client_id"] = CLIENT_ID \o <<CR>>
      /\ net["client_kexinit"] = create_client_kexinit
      /\ net["ecdh_init"] = create_ecdh_init_payload(CLIENT_KEY)
  BY <1>1, <1>2, Originals DEF Honest, Kinds
<1>4. /\ read_version(net["client_id"]) = CLIENT_ID
      /\ read_string(net["ecdh_init"], 1) = CLIENT_KEY
  BY <1>2, <1>3, LineType, VersionKept, EcdhInitRead
<1>5. server'.view = HonestView /\ HonestView' = HonestView /\ (Common' <=> Common)
  BY <1>1, <1>3, <1>4 DEF HonestView, Common
<1>6. /\ net'["reply"] = Original("reply", offer)
      /\ \A kind \in Kinds \ {"reply"} : net'[kind] = net[kind]
  BY <1>1, <1>2, Originals DEF Kinds
<1>7. \A kind \in Kinds : net'[kind] \in {NONE, Original(kind, offer)}
  BY <1>6 DEF Honest
<1> QED
  BY <1>1, <1>5, <1>7 DEF Honest

LEMMA HonestStep == ExchangeInv /\ HonestInv /\ [KexNext]_kexVars => HonestInv'
<1> SUFFICES ASSUME ExchangeInv, HonestInv, [KexNext]_kexVars, altered' = 0
             PROVE  Honest'
  BY DEF HonestInv
<1>1. CASE UNCHANGED kexVars
  <2>1. UNCHANGED <<client, server, net, offer, secret, altered>>
    BY <1>1 DEF kexVars
  <2>2. Honest
    BY <2>1 DEF HonestInv
  <2> QED
    BY <2>1, <2>2 DEF Honest, HonestView, Common
<1>2. CASE exchange_identification
  <2>1. Honest
    BY <1>2 DEF HonestInv, exchange_identification, ClientAt
  <2> QED
    BY <1>2, <2>1, HonestIdentification
<1>3. CASE ReceiveKexinit
  <2>1. Honest
    BY <1>3 DEF HonestInv, ReceiveKexinit, ClientAt
  <2> QED
    BY <1>3, <2>1, HonestKexinit
<1>4. CASE ReceiveReply
  <2>1. Honest
    BY <1>4 DEF HonestInv, ReceiveReply, ClientAt
  <2> QED
    BY <1>4, <2>1, HonestReply
<1>5. CASE ServerReplies
  <2>1. Honest
    BY <1>5 DEF HonestInv, ServerReplies
  <2> QED
    BY <1>5, <2>1, HonestServer
<1>6. CASE \E kind \in Kinds : Alter(kind)
  <2>1. altered' = altered + 1 /\ altered \in 0..MaxAltered
    BY <1>6 DEF Alter, ExchangeInv, Typing
  <2>2. altered' # 0
    BY <2>1
  <2> QED
    BY <2>2
<1>7. CASE KexOver
  BY <1>1, <1>7 DEF KexOver
<1> QED
  BY <1>1, <1>2, <1>3, <1>4, <1>5, <1>6, <1>7 DEF KexNext

(***************************************************************************)
(* Without interference the client ends the exchange for the lack of a     *)
(* common algorithm and for nothing else, for every offer, every secret    *)
(* and keys and names of every size (kex.cpp:18-280, main.cpp:110-147 and  *)
(* 332-393).                                                               *)
(***************************************************************************)
THEOREM HonestAlways == KexSpec => []HonestOutcome
<1>1. HonestInv => HonestOutcome
  BY DEF HonestInv, Honest, HonestOutcome
<1>2. KexSpec => []HonestInv
  BY HonestInitially, HonestStep, ExchangeInductive, PTL DEF KexSpec
<1> QED
  BY <1>1, <1>2, PTL
================================================================================

------------------------- MODULE KnownHostsFileProofs -------------------------
(***************************************************************************)
(* What check finds in a known-hosts file of any length, and what an       *)
(* append, complete or cut short, can make of it.                          *)
(***************************************************************************)
EXTENDS KnownHostsFile, SequenceTheorems, FiniteSetTheorems, TLAPS

-------------------------------------------------------------------------------
(***************************************************************************)
(* The line that decides.                                                  *)
(***************************************************************************)
Decides(f, h, i) ==
    \/ Malformed(f.lines[i])
    \/ Entry(f.lines[i]) /\ f.lines[i][1] = h

\* A set of numbers has a least one.
LEMMA LeastNumber ==
    ASSUME NEW S \in SUBSET Nat, S # {}
    PROVE  \E n \in S : \A m \in S : n <= m
<1> DEFINE T == {0..n : n \in S}
<1>1. T \subseteq FiniteSubsetsOf(Nat)
  <2>1. \A n \in S : IsFiniteSet(0..n) /\ 0..n \subseteq Nat
    BY FS_Interval
  <2> QED
    BY <2>1 DEF FiniteSubsetsOf
<1>2. \E x \in T : \A y \in T : ~(<<y, x>> \in StrictSubsetOrdering(Nat))
  <2>1. IsWellFoundedOn(StrictSubsetOrdering(Nat), FiniteSubsetsOf(Nat))
    BY FS_StrictSubsetOrderingWellFounded
  <2>2. T # {}
    OBVIOUS
  <2> HIDE DEF T
  <2> QED
    BY <1>1, <2>1, <2>2, WFMin
<1>3. PICK n \in S : \A m \in S : ~(<<0..m, 0..n>> \in StrictSubsetOrdering(Nat))
  BY <1>2
<1>4. ASSUME NEW m \in S, m < n
      PROVE  <<0..m, 0..n>> \in StrictSubsetOrdering(Nat)
  <2>1. 0..m \subseteq 0..n /\ n \in 0..n /\ n \notin 0..m
    BY <1>4
  <2>2. 0..m \in SUBSET Nat /\ 0..n \in SUBSET Nat
    OBVIOUS
  <2> QED
    BY <2>1, <2>2 DEF StrictSubsetOrdering
<1>5. \A m \in S : ~(m < n)
  BY <1>3, <1>4
<1> QED
  BY <1>5

\* check stops at the first line that decides, and only without one at none.
LEMMA DecidingLineIsFirst ==
    ASSUME NEW f \in File, NEW h
    PROVE  LET n == DecidingLine(f, h)
           IN  \/ n = 0 /\ \A i \in DOMAIN f.lines : ~Decides(f, h, i)
               \/ /\ n \in DOMAIN f.lines /\ n # 0
                  /\ Decides(f, h, n)
                  /\ \A i \in DOMAIN f.lines : Decides(f, h, i) => n <= i
<1> DEFINE found == {i \in DOMAIN f.lines :
                       \/ Malformed(f.lines[i])
                       \/ Entry(f.lines[i]) /\ f.lines[i][1] = h}
<1>1. found \in SUBSET Nat /\ 0 \notin DOMAIN f.lines
  BY DEF File
<1>2. CASE found = {}
  BY <1>2 DEF DecidingLine, Decides
<1>3. CASE found # {}
  <2>1. \E i \in found : \A j \in found : i <= j
    BY <1>1, <1>3, LeastNumber
  <2>2. DecidingLine(f, h) = CHOOSE i \in found : \A j \in found : i <= j
    BY <1>3 DEF DecidingLine
  <2>3. /\ DecidingLine(f, h) \in found
        /\ \A j \in found : DecidingLine(f, h) <= j
    BY <2>1, <2>2
  <2> QED
    BY <1>1, <2>3 DEF Decides
<1> QED
  BY <1>2, <1>3

\* There is only one such line.
LEMMA DecidingLineUnique ==
    ASSUME NEW f \in File, NEW h, NEW n \in DOMAIN f.lines,
           Decides(f, h, n),
           \A i \in DOMAIN f.lines : Decides(f, h, i) => n <= i
    PROVE  DecidingLine(f, h) = n
<1>1. \A i \in DOMAIN f.lines : i \in Nat
  BY DEF File
<1> QED
  BY <1>1, DecidingLineIsFirst

-------------------------------------------------------------------------------
(***************************************************************************)
(* What an append leaves: the entry, or what a full disk lets through.     *)
(***************************************************************************)
Texts(h, k) == {Whole(h, k)} \cup CutShort(h, k)

\* The fields of an entry in their places, as many as were written.
EntryFields(t, h, k) ==
    /\ t \in Seq(Field)
    /\ Len(t) \in 1..3
    /\ t[1] \in {h, GARBAGE}
    /\ Len(t) >= 2 => t[2] \in {ALGORITHM, GARBAGE}
    /\ Len(t) = 3 => t[1] = h /\ t[3] \in {k, GARBAGE}

LEMMA TextFields ==
    ASSUME NEW h \in Hosts, NEW k \in Keys, NEW text \in Texts(h, k)
    PROVE  /\ EntryFields(text.fields, h, k)
           /\ text.ends \in {"newline", "space", "field"}
<1>1. /\ text.fields \in {<<GARBAGE>>, <<h>>, <<h, GARBAGE>>, <<h, ALGORITHM>>,
                          <<h, ALGORITHM, GARBAGE>>, <<h, ALGORITHM, k>>}
      /\ text.ends \in {"newline", "space", "field"}
  BY DEF Texts, Whole, CutShort
<1>2. h \in Field /\ k \in Field /\ ALGORITHM \in Field /\ GARBAGE \in Field
  BY DEF Field
<1>3. ASSUME NEW a \in Field, text.fields = <<a>>
      PROVE  /\ text.fields \in Seq(Field) /\ Len(text.fields) = 1
             /\ text.fields[1] = a
  BY <1>3
<1>4. ASSUME NEW a \in Field, NEW b \in Field, text.fields = <<a, b>>
      PROVE  /\ text.fields \in Seq(Field) /\ Len(text.fields) = 2
             /\ text.fields[1] = a /\ text.fields[2] = b
  BY <1>4
<1>5. ASSUME NEW a \in Field, NEW b \in Field, NEW c \in Field,
             text.fields = <<a, b, c>>
      PROVE  /\ text.fields \in Seq(Field) /\ Len(text.fields) = 3
             /\ text.fields[1] = a /\ text.fields[2] = b /\ text.fields[3] = c
  BY <1>5
<1>6. CASE text.fields \in {<<GARBAGE>>, <<h>>}
  BY <1>1, <1>2, <1>3, <1>6 DEF EntryFields
<1>7. CASE text.fields \in {<<h, GARBAGE>>, <<h, ALGORITHM>>}
  BY <1>1, <1>2, <1>4, <1>7 DEF EntryFields
<1>8. CASE text.fields \in {<<h, ALGORITHM, GARBAGE>>, <<h, ALGORITHM, k>>}
  BY <1>1, <1>2, <1>5, <1>8 DEF EntryFields
<1> QED
  BY <1>1, <1>6, <1>7, <1>8

(***************************************************************************)
(* A last line that was not complete, continued with the fields of an      *)
(* entry: of three fields and more the first two stay and the third stays  *)
(* or is spoilt; and no host's key is put together of two writes.          *)
(***************************************************************************)
Continues(joined, last, h, k) ==
    /\ joined \in Seq(Field)
    /\ Len(last) >= 3 => /\ Len(joined) >= 3
                         /\ joined[1] = last[1]
                         /\ joined[2] = last[2]
                         /\ joined[3] \in {last[3], GARBAGE}
    /\ Len(last) < 3 /\ Len(joined) >= 3
         /\ joined[1] \in Hosts /\ joined[3] \in Keys =>
             joined[1] = h /\ joined[3] = k

LEMMA DistinctFields ==
    /\ GARBAGE \notin Hosts /\ GARBAGE \notin Keys /\ GARBAGE \in Field
    /\ ALGORITHM \notin Keys
    /\ \A h \in Hosts : h \notin Keys
BY KnownHostsFileAssumption DEF Field

LEMMA SmallNumbers ==
    ASSUME NEW n \in Nat
    PROVE  /\ n >= 3 \/ n = 2 \/ n = 1 \/ n = 0
           /\ n >= 4 \/ n = 3 \/ n = 2 \/ n \in 0..1
OBVIOUS

LEMMA ContinuedAfterSpace ==
    ASSUME NEW h \in Hosts, NEW k \in Keys, NEW t, EntryFields(t, h, k),
           NEW last \in Seq(Field)
    PROVE  Continues(last \o t, last, h, k)
<1> DEFINE joined == last \o t
<1>1. /\ t \in Seq(Field)
      /\ Len(t) \in 1..3
      /\ t[1] \in {h, GARBAGE}
      /\ Len(t) >= 2 => t[2] \in {ALGORITHM, GARBAGE}
      /\ Len(t) = 3 => t[1] = h /\ t[3] \in {k, GARBAGE}
  BY DEF EntryFields
<1>2. /\ joined \in Seq(Field)
      /\ Len(joined) = Len(last) + Len(t)
      /\ \A i \in 1..Len(last) : joined[i] = last[i]
      /\ \A i \in 1..Len(t) : joined[Len(last) + i] = t[i]
  BY <1>1
<1>3. Len(last) \in Nat
  BY LenProperties
<1> SUFFICES Continues(joined, last, h, k)
  OBVIOUS
<1> HIDE DEF joined
<1>4. CASE Len(last) >= 3
  BY <1>1, <1>2, <1>3, <1>4 DEF Continues
<1>5. CASE Len(last) = 0
  BY <1>1, <1>2, <1>5, DistinctFields DEF Continues
<1>6. CASE Len(last) = 1
  <2>1. Len(joined) >= 3 => joined[3] = t[2]
    BY <1>1, <1>2, <1>6
  <2> QED
    BY <2>1, <1>1, <1>2, <1>6, DistinctFields DEF Continues
<1>7. CASE Len(last) = 2
  <2>1. joined[3] = t[1]
    BY <1>1, <1>2, <1>7
  <2> QED
    BY <2>1, <1>1, <1>2, <1>7, DistinctFields DEF Continues
<1>8. Len(last) >= 3 \/ Len(last) = 2 \/ Len(last) = 1 \/ Len(last) = 0
  BY <1>3, SmallNumbers, Zenon
<1> QED
  BY <1>4, <1>5, <1>6, <1>7, <1>8, Zenon

LEMMA ContinuedInField ==
    ASSUME NEW h \in Hosts, NEW k \in Keys, NEW t, EntryFields(t, h, k),
           NEW last \in Seq(Field)
    PROVE  Continues(SubSeq(last, 1, Len(last) - 1) \o <<GARBAGE>> \o Tail(t),
                     last, h, k)
<1> DEFINE front == SubSeq(last, 1, Len(last) - 1)
           start == front \o <<GARBAGE>>
           rest == Tail(t)
           joined == start \o rest
           m == IF last = <<>> THEN 0 ELSE Len(last) - 1
<1>1. /\ t \in Seq(Field)
      /\ Len(t) \in 1..3
      /\ Len(t) >= 2 => t[2] \in {ALGORITHM, GARBAGE}
  BY DEF EntryFields
<1>2. /\ front \in Seq(Field)
      /\ m \in Nat /\ Len(front) = m
      /\ \A i \in 1..m : front[i] = last[i]
  OBVIOUS
<1>3. /\ rest \in Seq(Field)
      /\ Len(rest) = Len(t) - 1
      /\ Len(t) >= 2 => rest[1] = t[2]
  BY <1>1
<1>4. Len(last) \in Nat
  BY LenProperties
<1> SUFFICES Continues(joined, last, h, k)
  OBVIOUS
<1>5. /\ start \in Seq(Field)
      /\ Len(start) = m + 1
      /\ \A i \in 1..m : start[i] = last[i]
      /\ start[m + 1] = GARBAGE
  <2> HIDE DEF front, m
  <2> QED
    BY <1>2, DistinctFields
<1>6. /\ joined \in Seq(Field)
      /\ Len(joined) = m + Len(t)
      /\ \A i \in 1..m : joined[i] = last[i]
      /\ joined[m + 1] = GARBAGE
      /\ Len(t) >= 2 => joined[m + 2] = t[2]
  <2> HIDE DEF start, rest, m
  <2>1. /\ joined \in Seq(Field)
        /\ Len(joined) = Len(start) + Len(rest)
        /\ \A i \in 1..Len(start) : joined[i] = start[i]
        /\ \A i \in 1..Len(rest) : joined[Len(start) + i] = rest[i]
    <3>1. start \in Seq(Field) /\ rest \in Seq(Field)
      BY <1>3, <1>5
    <3> QED
      BY <3>1
  <2> QED
    BY <2>1, <1>1, <1>2, <1>3, <1>5
<1> HIDE DEF joined
<1>7. CASE Len(last) >= 4
  <2>1. m >= 3
    BY <1>7
  <2> HIDE DEF m
  <2> QED
    BY <2>1, <1>1, <1>2, <1>6, <1>7 DEF Continues
<1>8. CASE Len(last) = 3
  <2>1. m = 2
    BY <1>8
  <2> HIDE DEF m
  <2> QED
    <3>1. /\ joined[1] = last[1] /\ joined[2] = last[2] /\ joined[3] = GARBAGE
          /\ joined \in Seq(Field) /\ Len(joined) >= 3
      <4>1. 1 \in 1..m /\ 2 \in 1..m /\ m + 1 = 3
        BY <2>1
      <4>2. joined[1] = last[1] /\ joined[2] = last[2] /\ joined[3] = GARBAGE
        BY <4>1, <1>6, Zenon
      <4>3. Len(joined) = 2 + Len(t) /\ joined \in Seq(Field)
        BY <2>1, <1>6, Zenon
      <4>4. Len(t) \in 1..3
        BY <1>1, Zenon
      <4>5. \A b \in 1..3 : 2 + b >= 3
        OBVIOUS
      <4>6. Len(joined) >= 3
        BY <4>3, <4>4, <4>5, Zenon
      <4> QED
        BY <4>2, <4>3, <4>6, Zenon
    <3> QED
      BY <3>1, <1>8 DEF Continues
<1>9. CASE Len(last) = 2
  <2>1. m = 1
    BY <1>9, EmptySeq
  <2> HIDE DEF m
  <2>2. Len(joined) >= 3 => joined[3] \in {ALGORITHM, GARBAGE}
    BY <2>1, <1>1, <1>6
  <2> QED
    BY <2>2, <1>6, <1>9, DistinctFields DEF Continues
<1>10. CASE Len(last) \in 0..1
  <2>1. m = 0
    BY <1>10
  <2> HIDE DEF m
  <2> QED
    BY <2>1, <1>6, <1>10, DistinctFields DEF Continues
<1>11. \/ Len(last) >= 4 \/ Len(last) = 3 \/ Len(last) = 2
       \/ Len(last) \in 0..1
  BY <1>4, SmallNumbers, Zenon
<1> QED
  BY <1>7, <1>8, <1>9, <1>10, <1>11, Zenon

(***************************************************************************)
(* The file after an append: every complete line stays, in its place, and  *)
(* at most one line is new or continued.                                   *)
(***************************************************************************)
GoodEnd(f) == f.ends # "newline" => f.lines # <<>>

\* What became of line i.
Kept(f, g, i, h, k) ==
    \/ i \in DOMAIN f.lines /\ g.lines[i] = f.lines[i]
    \/ /\ i \in DOMAIN f.lines /\ f.ends # "newline" /\ i = Len(f.lines)
       /\ Continues(g.lines[i], f.lines[i], h, k)
    \/ /\ f.ends = "newline" /\ i = Len(f.lines) + 1
       /\ EntryFields(g.lines[i], h, k)

LEMMA AppendedFile ==
    ASSUME NEW h \in Hosts, NEW k \in Keys, NEW text \in Texts(h, k),
           NEW f \in File, GoodEnd(f)
    PROVE  LET g == Appended(f, text)
           IN  /\ g \in File
               /\ GoodEnd(g)
               /\ DOMAIN f.lines \subseteq DOMAIN g.lines
               /\ \A i \in DOMAIN g.lines : Kept(f, g, i, h, k)
<1> DEFINE g == Appended(f, text)
           n == Len(f.lines)
           last == f.lines[n]
           t == text.fields
<1> SUFFICES /\ g \in File
             /\ GoodEnd(g)
             /\ DOMAIN f.lines \subseteq DOMAIN g.lines
             /\ \A i \in DOMAIN g.lines : Kept(f, g, i, h, k)
  OBVIOUS
<1>1. EntryFields(t, h, k) /\ t \in Seq(Field)
  BY TextFields DEF EntryFields
<1>2. f.lines \in Seq(Seq(Field)) /\ f.ends \in {"newline", "space", "field"}
  BY DEF File
<1>3. g.ends \in {"newline", "space", "field"} /\ g = [lines |-> g.lines, ends |-> g.ends]
  <2>1. \E l : g = [lines |-> l, ends |-> text.ends]
    BY DEF Appended
  <2>2. PICK l : g = [lines |-> l, ends |-> text.ends]
    BY <2>1
  <2> HIDE DEF g
  <2>3. g.lines = l /\ g.ends = text.ends
    BY <2>2
  <2> QED
    BY <2>2, <2>3, TextFields, Zenon
<1>4. CASE f.ends = "newline"
  <2>1. g.lines = Append(f.lines, t)
    BY <1>4 DEF Appended
  <2>2. /\ g.lines \in Seq(Seq(Field))
        /\ Len(g.lines) = n + 1
        /\ \A i \in 1..n : g.lines[i] = f.lines[i]
        /\ g.lines[n + 1] = t
        /\ DOMAIN g.lines = 1..(n + 1) /\ DOMAIN f.lines = 1..n /\ n \in Nat
    <3> HIDE DEF g, t
    <3> QED
      BY <2>1, <1>1, <1>2
  <2> QED
    BY <2>2, <1>1, <1>3, <1>4 DEF File, GoodEnd, Kept
<1>5. CASE f.ends # "newline"
  <2> DEFINE joined == g.lines[n]
  <2>1. f.lines # <<>> /\ n \in DOMAIN f.lines /\ last \in Seq(Field)
    BY <1>2, <1>5 DEF GoodEnd
  <2>2. \E j : /\ g.lines = [f.lines EXCEPT ![n] = j]
               /\ Continues(j, last, h, k)
    <3>1. CASE f.ends = "space"
      <4>1. g.lines = [f.lines EXCEPT ![n] = last \o t]
        BY <3>1 DEF Appended
      <4> QED
        BY <4>1, <2>1, <1>1, ContinuedAfterSpace
    <3>2. CASE f.ends = "field"
      <4>1. g.lines = [f.lines EXCEPT ![n] =
                         SubSeq(last, 1, Len(last) - 1) \o <<GARBAGE>> \o Tail(t)]
        BY <3>2 DEF Appended
      <4> QED
        BY <4>1, <2>1, <1>1, ContinuedInField
    <3> QED
      BY <3>1, <3>2, <1>2, <1>5
  <2>3. PICK j : g.lines = [f.lines EXCEPT ![n] = j] /\ Continues(j, last, h, k)
    BY <2>2
  <2> HIDE DEF g, t
  <2>4. j \in Seq(Field)
    BY <2>3 DEF Continues
  <2>5. /\ g.lines \in Seq(Seq(Field))
        /\ DOMAIN g.lines = DOMAIN f.lines
        /\ Len(g.lines) = n
        /\ \A i \in DOMAIN f.lines : i # n => g.lines[i] = f.lines[i]
        /\ g.lines[n] = j
    BY <2>1, <2>3, <2>4, <1>2
  <2>6. g \in File
    BY <2>5, <1>3 DEF File
  <2>7. GoodEnd(g)
    BY <2>1, <2>5, EmptySeq DEF GoodEnd
  <2>8. \A i \in DOMAIN g.lines : Kept(f, g, i, h, k)
    BY <2>1, <2>3, <2>5, <1>5 DEF Kept
  <2> QED
    BY <2>5, <2>6, <2>7, <2>8
<1> QED
  BY <1>4, <1>5

(***************************************************************************)
(* A lookup that was decided by a complete line is decided by this line    *)
(* for ever; only the key of a line without its newline can be spoilt.     *)
(***************************************************************************)
LEMMA DecisionStays ==
    ASSUME NEW h \in Hosts, NEW k \in Keys, NEW text \in Texts(h, k),
           NEW f \in File, GoodEnd(f), NEW x,
           DecidingLine(f, x) # 0,
           ~Malformed(f.lines[DecidingLine(f, x)])
    PROVE  LET g == Appended(f, text)
               n == DecidingLine(f, x)
           IN  /\ DecidingLine(g, x) = n
               /\ ~Malformed(g.lines[n])
               /\ g.lines[n][3] \in {f.lines[n][3], GARBAGE}
               /\ n # Len(f.lines) \/ f.ends = "newline" =>
                    g.lines[n] = f.lines[n]
<1> DEFINE g == Appended(f, text)
           n == DecidingLine(f, x)
<1> SUFFICES /\ DecidingLine(g, x) = n
             /\ ~Malformed(g.lines[n])
             /\ g.lines[n][3] \in {f.lines[n][3], GARBAGE}
             /\ n # Len(f.lines) \/ f.ends = "newline" =>
                  g.lines[n] = f.lines[n]
  OBVIOUS
<1>1. /\ n \in DOMAIN f.lines
      /\ Decides(f, x, n)
      /\ \A i \in DOMAIN f.lines : Decides(f, x, i) => n <= i
      /\ ~Malformed(f.lines[n])
  BY DecidingLineIsFirst
<1>2. /\ g \in File
      /\ DOMAIN f.lines \subseteq DOMAIN g.lines
      /\ \A i \in DOMAIN g.lines : Kept(f, g, i, h, k)
  BY AppendedFile
<1>3. /\ DOMAIN f.lines = 1..Len(f.lines) /\ Len(f.lines) \in Nat
      /\ \A i \in DOMAIN f.lines : f.lines[i] \in Seq(Field)
      /\ DOMAIN g.lines = 1..Len(g.lines) /\ Len(g.lines) \in Nat
  BY <1>2 DEF File
<1> HIDE DEF g, n
<1>4. \A i \in 1..(n - 1) : g.lines[i] = f.lines[i]
  <2>1. ASSUME NEW i \in 1..(n - 1)
        PROVE  i \in DOMAIN f.lines /\ i # Len(f.lines) /\ i # Len(f.lines) + 1
    BY <2>1, <1>1, <1>3
  <2> QED
    BY <2>1, <1>2 DEF Kept
<1>5. Kept(f, g, n, h, k) /\ n # Len(f.lines) + 1
  BY <1>1, <1>2, <1>3
<1>6. Len(f.lines[n]) \in Nat /\ Len(f.lines[n]) >= 3
  <2>1. Len(f.lines[n]) \in Nat
    BY <1>1, <1>3, LenProperties
  <2> QED
    BY <2>1, <1>1 DEF Decides, Entry
<1>7. \/ g.lines[n] = f.lines[n]
      \/ /\ n = Len(f.lines) /\ f.ends # "newline"
         /\ Continues(g.lines[n], f.lines[n], h, k)
  BY <1>5 DEF Kept
<1>8. /\ Len(g.lines[n]) >= 3 /\ Len(g.lines[n]) \in Nat
      /\ g.lines[n][1] = f.lines[n][1]
      /\ g.lines[n][3] \in {f.lines[n][3], GARBAGE}
  <2>1. CASE g.lines[n] = f.lines[n]
    BY <2>1, <1>6
  <2>2. CASE Continues(g.lines[n], f.lines[n], h, k)
    BY <2>2, <1>6, LenProperties DEF Continues
  <2> QED
    BY <2>1, <2>2, <1>7
<1>9. ~Malformed(g.lines[n])
  BY <1>8 DEF Malformed
<1>10. Decides(g, x, n)
  BY <1>1, <1>8 DEF Decides, Entry
<1>11. \A i \in DOMAIN g.lines : Decides(g, x, i) => n <= i
  <2> SUFFICES ASSUME NEW i \in DOMAIN g.lines, ~(n <= i)
               PROVE  ~Decides(g, x, i)
    OBVIOUS
  <2>1. i \in 1..(n - 1) /\ i \in DOMAIN f.lines
    BY <1>1, <1>3
  <2> QED
    BY <2>1, <1>1, <1>4 DEF Decides
<1>12. DecidingLine(g, x) = n
  BY <1>1, <1>2, <1>10, <1>11, DecidingLineUnique
<1> QED
  BY <1>7, <1>8, <1>9, <1>12

(***************************************************************************)
(* A pair in pairs stands behind every line that can match.                *)
(***************************************************************************)
Entries(f, pairs) ==
    \A i \in DOMAIN f.lines :
        Len(f.lines[i]) >= 3 /\ f.lines[i][1] \in Hosts /\ f.lines[i][3] \in Keys =>
            <<f.lines[i][1], f.lines[i][3]>> \in pairs

LEMMA EntriesStay ==
    ASSUME NEW h \in Hosts, NEW k \in Keys, NEW text \in Texts(h, k),
           NEW f \in File, GoodEnd(f), NEW pairs, Entries(f, pairs),
           <<h, k>> \in pairs
    PROVE  Entries(Appended(f, text), pairs)
<1> DEFINE g == Appended(f, text)
<1>1. \A i \in DOMAIN g.lines : Kept(f, g, i, h, k)
  BY AppendedFile
<1> HIDE DEF g
<1> SUFFICES ASSUME NEW i \in DOMAIN g.lines,
                    Len(g.lines[i]) >= 3,
                    g.lines[i][1] \in Hosts, g.lines[i][3] \in Keys
             PROVE  <<g.lines[i][1], g.lines[i][3]>> \in pairs
  BY DEF Entries, g
<1>2. CASE i \in DOMAIN f.lines /\ g.lines[i] = f.lines[i]
  BY <1>2 DEF Entries
<1>3. CASE i \in DOMAIN f.lines /\ Continues(g.lines[i], f.lines[i], h, k)
  <2>1. f.lines[i] \in Seq(Field)
    BY <1>3 DEF File
  <2>2. Len(f.lines[i]) \in Nat
    BY <2>1, LenProperties
  <2>3. CASE Len(f.lines[i]) >= 3
    BY <1>3, <2>3, DistinctFields DEF Continues, Entries
  <2>4. CASE Len(f.lines[i]) < 3
    BY <1>3, <2>4 DEF Continues
  <2> QED
    BY <2>2, <2>3, <2>4
<1>4. CASE EntryFields(g.lines[i], h, k)
  BY <1>4, DistinctFields DEF EntryFields
<1> QED
  BY <1>1, <1>2, <1>3, <1>4 DEF Kept

\* A key matches only because of a complete line with it.
LEMMA MatchIsEntry ==
    ASSUME NEW f \in File, NEW x \in Hosts, NEW y \in Keys,
           check(f, x, y) = "Match"
    PROVE  LET n == DecidingLine(f, x)
           IN  /\ n # 0 /\ n \in DOMAIN f.lines
               /\ ~Malformed(f.lines[n]) /\ Entry(f.lines[n])
               /\ f.lines[n][1] = x /\ f.lines[n][3] = y
BY DecidingLineIsFirst DEF check, Decides

LEMMA ApprovedMatch ==
    ASSUME NEW f \in File, NEW x \in Hosts, NEW y \in Keys, NEW pairs,
           Entries(f, pairs), check(f, x, y) = "Match"
    PROVE  <<x, y>> \in pairs
<1> DEFINE n == DecidingLine(f, x)
<1>1. /\ n \in DOMAIN f.lines
      /\ Entry(f.lines[n])
      /\ f.lines[n][1] = x /\ f.lines[n][3] = y
  BY MatchIsEntry
<1> HIDE DEF n
<1>2. Len(f.lines[n]) \in Nat
  <2>1. f.lines[n] \in Seq(Field)
    BY <1>1 DEF File
  <2> QED
    BY <2>1, LenProperties
<1> QED
  BY <1>1, <1>2 DEF Entry, Entries

===============================================================================

-------------------------- MODULE ShellSessionProofs --------------------------
(***************************************************************************)
(* ShellSession for every window, packet and buffer size and every length  *)
(* of session: a server that keeps to the protocol is never refused, the   *)
(* two ends agree on both windows, and nothing of what the shell wrote is  *)
(* missing when the session ends.                                          *)
(***************************************************************************)
EXTENDS ShellSession, SessionProofs, FiniteSetTheorems

(***************************************************************************)
(* The order of the session.  The client goes through the stages opening,  *)
(* pty, shell and socket, from one to the next by the message it waits     *)
(* for; at most one such message is under way, at place k of s2c (0: none, *)
(* and none at all in the poll loop).  What is before it suits the         *)
(* client's stage, what is behind it the stage the server is in.           *)
(***************************************************************************)
Stage(p) ==
    IF p = "start" THEN "opening" ELSE IF p \in InLoop THEN "socket" ELSE p

NextStage(at) ==
    IF at = "opening" THEN "pty" ELSE IF at = "pty" THEN "shell" ELSE "socket"

AnswerType(at) == IF at = "opening" THEN "open_confirmation" ELSE "success"

ReplyTo(at) ==
    IF at = "opening" THEN "confirmation"
    ELSE IF at = "pty" THEN "pty-req" ELSE "shell"

Waiting == pc \in {"opening", "pty", "shell"}

\* The messages that do not end the stage.
Passing(at) ==
    {"global_request"}
      \cup (IF at = "opening" THEN {} ELSE {"window_adjust"})
      \cup (IF at = "socket"
            THEN {"data", "extended_data", "eof", "request", "close"} ELSE {})

PhasesAt(at) ==
    IF at = "opening" THEN {"idle"}
    ELSE IF at = "socket" THEN {"shell", "closed"} ELSE {"open"}

Serving(k) == IF k = 0 THEN Stage(pc) ELSE NextStage(Stage(pc))

InOrder(k) ==
    /\ k \in 0..Len(s2c)
    /\ \A i \in 1..Len(s2c) :
        /\ i < k => s2c[i].type \in Passing(Stage(pc))
        /\ i > k => s2c[i].type \in Passing(Serving(k))
    /\ k > 0 => Waiting /\ s2c[k].type = AnswerType(Stage(pc))
    /\ server.phase \in PhasesAt(Serving(k))

(***************************************************************************)
(* The client's request for that message, at place a of c2s (0: none), or  *)
(* the server's intent to send it, excludes it.                            *)
(***************************************************************************)
Asks(at, window, m) ==
    IF at = "opening" THEN m.type = "channel_open" /\ m.window = window
    ELSE m.type = "request" /\ m.name = ReplyTo(at)

Asking(k, a) ==
    /\ a \in 0..Len(c2s)
    /\ \A i \in 1..Len(c2s) : i # a => c2s[i].type \notin {"channel_open", "request"}
    /\ a > 0 => /\ Waiting /\ k = 0 /\ server.reply = "none"
                /\ Asks(Stage(pc), channel.local_window, c2s[a])
    /\ server.reply # "none" =>
          Waiting /\ k = 0 /\ server.reply = ReplyTo(Stage(pc))

OrderInv ==
    \E k \in 0..Len(s2c), a \in 0..Len(c2s) : InOrder(k) /\ Asking(k, a)

\* What the server's messages contain.
Proper(m) ==
    /\ m.well_formed
    /\ m.type # "global_request" => m.recipient = 0
    /\ m.type = "open_confirmation" => m.max_packet >= MIN_MAX_PACKET_SIZE
    /\ m.type = "window_adjust" => m.bytes_to_add # 0
    /\ m.type \in {"data", "extended_data"} => m.size <= LOCAL_MAX_PACKET_SIZE
    /\ m.type = "extended_data" => m.data_type = 1
    /\ m.type = "request" =>
          m.name = "exit-status" /\ m.exit_status = EXIT_STATUS

ProperInv ==
    /\ channel.local_id = 0
    /\ \A i \in 1..Len(s2c) : Proper(s2c[i])

(***************************************************************************)
(* EOF and the exit status come once each.                                 *)
(***************************************************************************)
Once(q, type, sent, seen) ==
    /\ ~sent => ~seen /\ \A i \in 1..Len(q) : q[i].type # type
    /\ seen => \A i \in 1..Len(q) : q[i].type # type
    /\ \A i, j \in 1..Len(q) : i < j /\ q[i].type = type => q[j].type # type

EofInv == Once(s2c, "eof", server.eof_sent, channel.remote_eof_received)

StatusInv ==
    /\ Once(s2c, "request", server.exit_sent, channel.exit_status_received)
    /\ server.exit_sent =>
          \/ channel.exit_status_received
          \/ \E i \in 1..Len(s2c) : s2c[i].type = "request"
    /\ channel.exit_status_received => channel.exit_status = EXIT_STATUS

(***************************************************************************)
(* The client closes only in answer to the server, the server takes the    *)
(* connection down only after that.                                        *)
(***************************************************************************)
CloseInv ==
    /\ channel.remote_close_received =>
          s2c = <<>> /\ channel.local_close_sent /\ server.phase = "closed"
    /\ \A i \in 1..Len(s2c) :
          s2c[i].type = "close" => i = Len(s2c) /\ server.phase = "closed"
    /\ \A i \in 1..Len(c2s) :
          c2s[i].type = "close" => channel.local_close_sent
    /\ server.close_received => channel.local_close_sent
    /\ tcp # "up" => tcp = "fin" /\ server.close_received

(***************************************************************************)
(* The books of both directions balance, the channel's windows from the    *)
(* moment the client offers its own.                                       *)
(***************************************************************************)
Offered == IF pc = "start" THEN 0 ELSE channel.local_window

BooksInv ==
    /\ Offered = server.send_window
                   + InFlight("data", s2c) + InFlight("window", c2s)
    /\ server.recv_window = channel.remote_window
                   + InFlight("data", c2s) + InFlight("window", s2c)
    /\ server.recv_window <= SERVER_WINDOW
    /\ server.phase = "idle" => server.recv_window = 0
    /\ Stage(pc) = "opening" => channel.remote_window = 0
    /\ server.unanswered = InFlight("reply", s2c) + InFlight("reply", c2s)
    /\ produced = shown + InFlight("data", s2c)
    /\ typed = received + InFlight("data", c2s)

LiveInv ==
    OrderInv /\ ProperInv /\ EofInv /\ StatusInv /\ CloseInv /\ BooksInv

ShellInv ==
    /\ SessionInv
    /\ ShellTypeOK
    /\ NeverRejected
    /\ CompleteAtExit
    /\ pc # "exit" => LiveInv

-------------------------------------------------------------------------------
(***************************************************************************)
(* Counting what is in flight: a queue's units are a finite set, a message *)
(* put at its end adds its amount, one taken from its front takes its      *)
(* amount away.                                                            *)
(***************************************************************************)
Units(f) == UNION {{i} \X (1..f[i]) : i \in DOMAIN f}

LEMMA UnitIs ==
    ASSUME NEW n \in Nat, NEW f \in [1..n -> Nat], NEW u
    PROVE  u \in Units(f) <=>
              \E i \in 1..n, j \in Nat : j \in 1..f[i] /\ u = <<i, j>>
BY DEF Units

LEMMA UnitsFinite ==
    ASSUME NEW n \in Nat, NEW f \in [1..n -> Nat]
    PROVE  IsFiniteSet(Units(f)) /\ Cardinality(Units(f)) \in Nat
<1> DEFINE S == {{i} \X (1..f[i]) : i \in 1..n}
           g == [i \in 1..n |-> {i} \X (1..f[i])]
<1>1. g \in Surjection(1..n, S)
  BY DEF Surjection
<1>2. IsFiniteSet(1..n)
  BY FS_Interval
<1>3. IsFiniteSet(S)
  BY <1>1, <1>2, FS_Surjection
<1>4. ASSUME NEW i \in 1..n PROVE IsFiniteSet({i} \X (1..f[i]))
  <2>1. f[i] \in Int /\ 1 \in Int
    OBVIOUS
  <2>2. IsFiniteSet(1..f[i])
    BY <2>1, FS_Interval
  <2>3. IsFiniteSet({i})
    BY FS_Singleton
  <2> QED
    BY <2>2, <2>3, FS_Product
<1>5. IsFiniteSet(UNION S)
  BY <1>3, <1>4, FS_UNION
<1>6. Units(f) = UNION S
  BY DEF Units
<1> QED
  BY <1>5, <1>6, FS_CardinalityType

\* The units of the message at one place.
LEMMA UnitsAt ==
    ASSUME NEW i, NEW n \in Nat
    PROVE  IsFiniteSet({i} \X (1..n)) /\ Cardinality({i} \X (1..n)) = n
<1>1. IsFiniteSet({i}) /\ Cardinality({i}) = 1
  BY FS_Singleton
<1>2. IsFiniteSet(1..n) /\ Cardinality(1..n) = n
  <2>1. IsFiniteSet(1..n) /\ Cardinality(1..n) = IF 1 > n THEN 0 ELSE n - 1 + 1
    BY FS_Interval
  <2> QED
    BY <2>1
<1>3. /\ IsFiniteSet({i} \X (1..n))
      /\ Cardinality({i} \X (1..n)) = Cardinality({i}) * Cardinality(1..n)
  BY <1>1, <1>2, FS_Product
<1>4. Cardinality({i} \X (1..n)) = 1 * n
  BY <1>1, <1>2, <1>3
<1> QED
  BY <1>3, <1>4

LEMMA UnitsAppended ==
    ASSUME NEW n \in Nat, NEW f \in [1..n -> Nat], NEW g \in [1..(n + 1) -> Nat],
           \A i \in 1..n : g[i] = f[i]
    PROVE  Cardinality(Units(g)) = Cardinality(Units(f)) + g[n + 1]
<1> DEFINE last == {n + 1} \X (1..g[n + 1])
<1>1. Units(g) = Units(f) \cup last
  <2>1. ASSUME NEW u \in Units(g) PROVE u \in Units(f) \cup last
    <3>1. PICK i \in 1..(n + 1), j \in Nat : j \in 1..g[i] /\ u = <<i, j>>
      BY <2>1, UnitIs
    <3>2. CASE i = n + 1
      BY <3>1, <3>2
    <3>3. CASE i \in 1..n
      BY <3>1, <3>3, UnitIs
    <3> QED
      BY <3>2, <3>3
  <2>2. ASSUME NEW u \in Units(f) PROVE u \in Units(g)
    <3>1. PICK i \in 1..n, j \in Nat : j \in 1..f[i] /\ u = <<i, j>>
      BY <2>2, UnitIs
    <3>2. i \in 1..(n + 1) /\ j \in 1..g[i]
      BY <3>1
    <3> QED
      BY <3>1, <3>2, UnitIs, SMTT(30)
  <2>3. ASSUME NEW u \in last PROVE u \in Units(g)
    <3>1. PICK j \in 1..g[n + 1] : u = <<n + 1, j>>
      BY <2>3
    <3>2. n + 1 \in 1..(n + 1) /\ j \in Nat
      BY <3>1
    <3>3. \E i \in 1..(n + 1), l \in Nat : l \in 1..g[i] /\ u = <<i, l>>
      BY <3>1, <3>2
    <3> QED
      BY <3>3, UnitIs
  <2> QED
    BY <2>1, <2>2, <2>3
<1>2. Units(f) \cap last = {}
  <2>1. ASSUME NEW u \in Units(f), u \in last PROVE FALSE
    <3>1. PICK i \in 1..n, j \in Nat : j \in 1..f[i] /\ u = <<i, j>>
      BY <2>1, UnitIs
    <3>2. PICK l \in 1..g[n + 1] : u = <<n + 1, l>>
      BY <2>1
    <3> QED
      BY <3>1, <3>2
  <2> QED
    BY <2>1
<1>3. g[n + 1] \in Nat
  OBVIOUS
<1>4. IsFiniteSet(last) /\ Cardinality(last) = g[n + 1]
  BY <1>3, UnitsAt
<1>5. IsFiniteSet(Units(f)) /\ Cardinality(Units(f)) \in Nat
  BY UnitsFinite
<1> HIDE DEF last
<1>6. Cardinality(Units(f) \cup last)
         = Cardinality(Units(f)) + Cardinality(last) - Cardinality({})
  BY <1>2, <1>4, <1>5, FS_Union
<1> QED
  BY <1>1, <1>3, <1>4, <1>5, <1>6, FS_EmptySet

LEMMA UnitsTaken ==
    ASSUME NEW n \in Nat, NEW f \in [1..(n + 1) -> Nat], NEW g \in [1..n -> Nat],
           \A i \in 1..n : g[i] = f[i + 1]
    PROVE  Cardinality(Units(f)) = f[1] + Cardinality(Units(g))
<1> DEFINE first == {1} \X (1..f[1])
           rest == Units(f) \ first
           shift == [u \in Units(g) |-> <<u[1] + 1, u[2]>>]
<1>0. 1 \in 1..(n + 1) /\ f[1] \in Nat
  OBVIOUS
<1>1. \A i \in 1..n : i + 1 \in 1..(n + 1)
  OBVIOUS
<1>2. ASSUME NEW u \in Units(g) PROVE shift[u] \in rest
  <2>1. PICK i \in 1..n, j \in Nat : j \in 1..g[i] /\ u = <<i, j>>
    BY <1>2, UnitIs
  <2>2. shift[u] = <<i + 1, j>>
    BY <2>1
  <2>3. i + 1 \in 1..(n + 1) /\ j \in 1..f[i + 1]
    BY <1>1, <2>1
  <2>4. shift[u] \in Units(f)
    <3>1. \E k \in 1..(n + 1), l \in Nat : l \in 1..f[k] /\ shift[u] = <<k, l>>
      BY <2>1, <2>2, <2>3
    <3> QED
      BY <3>1, UnitIs
  <2>5. i + 1 # 1
    OBVIOUS
  <2> QED
    BY <2>2, <2>4, <2>5
<1>3. ASSUME NEW t \in rest PROVE \E u \in Units(g) : shift[u] = t
  <2>1. PICK i \in 1..(n + 1), j \in Nat : j \in 1..f[i] /\ t = <<i, j>>
    BY <1>3, UnitIs
  <2>2. i # 1
    BY <1>3, <2>1
  <2>3. i - 1 \in 1..n /\ j \in 1..g[i - 1] /\ (i - 1) + 1 = i
    BY <2>1, <2>2
  <2>4. <<i - 1, j>> \in Units(g)
    BY <2>3, UnitIs
  <2>5. shift[<<i - 1, j>>] = <<(i - 1) + 1, j>>
    BY <2>4
  <2> QED
    BY <2>1, <2>3, <2>4, <2>5
<1>4. ASSUME NEW u \in Units(g), NEW v \in Units(g), shift[u] = shift[v]
      PROVE  u = v
  <2>1. PICK i \in 1..n, j \in Nat : j \in 1..g[i] /\ u = <<i, j>>
    BY UnitIs
  <2>2. PICK k \in 1..n, l \in Nat : l \in 1..g[k] /\ v = <<k, l>>
    BY UnitIs
  <2>3. <<i + 1, j>> = <<k + 1, l>>
    BY <1>4, <2>1, <2>2
  <2>4. i + 1 = k + 1 /\ j = l
    BY <2>3
  <2>5. i = k
    BY <2>4
  <2> QED
    BY <2>1, <2>2, <2>4, <2>5
<1>5. shift \in Bijection(Units(g), rest)
  <2> HIDE DEF rest
  <2>1. shift \in [Units(g) -> rest]
    BY <1>2
  <2> HIDE DEF shift
  <2>2. shift \in Injection(Units(g), rest)
    BY <2>1, <1>4 DEF Injection, IsInjective
  <2>3. shift \in Surjection(Units(g), rest)
    BY <2>1, <1>3 DEF Surjection
  <2> QED
    BY <2>2, <2>3 DEF Bijection
<1>6. IsFiniteSet(Units(g)) /\ Cardinality(Units(g)) \in Nat
  BY UnitsFinite
<1>7. Cardinality(rest) = Cardinality(Units(g)) /\ IsFiniteSet(rest)
  BY <1>5, <1>6, FS_Bijection DEF ExistsBijection
<1>8. Units(f) = first \cup rest
  <2>1. ASSUME NEW u \in first PROVE u \in Units(f)
    <3>1. PICK j \in 1..f[1] : u = <<1, j>>
      BY <2>1
    <3> QED
      BY <1>0, <3>1, UnitIs
  <2> QED
    BY <2>1
<1>9. first \cap rest = {}
  OBVIOUS
<1>10. IsFiniteSet(first) /\ Cardinality(first) = f[1]
  BY <1>0, UnitsAt
<1> HIDE DEF first, rest
<1>11. Cardinality(first \cup rest)
          = Cardinality(first) + Cardinality(rest) - Cardinality({})
  BY <1>7, <1>9, <1>10, FS_Union
<1> QED
  BY <1>0, <1>6, <1>7, <1>8, <1>10, <1>11, FS_EmptySet

Kinds == {"data", "window", "reply"}

\* An amount is a number, and which one.
LEMMA AmountIs ==
    ASSUME NEW m \in ServerMessage \cup ClientMessage
    PROVE  /\ Amount("data", m) =
                IF m.type \in {"data", "extended_data"} THEN m.size ELSE 0
           /\ Amount("window", m) =
                IF m.type = "window_adjust" THEN m.bytes_to_add
                ELSE IF m.type \in {"channel_open", "open_confirmation"}
                THEN m.window ELSE 0
           /\ Amount("reply", m) =
                IF \/ m.type = "request_failure"
                   \/ m.type = "global_request" /\ m.want_reply
                THEN 1 ELSE 0
<1>1. Amount("data", m) =
         IF m.type \in {"data", "extended_data"} THEN m.size ELSE 0
  BY DEF Amount
<1>2. Amount("window", m) =
         IF m.type = "window_adjust" THEN m.bytes_to_add
         ELSE IF m.type \in {"channel_open", "open_confirmation"}
         THEN m.window ELSE 0
  BY DEF Amount
<1>3. Amount("reply", m) =
         IF \/ m.type = "request_failure"
            \/ m.type = "global_request" /\ m.want_reply
         THEN 1 ELSE 0
  BY DEF Amount
<1> QED
  BY <1>1, <1>2, <1>3

LEMMA AmountNat ==
    ASSUME NEW m \in ServerMessage \cup ClientMessage, NEW kind \in Kinds
    PROVE  Amount(kind, m) \in Nat
<1>1. CASE kind = "data"
  <2>1. m.type \in {"data", "extended_data"} => m.size \in UInt32
    BY DEF ServerMessage, ClientMessage
  <2> QED
    BY <1>1, <2>1, AmountIs, ConnectionAssumption DEF UInt32
<1>2. CASE kind = "window"
  <2>1. m.type = "window_adjust" => m.bytes_to_add \in UInt32
    BY DEF ServerMessage, ClientMessage
  <2>2. m.type \in {"channel_open", "open_confirmation"} => m.window \in UInt32
    BY DEF ServerMessage, ClientMessage
  <2> QED
    BY <1>2, <2>1, <2>2, AmountIs, ConnectionAssumption DEF UInt32
<1>3. CASE kind = "reply"
  BY <1>3, AmountIs
<1> QED
  BY <1>1, <1>2, <1>3 DEF Kinds

\* The amounts along a queue.
LEMMA InFlightIs ==
    ASSUME NEW Message \in {ServerMessage, ClientMessage},
           NEW q \in Seq(Message), NEW kind \in Kinds
    PROVE  LET f == [i \in 1..Len(q) |-> Amount(kind, q[i])]
           IN  /\ f \in [1..Len(q) -> Nat]
               /\ InFlight(kind, q) = Cardinality(Units(f))
<1> DEFINE f == [i \in 1..Len(q) |-> Amount(kind, q[i])]
<1>1. DOMAIN q = 1..Len(q)
  OBVIOUS
<1>2. ASSUME NEW i \in 1..Len(q) PROVE Amount(kind, q[i]) \in Nat
  BY AmountNat
<1>3. Units(f) = UNION {{i} \X (1..Amount(kind, q[i])) : i \in DOMAIN q}
  BY <1>1 DEF Units
<1> QED
  BY <1>2, <1>3 DEF InFlight

LEMMA InFlightNat ==
    ASSUME NEW Message \in {ServerMessage, ClientMessage},
           NEW q \in Seq(Message), NEW kind \in Kinds
    PROVE  InFlight(kind, q) \in Nat
<1> DEFINE f == [i \in 1..Len(q) |-> Amount(kind, q[i])]
<1>1. f \in [1..Len(q) -> Nat] /\ InFlight(kind, q) = Cardinality(Units(f))
  BY InFlightIs
<1>2. Len(q) \in Nat
  OBVIOUS
<1> HIDE DEF f
<1> QED
  BY <1>1, <1>2, UnitsFinite

LEMMA NoneInFlight ==
    ASSUME NEW kind \in Kinds
    PROVE  InFlight(kind, <<>>) = 0
<1>1. UNION {{i} \X (1..Amount(kind, <<>>[i])) : i \in DOMAIN <<>>} = {}
  OBVIOUS
<1> QED
  BY <1>1, FS_EmptySet DEF InFlight

LEMMA InFlightAppended ==
    ASSUME NEW Message \in {ServerMessage, ClientMessage},
           NEW q \in Seq(Message), NEW m \in Message, NEW kind \in Kinds
    PROVE  InFlight(kind, Append(q, m)) = InFlight(kind, q) + Amount(kind, m)
<1> DEFINE r == Append(q, m)
           f == [i \in 1..Len(q) |-> Amount(kind, q[i])]
           g == [i \in 1..Len(r) |-> Amount(kind, r[i])]
<1>1. /\ r \in Seq(Message) /\ Len(r) = Len(q) + 1 /\ r[Len(q) + 1] = m
      /\ \A i \in 1..Len(q) : r[i] = q[i]
  OBVIOUS
<1> HIDE DEF r
<1>2. f \in [1..Len(q) -> Nat] /\ InFlight(kind, q) = Cardinality(Units(f))
  BY InFlightIs
<1>3. g \in [1..Len(r) -> Nat] /\ InFlight(kind, r) = Cardinality(Units(g))
  BY <1>1, InFlightIs
<1>4. \A i \in 1..Len(q) : g[i] = f[i]
  BY <1>1
<1>5. g[Len(q) + 1] = Amount(kind, m)
  BY <1>1
<1>6. Len(q) \in Nat
  OBVIOUS
<1> HIDE DEF f, g
<1>7. g \in [1..(Len(q) + 1) -> Nat]
  BY <1>1, <1>3
<1>8. Cardinality(Units(g)) = Cardinality(Units(f)) + g[Len(q) + 1]
  BY <1>2, <1>4, <1>6, <1>7, UnitsAppended
<1> QED
  BY <1>2, <1>3, <1>5, <1>8 DEF r

LEMMA InFlightTaken ==
    ASSUME NEW Message \in {ServerMessage, ClientMessage},
           NEW q \in Seq(Message), q # <<>>, NEW kind \in Kinds
    PROVE  InFlight(kind, q) = Amount(kind, Head(q)) + InFlight(kind, Tail(q))
<1> DEFINE r == Tail(q)
           f == [i \in 1..Len(q) |-> Amount(kind, q[i])]
           g == [i \in 1..Len(r) |-> Amount(kind, r[i])]
<1>1. /\ r \in Seq(Message) /\ Len(r) + 1 = Len(q) /\ q[1] = Head(q)
      /\ \A i \in 1..Len(r) : r[i] = q[i + 1]
      /\ Len(r) \in Nat
  OBVIOUS
<1> HIDE DEF r
<1>2. f \in [1..Len(q) -> Nat] /\ InFlight(kind, q) = Cardinality(Units(f))
  BY InFlightIs
<1>3. g \in [1..Len(r) -> Nat] /\ InFlight(kind, r) = Cardinality(Units(g))
  BY <1>1, InFlightIs
<1>4. \A i \in 1..Len(r) : g[i] = f[i + 1]
  BY <1>1
<1>5. f[1] = Amount(kind, Head(q))
  BY <1>1
<1> HIDE DEF f, g
<1>6. f \in [1..(Len(r) + 1) -> Nat]
  BY <1>1, <1>2
<1>7. Cardinality(Units(f)) = f[1] + Cardinality(Units(g))
  BY <1>1, <1>3, <1>4, <1>6, UnitsTaken
<1> QED
  BY <1>2, <1>3, <1>5, <1>7 DEF r

-------------------------------------------------------------------------------
(***************************************************************************)
(* The places of a queue that a message leaves or joins.                   *)
(***************************************************************************)
LEMMA TailIs ==
    ASSUME NEW S, NEW q \in Seq(S), q # <<>>
    PROVE  /\ Len(q) \in Nat /\ Len(q) >= 1
           /\ Head(q) = q[1] /\ Head(q) \in S
           /\ Tail(q) \in Seq(S) /\ Len(Tail(q)) = Len(q) - 1
           /\ \A i \in 1..(Len(q) - 1) : Tail(q)[i] = q[i + 1]
OBVIOUS

LEMMA AppendIs ==
    ASSUME NEW S, NEW q \in Seq(S), NEW m \in S
    PROVE  /\ Len(q) \in Nat
           /\ Append(q, m) \in Seq(S) /\ Len(Append(q, m)) = Len(q) + 1
           /\ \A i \in 1..Len(q) : Append(q, m)[i] = q[i]
           /\ Append(q, m)[Len(q) + 1] = m
OBVIOUS

LEMMA OncePassed ==
    ASSUME NEW S, NEW q \in Seq(S), q # <<>>, NEW type,
           NEW sent \in BOOLEAN, NEW seen \in BOOLEAN, Once(q, type, sent, seen)
    PROVE  Once(Tail(q), type, sent, seen)
<1> DEFINE r == Tail(q)
<1>1. \A i \in 1..Len(r) : r[i] = q[i + 1] /\ i + 1 \in 1..Len(q)
  BY TailIs
<1> HIDE DEF r
<1>2. \A i, j \in 1..Len(r) : i < j /\ r[i].type = type => r[j].type # type
  <2> SUFFICES ASSUME NEW i \in 1..Len(r), NEW j \in 1..Len(r), i < j,
                      r[i].type = type
               PROVE  r[j].type # type
    OBVIOUS
  <2>1. /\ i + 1 \in 1..Len(q) /\ j + 1 \in 1..Len(q) /\ i + 1 < j + 1
        /\ r[i] = q[i + 1] /\ r[j] = q[j + 1]
    BY <1>1
  <2> QED
    BY <2>1 DEF Once
<1>3. (\A i \in 1..Len(q) : q[i].type # type) =>
         \A i \in 1..Len(r) : r[i].type # type
  BY <1>1
<1> QED
  BY <1>2, <1>3 DEF Once, r

LEMMA OnceAppended ==
    ASSUME NEW S, NEW q \in Seq(S), NEW m \in S, NEW type,
           NEW sent \in BOOLEAN, NEW seen \in BOOLEAN, Once(q, type, sent, seen)
    PROVE  /\ m.type # type => Once(Append(q, m), type, sent, seen)
           /\ ~sent => Once(Append(q, m), type, TRUE, seen)
<1> DEFINE r == Append(q, m)
<1>1. /\ Len(q) \in Nat /\ Len(r) = Len(q) + 1 /\ r[Len(q) + 1] = m
      /\ \A i \in 1..Len(q) : r[i] = q[i]
  BY AppendIs
<1> HIDE DEF r
<1>2. ASSUME m.type # type PROVE Once(r, type, sent, seen)
  <2>1. \A i \in 1..Len(r) : i \in 1..Len(q) \/ r[i].type # type
    BY <1>1, <1>2
  <2>2. \A i, j \in 1..Len(r) : i < j /\ r[i].type = type => r[j].type # type
    BY <1>1, <2>1 DEF Once
  <2> QED
    BY <1>1, <2>1, <2>2 DEF Once
<1>3. ASSUME ~sent PROVE Once(r, type, TRUE, seen)
  <2>1. ~seen /\ \A i \in 1..Len(q) : r[i].type # type
    BY <1>1, <1>3 DEF Once
  <2>2. \A i, j \in 1..Len(r) : i < j => i \in 1..Len(q)
    BY <1>1
  <2> QED
    BY <2>1, <2>2 DEF Once
<1> QED
  BY <1>2, <1>3 DEF r

-------------------------------------------------------------------------------
(***************************************************************************)
(* The order of the session.  First what the stages are.                   *)
(***************************************************************************)
LEMMA Stages ==
    ASSUME NEW p \in Locations \ {"exit"}
    PROVE  /\ Stage(p) \in {"opening", "pty", "shell", "socket"}
           /\ p \in Receiving => Stage(p) = p
           /\ Stage(p) = "socket" <=> p \in InLoop
           /\ Stage(p) = "opening" <=> p \in {"start", "opening"}
           /\ p \in {"pty", "shell"} => Stage(p) = p
BY DEF Stage, Locations, InLoop, Receiving

LEMMA PassingIs ==
    ASSUME NEW at \in {"opening", "pty", "shell", "socket"}, NEW type
    PROVE  /\ type \in Passing(at) =>
                 type \notin {"open_confirmation", "success"}
           /\ type \in Passing(at) <=>
                 \/ type = "global_request"
                 \/ type = "window_adjust" /\ at # "opening"
                 \/ /\ type \in {"data", "extended_data", "eof", "request", "close"}
                    /\ at = "socket"
           /\ AnswerType(at) \in {"open_confirmation", "success"}
BY DEF Passing, AnswerType

\* The client takes a message that leaves it in its stage.
LEMMA OrderPassed ==
    ASSUME s2c \in Seq(ServerMessage), pc \in Locations \ {"exit"},
           NEW k \in Nat, InOrder(k), s2c # <<>>, s2c' = Tail(s2c),
           Head(s2c).type \in Passing(Stage(pc)),
           pc' \in Locations \ {"exit"},
           Stage(pc') = Stage(pc), Waiting => Waiting', server' = server
    PROVE  /\ k # 1
           /\ InOrder(IF k = 0 THEN 0 ELSE k - 1)'
<1>1. /\ Len(s2c) \in Nat /\ Len(s2c) >= 1 /\ Head(s2c) = s2c[1]
      /\ Len(s2c') = Len(s2c) - 1
      /\ \A i \in 1..Len(s2c') : s2c'[i] = s2c[i + 1] /\ i + 1 \in 1..Len(s2c)
  BY TailIs
<1>2. k # 1
  BY <1>1, Stages, PassingIs DEF InOrder
<1>3. CASE k = 0
  <2>1. Serving(0)' = Serving(0)
    BY DEF Serving
  <2>2. \A i \in 1..Len(s2c') : s2c'[i].type \in Passing(Serving(0)')
    BY <1>1, <1>3, <2>1 DEF InOrder
  <2>3. server'.phase \in PhasesAt(Serving(0)')
    BY <1>3, <2>1 DEF InOrder
  <2> QED
    BY <1>1, <1>3, <2>2, <2>3 DEF InOrder
<1>4. CASE k > 1
  <2>1. k - 1 \in 1..Len(s2c') /\ k - 1 # 0
    BY <1>1, <1>4 DEF InOrder
  <2>2. Serving(k - 1)' = Serving(k)
    BY <1>4, <2>1 DEF Serving
  <2>3. ASSUME NEW i \in 1..Len(s2c')
        PROVE  /\ i < k - 1 => s2c'[i].type \in Passing(Stage(pc'))
               /\ i > k - 1 => s2c'[i].type \in Passing(Serving(k - 1)')
    <3>1. i + 1 \in 1..Len(s2c) /\ s2c'[i] = s2c[i + 1]
      BY <1>1
    <3>2. (i < k - 1 => i + 1 < k) /\ (i > k - 1 => i + 1 > k)
      OBVIOUS
    <3> QED
      BY <2>2, <3>1, <3>2 DEF InOrder
  <2>4. Waiting' /\ s2c'[k - 1].type = AnswerType(Stage(pc'))
    <3>1. s2c'[k - 1] = s2c[k]
      BY <1>1, <2>1
    <3> QED
      BY <1>4, <3>1 DEF InOrder
  <2>5. server'.phase \in PhasesAt(Serving(k - 1)')
    BY <2>2 DEF InOrder
  <2> QED
    BY <1>1, <1>4, <2>1, <2>3, <2>4, <2>5 DEF InOrder
<1> QED
  BY <1>2, <1>3, <1>4

\* The client takes the message it waits for, which is the first then.
LEMMA OrderAnswered ==
    ASSUME s2c \in Seq(ServerMessage), pc \in Locations \ {"exit"},
           NEW k \in Nat, InOrder(k), s2c # <<>>, s2c' = Tail(s2c),
           Head(s2c).type \in {"open_confirmation", "success"},
           Stage(pc') = NextStage(Stage(pc)), server' = server
    PROVE  k = 1 /\ InOrder(0)'
<1>1. /\ Len(s2c) \in Nat /\ Len(s2c) >= 1 /\ Head(s2c) = s2c[1]
      /\ Len(s2c') = Len(s2c) - 1
      /\ \A i \in 1..Len(s2c') : s2c'[i] = s2c[i + 1] /\ i + 1 \in 1..Len(s2c)
  BY TailIs
<1>2. Stage(pc) \in {"opening", "pty", "shell", "socket"}
  BY Stages
<1>3. k = 1
  <2>1. 1 \in 1..Len(s2c)
    BY <1>1
  <2>2. k # 0
    BY <1>1, <1>2, <2>1, PassingIs DEF InOrder, Serving
  <2>3. ~(1 < k)
    BY <1>1, <1>2, <2>1, PassingIs DEF InOrder
  <2> QED
    BY <2>2, <2>3
<1>4. Serving(0)' = Serving(k)
  BY <1>3 DEF Serving
<1>5. \A i \in 1..Len(s2c') : s2c'[i].type \in Passing(Serving(0)')
  BY <1>1, <1>3, <1>4 DEF InOrder
<1>6. server'.phase \in PhasesAt(Serving(0)')
  BY <1>4 DEF InOrder
<1> QED
  BY <1>1, <1>3, <1>5, <1>6 DEF InOrder

\* The client takes nothing and stays in its stage.
LEMMA OrderSame ==
    ASSUME NEW k \in Nat, InOrder(k), s2c' = s2c, Stage(pc') = Stage(pc),
           Waiting => Waiting', server'.phase = server.phase
    PROVE  InOrder(k)'
<1>1. Serving(k)' = Serving(k)
  BY DEF Serving
<1> QED
  BY <1>1 DEF InOrder

\* The server sends what suits its stage.
LEMMA OrderExtended ==
    ASSUME s2c \in Seq(ServerMessage), NEW k \in Nat, InOrder(k),
           NEW m \in ServerMessage, s2c' = Append(s2c, m),
           m.type \in Passing(Serving(k)), pc' = pc,
           server'.phase \in PhasesAt(Serving(k))
    PROVE  InOrder(k)'
<1>1. /\ Len(s2c) \in Nat /\ Len(s2c') = Len(s2c) + 1
      /\ \A i \in 1..Len(s2c) : s2c'[i] = s2c[i]
      /\ s2c'[Len(s2c) + 1] = m
  BY AppendIs
<1>2. Serving(k)' = Serving(k) /\ Waiting' = Waiting
  BY DEF Serving, Waiting
<1>3. ASSUME NEW i \in 1..Len(s2c')
      PROVE  /\ i < k => s2c'[i].type \in Passing(Stage(pc'))
             /\ i > k => s2c'[i].type \in Passing(Serving(k)')
  <2>1. CASE i \in 1..Len(s2c)
    BY <1>1, <1>2, <2>1 DEF InOrder
  <2>2. CASE i = Len(s2c) + 1
    BY <1>1, <1>2, <2>2 DEF InOrder
  <2> QED
    BY <1>1, <2>1, <2>2
<1>4. k \in 0..Len(s2c')
  BY <1>1 DEF InOrder
<1>5. k > 0 => Waiting' /\ s2c'[k].type = AnswerType(Stage(pc'))
  BY <1>1, <1>2 DEF InOrder
<1> QED
  BY <1>2, <1>3, <1>4, <1>5 DEF InOrder

\* The server sends what the client waits for and goes to the next stage.
LEMMA OrderPromoted ==
    ASSUME s2c \in Seq(ServerMessage), InOrder(0), Waiting,
           NEW m \in ServerMessage, s2c' = Append(s2c, m),
           m.type = AnswerType(Stage(pc)), pc' = pc,
           server'.phase \in PhasesAt(NextStage(Stage(pc))),
           NEW k \in Nat, k = Len(s2c) + 1
    PROVE  InOrder(k)'
<1>1. /\ Len(s2c) \in Nat /\ Len(s2c') = k
      /\ \A i \in 1..Len(s2c) : s2c'[i] = s2c[i]
      /\ s2c'[k] = m
  BY AppendIs
<1>2. k # 0 /\ Waiting'
  BY <1>1 DEF Waiting
<1>3. ASSUME NEW i \in 1..k, i < k
      PROVE  s2c'[i].type \in Passing(Stage(pc'))
  <2>1. i \in 1..Len(s2c)
    BY <1>1, <1>3
  <2> QED
    BY <1>1, <2>1 DEF InOrder, Serving
<1> QED
  BY <1>1, <1>2, <1>3 DEF InOrder, Serving

-------------------------------------------------------------------------------
(***************************************************************************)
(* The client's requests.                                                  *)
(***************************************************************************)
Plain(m) == m.type \notin {"channel_open", "request"}

LEMMA AskingSame ==
    ASSUME NEW k \in Nat, NEW l \in Nat, NEW a \in Nat, Asking(k, a),
           k = 0 => l = 0, c2s' = c2s, server'.reply = server.reply,
           Stage(pc') = Stage(pc), Waiting => Waiting',
           Waiting => channel'.local_window = channel.local_window
    PROVE  Asking(l, a)'
BY DEF Asking

\* The client sends something else.
LEMMA AskingExtended ==
    ASSUME c2s \in Seq(ClientMessage),
           NEW k \in Nat, NEW l \in Nat, NEW a \in Nat, Asking(k, a),
           k = 0 => l = 0, NEW m \in ClientMessage, Plain(m),
           c2s' = Append(c2s, m), server' = server,
           Stage(pc') = Stage(pc), Waiting => Waiting',
           Waiting => channel'.local_window = channel.local_window
    PROVE  Asking(l, a)'
<1>1. /\ Len(c2s) \in Nat /\ Len(c2s') = Len(c2s) + 1
      /\ \A i \in 1..Len(c2s) : c2s'[i] = c2s[i]
      /\ c2s'[Len(c2s) + 1] = m
  BY AppendIs
<1>2. ASSUME NEW i \in 1..Len(c2s'), i # a PROVE Plain(c2s'[i])
  <2>1. CASE i \in 1..Len(c2s)
    BY <1>1, <1>2, <2>1 DEF Asking, Plain
  <2>2. CASE i = Len(c2s) + 1
    BY <1>1, <2>2
  <2> QED
    BY <1>1, <2>1, <2>2
<1>3. a \in 0..Len(c2s') /\ (a > 0 => c2s'[a] = c2s[a])
  BY <1>1 DEF Asking
<1> QED
  BY <1>2, <1>3 DEF Asking, Plain

\* The client sends its next request, having none under way.
LEMMA AskingStarts ==
    ASSUME c2s \in Seq(ClientMessage),
           NEW k \in Nat, Asking(k, 0), server.reply = "none", Waiting',
           NEW m \in ClientMessage, c2s' = Append(c2s, m),
           Asks(Stage(pc'), channel'.local_window, m), server' = server,
           NEW a \in Nat, a = Len(c2s) + 1
    PROVE  Asking(0, a)'
<1>1. /\ Len(c2s) \in Nat /\ Len(c2s') = a
      /\ \A i \in 1..Len(c2s) : c2s'[i] = c2s[i]
      /\ c2s'[a] = m
  BY AppendIs
<1>2. ASSUME NEW i \in 1..Len(c2s'), i # a PROVE Plain(c2s'[i])
  <2>1. i \in 1..Len(c2s)
    BY <1>1, <1>2
  <2> QED
    BY <1>1, <2>1 DEF Asking, Plain
<1> QED
  BY <1>1, <1>2 DEF Asking, Plain

\* The server takes something else.
LEMMA AskingPassed ==
    ASSUME c2s \in Seq(ClientMessage), NEW k \in Nat, NEW a \in Nat,
           Asking(k, a), c2s # <<>>, c2s' = Tail(c2s), Plain(Head(c2s)),
           server'.reply = server.reply, pc' = pc, channel' = channel
    PROVE  \E b \in Nat : Asking(k, b)'
<1>1. /\ Len(c2s) \in Nat /\ Len(c2s) >= 1 /\ Head(c2s) = c2s[1]
      /\ Len(c2s') = Len(c2s) - 1
      /\ \A i \in 1..Len(c2s') : c2s'[i] = c2s[i + 1] /\ i + 1 \in 1..Len(c2s)
  BY TailIs
<1>2. Waiting' = Waiting
  BY DEF Waiting
<1>3. CASE a = 0
  <2>1. \A i \in 1..Len(c2s') : Plain(c2s'[i])
    BY <1>1, <1>3 DEF Asking, Plain
  <2>2. Asking(k, 0)'
    BY <1>1, <1>2, <1>3, <2>1 DEF Asking, Plain
  <2> QED
    BY <2>2
<1>4. CASE a > 0
  <2>1. a # 1
    BY <1>1, <1>4, Stages DEF Asking, Asks, Plain
  <2>2. a - 1 \in 1..Len(c2s') /\ c2s'[a - 1] = c2s[a]
    BY <1>1, <1>4, <2>1 DEF Asking
  <2>3. ASSUME NEW i \in 1..Len(c2s'), i # a - 1 PROVE Plain(c2s'[i])
    <3>1. i + 1 \in 1..Len(c2s) /\ i + 1 # a /\ c2s'[i] = c2s[i + 1]
      BY <1>1, <2>3
    <3> QED
      BY <3>1 DEF Asking, Plain
  <2>4. Asking(k, a - 1)'
    BY <1>1, <1>2, <1>4, <2>2, <2>3 DEF Asking, Plain
  <2> QED
    BY <2>2, <2>4
<1> QED
  BY <1>3, <1>4

\* The server takes the request and intends to answer it.
LEMMA AskingTaken ==
    ASSUME c2s \in Seq(ClientMessage), NEW k \in Nat, NEW a \in Nat,
           Asking(k, a), c2s # <<>>, c2s' = Tail(c2s), ~Plain(Head(c2s)),
           server'.reply = ReplyTo(Stage(pc)), pc' = pc, channel' = channel
    PROVE  /\ k = 0 /\ Waiting
           /\ Asks(Stage(pc), channel.local_window, Head(c2s))
           /\ Asking(0, 0)'
<1>1. /\ Len(c2s) \in Nat /\ Len(c2s) >= 1 /\ Head(c2s) = c2s[1]
      /\ Len(c2s') = Len(c2s) - 1
      /\ \A i \in 1..Len(c2s') : c2s'[i] = c2s[i + 1] /\ i + 1 \in 1..Len(c2s)
  BY TailIs
<1>2. a = 1
  BY <1>1 DEF Asking, Plain
<1>3. /\ k = 0 /\ Waiting /\ Waiting'
      /\ Asks(Stage(pc), channel.local_window, Head(c2s))
  BY <1>1, <1>2 DEF Asking, Waiting
<1>4. ASSUME NEW i \in 1..Len(c2s') PROVE Plain(c2s'[i])
  <2>1. i + 1 \in 1..Len(c2s) /\ i + 1 # 1 /\ c2s'[i] = c2s[i + 1]
    BY <1>1
  <2> QED
    BY <1>2, <2>1 DEF Asking, Plain
<1> QED
  BY <1>1, <1>3, <1>4 DEF Asking, Plain

\* The server answers.
LEMMA AskingAnswered ==
    ASSUME NEW k \in Nat, NEW a \in Nat, Asking(k, a),
           server.reply # "none", c2s' = c2s, server'.reply = "none", pc' = pc,
           NEW l \in Nat
    PROVE  /\ k = 0 /\ a = 0 /\ Waiting /\ server.reply = ReplyTo(Stage(pc))
           /\ Asking(l, 0)'
BY DEF Asking, Waiting

LEMMA OrderFrom ==
    ASSUME NEW k \in Nat, NEW a \in Nat, InOrder(k)', Asking(k, a)'
    PROVE  OrderInv'
<1>1. k \in 0..Len(s2c') /\ a \in 0..Len(c2s')
  BY DEF InOrder, Asking
<1> QED
  BY <1>1 DEF OrderInv

-------------------------------------------------------------------------------
(***************************************************************************)
(* What the messages contain and how the session ends.                     *)
(***************************************************************************)
ContentsInv == ProperInv /\ EofInv /\ StatusInv /\ CloseInv

\* The step leaves alone what the messages are compared with.
SameFlags ==
    /\ channel'.local_id = channel.local_id
    /\ channel'.remote_eof_received = channel.remote_eof_received
    /\ channel'.exit_status_received = channel.exit_status_received
    /\ channel'.exit_status = channel.exit_status
    /\ channel'.remote_close_received = channel.remote_close_received
    /\ channel'.local_close_sent = channel.local_close_sent

\* The client sends nothing, or something that is not CLOSE.
SendsNoClose ==
    \/ c2s' = c2s
    \/ \E m \in ClientMessage : m.type # "close" /\ c2s' = Append(c2s, m)

LEMMA NoCloseSent ==
    ASSUME c2s \in Seq(ClientMessage), SendsNoClose,
           NEW i \in 1..Len(c2s'), c2s'[i].type = "close"
    PROVE  i \in 1..Len(c2s) /\ c2s[i].type = "close"
<1>1. CASE c2s' = c2s
  BY <1>1
<1>2. CASE \E m \in ClientMessage : m.type # "close" /\ c2s' = Append(c2s, m)
  <2>1. PICK m \in ClientMessage : m.type # "close" /\ c2s' = Append(c2s, m)
    BY <1>2
  <2> QED
    BY <2>1, AppendIs
<1> QED
  BY <1>1, <1>2 DEF SendsNoClose

LEMMA FlagTypes ==
    ASSUME ShellTypeOK
    PROVE  /\ s2c \in Seq(ServerMessage) /\ c2s \in Seq(ClientMessage)
           /\ channel \in Channel
           /\ channel.remote_eof_received \in BOOLEAN
           /\ channel.exit_status_received \in BOOLEAN
           /\ server.eof_sent \in BOOLEAN /\ server.exit_sent \in BOOLEAN
           /\ server.close_received \in BOOLEAN
BY DEF ShellTypeOK, TypeOK, Channel

\* The client takes nothing.
LEMMA ContentsSame ==
    ASSUME ShellTypeOK, ContentsInv, s2c' = s2c, SameFlags, SendsNoClose,
           server' = server, tcp' = tcp
    PROVE  ContentsInv'
<1>1. ProperInv' /\ EofInv' /\ StatusInv'
  BY DEF ContentsInv, ProperInv, EofInv, StatusInv, SameFlags
<1>2. \A i \in 1..Len(c2s') : c2s'[i].type = "close" => channel'.local_close_sent
  BY NoCloseSent, FlagTypes DEF ContentsInv, CloseInv, SameFlags
<1>3. CloseInv'
  BY <1>2 DEF ContentsInv, CloseInv, SameFlags
<1> QED
  BY <1>1, <1>3 DEF ContentsInv

\* What is left when the client takes a message.
LEMMA TakenParts ==
    ASSUME ShellTypeOK, ContentsInv, s2c # <<>>, s2c' = Tail(s2c)
    PROVE  /\ \A i \in 1..Len(s2c') : Proper(s2c'[i])
           /\ Once(s2c', "eof", server.eof_sent, channel.remote_eof_received)
           /\ Head(s2c).type = "eof" => Once(s2c', "eof", server.eof_sent, TRUE)
           /\ Once(s2c', "request", server.exit_sent,
                   channel.exit_status_received)
           /\ Head(s2c).type = "request" =>
                 Once(s2c', "request", server.exit_sent, TRUE)
           /\ Head(s2c).type # "request" =>
                 ((\E i \in 1..Len(s2c) : s2c[i].type = "request")
                    => \E i \in 1..Len(s2c') : s2c'[i].type = "request")
           /\ \A i \in 1..Len(s2c') : s2c'[i].type = "close" =>
                 i = Len(s2c') /\ server.phase = "closed"
           /\ Head(s2c).type = "close" =>
                 s2c' = <<>> /\ server.phase = "closed"
<1>1. /\ Len(s2c) \in Nat /\ Len(s2c) >= 1 /\ Head(s2c) = s2c[1]
      /\ 1 \in 1..Len(s2c) /\ Len(s2c') = Len(s2c) - 1
      /\ \A i \in 1..Len(s2c') : s2c'[i] = s2c[i + 1] /\ i + 1 \in 1..Len(s2c)
  BY TailIs, FlagTypes
<1>2. \A i \in 1..Len(s2c') : Proper(s2c'[i])
  BY <1>1 DEF ContentsInv, ProperInv
<1>3. /\ Once(s2c', "eof", server.eof_sent, channel.remote_eof_received)
      /\ Head(s2c).type = "eof" => Once(s2c', "eof", server.eof_sent, TRUE)
  <2>1. Once(Tail(s2c), "eof", server.eof_sent, channel.remote_eof_received)
    BY OncePassed, FlagTypes DEF ContentsInv, EofInv
  <2>2. ASSUME Head(s2c).type = "eof"
        PROVE  Once(Tail(s2c), "eof", server.eof_sent, TRUE)
    <3>1. Once(s2c, "eof", server.eof_sent, channel.remote_eof_received)
      BY DEF ContentsInv, EofInv
    <3>2. server.eof_sent
      BY <1>1, <2>2, <3>1 DEF Once
    <3>3. ASSUME NEW i \in 1..Len(s2c') PROVE s2c'[i].type # "eof"
      <4>1. i + 1 \in 1..Len(s2c) /\ 1 < i + 1 /\ s2c'[i] = s2c[i + 1]
        BY <1>1
      <4> QED
        BY <1>1, <2>2, <3>1, <4>1 DEF Once
    <3> QED
      BY <2>1, <3>2, <3>3 DEF Once
  <2> QED
    BY <2>1, <2>2
<1>4. /\ Once(s2c', "request", server.exit_sent, channel.exit_status_received)
      /\ Head(s2c).type = "request" =>
            Once(s2c', "request", server.exit_sent, TRUE)
  <2>1. Once(Tail(s2c), "request", server.exit_sent, channel.exit_status_received)
    BY OncePassed, FlagTypes DEF ContentsInv, StatusInv
  <2>2. ASSUME Head(s2c).type = "request"
        PROVE  Once(Tail(s2c), "request", server.exit_sent, TRUE)
    <3>1. Once(s2c, "request", server.exit_sent, channel.exit_status_received)
      BY DEF ContentsInv, StatusInv
    <3>2. server.exit_sent
      BY <1>1, <2>2, <3>1 DEF Once
    <3>3. ASSUME NEW i \in 1..Len(s2c') PROVE s2c'[i].type # "request"
      <4>1. i + 1 \in 1..Len(s2c) /\ 1 < i + 1 /\ s2c'[i] = s2c[i + 1]
        BY <1>1
      <4> QED
        BY <1>1, <2>2, <3>1, <4>1 DEF Once
    <3> QED
      BY <2>1, <3>2, <3>3 DEF Once
  <2> QED
    BY <2>1, <2>2
<1>5. ASSUME Head(s2c).type # "request",
             NEW i \in 1..Len(s2c), s2c[i].type = "request"
      PROVE  \E j \in 1..Len(s2c') : s2c'[j].type = "request"
  <2>1. i # 1
    BY <1>1, <1>5
  <2>2. i - 1 \in 1..Len(s2c') /\ (i - 1) + 1 = i
    BY <1>1, <2>1
  <2> QED
    BY <1>1, <1>5, <2>2
<1>6. ASSUME NEW i \in 1..Len(s2c'), s2c'[i].type = "close"
      PROVE  i = Len(s2c') /\ server.phase = "closed"
  <2>1. i + 1 \in 1..Len(s2c) /\ s2c[i + 1].type = "close"
    BY <1>1, <1>6
  <2>2. i + 1 = Len(s2c) /\ server.phase = "closed"
    BY <2>1 DEF ContentsInv, CloseInv
  <2>3. i \in Int /\ Len(s2c') \in Int /\ Len(s2c) = Len(s2c') + 1
    BY <1>1
  <2> QED
    BY <2>2, <2>3
<1>7. ASSUME Head(s2c).type = "close"
      PROVE  s2c' = <<>> /\ server.phase = "closed"
  <2>1. 1 = Len(s2c) /\ server.phase = "closed"
    BY <1>1, <1>7 DEF ContentsInv, CloseInv
  <2>2. Tail(s2c) \in Seq(ServerMessage) /\ Len(Tail(s2c)) = 0
    BY <1>1, <2>1, TailIs, FlagTypes
  <2> QED
    BY <2>1, <2>2
<1> QED
  BY <1>2, <1>3, <1>4, <1>5, <1>6, <1>7

\* The client takes a message that is of no account here.
LEMMA ContentsTaken ==
    ASSUME ShellTypeOK, ContentsInv, s2c # <<>>, s2c' = Tail(s2c),
           Head(s2c).type \notin {"eof", "request", "close"},
           SameFlags, SendsNoClose, server' = server, tcp' = tcp
    PROVE  ContentsInv'
<1>1. ProperInv' /\ EofInv'
  BY TakenParts DEF ContentsInv, ProperInv, EofInv, SameFlags
<1>2. StatusInv'
  BY TakenParts DEF ContentsInv, StatusInv, SameFlags
<1>3. \A i \in 1..Len(c2s') : c2s'[i].type = "close" => channel'.local_close_sent
  BY NoCloseSent, FlagTypes DEF ContentsInv, CloseInv, SameFlags
<1>4. channel.remote_close_received => s2c = <<>>
  BY DEF ContentsInv, CloseInv
<1>5. CloseInv'
  BY <1>3, <1>4, TakenParts DEF ContentsInv, CloseInv, SameFlags
<1> QED
  BY <1>1, <1>2, <1>5 DEF ContentsInv

\* The client takes EOF, or the exit status.
LEMMA ContentsEof ==
    ASSUME ShellTypeOK, ContentsInv, s2c # <<>>, s2c' = Tail(s2c),
           Head(s2c).type = "eof", channel' = parse_channel_eof(channel),
           c2s' = c2s, server' = server, tcp' = tcp
    PROVE  ContentsInv'
<1>1. /\ channel'.local_id = channel.local_id
      /\ channel'.remote_eof_received
      /\ channel'.exit_status_received = channel.exit_status_received
      /\ channel'.exit_status = channel.exit_status
      /\ channel'.remote_close_received = channel.remote_close_received
      /\ channel'.local_close_sent = channel.local_close_sent
      /\ channel'.remote_eof_received = TRUE
  BY FlagTypes DEF parse_channel_eof, Channel
<1>2. ProperInv'
  BY <1>1, TakenParts DEF ContentsInv, ProperInv
<1>3. EofInv'
  BY <1>1, TakenParts DEF EofInv
<1>4. StatusInv'
  BY <1>1, TakenParts DEF ContentsInv, StatusInv
<1>5. channel.remote_close_received => s2c = <<>>
  BY DEF ContentsInv, CloseInv
<1>6. CloseInv'
  BY <1>1, <1>5, TakenParts DEF ContentsInv, CloseInv
<1> QED
  BY <1>2, <1>3, <1>4, <1>6 DEF ContentsInv

LEMMA ContentsStatus ==
    ASSUME ShellTypeOK, ContentsInv, s2c # <<>>, s2c' = Tail(s2c),
           Head(s2c).type = "request",
           channel' = parse_exit_status(channel, Head(s2c)),
           c2s' = c2s, server' = server, tcp' = tcp
    PROVE  ContentsInv'
<1>1. /\ channel'.local_id = channel.local_id
      /\ channel'.remote_eof_received = channel.remote_eof_received
      /\ channel'.exit_status_received = TRUE
      /\ channel'.exit_status = Head(s2c).exit_status
      /\ channel'.remote_close_received = channel.remote_close_received
      /\ channel'.local_close_sent = channel.local_close_sent
  BY FlagTypes DEF parse_exit_status, Channel
<1>2. Head(s2c).exit_status = EXIT_STATUS
  BY TailIs, FlagTypes DEF ContentsInv, ProperInv, Proper
<1>3. ProperInv'
  BY <1>1, TakenParts DEF ContentsInv, ProperInv
<1>4. EofInv'
  BY <1>1, TakenParts DEF EofInv
<1>5. StatusInv'
  BY <1>1, <1>2, TakenParts DEF StatusInv
<1>6. channel.remote_close_received => s2c = <<>>
  BY DEF ContentsInv, CloseInv
<1>7. CloseInv'
  BY <1>1, <1>6, TakenParts DEF ContentsInv, CloseInv
<1> QED
  BY <1>3, <1>4, <1>5, <1>7 DEF ContentsInv

\* The client takes CLOSE and answers it.
LEMMA ContentsClose ==
    ASSUME ShellTypeOK, ContentsInv, s2c # <<>>, s2c' = Tail(s2c),
           Head(s2c).type = "close",
           channel' = CloseSent(parse_channel_close(channel)),
           server' = server, tcp' = tcp
    PROVE  ContentsInv'
<1>1. /\ channel'.local_id = channel.local_id
      /\ channel'.remote_eof_received = channel.remote_eof_received
      /\ channel'.exit_status_received = channel.exit_status_received
      /\ channel'.exit_status = channel.exit_status
      /\ channel'.remote_close_received = TRUE
      /\ channel'.local_close_sent = TRUE
  BY FlagTypes DEF parse_channel_close, CloseSent, Channel
<1>2. ProperInv'
  BY <1>1, TakenParts DEF ContentsInv, ProperInv
<1>3. EofInv'
  BY <1>1, TakenParts DEF EofInv
<1>4. StatusInv'
  BY <1>1, TakenParts DEF ContentsInv, StatusInv
<1>5. CloseInv'
  BY <1>1, TakenParts DEF ContentsInv, CloseInv
<1> QED
  BY <1>2, <1>3, <1>4, <1>5 DEF ContentsInv

\* The server sends a message.
LEMMA ContentsSent ==
    ASSUME ShellTypeOK, ContentsInv, NEW m \in ServerMessage, Proper(m),
           s2c' = Append(s2c, m), UNCHANGED <<channel, c2s, tcp>>,
           server.phase # "closed",
           m.type = "close" => server'.phase = "closed",
           m.type = "eof" => ~server.eof_sent,
           server'.eof_sent = (server.eof_sent \/ m.type = "eof"),
           m.type = "request" => ~server.exit_sent,
           server'.exit_sent = (server.exit_sent \/ m.type = "request"),
           server'.close_received = server.close_received
    PROVE  ContentsInv'
<1>1. /\ Len(s2c) \in Nat /\ Len(s2c') = Len(s2c) + 1
      /\ \A i \in 1..Len(s2c) : s2c'[i] = s2c[i]
      /\ s2c'[Len(s2c) + 1] = m
  BY AppendIs, FlagTypes
<1>2. ProperInv'
  <2>1. ASSUME NEW i \in 1..Len(s2c') PROVE Proper(s2c'[i])
    BY <1>1 DEF ContentsInv, ProperInv
  <2> QED
    BY <2>1 DEF ContentsInv, ProperInv
<1>3. EofInv'
  <2>1. CASE m.type = "eof"
    BY <2>1, OnceAppended, FlagTypes DEF ContentsInv, EofInv
  <2>2. CASE m.type # "eof"
    BY <2>2, OnceAppended, FlagTypes DEF ContentsInv, EofInv
  <2> QED
    BY <2>1, <2>2
<1>4. Once(s2c', "request", server'.exit_sent, channel'.exit_status_received)
  <2>1. CASE m.type = "request"
    BY <2>1, OnceAppended, FlagTypes DEF ContentsInv, StatusInv
  <2>2. CASE m.type # "request"
    BY <2>2, OnceAppended, FlagTypes DEF ContentsInv, StatusInv
  <2> QED
    BY <2>1, <2>2
<1>5. server'.exit_sent =>
         \/ channel'.exit_status_received
         \/ \E i \in 1..Len(s2c') : s2c'[i].type = "request"
  <2>1. CASE m.type = "request"
    BY <1>1, <2>1
  <2>2. CASE m.type # "request"
    <3>1. server'.exit_sent => server.exit_sent
      BY <2>2, FlagTypes
    <3>2. (\E i \in 1..Len(s2c) : s2c[i].type = "request")
             => \E i \in 1..Len(s2c') : s2c'[i].type = "request"
      BY <1>1
    <3>3. channel'.exit_status_received = channel.exit_status_received
      OBVIOUS
    <3> QED
      BY <3>1, <3>2, <3>3 DEF ContentsInv, StatusInv
  <2> QED
    BY <2>1, <2>2
<1>6. StatusInv'
  BY <1>4, <1>5 DEF ContentsInv, StatusInv
<1>7. ASSUME NEW i \in 1..Len(s2c'), s2c'[i].type = "close"
      PROVE  i = Len(s2c') /\ server'.phase = "closed"
  <2>1. i \notin 1..Len(s2c)
    BY <1>1, <1>7 DEF ContentsInv, CloseInv
  <2> QED
    BY <1>1, <1>7, <2>1
<1>8. CloseInv'
  BY <1>7 DEF ContentsInv, CloseInv
<1> QED
  BY <1>2, <1>3, <1>6, <1>8 DEF ContentsInv

\* The server takes a message.
LEMMA ContentsRead ==
    ASSUME ShellTypeOK, ContentsInv, c2s # <<>>, c2s' = Tail(c2s),
           UNCHANGED <<channel, s2c, tcp>>,
           server'.phase = server.phase, server'.eof_sent = server.eof_sent,
           server'.exit_sent = server.exit_sent,
           server'.close_received =
             (server.close_received \/ Head(c2s).type = "close")
    PROVE  ContentsInv'
<1>1. /\ Len(c2s) \in Nat /\ Len(c2s) >= 1 /\ Head(c2s) = c2s[1]
      /\ Len(c2s') = Len(c2s) - 1
      /\ \A i \in 1..Len(c2s') : c2s'[i] = c2s[i + 1] /\ i + 1 \in 1..Len(c2s)
  BY TailIs, FlagTypes
<1>2. ProperInv' /\ EofInv' /\ StatusInv'
  BY DEF ContentsInv, ProperInv, EofInv, StatusInv
<1>3. server'.close_received => channel.local_close_sent
  <2>1. server.close_received => channel.local_close_sent
    BY DEF ContentsInv, CloseInv
  <2>2. c2s[1].type = "close" => channel.local_close_sent
    BY <1>1 DEF ContentsInv, CloseInv
  <2> QED
    BY <1>1, <2>1, <2>2, FlagTypes
<1>4. \A i \in 1..Len(c2s') : c2s'[i].type = "close" => channel.local_close_sent
  BY <1>1 DEF ContentsInv, CloseInv
<1>5. CloseInv'
  BY <1>3, <1>4 DEF ContentsInv, CloseInv
<1> QED
  BY <1>2, <1>5 DEF ContentsInv

-------------------------------------------------------------------------------
(***************************************************************************)
(* The books.                                                              *)
(***************************************************************************)
LEMMA ServerFields ==
    ASSUME ShellTypeOK
    PROVE  /\ server.send_window \in UInt32 /\ server.recv_window \in UInt32
           /\ server.unanswered \in Nat
           /\ channel.local_window \in UInt32 /\ channel.remote_window \in UInt32
           /\ typed \in Nat /\ received \in Nat
           /\ produced \in Nat /\ shown \in Nat
           /\ Offered \in Nat
BY ShellSessionAssumption, ConnectionAssumption
   DEF ShellTypeOK, TypeOK, Channel, Offered, UInt32

LEMMA ServerFlow ==
    ASSUME s2c \in Seq(ServerMessage)
    PROVE  /\ InFlight("data", s2c) \in Nat
           /\ InFlight("window", s2c) \in Nat
           /\ InFlight("reply", s2c) \in Nat
BY InFlightNat DEF Kinds

LEMMA ClientFlow ==
    ASSUME c2s \in Seq(ClientMessage)
    PROVE  /\ InFlight("data", c2s) \in Nat
           /\ InFlight("window", c2s) \in Nat
           /\ InFlight("reply", c2s) \in Nat
BY InFlightNat DEF Kinds

\* What a message is worth: bytes, window, and questions or answers.
Worth(m, d, w, r) ==
    Amount("data", m) = d /\ Amount("window", m) = w /\ Amount("reply", m) = r

\* What is under way in q and not in rest.
More(q, rest, d, w, r) ==
    /\ InFlight("data", q) = d + InFlight("data", rest)
    /\ InFlight("window", q) = w + InFlight("window", rest)
    /\ InFlight("reply", q) = r + InFlight("reply", rest)

\* A message comes off a queue, or goes on it.
LEMMA TakenIsMore ==
    ASSUME NEW Message \in {ServerMessage, ClientMessage},
           NEW q \in Seq(Message), q # <<>>,
           NEW d, NEW w, NEW r, Worth(Head(q), d, w, r)
    PROVE  More(q, Tail(q), d, w, r)
BY InFlightTaken DEF Kinds, Worth, More

LEMMA AppendedIsMore ==
    ASSUME NEW Message \in {ServerMessage, ClientMessage},
           NEW q \in Seq(Message), NEW m \in Message,
           NEW d \in Nat, NEW w \in Nat, NEW r \in Nat, Worth(m, d, w, r)
    PROVE  More(Append(q, m), q, d, w, r)
<1>1. /\ InFlight("data", q) \in Nat /\ InFlight("window", q) \in Nat
      /\ InFlight("reply", q) \in Nat
  BY InFlightNat DEF Kinds
<1>2. /\ InFlight("data", Append(q, m)) = InFlight("data", q) + Amount("data", m)
      /\ InFlight("window", Append(q, m))
           = InFlight("window", q) + Amount("window", m)
      /\ InFlight("reply", Append(q, m)) = InFlight("reply", q) + Amount("reply", m)
  BY InFlightAppended DEF Kinds
<1> QED
  BY <1>1, <1>2 DEF Worth, More

LEMMA NothingIsMore ==
    ASSUME NEW Message \in {ServerMessage, ClientMessage}, NEW q \in Seq(Message)
    PROVE  More(q, q, 0, 0, 0)
<1>1. /\ InFlight("data", q) \in Nat /\ InFlight("window", q) \in Nat
      /\ InFlight("reply", q) \in Nat
  BY InFlightNat DEF Kinds
<1> QED
  BY <1>1 DEF More

-------------------------------------------------------------------------------
(***************************************************************************)
(* Whatever is first in the queue, the client accepts it where it is.      *)
(***************************************************************************)
LEMMA Live ==
    ASSUME ShellInv, pc # "exit"
    PROVE  /\ ShellTypeOK /\ TypeOK /\ LiveInv /\ ContentsInv
           /\ pc \in Locations \ {"exit"}
           /\ s2c \in Seq(ServerMessage) /\ c2s \in Seq(ClientMessage)
           /\ channel \in Channel
BY DEF ShellInv, LiveInv, ContentsInv, ShellTypeOK, TypeOK

LEMMA FirstMessage ==
    ASSUME ShellInv, pc \in Receiving, s2c # <<>>
    PROVE  /\ response \in ServerMessage /\ Proper(response)
           /\ \/ response.type \in Passing(pc)
              \/ pc # "socket" /\ response.type = AnswerType(pc)
<1>1. /\ pc # "exit" /\ Stage(pc) = pc /\ pc \in Locations \ {"exit"}
      /\ pc \in {"opening", "pty", "shell", "socket"}
  BY Stages DEF ShellInv, ShellTypeOK, TypeOK, Receiving
<1>2. s2c \in Seq(ServerMessage) /\ LiveInv
  BY <1>1, Live
<1>3. /\ Len(s2c) \in Nat /\ Len(s2c) >= 1 /\ response = s2c[1]
      /\ 1 \in 1..Len(s2c) /\ response \in ServerMessage
  BY <1>2, TailIs DEF response
<1>4. Proper(response)
  BY <1>2, <1>3 DEF LiveInv, ProperInv
<1>5. PICK k \in 0..Len(s2c) : InOrder(k)
  BY <1>2 DEF LiveInv, OrderInv
<1>6. CASE k = 1
  BY <1>1, <1>3, <1>4, <1>5, <1>6 DEF InOrder, Waiting
<1>7. CASE k = 0
  BY <1>1, <1>3, <1>4, <1>5, <1>7 DEF InOrder, Serving
<1>8. CASE k > 1
  BY <1>1, <1>3, <1>4, <1>5, <1>8 DEF InOrder
<1> QED
  BY <1>3, <1>5, <1>6, <1>7, <1>8

LEMMA Accepted ==
    ASSUME ShellInv, pc \in Receiving, s2c # <<>>
    PROVE  Accepts(pc, response)
<1> DEFINE m == response
<1>1. /\ pc # "exit" /\ Stage(pc) = pc
      /\ pc \in {"opening", "pty", "shell", "socket"}
  BY Stages DEF ShellInv, ShellTypeOK, TypeOK, Receiving
<1>2. /\ ShellTypeOK /\ TypeOK /\ ContentsInv /\ LiveInv
      /\ s2c \in Seq(ServerMessage) /\ c2s \in Seq(ClientMessage)
  BY <1>1, Live
<1>3. /\ m \in ServerMessage /\ Proper(m)
      /\ m.type \in Passing(pc) \/ (pc # "socket" /\ m.type = AnswerType(pc))
  BY FirstMessage
<1>4. m = Head(s2c)
  BY DEF response
<1>5. m.well_formed /\ (m.type # "global_request" => ForChannel(channel, m))
  BY <1>2, <1>3 DEF Proper, ForChannel, ContentsInv, ProperInv
<1>6. (pc = "opening" => ~channel.open) /\ (pc # "opening" => channel.open)
  BY <1>1 DEF ShellInv, SessionInv, OpenInv
<1>7. channel.local_max_packet = LOCAL_MAX_PACKET_SIZE
  BY DEF ShellInv, SessionInv, WindowInv
<1> HIDE DEF m
<1>8. CASE pc # "socket" /\ m.type = AnswerType(pc)
  <2>1. CASE pc = "opening"
    BY <1>3, <1>5, <1>6, <1>8, <2>1
       DEF AnswerType, Accepts, accepts_open_confirmation, Proper, m
  <2>2. CASE pc \in {"pty", "shell"}
    BY <1>3, <1>5, <1>8, <2>2
       DEF AnswerType, Accepts, accepts_channel_success, m
  <2> QED
    BY <1>1, <1>8, <2>1, <2>2
<1>9. CASE m.type = "global_request"
  BY <1>5, <1>9 DEF Accepts, accepts_global_request, m
<1>10. \A kind \in Kinds : Amount(kind, m) <= InFlight(kind, s2c)
  <2>1. ASSUME NEW kind \in Kinds PROVE Amount(kind, m) <= InFlight(kind, s2c)
    <3>1. InFlight(kind, s2c) = Amount(kind, m) + InFlight(kind, Tail(s2c))
      BY <1>2, <1>4, InFlightTaken
    <3>2. Tail(s2c) \in Seq(ServerMessage)
      BY <1>2, TailIs
    <3>3. Amount(kind, m) \in Nat /\ InFlight(kind, Tail(s2c)) \in Nat
      BY <1>3, <3>2, AmountNat, InFlightNat
    <3> QED
      BY <3>1, <3>3
  <2> QED
    BY <2>1
<1>11. CASE m.type = "window_adjust" /\ pc # "opening"
  <2>1. m.bytes_to_add \in UInt32 /\ Amount("window", m) = m.bytes_to_add
    BY <1>3, <1>11, MessageFields, AmountIs
  <2>2. channel.remote_window + m.bytes_to_add <= UINT32_MAX
    <3>1. /\ InFlight("data", c2s) \in Nat /\ InFlight("window", s2c) \in Nat
          /\ server.recv_window \in UInt32 /\ channel.remote_window \in UInt32
      BY <1>2, ServerFlow, ClientFlow, ServerFields
    <3>2. server.recv_window = channel.remote_window
                   + InFlight("data", c2s) + InFlight("window", s2c)
      BY <1>2 DEF LiveInv, BooksInv
    <3>3. m.bytes_to_add <= InFlight("window", s2c)
      BY <1>10, <2>1 DEF Kinds
    <3> QED
      BY <2>1, <3>1, <3>2, <3>3, ConnectionAssumption DEF UInt32
  <2>3. channel.remote_window <= Sub32(UINT32_MAX, m.bytes_to_add)
    BY <1>2, <2>1, <2>2, ServerFields, ConnectionAssumption DEF Sub32, UInt32
  <2>4. m.bytes_to_add # 0
    BY <1>3, <1>11 DEF Proper
  <2> QED
    BY <1>1, <1>5, <1>6, <1>11, <2>3, <2>4
       DEF Accepts, accepts_window_adjust, m
<1>12. CASE m.type \in {"data", "extended_data"} /\ pc = "socket"
  <2>1. m.size \in UInt32 /\ Amount("data", m) = m.size
    BY <1>3, <1>12, MessageFields, AmountIs
  <2>2. m.size <= channel.local_window
    <3>1. /\ InFlight("data", s2c) \in Nat /\ InFlight("window", c2s) \in Nat
          /\ server.send_window \in UInt32 /\ channel.local_window \in UInt32
      BY <1>2, ServerFlow, ClientFlow, ServerFields
    <3>2. channel.local_window = server.send_window
                   + InFlight("data", s2c) + InFlight("window", c2s)
      BY <1>2, <1>12 DEF LiveInv, BooksInv, Offered
    <3>3. m.size <= InFlight("data", s2c)
      BY <1>10, <2>1 DEF Kinds
    <3> QED
      BY <2>1, <3>1, <3>2, <3>3, ConnectionAssumption DEF UInt32
  <2>3. FitsLocalWindow(channel, m)
    BY <1>3, <1>7, <1>12, <2>2 DEF FitsLocalWindow, Proper
  <2> QED
    BY <1>3, <1>5, <1>6, <1>12, <2>3
       DEF Accepts, accepts_channel_data, accepts_channel_extended_data, Proper, m
<1>13. 1 \in 1..Len(s2c) /\ s2c[1] = m
  BY <1>2, <1>4, TailIs
<1>14. CASE m.type = "eof" /\ pc = "socket"
  <2>1. ~channel.remote_eof_received
    BY <1>2, <1>14, <1>13 DEF LiveInv, EofInv, Once
  <2> QED
    BY <1>5, <1>6, <1>14, <2>1 DEF Accepts, accepts_channel_eof, m
<1>15. CASE m.type = "request" /\ pc = "socket"
  <2>1. ~channel.exit_status_received
    BY <1>2, <1>15, <1>13 DEF LiveInv, StatusInv, Once
  <2> QED
    BY <1>3, <1>5, <1>6, <1>15, <2>1 DEF Accepts, accepts_exit_status, Proper, m
<1>16. CASE m.type = "close" /\ pc = "socket"
  <2>1. ~channel.remote_close_received
    BY <1>2 DEF LiveInv, CloseInv
  <2> QED
    BY <1>5, <1>6, <1>16, <2>1 DEF Accepts, accepts_channel_close, m
<1> QED
  BY <1>1, <1>3, <1>8, <1>9, <1>11, <1>12, <1>14, <1>15, <1>16, PassingIs

-------------------------------------------------------------------------------
(***************************************************************************)
(* The client's steps.  A packet it sends goes out: as long as it has not  *)
(* sent CLOSE the connection is up.                                        *)
(***************************************************************************)
LEMMA PacketSent ==
    ASSUME ShellInv, pc # "exit", ~channel.local_close_sent,
           NEW m, NEW ch, NEW next, send_packet(m, ch, next)
    PROVE  c2s' = Append(c2s, m) /\ channel' = ch /\ pc' = next
<1>1. tcp = "up"
  BY DEF ShellInv, LiveInv, CloseInv
<1> QED
  BY <1>1 DEF send_packet, WriteFails, Continue

LEMMA SentIs ==
    ASSUME ShellInv, pc # "exit", ~channel.local_close_sent, SessionInv',
           NEW can, NEW m, NEW ch, NEW next, create_and_send(can, m, ch, next)
    PROVE  c2s' = Append(c2s, m) /\ channel' = ch /\ pc' = next
<1>1. result' # "internal"
  BY DEF SessionInv
<1>2. send_packet(m, ch, next)
  BY <1>1 DEF create_and_send, Throw
<1> QED
  BY <1>2, PacketSent

LEMMA LiveFrom ==
    ASSUME OrderInv', ContentsInv', BooksInv'
    PROVE  LiveInv'
BY DEF ContentsInv, LiveInv

(***************************************************************************)
(* The books stay balanced when what leaves one column enters another.     *)
(***************************************************************************)
Numbers ==
    /\ InFlight("data", s2c) \in Nat /\ InFlight("window", s2c) \in Nat
    /\ InFlight("reply", s2c) \in Nat /\ InFlight("data", c2s) \in Nat
    /\ InFlight("window", c2s) \in Nat /\ InFlight("reply", c2s) \in Nat
    /\ server.send_window \in Nat /\ server.recv_window \in Nat
    /\ server.unanswered \in Nat
    /\ channel.local_window \in Nat /\ channel.remote_window \in Nat
    /\ Offered \in Nat
    /\ typed \in Nat /\ received \in Nat /\ produced \in Nat /\ shown \in Nat

LEMMA BookNumbers == ShellTypeOK => Numbers
<1> SUFFICES ASSUME ShellTypeOK PROVE Numbers
  OBVIOUS
<1>1. s2c \in Seq(ServerMessage) /\ c2s \in Seq(ClientMessage)
  BY FlagTypes
<1>2. UInt32 \subseteq Nat
  BY ConnectionAssumption DEF UInt32
<1>3. /\ server.send_window \in Nat /\ server.recv_window \in Nat
      /\ server.unanswered \in Nat
      /\ channel.local_window \in Nat /\ channel.remote_window \in Nat
      /\ typed \in Nat /\ received \in Nat /\ produced \in Nat /\ shown \in Nat
      /\ Offered \in Nat
  BY <1>2, ServerFields
<1>4. /\ InFlight("data", s2c) \in Nat /\ InFlight("window", s2c) \in Nat
      /\ InFlight("reply", s2c) \in Nat
  BY <1>1, ServerFlow
<1>5. /\ InFlight("data", c2s) \in Nat /\ InFlight("window", c2s) \in Nat
      /\ InFlight("reply", c2s) \in Nat
  BY <1>1, ClientFlow
<1> QED
  BY <1>3, <1>4, <1>5 DEF Numbers

LEMMA BookNumbersNext == ShellTypeOK' => Numbers'
BY BookNumbers, PTL

\* The client takes d, w and r from the server and sends it e, v and s.
ClientPays(d, w, r, e, v, s) ==
    /\ Offered' + d = Offered + v
    /\ channel'.remote_window + e = channel.remote_window + w
    /\ r = s
    /\ shown' = shown + d
    /\ typed' = typed + e

LEMMA ClientBalance ==
    ASSUME ShellTypeOK, ShellTypeOK', LiveInv,
           server' = server, received' = received, produced' = produced,
           NEW d \in Nat, NEW w \in Nat, NEW r \in Nat,
           NEW e \in Nat, NEW v \in Nat, NEW s \in Nat,
           More(s2c, s2c', d, w, r), More(c2s', c2s, e, v, s),
           ClientPays(d, w, r, e, v, s),
           Stage(pc') = "opening" => channel'.remote_window = 0
    PROVE  BooksInv'
<1>0. Numbers /\ BooksInv
  BY BookNumbers DEF LiveInv
<1>1. Numbers'
  BY BookNumbersNext
<1>2. Offered' = server.send_window
                   + InFlight("data", s2c') + InFlight("window", c2s')
  <2>1. Offered = server.send_window
                   + InFlight("data", s2c) + InFlight("window", c2s)
    BY <1>0 DEF BooksInv
  <2>2. /\ InFlight("data", s2c) = d + InFlight("data", s2c')
        /\ InFlight("window", c2s') = v + InFlight("window", c2s)
        /\ Offered' + d = Offered + v
    BY DEF More, ClientPays
  <2>3. /\ InFlight("data", s2c) \in Nat /\ InFlight("data", s2c') \in Nat
        /\ InFlight("window", c2s) \in Nat /\ InFlight("window", c2s') \in Nat
        /\ Offered \in Nat /\ Offered' \in Nat /\ server.send_window \in Nat
    BY <1>0, <1>1 DEF Numbers
  <2>4. PICK x \in Nat : x = Offered'
    BY <2>3
  <2>5. x + d = Offered + v
    BY <2>2, <2>4
  <2>6. x = server.send_window + InFlight("data", s2c') + InFlight("window", c2s')
    BY <2>1, <2>2, <2>3, <2>5
  <2> QED
    BY <2>4, <2>6
<1>3. server.recv_window = channel'.remote_window
                   + InFlight("data", c2s') + InFlight("window", s2c')
  <2>1. server.recv_window = channel.remote_window
                   + InFlight("data", c2s) + InFlight("window", s2c)
    BY <1>0 DEF BooksInv
  <2>2. /\ InFlight("window", s2c) = w + InFlight("window", s2c')
        /\ InFlight("data", c2s') = e + InFlight("data", c2s)
        /\ channel'.remote_window + e = channel.remote_window + w
    BY DEF More, ClientPays
  <2>3. /\ InFlight("window", s2c) \in Nat /\ InFlight("window", s2c') \in Nat
        /\ InFlight("data", c2s) \in Nat /\ InFlight("data", c2s') \in Nat
        /\ channel.remote_window \in Nat /\ channel'.remote_window \in Nat
        /\ server.recv_window \in Nat
    BY <1>0, <1>1 DEF Numbers
  <2> QED
    BY <2>1, <2>2, <2>3, SMTT(30)
<1>4. server.unanswered = InFlight("reply", s2c') + InFlight("reply", c2s')
  <2>1. server.unanswered = InFlight("reply", s2c) + InFlight("reply", c2s)
    BY <1>0 DEF BooksInv
  <2> QED
    BY <1>0, <1>1, <2>1 DEF Numbers, More, ClientPays
<1>5. produced = shown' + InFlight("data", s2c')
  <2>1. produced = shown + InFlight("data", s2c)
    BY <1>0 DEF BooksInv
  <2> QED
    BY <1>0, <1>1, <2>1 DEF Numbers, More, ClientPays
<1>6. typed' = received + InFlight("data", c2s')
  <2>1. typed = received + InFlight("data", c2s)
    BY <1>0 DEF BooksInv
  <2> QED
    BY <1>0, <1>1, <2>1 DEF Numbers, More, ClientPays
<1>7. /\ server'.recv_window <= SERVER_WINDOW
      /\ server'.phase = "idle" => server'.recv_window = 0
  BY <1>0 DEF BooksInv
<1> QED
  BY <1>2, <1>3, <1>4, <1>5, <1>6, <1>7 DEF BooksInv

\* The server takes e, v and s from the client and sends it d, w and r.
ServerPays(d, w, r, e, v, s) ==
    /\ server'.send_window + d = server.send_window + v
    /\ server'.recv_window + e = server.recv_window + w
    /\ server'.unanswered + s = server.unanswered + r
    /\ produced' = produced + d
    /\ received' = received + e

LEMMA ServerBalance ==
    ASSUME ShellTypeOK, ShellTypeOK', LiveInv,
           channel' = channel, pc' = pc, typed' = typed, shown' = shown,
           NEW d \in Nat, NEW w \in Nat, NEW r \in Nat,
           NEW e \in Nat, NEW v \in Nat, NEW s \in Nat,
           More(s2c', s2c, d, w, r), More(c2s, c2s', e, v, s),
           ServerPays(d, w, r, e, v, s),
           server'.recv_window <= SERVER_WINDOW,
           server'.phase = "idle" => server'.recv_window = 0
    PROVE  BooksInv'
<1>0. Numbers /\ BooksInv /\ Offered' = Offered
  BY BookNumbers DEF LiveInv, Offered
<1>1. Numbers'
  BY BookNumbersNext
<1>2. Offered = server'.send_window
                   + InFlight("data", s2c') + InFlight("window", c2s')
  <2>1. Offered = server.send_window
                   + InFlight("data", s2c) + InFlight("window", c2s)
    BY <1>0 DEF BooksInv
  <2>2. /\ InFlight("data", s2c') = d + InFlight("data", s2c)
        /\ InFlight("window", c2s) = v + InFlight("window", c2s')
        /\ server'.send_window + d = server.send_window + v
    BY DEF More, ServerPays
  <2>3. /\ InFlight("data", s2c) \in Nat /\ InFlight("data", s2c') \in Nat
        /\ InFlight("window", c2s) \in Nat /\ InFlight("window", c2s') \in Nat
        /\ Offered \in Nat /\ server.send_window \in Nat /\ server'.send_window \in Nat
    BY <1>0, <1>1 DEF Numbers
  <2> QED
    BY <2>1, <2>2, <2>3
<1>3. server'.recv_window = channel.remote_window
                   + InFlight("data", c2s') + InFlight("window", s2c')
  <2>1. server.recv_window = channel.remote_window
                   + InFlight("data", c2s) + InFlight("window", s2c)
    BY <1>0 DEF BooksInv
  <2>2. /\ InFlight("window", s2c') = w + InFlight("window", s2c)
        /\ InFlight("data", c2s) = e + InFlight("data", c2s')
        /\ server'.recv_window + e = server.recv_window + w
    BY DEF More, ServerPays
  <2>3. /\ InFlight("window", s2c) \in Nat /\ InFlight("window", s2c') \in Nat
        /\ InFlight("data", c2s) \in Nat /\ InFlight("data", c2s') \in Nat
        /\ server.recv_window \in Nat /\ server'.recv_window \in Nat
        /\ channel.remote_window \in Nat
    BY <1>0, <1>1 DEF Numbers
  <2> QED
    BY <2>1, <2>2, <2>3
<1>4. server'.unanswered = InFlight("reply", s2c') + InFlight("reply", c2s')
  <2>1. server.unanswered = InFlight("reply", s2c) + InFlight("reply", c2s)
    BY <1>0 DEF BooksInv
  <2> QED
    BY <1>0, <1>1, <2>1 DEF Numbers, More, ServerPays
<1>5. produced' = shown + InFlight("data", s2c')
  <2>1. produced = shown + InFlight("data", s2c)
    BY <1>0 DEF BooksInv
  <2> QED
    BY <1>0, <1>1, <2>1 DEF Numbers, More, ServerPays
<1>6. typed = received' + InFlight("data", c2s')
  <2>1. typed = received + InFlight("data", c2s)
    BY <1>0 DEF BooksInv
  <2> QED
    BY <1>0, <1>1, <2>1 DEF Numbers, More, ServerPays
<1>7. Stage(pc') = "opening" => channel'.remote_window = 0
  BY <1>0 DEF BooksInv
<1> QED
  BY <1>0, <1>2, <1>3, <1>4, <1>5, <1>6, <1>7 DEF BooksInv

\* Nothing is sent or received.
LEMMA QuietKeeps ==
    ASSUME ShellInv, pc \in InLoop, pc' \in InLoop,
           UNCHANGED <<channel, s2c, c2s, tcp, server, counters>>
    PROVE  LiveInv'
<1>1. pc # "exit" /\ Stage(pc) = "socket" /\ Stage(pc') = "socket" /\ ~Waiting
  BY DEF InLoop, Stage, Waiting
<1>2. PICK k \in Nat, a \in Nat : InOrder(k) /\ Asking(k, a)
  BY <1>1, Live DEF LiveInv, OrderInv
<1>3. InOrder(k)'
  BY <1>1, <1>2, OrderSame
<1>4. Asking(k, a)'
  BY <1>1, <1>2, AskingSame
<1>5. OrderInv'
  BY <1>3, <1>4, OrderFrom
<1>6. ContentsInv'
  BY <1>1, Live, ContentsSame DEF SameFlags, SendsNoClose
<1>7. Offered' = Offered
  BY DEF Offered, InLoop
<1>8. BooksInv'
  BY <1>1, <1>7, Live DEF LiveInv, BooksInv, counters
<1> QED
  BY <1>5, <1>6, <1>8, LiveFrom

\* The client asks for the channel and offers its window.
LEMMA OpenKeeps ==
    ASSUME ShellInv, ShellTypeOK', pc = "start", pc' = "opening",
           c2s' = Append(c2s, create_session_open(channel)),
           UNCHANGED <<channel, s2c, tcp, server, counters>>
    PROVE  LiveInv'
<1> DEFINE m == create_session_open(channel)
<1>1. /\ pc # "exit" /\ Stage(pc) = "opening" /\ Stage(pc') = "opening"
      /\ ~Waiting /\ Waiting'
  BY DEF Stage, InLoop, Waiting
<1>2. /\ ShellTypeOK /\ LiveInv /\ ContentsInv /\ channel \in Channel
      /\ s2c \in Seq(ServerMessage) /\ c2s \in Seq(ClientMessage)
  BY <1>1, Live
<1>3. /\ m \in ClientMessage /\ m.type = "channel_open"
      /\ m.window = channel.local_window
  BY <1>2, SessionAssumption, ClientMessages DEF create_session_open
<1> HIDE DEF m
<1>4. PICK k \in Nat, a \in Nat : InOrder(k) /\ Asking(k, a)
  BY <1>2 DEF LiveInv, OrderInv
<1>5. k = 0 /\ a = 0 /\ server.reply = "none"
  BY <1>1, <1>4 DEF InOrder, Asking
<1>6. InOrder(0)'
  BY <1>1, <1>4, <1>5, OrderSame
<1>7. PICK b \in Nat : b = Len(c2s) + 1
  BY <1>2
<1>8. Asks(Stage(pc'), channel'.local_window, m)
  BY <1>1, <1>3 DEF Asks
<1>9. Asking(0, b)'
  BY <1>1, <1>2, <1>3, <1>4, <1>5, <1>7, <1>8, AskingStarts DEF m
<1>10. OrderInv'
  BY <1>6, <1>9, OrderFrom
<1>11. ContentsInv'
  <2>1. SendsNoClose
    BY <1>3 DEF SendsNoClose, m
  <2> QED
    BY <1>2, <2>1, ContentsSame DEF SameFlags
<1>12. BooksInv'
  <2>1. Worth(m, 0, channel.local_window, 0)
    BY <1>3, AmountIs DEF Worth
  <2>2. channel.local_window \in Nat /\ channel.remote_window = 0
    BY <1>1, <1>2, BookNumbers DEF Numbers, LiveInv, BooksInv
  <2>3. More(c2s', c2s, 0, channel.local_window, 0)
    BY <1>2, <1>3, <2>1, <2>2, AppendedIsMore DEF m
  <2>4. More(s2c, s2c', 0, 0, 0)
    BY <1>2, NothingIsMore
  <2>5. UNCHANGED <<received, produced, typed, shown>>
    BY DEF counters
  <2>6. ClientPays(0, 0, 0, 0, channel.local_window, 0)
    BY <1>2, <2>2, <2>5, BookNumbers, SMTT(30)
       DEF ClientPays, Offered, Numbers
  <2> QED
    BY <1>2, <2>2, <2>3, <2>4, <2>5, <2>6, ClientBalance
<1> QED
  BY <1>10, <1>11, <1>12, LiveFrom

\* The client takes a message and stays in its stage.
LEMMA PassedInOrder ==
    ASSUME ShellInv, pc # "exit", s2c # <<>>, s2c' = Tail(s2c),
           Head(s2c).type \in Passing(Stage(pc)), pc' \in Locations \ {"exit"},
           Stage(pc') = Stage(pc), Waiting => Waiting', server' = server,
           Waiting => channel'.local_window = channel.local_window,
           \/ c2s' = c2s
           \/ \E m \in ClientMessage : Plain(m) /\ c2s' = Append(c2s, m)
    PROVE  OrderInv'
<1>1. /\ LiveInv /\ pc \in Locations \ {"exit"}
      /\ s2c \in Seq(ServerMessage) /\ c2s \in Seq(ClientMessage)
  BY Live
<1>2. PICK k \in Nat, a \in Nat : InOrder(k) /\ Asking(k, a)
  BY <1>1 DEF LiveInv, OrderInv
<1>3. k # 1 /\ InOrder(IF k = 0 THEN 0 ELSE k - 1)'
  BY <1>1, <1>2, OrderPassed
<1>4. PICK l \in Nat : l = IF k = 0 THEN 0 ELSE k - 1
  BY <1>2, <1>3
<1>5. InOrder(l)' /\ (k = 0 => l = 0)
  BY <1>3, <1>4
<1>6. CASE c2s' = c2s
  <2>1. Asking(l, a)'
    BY <1>2, <1>5, <1>6, AskingSame
  <2> QED
    BY <1>5, <2>1, OrderFrom
<1>7. CASE \E m \in ClientMessage : Plain(m) /\ c2s' = Append(c2s, m)
  <2>1. PICK m \in ClientMessage : Plain(m) /\ c2s' = Append(c2s, m)
    BY <1>7
  <2>2. Asking(l, a)'
    BY <1>1, <1>2, <1>5, <2>1, AskingExtended
  <2> QED
    BY <1>5, <2>2, OrderFrom
<1> QED
  BY <1>6, <1>7

\* The client takes the message it waits for and sends its next request.
LEMMA AnsweredInOrder ==
    ASSUME ShellInv, pc # "exit", s2c # <<>>, s2c' = Tail(s2c),
           Head(s2c).type \in {"open_confirmation", "success"},
           Stage(pc') = NextStage(Stage(pc)), server' = server,
           \/ c2s' = c2s
           \/ /\ Waiting'
              /\ \E m \in ClientMessage :
                    /\ Asks(Stage(pc'), channel'.local_window, m)
                    /\ c2s' = Append(c2s, m)
    PROVE  OrderInv'
<1>1. /\ LiveInv /\ pc \in Locations \ {"exit"}
      /\ s2c \in Seq(ServerMessage) /\ c2s \in Seq(ClientMessage)
  BY Live
<1>2. PICK k \in Nat, a \in Nat : InOrder(k) /\ Asking(k, a)
  BY <1>1 DEF LiveInv, OrderInv
<1>3. k = 1 /\ InOrder(0)'
  BY <1>1, <1>2, OrderAnswered
<1>4. a = 0 /\ server.reply = "none"
  BY <1>2, <1>3 DEF Asking
<1>5. CASE c2s' = c2s
  <2>1. Asking(0, 0)'
    BY <1>2, <1>4, <1>5 DEF Asking
  <2> QED
    BY <1>3, <2>1, OrderFrom
<1>6. CASE /\ Waiting'
           /\ \E m \in ClientMessage :
                 /\ Asks(Stage(pc'), channel'.local_window, m)
                 /\ c2s' = Append(c2s, m)
  <2>1. PICK m \in ClientMessage : /\ Asks(Stage(pc'), channel'.local_window, m)
                                   /\ c2s' = Append(c2s, m)
    BY <1>6
  <2>2. PICK b \in Nat : b = Len(c2s) + 1
    BY <1>1
  <2>3. Asking(0, b)'
    BY <1>1, <1>2, <1>4, <1>6, <2>1, <2>2, AskingStarts
  <2> QED
    BY <1>3, <2>3, OrderFrom
<1> QED
  BY <1>5, <1>6

\* The server confirms the channel; the client asks for a terminal.
LEMMA ConfirmedKeeps ==
    ASSUME ShellInv, ShellTypeOK', pc = "opening", pc' = "pty",
           s2c # <<>>, s2c' = Tail(s2c), response.type = "open_confirmation",
           channel' = parse_open_confirmation(channel, response),
           c2s' = Append(c2s, create_pty_request(channel')),
           UNCHANGED <<tcp, server, counters>>
    PROVE  LiveInv'
<1> DEFINE m == create_pty_request(channel')
<1>1. /\ pc # "exit" /\ Stage(pc) = "opening" /\ Stage(pc') = "pty" /\ Waiting'
  BY DEF Stage, InLoop, Waiting
<1>2. /\ ShellTypeOK /\ LiveInv /\ ContentsInv /\ channel \in Channel
      /\ s2c \in Seq(ServerMessage) /\ c2s \in Seq(ClientMessage)
  BY <1>1, Live
<1>3. m \in ClientMessage /\ m.type = "request" /\ m.name = "pty-req"
  <2>1. channel' \in Channel
    BY DEF ShellTypeOK, TypeOK
  <2> QED
    BY <2>1, SessionAssumption, ClientMessages DEF create_pty_request
<1>4. response = Head(s2c) /\ response \in ServerMessage
  BY <1>2, TailIs DEF response
<1>5. /\ channel'.remote_window = response.window
      /\ channel'.local_window = channel.local_window
      /\ SameFlags
  BY <1>2, <1>4 DEF parse_open_confirmation, Channel, SameFlags
<1> HIDE DEF m
<1>6. OrderInv'
  <2>1. Asks(Stage(pc'), channel'.local_window, m)
    BY <1>1, <1>3 DEF Asks, ReplyTo
  <2>2. Stage(pc') = NextStage(Stage(pc))
    BY <1>1 DEF NextStage
  <2>3. \E n \in ClientMessage : /\ Asks(Stage(pc'), channel'.local_window, n)
                                 /\ c2s' = Append(c2s, n)
    BY <1>3, <2>1 DEF m
  <2> QED
    BY <1>1, <1>4, <2>2, <2>3, AnsweredInOrder
<1>7. ContentsInv'
  <2>1. SendsNoClose
    BY <1>3 DEF SendsNoClose, m
  <2> QED
    BY <1>2, <1>4, <1>5, <2>1, ContentsTaken
<1>8. BooksInv'
  <2>1. Worth(m, 0, 0, 0)
    BY <1>3, AmountIs DEF Worth
  <2>2. More(c2s', c2s, 0, 0, 0)
    BY <1>2, <1>3, <2>1, AppendedIsMore DEF m
  <2>3. Worth(Head(s2c), 0, response.window, 0)
    BY <1>4, AmountIs DEF Worth
  <2>4. More(s2c, s2c', 0, response.window, 0)
    BY <1>2, <2>3, TakenIsMore
  <2>5. response.window \in Nat /\ channel.remote_window = 0
    BY <1>1, <1>2, <1>4, MessageFields, ConnectionAssumption
       DEF LiveInv, BooksInv, UInt32
  <2>6. UNCHANGED <<received, produced, typed, shown>>
    BY DEF counters
  <2>7. ClientPays(0, response.window, 0, 0, 0, 0)
    BY <1>2, <1>5, <2>5, <2>6, BookNumbers, SMTT(30)
       DEF ClientPays, Offered, Numbers
  <2> QED
    BY <1>1, <1>2, <2>2, <2>4, <2>5, <2>6, <2>7, ClientBalance, SMTT(30)
<1> QED
  BY <1>6, <1>7, <1>8, LiveFrom

\* The server grants the terminal; the client asks for a shell.
LEMMA PtyKeeps ==
    ASSUME ShellInv, ShellTypeOK', pc = "pty", pc' = "shell",
           s2c # <<>>, s2c' = Tail(s2c), response.type = "success",
           c2s' = Append(c2s, create_shell_request(channel)),
           UNCHANGED <<channel, tcp, server, counters>>
    PROVE  LiveInv'
<1> DEFINE m == create_shell_request(channel)
<1>1. /\ pc # "exit" /\ Stage(pc) = "pty" /\ Stage(pc') = "shell" /\ Waiting'
  BY DEF Stage, InLoop, Waiting
<1>2. /\ ShellTypeOK /\ LiveInv /\ ContentsInv /\ channel \in Channel
      /\ s2c \in Seq(ServerMessage) /\ c2s \in Seq(ClientMessage)
  BY <1>1, Live
<1>3. m \in ClientMessage /\ m.type = "request" /\ m.name = "shell"
  BY <1>2, SessionAssumption, ClientMessages DEF create_shell_request
<1>4. response = Head(s2c) /\ response \in ServerMessage
  BY <1>2, TailIs DEF response
<1> HIDE DEF m
<1>5. OrderInv'
  <2>1. Asks(Stage(pc'), channel'.local_window, m)
    BY <1>1, <1>3 DEF Asks, ReplyTo
  <2>2. Stage(pc') = NextStage(Stage(pc))
    BY <1>1 DEF NextStage
  <2>3. \E n \in ClientMessage : /\ Asks(Stage(pc'), channel'.local_window, n)
                                 /\ c2s' = Append(c2s, n)
    BY <1>3, <2>1 DEF m
  <2> QED
    BY <1>1, <1>4, <2>2, <2>3, AnsweredInOrder
<1>6. ContentsInv'
  <2>1. SendsNoClose
    BY <1>3 DEF SendsNoClose, m
  <2> QED
    BY <1>2, <1>4, <2>1, ContentsTaken DEF SameFlags
<1>7. BooksInv'
  <2>1. Worth(m, 0, 0, 0)
    BY <1>3, AmountIs DEF Worth
  <2>2. More(c2s', c2s, 0, 0, 0)
    BY <1>2, <1>3, <2>1, AppendedIsMore DEF m
  <2>3. Worth(Head(s2c), 0, 0, 0)
    BY <1>4, AmountIs DEF Worth
  <2>4. More(s2c, s2c', 0, 0, 0)
    BY <1>2, <2>3, TakenIsMore
  <2>5. UNCHANGED <<received, produced, typed, shown>>
    BY DEF counters
  <2>6. ClientPays(0, 0, 0, 0, 0, 0)
    BY <1>2, <2>5, BookNumbers, SMTT(30)
       DEF ClientPays, Offered, Numbers
  <2> QED
    BY <1>1, <1>2, <2>2, <2>4, <2>5, <2>6, ClientBalance
<1> QED
  BY <1>5, <1>6, <1>7, LiveFrom

\* The server starts the shell; the client enters its loop.
LEMMA ShellKeeps ==
    ASSUME ShellInv, ShellTypeOK', pc = "shell", pc' = "poll",
           s2c # <<>>, s2c' = Tail(s2c), response.type = "success",
           UNCHANGED <<channel, c2s, tcp, server, counters>>
    PROVE  LiveInv'
<1>1. /\ pc # "exit" /\ Stage(pc) = "shell" /\ Stage(pc') = "socket"
  BY DEF Stage, InLoop
<1>2. /\ ShellTypeOK /\ LiveInv /\ ContentsInv /\ channel \in Channel
      /\ s2c \in Seq(ServerMessage) /\ c2s \in Seq(ClientMessage)
  BY <1>1, Live
<1>3. response = Head(s2c) /\ response \in ServerMessage
  BY <1>2, TailIs DEF response
<1>4. OrderInv'
  <2>1. Stage(pc') = NextStage(Stage(pc))
    BY <1>1 DEF NextStage
  <2> QED
    BY <1>1, <1>3, <2>1, AnsweredInOrder
<1>5. ContentsInv'
  BY <1>2, <1>3, ContentsTaken DEF SameFlags, SendsNoClose
<1>6. BooksInv'
  <2>1. Worth(Head(s2c), 0, 0, 0)
    BY <1>3, AmountIs DEF Worth
  <2>2. More(s2c, s2c', 0, 0, 0)
    BY <1>2, <2>1, TakenIsMore
  <2>3. More(c2s', c2s, 0, 0, 0)
    BY <1>2, NothingIsMore
  <2>4. UNCHANGED <<received, produced, typed, shown>>
    BY DEF counters
  <2>5. ClientPays(0, 0, 0, 0, 0, 0)
    BY <1>2, <2>4, BookNumbers DEF ClientPays, Offered, Numbers
  <2> QED
    BY <1>1, <1>2, <2>2, <2>3, <2>4, <2>5, ClientBalance
<1> QED
  BY <1>4, <1>5, <1>6, LiveFrom

\* A global request, answered when it wants to be.
LEMMA GlobalKeeps ==
    ASSUME ShellInv, ShellTypeOK', NEW at \in Receiving, pc = at,
           pc' = StayAt(at), s2c # <<>>, s2c' = Tail(s2c),
           response.type = "global_request",
           IF response.want_reply THEN c2s' = Append(c2s, create_request_failure)
                                  ELSE c2s' = c2s,
           UNCHANGED <<channel, tcp, server, counters>>
    PROVE  LiveInv'
<1> DEFINE m == create_request_failure
<1>1. /\ pc # "exit" /\ pc' \in Locations \ {"exit"}
      /\ Stage(pc') = Stage(pc) /\ (Waiting => Waiting')
      /\ pc # "start" /\ pc' # "start"
      /\ Stage(pc) \in {"opening", "pty", "shell", "socket"}
  BY DEF Receiving, StayAt, Stage, InLoop, Waiting, Locations
<1>2. /\ ShellTypeOK /\ LiveInv /\ ContentsInv /\ channel \in Channel
      /\ s2c \in Seq(ServerMessage) /\ c2s \in Seq(ClientMessage)
  BY <1>1, Live
<1>3. m \in ClientMessage /\ m.type = "request_failure"
  BY DEF create_request_failure, ClientMessage
<1>4. /\ response = Head(s2c) /\ response \in ServerMessage
      /\ response.want_reply \in BOOLEAN
  <2>1. response = Head(s2c) /\ response \in ServerMessage
    BY <1>2, TailIs DEF response
  <2> QED
    BY <2>1 DEF ServerMessage
<1> HIDE DEF m
<1>5. OrderInv'
  <2>1. Plain(m)
    BY <1>3 DEF Plain
  <2>2. \/ c2s' = c2s
        \/ \E n \in ClientMessage : Plain(n) /\ c2s' = Append(c2s, n)
    BY <1>3, <2>1 DEF m
  <2>3. Head(s2c).type \in Passing(Stage(pc))
    BY <1>1, <1>4, PassingIs
  <2> QED
    BY <1>1, <2>2, <2>3, PassedInOrder
<1>6. ContentsInv'
  <2>1. SendsNoClose
    BY <1>3 DEF SendsNoClose, m
  <2> QED
    BY <1>2, <1>4, <2>1, ContentsTaken DEF SameFlags
<1>7. BooksInv'
  <2>1. Worth(m, 0, 0, 1)
    BY <1>3, AmountIs DEF Worth
  <2>2. PICK n \in {0, 1} : n = IF response.want_reply THEN 1 ELSE 0
    OBVIOUS
  <2>3. Worth(Head(s2c), 0, 0, n)
    BY <1>4, <2>2, AmountIs DEF Worth
  <2>4. More(s2c, s2c', 0, 0, n)
    BY <1>2, <2>3, TakenIsMore
  <2>5. More(c2s', c2s, 0, 0, n)
    <3>1. CASE response.want_reply
      BY <1>2, <1>3, <2>1, <2>2, <3>1, AppendedIsMore DEF m
    <3>2. CASE ~response.want_reply
      BY <1>2, <2>2, <3>2, NothingIsMore
    <3> QED
      BY <3>1, <3>2
  <2>6. UNCHANGED <<received, produced, typed, shown>>
    BY DEF counters
  <2>7. ClientPays(0, 0, n, 0, 0, n)
    BY <1>1, <1>2, <2>6, BookNumbers, SMTT(30)
       DEF ClientPays, Offered, Numbers
  <2>8. Stage(pc') = "opening" => channel'.remote_window = 0
    BY <1>1, <1>2 DEF LiveInv, BooksInv
  <2> QED
    BY <1>2, <2>2, <2>4, <2>5, <2>6, <2>7, <2>8, ClientBalance
<1> QED
  BY <1>5, <1>6, <1>7, LiveFrom

\* The server grants window.
LEMMA AdjustKeeps ==
    ASSUME ShellInv, ShellTypeOK', NEW at \in Receiving, pc = at,
           pc' = StayAt(at), s2c # <<>>, s2c' = Tail(s2c),
           response.type = "window_adjust", Accepts(at, response),
           channel' = parse_window_adjust(channel, response),
           UNCHANGED <<c2s, tcp, server, counters>>
    PROVE  LiveInv'
<1>1. /\ pc # "exit" /\ pc' \in Locations \ {"exit"}
      /\ Stage(pc') = Stage(pc) /\ (Waiting => Waiting')
      /\ pc # "start" /\ pc' # "start"
      /\ Stage(pc) \in {"opening", "pty", "shell", "socket"}
      /\ Stage(pc) = "opening" <=> at = "opening"
  BY DEF Receiving, StayAt, Stage, InLoop, Waiting, Locations
<1>2. /\ ShellTypeOK /\ LiveInv /\ ContentsInv /\ channel \in Channel
      /\ s2c \in Seq(ServerMessage) /\ c2s \in Seq(ClientMessage)
  BY <1>1, Live
<1>3. response = Head(s2c) /\ response \in ServerMessage
  BY <1>2, TailIs DEF response
<1>4. /\ at # "opening"
      /\ channel.remote_window <= Sub32(UINT32_MAX, response.bytes_to_add)
  BY DEF Accepts, accepts_window_adjust
<1>5. channel'.remote_window = channel.remote_window + response.bytes_to_add
  <2>1. /\ response.bytes_to_add \in UInt32 /\ channel.remote_window \in UInt32
    BY <1>2, <1>3, MessageFields, ServerFields
  <2>2. Add32(channel.remote_window, response.bytes_to_add)
           = channel.remote_window + response.bytes_to_add
    BY <1>4, <2>1, ConnectionAssumption DEF Add32, Sub32, UInt32
  <2> QED
    BY <1>2, <2>2 DEF parse_window_adjust, Channel
<1>6. channel'.local_window = channel.local_window /\ SameFlags
  BY <1>2 DEF parse_window_adjust, Channel, SameFlags
<1>7. OrderInv'
  <2>1. Head(s2c).type \in Passing(Stage(pc))
    BY <1>1, <1>3, <1>4, PassingIs
  <2> QED
    BY <1>1, <1>6, <2>1, PassedInOrder
<1>8. ContentsInv'
  BY <1>2, <1>3, <1>6, ContentsTaken DEF SendsNoClose
<1>9. BooksInv'
  <2>1. Worth(Head(s2c), 0, response.bytes_to_add, 0)
    BY <1>3, AmountIs DEF Worth
  <2>2. More(s2c, s2c', 0, response.bytes_to_add, 0)
    BY <1>2, <2>1, TakenIsMore
  <2>3. More(c2s', c2s, 0, 0, 0)
    BY <1>2, NothingIsMore
  <2>4. response.bytes_to_add \in Nat
    BY <1>3, MessageFields, ConnectionAssumption DEF UInt32
  <2>5. UNCHANGED <<received, produced, typed, shown>>
    BY DEF counters
  <2>6. ClientPays(0, response.bytes_to_add, 0, 0, 0, 0)
    <3>1. Offered' = Offered
      BY <1>1, <1>6 DEF Offered
    <3>2. Numbers
      BY <1>2, BookNumbers
    <3> QED
      BY <1>5, <2>4, <2>5, <3>1, <3>2 DEF ClientPays, Numbers
  <2> QED
    BY <1>1, <1>2, <1>4, <2>2, <2>3, <2>4, <2>5, <2>6, ClientBalance
<1> QED
  BY <1>7, <1>8, <1>9, LiveFrom

\* What the user typed goes to the server.
LEMMA TypingKeeps ==
    ASSUME ShellInv, ShellTypeOK', pc = "keyboard", pc' = AfterKeyboard,
           NEW n \in 1..max_read, n \in UInt32, typed' = typed + n,
           channel' = DataSent(channel, n),
           c2s' = Append(c2s, create_channel_data(channel, n)),
           UNCHANGED <<s2c, tcp, server, requests, received, produced, shown>>
    PROVE  LiveInv'
<1> DEFINE m == create_channel_data(channel, n)
<1>1. /\ pc # "exit" /\ pc' \in InLoop /\ Stage(pc) = "socket"
      /\ Stage(pc') = "socket" /\ ~Waiting /\ pc' # "start"
  BY DEF Stage, InLoop, Waiting, AfterKeyboard
<1>2. /\ ShellTypeOK /\ LiveInv /\ ContentsInv /\ channel \in Channel
      /\ s2c \in Seq(ServerMessage) /\ c2s \in Seq(ClientMessage)
  BY <1>1, Live
<1>3. m \in ClientMessage /\ m.type = "data" /\ m.size = n
  BY <1>2, ClientMessages DEF create_channel_data
<1>4. channel'.remote_window = channel.remote_window - n
  <2>1. /\ channel.remote_window \in UInt32
        /\ channel.remote_max_packet \in Int /\ channel.remote_window \in Int
        /\ KEYBOARD_BUFFER_SIZE \in Int
    BY <1>2, SessionAssumption, ConnectionAssumption DEF Channel, UInt32
  <2>2. n <= channel.remote_window
    BY <2>1 DEF max_read, MinOf
  <2>3. Sub32(channel.remote_window, n) = channel.remote_window - n
    BY <2>1, <2>2, Arithmetic32
  <2> QED
    BY <1>2, <2>3 DEF DataSent, Channel
<1>5. channel'.local_window = channel.local_window /\ SameFlags
  BY <1>2 DEF DataSent, Channel, SameFlags
<1> HIDE DEF m
<1>6. OrderInv'
  <2>1. PICK k \in Nat, a \in Nat : InOrder(k) /\ Asking(k, a)
    BY <1>2 DEF LiveInv, OrderInv
  <2>2. InOrder(k)'
    BY <1>1, <2>1, OrderSame
  <2>3. Plain(m)
    BY <1>3 DEF Plain
  <2>4. Asking(k, a)'
    BY <1>1, <1>2, <1>3, <2>1, <2>3, AskingExtended DEF m
  <2> QED
    BY <2>2, <2>4, OrderFrom
<1>7. ContentsInv'
  <2>1. SendsNoClose
    BY <1>3 DEF SendsNoClose, m
  <2> QED
    BY <1>2, <1>5, <2>1, ContentsSame
<1>8. BooksInv'
  <2>1. Worth(m, n, 0, 0)
    BY <1>3, AmountIs DEF Worth
  <2>2. n \in Nat
    BY ConnectionAssumption DEF UInt32
  <2>3. More(c2s', c2s, n, 0, 0)
    BY <1>2, <1>3, <2>1, <2>2, AppendedIsMore DEF m
  <2>4. More(s2c, s2c', 0, 0, 0)
    BY <1>2, NothingIsMore
  <2>5. ClientPays(0, 0, 0, n, 0, 0)
    <3>1. Offered' = Offered
      BY <1>1, <1>5 DEF Offered
    <3>2. Numbers
      BY <1>2, BookNumbers
    <3> QED
      BY <1>4, <2>2, <3>1, <3>2 DEF ClientPays, Numbers
  <2> QED
    BY <1>1, <1>2, <2>2, <2>3, <2>4, <2>5, ClientBalance
<1> QED
  BY <1>6, <1>7, <1>8, LiveFrom

\* The client shows what the shell wrote and gives v of the window back.
LEMMA DataKeeps ==
    ASSUME ShellInv, ShellTypeOK', pc = "socket", pc' = "loop_end",
           s2c # <<>>, s2c' = Tail(s2c),
           response.type \in {"data", "extended_data"}, SameFlags,
           NEW v \in Nat,
           channel'.local_window + response.size = channel.local_window + v,
           channel'.remote_window = channel.remote_window,
           \/ v = 0 /\ c2s' = c2s
           \/ \E m \in ClientMessage :
                 /\ m.type = "window_adjust" /\ m.bytes_to_add = v
                 /\ c2s' = Append(c2s, m),
           shown' = shown + response.size,
           UNCHANGED <<tcp, server, requests, typed, received, produced>>
    PROVE  LiveInv'
<1>1. /\ pc # "exit" /\ pc' \in Locations \ {"exit"}
      /\ Stage(pc) = "socket" /\ Stage(pc') = "socket" /\ ~Waiting
  BY DEF Stage, InLoop, Waiting, Locations
<1>2. /\ ShellTypeOK /\ LiveInv /\ ContentsInv
      /\ s2c \in Seq(ServerMessage) /\ c2s \in Seq(ClientMessage)
  BY <1>1, Live
<1>3. /\ response = Head(s2c) /\ response \in ServerMessage
      /\ response.size \in Nat
  <2>1. response = Head(s2c) /\ response \in ServerMessage
    BY <1>2, TailIs DEF response
  <2> QED
    BY <2>1, MessageFields, ConnectionAssumption DEF UInt32
<1>4. OrderInv'
  <2>1. Head(s2c).type \in Passing(Stage(pc))
    BY <1>1, <1>3, PassingIs
  <2>2. \/ c2s' = c2s
        \/ \E m \in ClientMessage : Plain(m) /\ c2s' = Append(c2s, m)
    BY DEF Plain
  <2> QED
    BY <1>1, <2>1, <2>2, PassedInOrder
<1>5. ContentsInv'
  <2>1. SendsNoClose
    BY DEF SendsNoClose
  <2> QED
    BY <1>2, <1>3, <2>1, ContentsTaken
<1>6. BooksInv'
  <2>1. Worth(Head(s2c), response.size, 0, 0)
    BY <1>3, AmountIs DEF Worth
  <2>2. More(s2c, s2c', response.size, 0, 0)
    BY <1>2, <2>1, TakenIsMore
  <2>3. More(c2s', c2s, 0, v, 0)
    <3>1. CASE v = 0 /\ c2s' = c2s
      BY <1>2, <3>1, NothingIsMore
    <3>2. ASSUME NEW m \in ClientMessage, m.type = "window_adjust",
                 m.bytes_to_add = v, c2s' = Append(c2s, m)
          PROVE  More(c2s', c2s, 0, v, 0)
      <4>1. Worth(m, 0, v, 0)
        BY <3>2, AmountIs DEF Worth
      <4> QED
        BY <1>2, <3>2, <4>1, AppendedIsMore
    <3> QED
      BY <3>1, <3>2
  <2>4. ClientPays(response.size, 0, 0, 0, v, 0)
    <3>1. Numbers
      BY <1>2, BookNumbers
    <3> QED
      BY <1>3, <3>1 DEF ClientPays, Numbers, Offered
  <2> QED
    BY <1>1, <1>2, <1>3, <2>2, <2>3, <2>4, ClientBalance
<1> QED
  BY <1>4, <1>5, <1>6, LiveFrom

\* EOF, the exit status or CLOSE: the windows stay as they are.
LEMMA EndKeeps ==
    ASSUME ShellInv, ShellTypeOK', pc = "socket", pc' = "loop_end",
           s2c # <<>>, s2c' = Tail(s2c),
           response.type \in {"eof", "request", "close"},
           channel'.local_window = channel.local_window,
           channel'.remote_window = channel.remote_window,
           \/ c2s' = c2s
           \/ \E m \in ClientMessage :
                 m.type = "close" /\ c2s' = Append(c2s, m),
           ContentsInv', UNCHANGED <<tcp, server, counters>>
    PROVE  LiveInv'
<1>1. /\ pc # "exit" /\ pc' \in Locations \ {"exit"}
      /\ Stage(pc) = "socket" /\ Stage(pc') = "socket" /\ ~Waiting
  BY DEF Stage, InLoop, Waiting, Locations
<1>2. /\ ShellTypeOK /\ LiveInv
      /\ s2c \in Seq(ServerMessage) /\ c2s \in Seq(ClientMessage)
  BY <1>1, Live
<1>3. response = Head(s2c) /\ response \in ServerMessage
  BY <1>2, TailIs DEF response
<1>4. OrderInv'
  <2>1. Head(s2c).type \in Passing(Stage(pc))
    BY <1>1, <1>3, PassingIs
  <2>2. \/ c2s' = c2s
        \/ \E m \in ClientMessage : Plain(m) /\ c2s' = Append(c2s, m)
    BY DEF Plain
  <2> QED
    BY <1>1, <2>1, <2>2, PassedInOrder
<1>5. BooksInv'
  <2>1. Worth(Head(s2c), 0, 0, 0)
    BY <1>3, AmountIs DEF Worth
  <2>2. More(s2c, s2c', 0, 0, 0)
    BY <1>2, <2>1, TakenIsMore
  <2>3. More(c2s', c2s, 0, 0, 0)
    <3>1. CASE c2s' = c2s
      BY <1>2, <3>1, NothingIsMore
    <3>2. ASSUME NEW m \in ClientMessage, m.type = "close", c2s' = Append(c2s, m)
          PROVE  More(c2s', c2s, 0, 0, 0)
      <4>1. Worth(m, 0, 0, 0)
        BY <3>2, AmountIs DEF Worth
      <4> QED
        BY <1>2, <3>2, <4>1, AppendedIsMore
    <3> QED
      BY <3>1, <3>2
  <2>4. UNCHANGED <<received, produced, typed, shown>>
    BY DEF counters
  <2>5. ClientPays(0, 0, 0, 0, 0, 0)
    <3>1. Numbers
      BY <1>2, BookNumbers
    <3> QED
      BY <2>4, <3>1 DEF ClientPays, Numbers, Offered
  <2> QED
    BY <1>1, <1>2, <2>2, <2>3, <2>4, <2>5, ClientBalance
<1> QED
  BY <1>4, <1>5, LiveFrom

-------------------------------------------------------------------------------
(***************************************************************************)
(* Every step of the client, first as a step of Session.                   *)
(***************************************************************************)
LEMMA ClientIsNext ==
    ASSUME ClientStep
    PROVE  Next
BY DEF ClientStep, ClientProceeds, Types, Shows, Works, Next, Client, ClientWorks

LEMMA NotYetClosed ==
    ASSUME SessionInv, pc \in {"start", "keyboard"} \cup Receiving
    PROVE  ~channel.local_close_sent /\ pc # "exit"
BY DEF SessionInv, OpenInv, Receiving

\* The data of a packet has been written by the shell.
LEMMA ShownWasProduced ==
    ASSUME ShellInv, pc \in Receiving, s2c # <<>>,
           response.type \in {"data", "extended_data"}
    PROVE  response.size \in Nat /\ shown + response.size <= produced
<1>1. /\ pc # "exit" /\ ShellTypeOK /\ LiveInv /\ s2c \in Seq(ServerMessage)
      /\ response = Head(s2c) /\ response \in ServerMessage
      /\ Tail(s2c) \in Seq(ServerMessage)
  BY Live, TailIs DEF Receiving, response
<1>2. response.size \in Nat
  BY <1>1, MessageFields, ConnectionAssumption DEF UInt32
<1>3. Worth(Head(s2c), response.size, 0, 0)
  BY <1>1, AmountIs DEF Worth
<1>4. InFlight("data", s2c) = response.size + InFlight("data", Tail(s2c))
  BY <1>1, <1>3, TakenIsMore DEF More
<1>5. InFlight("data", Tail(s2c)) \in Nat
  BY <1>1, InFlightNat DEF Kinds
<1>6. produced = shown + InFlight("data", s2c)
  BY <1>1 DEF LiveInv, BooksInv
<1>7. shown \in Nat
  BY <1>1, ServerFields
<1> QED
  BY <1>2, <1>4, <1>5, <1>6, <1>7

LEMMA ClientTypes ==
    ASSUME ShellInv, ClientStep
    PROVE  SessionInv' /\ ShellTypeOK'
<1>1. SessionInv'
  BY ClientIsNext, InvStep DEF ShellInv
<1> SUFFICES ShellTypeOK'
  BY <1>1
<1>2. TypeOK'
  BY <1>1 DEF SessionInv
<1>3. ShellTypeOK
  BY DEF ShellInv
<1>4. CASE UNCHANGED <<server, counters>>
  BY <1>2, <1>3, <1>4 DEF ShellTypeOK, counters
<1>5. ASSUME NEW n \in 1..KEYBOARD_BUFFER_SIZE, Types(n) PROVE ShellTypeOK'
  <2>1. typed' \in 0..MaxTyped
    BY <1>3, <1>5, SessionAssumption, ShellSessionAssumption
       DEF Types, ShellTypeOK
  <2>2. UNCHANGED <<server, requests, received, produced, shown>>
    BY <1>5 DEF Types
  <2> QED
    BY <1>2, <1>3, <2>1, <2>2 DEF ShellTypeOK
<1>6. CASE Shows
  <2>1. /\ pc \in Receiving /\ s2c # <<>>
        /\ response.type \in {"data", "extended_data"}
    BY <1>6 DEF Shows, ReceiveData, Receive, Receiving
  <2>2. response.size \in Nat /\ shown + response.size <= produced
    BY <2>1, ShownWasProduced
  <2>3. shown' = shown + response.size
    BY <1>6 DEF Shows
  <2>4. shown \in 0..MaxOutput /\ produced \in 0..MaxOutput
    BY <1>3 DEF ShellTypeOK
  <2>5. shown' \in 0..MaxOutput
    BY <2>2, <2>3, <2>4, ShellSessionAssumption
  <2>6. UNCHANGED <<server, requests, typed, received, produced>>
    BY <1>6 DEF Shows
  <2> QED
    BY <1>2, <1>3, <2>5, <2>6 DEF ShellTypeOK
<1> QED
  BY <1>4, <1>5, <1>6 DEF ClientStep, ClientProceeds, Works

\* What a step has to show besides.
Safe == NeverRejected /\ CompleteAtExit /\ (pc # "exit" => LiveInv)

LEMMA GoesOn ==
    ASSUME SessionInv', pc' # "exit", LiveInv'
    PROVE  Safe'
BY DEF SessionInv, Safe, NeverRejected, CompleteAtExit

LEMMA Aborts ==
    ASSUME Throw("system") \/ Throw("lost")
    PROVE  Safe'
BY DEF Throw, Safe, NeverRejected, CompleteAtExit

\* The steps of the set-up.
LEMMA SetUpSafe ==
    ASSUME ShellInv, SessionInv', ShellTypeOK', UNCHANGED <<server, counters>>,
           \/ open_session_channel
           \/ ReceiveOpenConfirmation
           \/ ReceivePtySuccess
           \/ ReceiveShellSuccess
    PROVE  Safe'
<1>0. SessionInv
  BY DEF ShellInv
<1>1. CASE open_session_channel
  <2>1. pc = "start" /\ ~channel.local_close_sent /\ pc # "exit"
    BY <1>0, <1>1, NotYetClosed DEF open_session_channel
  <2>2. /\ c2s' = Append(c2s, create_session_open(channel))
        /\ channel' = channel /\ pc' = "opening"
    BY <1>1, <2>1, SentIs DEF open_session_channel
  <2>3. UNCHANGED <<s2c, tcp>>
    BY <1>1 DEF open_session_channel
  <2>4. LiveInv'
    BY <2>1, <2>2, <2>3, OpenKeeps
  <2> QED
    BY <2>2, <2>4, GoesOn
<1>2. CASE ReceiveOpenConfirmation
  <2> DEFINE ch == parse_open_confirmation(channel, response)
  <2>1. /\ pc = "opening" /\ s2c # <<>> /\ s2c' = Tail(s2c)
        /\ response.type = "open_confirmation" /\ tcp' = tcp
    BY <1>2 DEF ReceiveOpenConfirmation, Receive
  <2>2. ~channel.local_close_sent /\ pc # "exit"
    BY <1>0, <2>1, NotYetClosed DEF Receiving
  <2>3. PICK info \in TerminalInfos :
           create_and_send(can_create_pty_request(ch, info),
                           create_pty_request(ch), ch, "pty")
    BY <1>2 DEF ReceiveOpenConfirmation
  <2> HIDE DEF ch
  <2>4. c2s' = Append(c2s, create_pty_request(ch)) /\ channel' = ch /\ pc' = "pty"
    BY <2>2, <2>3, SentIs
  <2>5. LiveInv'
    BY <2>1, <2>4, ConfirmedKeeps DEF ch
  <2> QED
    BY <2>4, <2>5, GoesOn
<1>3. CASE ReceivePtySuccess
  <2>1. /\ pc = "pty" /\ s2c # <<>> /\ s2c' = Tail(s2c)
        /\ response.type = "success" /\ tcp' = tcp
    BY <1>3 DEF ReceivePtySuccess, Receive
  <2>2. ~channel.local_close_sent /\ pc # "exit"
    BY <1>0, <2>1, NotYetClosed DEF Receiving
  <2>3. /\ c2s' = Append(c2s, create_shell_request(channel))
        /\ channel' = channel /\ pc' = "shell"
    BY <1>3, <2>2, SentIs DEF ReceivePtySuccess
  <2>4. LiveInv'
    BY <2>1, <2>3, PtyKeeps
  <2> QED
    BY <2>3, <2>4, GoesOn
<1>4. CASE ReceiveShellSuccess
  <2>1. /\ pc = "shell" /\ s2c # <<>> /\ s2c' = Tail(s2c)
        /\ response.type = "success" /\ UNCHANGED <<tcp, c2s>>
    BY <1>4 DEF ReceiveShellSuccess, Receive
  <2>2. CASE pc' = "poll" /\ UNCHANGED channel
    <3>1. LiveInv'
      BY <2>1, <2>2, ShellKeeps
    <3> QED
      BY <2>2, <3>1, GoesOn
  <2>3. CASE Throw("system")
    BY <2>3, Aborts
  <2> QED
    BY <1>4, <2>2, <2>3 DEF ReceiveShellSuccess
<1> QED
  BY <1>1, <1>2, <1>3, <1>4

\* The messages that leave the client where it is, and those it cannot take.
LEMMA TakingSafe ==
    ASSUME ShellInv, SessionInv', ShellTypeOK', UNCHANGED <<server, counters>>,
           \/ handle_global_request
           \/ ReceiveWindowAdjust
           \/ ReceiveRejected
           \/ ReceiveFails
    PROVE  Safe'
<1>0. SessionInv
  BY DEF ShellInv
<1>1. CASE handle_global_request
  <2>1. PICK at \in Receiving :
           /\ Receive(at, {"global_request"})
           /\ \/ /\ response.want_reply
                 /\ send_packet(create_request_failure, channel, StayAt(at))
              \/ /\ ~response.want_reply
                 /\ Continue(channel, StayAt(at)) /\ UNCHANGED c2s
    BY <1>1 DEF handle_global_request
  <2>2. /\ pc = at /\ s2c # <<>> /\ s2c' = Tail(s2c)
        /\ response.type = "global_request" /\ tcp' = tcp
    BY <2>1 DEF Receive
  <2>3. ~channel.local_close_sent /\ pc # "exit"
    BY <1>0, <2>2, NotYetClosed
  <2>4. /\ channel' = channel /\ pc' = StayAt(at)
        /\ IF response.want_reply
           THEN c2s' = Append(c2s, create_request_failure) ELSE c2s' = c2s
    <3>1. CASE response.want_reply
      BY <2>1, <2>3, <3>1, PacketSent
    <3>2. CASE ~response.want_reply
      BY <2>1, <3>2 DEF Continue
    <3> QED
      BY <3>1, <3>2
  <2>5. LiveInv'
    BY <2>2, <2>4, GlobalKeeps
  <2>6. pc' # "exit"
    BY <2>4 DEF StayAt, Receiving
  <2> QED
    BY <2>5, <2>6, GoesOn
<1>2. CASE ReceiveWindowAdjust
  <2>1. PICK at \in Receiving :
           /\ Receive(at, {"window_adjust"})
           /\ Continue(parse_window_adjust(channel, response), StayAt(at))
           /\ UNCHANGED c2s
    BY <1>2 DEF ReceiveWindowAdjust
  <2>2. /\ pc = at /\ s2c # <<>> /\ s2c' = Tail(s2c)
        /\ response.type = "window_adjust" /\ tcp' = tcp
        /\ Accepts(at, response)
    BY <2>1 DEF Receive
  <2>3. /\ channel' = parse_window_adjust(channel, response)
        /\ pc' = StayAt(at) /\ c2s' = c2s
    BY <2>1 DEF Continue
  <2>4. LiveInv'
    BY <2>2, <2>3, AdjustKeeps
  <2>5. pc' # "exit"
    BY <2>3 DEF StayAt, Receiving
  <2> QED
    BY <2>4, <2>5, GoesOn
<1>3. CASE ReceiveRejected
  BY <1>3, Accepted DEF ReceiveRejected
<1>4. CASE ReceiveFails
  BY <1>4, Aborts DEF ReceiveFails
<1> QED
  BY <1>1, <1>2, <1>3, <1>4

\* The steps of the loop in which nothing is received.
LEMMA LoopSafe ==
    ASSUME ShellInv, SessionInv', ShellTypeOK', UNCHANGED <<server, counters>>,
           \/ Poll
           \/ KeyboardEof
           \/ LoopAgain
           \/ LoopExit
           \/ SystemCallFails
    PROVE  Safe'
<1>1. ASSUME pc \in InLoop, pc' \in InLoop,
             UNCHANGED <<channel, s2c, c2s, tcp>>
      PROVE  Safe'
  <2>1. LiveInv'
    BY <1>1, QuietKeeps
  <2> QED
    BY <1>1, <2>1, GoesOn DEF InLoop
<1>2. CASE Poll
  BY <1>1, <1>2 DEF Poll, InLoop
<1>3. CASE KeyboardEof
  BY <1>1, <1>3 DEF KeyboardEof, Continue, AfterKeyboard, InLoop
<1>4. CASE LoopAgain
  <2>1. CASE Throw("lost")
    BY <2>1, Aborts
  <2>2. CASE Continue(channel, "poll")
    BY <1>1, <1>4, <2>2 DEF LoopAgain, Continue, InLoop
  <2> QED
    BY <1>4, <2>1, <2>2 DEF LoopAgain
<1>5. CASE LoopExit
  <2>1. CASE Throw("system")
    BY <2>1, Aborts
  <2>2. CASE pc' = "exit" /\ result' = "ok" /\ UNCHANGED channel
    <3>1. pc = "loop_end" /\ ~channel.open
      BY <1>5 DEF LoopExit
    <3>2. ShellTypeOK /\ LiveInv /\ channel.remote_close_received
      BY <3>1, Live DEF ShellInv, SessionInv, OpenInv
    <3>3. s2c = <<>>
      BY <3>2 DEF LiveInv, CloseInv
    <3>4. shown = produced
      <4>1. InFlight("data", s2c) = 0
        BY <3>3, NoneInFlight DEF Kinds
      <4>2. produced = shown + InFlight("data", s2c)
        BY <3>2 DEF LiveInv, BooksInv
      <4>3. shown \in Nat
        BY <3>2, ServerFields
      <4> QED
        BY <4>1, <4>2, <4>3
    <3>5. channel.exit_status_received = server.exit_sent
      <4>1. server.exit_sent => channel.exit_status_received
        <5>1. ~ \E i \in 1..Len(s2c) : s2c[i].type = "request"
          BY <3>3
        <5> QED
          BY <3>2, <5>1 DEF LiveInv, StatusInv
      <4>2. ~server.exit_sent => ~channel.exit_status_received
        BY <3>2 DEF LiveInv, StatusInv, Once
      <4> QED
        BY <3>2, <4>1, <4>2, FlagTypes
    <3>6. server.exit_sent => channel.exit_status = EXIT_STATUS
      BY <3>2, <3>5 DEF LiveInv, StatusInv
    <3>7. CompleteAtExit'
      BY <2>2, <3>4, <3>5, <3>6 DEF CompleteAtExit, counters
    <3> QED
      BY <2>2, <3>7 DEF Safe, NeverRejected
  <2> QED
    BY <1>5, <2>1, <2>2 DEF LoopExit
<1>6. CASE SystemCallFails
  BY <1>6, Aborts DEF SystemCallFails
<1> QED
  BY <1>2, <1>3, <1>4, <1>5, <1>6

\* The bytes of the two streams.
LEMMA TypesSafe ==
    ASSUME ShellInv, SessionInv', ShellTypeOK',
           NEW n \in 1..KEYBOARD_BUFFER_SIZE, Types(n)
    PROVE  Safe'
<1>1. pc = "keyboard" /\ n \in 1..max_read /\ UNCHANGED <<s2c, tcp>>
  BY DEF Types, Keyboard
<1>2. ~channel.local_close_sent /\ pc # "exit"
  BY <1>1, NotYetClosed DEF ShellInv
<1>3. /\ c2s' = Append(c2s, create_channel_data(channel, n))
      /\ channel' = DataSent(channel, n) /\ pc' = AfterKeyboard
  BY <1>2, SentIs DEF Types, Keyboard
<1>4. n \in UInt32
  BY SessionAssumption, ConnectionAssumption DEF UInt32
<1>5. /\ typed' = typed + n
      /\ UNCHANGED <<server, requests, received, produced, shown>>
  BY DEF Types
<1>6. LiveInv'
  BY <1>1, <1>3, <1>4, <1>5, TypingKeeps
<1>7. pc' # "exit"
  BY <1>3 DEF AfterKeyboard
<1> QED
  BY <1>6, <1>7, GoesOn

LEMMA ShowsSafe ==
    ASSUME ShellInv, SessionInv', ShellTypeOK', Shows
    PROVE  Safe'
<1> DEFINE ch == parse_channel_data(channel, response)
           difference == Sub32(LOCAL_WINDOW_TARGET, ch.local_window)
<1>1. /\ pc = "socket" /\ s2c # <<>> /\ s2c' = Tail(s2c)
      /\ response.type \in {"data", "extended_data"} /\ tcp' = tcp
      /\ Accepts("socket", response)
  BY DEF Shows, ReceiveData, Receive
<1>2. ~channel.local_close_sent /\ pc # "exit" /\ SessionInv
  BY <1>1, NotYetClosed DEF ShellInv, Receiving
<1>3. /\ channel \in Channel /\ s2c \in Seq(ServerMessage)
      /\ response \in ServerMessage /\ response.size \in UInt32
      /\ channel.local_window \in UInt32
  <2>1. channel \in Channel /\ s2c \in Seq(ServerMessage)
    BY <1>2, Live
  <2>2. response \in ServerMessage
    BY <1>1, <2>1, TailIs DEF response
  <2> QED
    BY <1>1, <2>1, <2>2, MessageFields DEF Channel
<1>4. response.size <= channel.local_window
  BY <1>1 DEF Accepts, accepts_channel_data, accepts_channel_extended_data,
              FitsLocalWindow
<1>5. /\ ch \in Channel
      /\ ch.local_window = channel.local_window - response.size
      /\ ch.remote_window = channel.remote_window
  <2>1. Sub32(channel.local_window, response.size)
           = channel.local_window - response.size
    BY <1>3, <1>4, Arithmetic32
  <2>2. ch \in Channel
    BY <1>1, <1>3, ChannelUpdates
  <2> QED
    BY <1>3, <2>1, <2>2 DEF parse_channel_data, Channel
<1>6. /\ shown' = shown + response.size
      /\ UNCHANGED <<server, requests, typed, received, produced>>
  BY DEF Shows
<1>7. CASE NeedsAdjust(ch) /\ create_and_send(
                   can_create_window_adjust(ch, difference),
                   create_window_adjust(ch, difference),
                   [ch EXCEPT !.local_window = Add32(@, difference)], "loop_end")
  <2>1. /\ c2s' = Append(c2s, create_window_adjust(ch, difference))
        /\ channel' = [ch EXCEPT !.local_window = Add32(@, difference)]
        /\ pc' = "loop_end"
    BY <1>2, <1>7, SentIs
  <2>2. /\ ch.local_window \in UInt32 /\ ch.local_window <= LOCAL_WINDOW_TARGET
        /\ LOCAL_WINDOW_TARGET \in UInt32
    <3>1. channel.local_window <= LOCAL_WINDOW_TARGET
      BY <1>2, SessionAssumption, ConnectionAssumption
         DEF SessionInv, WindowInv, UInt32
    <3>2. ch.local_window \in UInt32
      BY <1>5 DEF Channel
    <3> QED
      BY <1>3, <1>5, <3>1, <3>2, SessionAssumption, ConnectionAssumption DEF UInt32
  <2>3. difference = LOCAL_WINDOW_TARGET - ch.local_window /\ difference \in UInt32
    BY <2>2, Arithmetic32
  <2> HIDE DEF difference
  <2>4. Add32(ch.local_window, difference) = LOCAL_WINDOW_TARGET
    BY <2>2, <2>3, SessionAssumption, ConnectionAssumption DEF Add32, UInt32
  <2>5. /\ channel'.local_window = LOCAL_WINDOW_TARGET
        /\ channel'.remote_window = channel.remote_window
    BY <1>5, <2>1, <2>4 DEF Channel
  <2>6. SameFlags
    BY <1>3, <2>1 DEF SameFlags, parse_channel_data, Channel
  <2>7. PICK m \in ClientMessage :
           /\ m.type = "window_adjust" /\ m.bytes_to_add = difference
           /\ c2s' = Append(c2s, m)
    <3>1. create_window_adjust(ch, difference) \in ClientMessage
      BY <1>5, <2>3, ClientMessages
    <3> QED
      BY <2>1, <3>1 DEF create_window_adjust
  <2>8. /\ difference \in Nat
        /\ channel'.local_window + response.size = channel.local_window + difference
    BY <1>3, <1>5, <2>2, <2>3, <2>5, ConnectionAssumption DEF UInt32
  <2> HIDE DEF ch
  <2>9. LiveInv'
    BY <1>1, <1>6, <2>1, <2>5, <2>6, <2>7, <2>8, DataKeeps
  <2> QED
    BY <2>1, <2>9, GoesOn
<1>8. CASE Continue(ch, "loop_end") /\ UNCHANGED c2s
  <2>1. channel' = ch /\ pc' = "loop_end" /\ c2s' = c2s
    BY <1>8 DEF Continue
  <2>2. SameFlags
    BY <1>3, <2>1 DEF SameFlags, parse_channel_data, Channel
  <2> HIDE DEF ch
  <2>3. /\ channel'.local_window + response.size = channel.local_window + 0
        /\ channel'.remote_window = channel.remote_window
    BY <1>3, <1>5, <2>1, ConnectionAssumption DEF UInt32
  <2>4. LiveInv'
    BY <1>1, <1>6, <2>1, <2>2, <2>3, DataKeeps
  <2> QED
    BY <2>1, <2>4, GoesOn
<1> QED
  BY <1>7, <1>8 DEF Shows, ReceiveData

\* The messages that end the stream, report the status, close the channel.
LEMMA EndSafe ==
    ASSUME ShellInv, SessionInv', ShellTypeOK', UNCHANGED <<server, counters>>,
           ReceiveEof \/ ReceiveExitStatus \/ ReceiveClose
    PROVE  Safe'
<1>1. /\ pc = "socket" /\ s2c # <<>> /\ s2c' = Tail(s2c) /\ tcp' = tcp
      /\ response.type \in {"eof", "request", "close"}
  BY DEF ReceiveEof, ReceiveExitStatus, ReceiveClose, Receive
<1>2. ~channel.local_close_sent /\ pc # "exit"
  BY <1>1, NotYetClosed DEF ShellInv, Receiving
<1>3. /\ ShellTypeOK /\ ContentsInv /\ channel \in Channel /\ server' = server
      /\ response = Head(s2c)
  BY <1>2, Live DEF response
<1>4. CASE ReceiveEof
  <2>1. /\ response.type = "eof" /\ channel' = parse_channel_eof(channel)
        /\ c2s' = c2s /\ pc' = "loop_end"
    BY <1>4 DEF ReceiveEof, Receive, Continue
  <2>2. ContentsInv'
    BY <1>1, <1>3, <2>1, ContentsEof
  <2>3. /\ channel'.local_window = channel.local_window
        /\ channel'.remote_window = channel.remote_window
    BY <1>3, <2>1 DEF parse_channel_eof, Channel
  <2>4. LiveInv'
    BY <1>1, <2>1, <2>2, <2>3, EndKeeps
  <2> QED
    BY <2>1, <2>4, GoesOn
<1>5. CASE ReceiveExitStatus
  <2>1. /\ response.type = "request"
        /\ channel' = parse_exit_status(channel, response)
        /\ c2s' = c2s /\ pc' = "loop_end"
    BY <1>5 DEF ReceiveExitStatus, Receive, Continue
  <2>2. ContentsInv'
    BY <1>1, <1>3, <2>1, ContentsStatus
  <2>3. /\ channel'.local_window = channel.local_window
        /\ channel'.remote_window = channel.remote_window
    BY <1>3, <2>1 DEF parse_exit_status, Channel
  <2>4. LiveInv'
    BY <1>1, <2>1, <2>2, <2>3, EndKeeps
  <2> QED
    BY <2>1, <2>4, GoesOn
<1>6. CASE ReceiveClose
  <2> DEFINE ch == parse_channel_close(channel)
  <2>1. ch \in Channel /\ ~ch.local_close_sent
    BY <1>2, <1>3 DEF parse_channel_close, Channel
  <2>2. create_and_send(can_create_channel_close(ch), create_channel_close(ch),
                        CloseSent(ch), "loop_end")
    BY <1>6, <2>1 DEF ReceiveClose
  <2>3. /\ c2s' = Append(c2s, create_channel_close(ch))
        /\ channel' = CloseSent(ch) /\ pc' = "loop_end"
    BY <1>2, <2>2, SentIs
  <2>4. response.type = "close"
    BY <1>6 DEF ReceiveClose, Receive
  <2>5. ContentsInv'
    BY <1>1, <1>3, <2>3, <2>4, ContentsClose
  <2>6. /\ channel'.local_window = channel.local_window
        /\ channel'.remote_window = channel.remote_window
    BY <1>3, <2>3 DEF parse_channel_close, CloseSent, Channel
  <2>7. PICK m \in ClientMessage : m.type = "close" /\ c2s' = Append(c2s, m)
    <3>1. create_channel_close(ch) \in ClientMessage
      BY <2>1, SessionAssumption, ClientMessages
    <3> QED
      BY <2>3, <3>1 DEF create_channel_close
  <2>8. LiveInv'
    BY <1>1, <2>3, <2>5, <2>6, <2>7, EndKeeps
  <2> QED
    BY <2>3, <2>8, GoesOn
<1> QED
  BY <1>4, <1>5, <1>6

LEMMA ClientSafe ==
    ASSUME ShellInv, ClientStep
    PROVE  ShellInv'
<1>1. SessionInv' /\ ShellTypeOK'
  BY ClientTypes
<1>2. Safe'
  BY <1>1, SetUpSafe, TakingSafe, LoopSafe, TypesSafe, ShowsSafe, EndSafe
     DEF ClientStep, ClientProceeds, Works
<1> QED
  BY <1>1, <1>2 DEF Safe, ShellInv

-------------------------------------------------------------------------------
(***************************************************************************)
(* The server's steps, which leave the client alone.                       *)
(***************************************************************************)
ServerState ==
    [phase : ServerPhases, send_window : UInt32, recv_window : UInt32,
     reply : {"none", "confirmation", "pty-req", "shell"},
     eof_sent : BOOLEAN, exit_sent : BOOLEAN,
     close_received : BOOLEAN, unanswered : Nat]

LEMMA ServerFrame ==
    ASSUME ShellInv, UNCHANGED clientVars,
           s2c' \in Seq(ServerMessage), c2s' \in Seq(ClientMessage),
           tcp' \in {"up", "fin", "reset", "broken"}, server' \in ServerState,
           requests' \in 0..MaxGlobalRequests,
           received' \in 0..MaxTyped, produced' \in 0..MaxOutput,
           typed' = typed, shown' = shown
    PROVE  SessionInv' /\ ShellTypeOK'
<1>1. SessionInv /\ ShellTypeOK /\ TypeOK
  BY DEF ShellInv, SessionInv
<1>2. SessionInvRest'
  BY <1>1, ServerKeeps
<1>3. TypeOK'
  BY <1>1 DEF TypeOK, clientVars, terminalVars, TerminalTypeOK
<1>4. SessionInv'
  BY <1>2, <1>3 DEF SessionInv, SessionInvRest
<1>5. ShellTypeOK'
  BY <1>1, <1>3 DEF ShellTypeOK, ServerState
<1> QED
  BY <1>4, <1>5

LEMMA ServerGoesOn ==
    ASSUME pc # "exit", pc' = pc, SessionInv', ShellTypeOK', LiveInv'
    PROVE  ShellInv'
<1>1. Safe'
  BY GoesOn
<1> QED
  BY <1>1 DEF Safe, ShellInv

\* What comes off c2s is covered by the client's window, the server's, the
\* questions asked and the bytes typed.
LEMMA ReadBounds ==
    ASSUME ShellInv, pc # "exit", c2s # <<>>,
           NEW e \in Nat, NEW v \in Nat, NEW s \in Nat,
           Worth(Head(c2s), e, v, s)
    PROVE  /\ Head(c2s) \in ClientMessage
           /\ server.send_window + v <= Offered
           /\ server.send_window + v \in UInt32
           /\ server.recv_window - e \in UInt32
           /\ server.recv_window - e <= SERVER_WINDOW
           /\ server.phase = "idle" => server.recv_window - e = 0
           /\ server.unanswered - s \in Nat
           /\ received + e \in 0..MaxTyped
<1>1. /\ ShellTypeOK /\ LiveInv /\ c2s \in Seq(ClientMessage)
      /\ Head(c2s) \in ClientMessage /\ Tail(c2s) \in Seq(ClientMessage)
  BY Live, TailIs
<1>2. Numbers /\ BooksInv
  BY <1>1, BookNumbers DEF LiveInv
<1>3. /\ InFlight("data", c2s) = e + InFlight("data", Tail(c2s))
      /\ InFlight("window", c2s) = v + InFlight("window", Tail(c2s))
      /\ InFlight("reply", c2s) = s + InFlight("reply", Tail(c2s))
  BY <1>1, TakenIsMore DEF More
<1>4. /\ InFlight("data", Tail(c2s)) \in Nat /\ InFlight("window", Tail(c2s)) \in Nat
      /\ InFlight("reply", Tail(c2s)) \in Nat
  BY <1>1, InFlightNat DEF Kinds
<1>5. server.send_window + v <= Offered
  <2>1. Offered = server.send_window
                   + InFlight("data", s2c) + InFlight("window", c2s)
    BY <1>2 DEF BooksInv
  <2>2. /\ server.send_window \in Nat /\ InFlight("data", s2c) \in Nat
    BY <1>2 DEF Numbers
  <2> QED
    BY <1>3, <1>4, <2>1, <2>2
<1>6. server.send_window + v \in UInt32
  <2>1. Offered <= UINT32_MAX
    BY <1>1, ServerFields, ConnectionAssumption DEF Offered, UInt32
  <2>2. server.send_window \in Nat /\ Offered \in Nat
    BY <1>2 DEF Numbers
  <2> QED
    BY <1>5, <2>1, <2>2, ConnectionAssumption DEF UInt32
<1>7. e <= server.recv_window
  <2>1. server.recv_window = channel.remote_window
                   + InFlight("data", c2s) + InFlight("window", s2c)
    BY <1>2 DEF BooksInv
  <2>2. /\ channel.remote_window \in Nat /\ InFlight("window", s2c) \in Nat
    BY <1>2 DEF Numbers
  <2> QED
    BY <1>3, <1>4, <2>1, <2>2
<1>8. /\ server.recv_window - e \in UInt32
      /\ server.recv_window - e <= SERVER_WINDOW
      /\ server.phase = "idle" => server.recv_window - e = 0
  <2>1. server.recv_window \in UInt32
    BY <1>1, ServerFields
  <2>2. /\ server.recv_window <= SERVER_WINDOW /\ SERVER_WINDOW \in Nat
        /\ server.phase = "idle" => server.recv_window = 0
    BY <1>2, ShellSessionAssumption, ConnectionAssumption DEF BooksInv
  <2> QED
    BY <1>7, <2>1, <2>2, ConnectionAssumption DEF UInt32
<1>9. server.unanswered - s \in Nat
  <2>1. server.unanswered = InFlight("reply", s2c) + InFlight("reply", c2s)
    BY <1>2 DEF BooksInv
  <2>2. /\ InFlight("reply", s2c) \in Nat
    BY <1>2 DEF Numbers
  <2> QED
    BY <1>3, <1>4, <2>1, <2>2
<1>10. received + e \in 0..MaxTyped
  <2>1. typed = received + InFlight("data", c2s)
    BY <1>2 DEF BooksInv
  <2>2. typed \in 0..MaxTyped /\ received \in Nat
    BY <1>1, <1>2, ShellSessionAssumption DEF ShellTypeOK, Numbers
  <2> QED
    BY <1>3, <1>4, <2>1, <2>2, ShellSessionAssumption
<1> QED
  BY <1>1, <1>5, <1>6, <1>8, <1>9, <1>10

\* The server takes a message.
LEMMA ReadKeeps ==
    ASSUME ShellInv, pc # "exit", c2s # <<>>, c2s' = Tail(c2s),
           UNCHANGED <<clientVars, s2c, tcp, requests, typed, produced, shown>>,
           NEW e \in Nat, NEW v \in Nat, NEW s \in Nat,
           Worth(Head(c2s), e, v, s), received' = received + e,
           server' \in ServerState,
           server'.phase = server.phase, server'.eof_sent = server.eof_sent,
           server'.exit_sent = server.exit_sent,
           server'.close_received =
             (server.close_received \/ Head(c2s).type = "close"),
           \/ Plain(Head(c2s)) /\ server'.reply = server.reply
           \/ ~Plain(Head(c2s)) /\ server'.reply = ReplyTo(Stage(pc)),
           server'.send_window = server.send_window + v,
           server'.recv_window = server.recv_window - e,
           server'.unanswered = server.unanswered - s
    PROVE  ShellInv'
<1>1. /\ ShellTypeOK /\ LiveInv /\ ContentsInv /\ TypeOK
      /\ s2c \in Seq(ServerMessage) /\ c2s \in Seq(ClientMessage)
      /\ c2s' \in Seq(ClientMessage)
  BY Live, TailIs
<1>2. pc' = pc /\ channel' = channel
  BY DEF clientVars
<1>3. SessionInv' /\ ShellTypeOK'
  <2>1. received' \in 0..MaxTyped
    BY ReadBounds
  <2>2. /\ requests' \in 0..MaxGlobalRequests /\ produced' \in 0..MaxOutput
        /\ tcp' \in {"up", "fin", "reset", "broken"}
    BY <1>1 DEF ShellTypeOK, TypeOK
  <2> QED
    BY <1>1, <2>1, <2>2, ServerFrame
<1>4. OrderInv'
  <2>1. PICK k \in Nat, a \in Nat : InOrder(k) /\ Asking(k, a)
    BY <1>1 DEF LiveInv, OrderInv
  <2>2. InOrder(k)'
    BY <1>2, <2>1, OrderSame DEF Waiting
  <2>3. CASE Plain(Head(c2s)) /\ server'.reply = server.reply
    <3>1. PICK b \in Nat : Asking(k, b)'
      BY <1>1, <1>2, <2>1, <2>3, AskingPassed
    <3> QED
      BY <2>2, <3>1, OrderFrom
  <2>4. CASE ~Plain(Head(c2s)) /\ server'.reply = ReplyTo(Stage(pc))
    <3>1. k = 0 /\ Asking(0, 0)'
      BY <1>1, <1>2, <2>1, <2>4, AskingTaken
    <3> QED
      BY <2>2, <3>1, OrderFrom
  <2> QED
    BY <2>3, <2>4
<1>5. ContentsInv'
  BY <1>1, <1>2, ContentsRead
<1>6. BooksInv'
  <2>1. More(s2c', s2c, 0, 0, 0)
    BY <1>1, NothingIsMore
  <2>2. More(c2s, c2s', e, v, s)
    BY <1>1, TakenIsMore
  <2>3. ServerPays(0, 0, 0, e, v, s)
    <3>1. /\ server.send_window \in Nat /\ server.recv_window \in Nat
          /\ server.unanswered \in Nat /\ produced \in Nat
      BY <1>1, BookNumbers DEF Numbers
    <3>2. /\ produced' = produced + 0
          /\ server'.send_window + 0 = server.send_window + v
      BY <3>1
    <3>3. server'.recv_window + e = server.recv_window + 0
      BY <3>1
    <3>4. server'.unanswered + s = server.unanswered + 0
      BY <3>1
    <3> QED
      BY <3>2, <3>3, <3>4 DEF ServerPays
  <2>4. /\ server'.recv_window <= SERVER_WINDOW
        /\ server'.phase = "idle" => server'.recv_window = 0
    BY ReadBounds
  <2> QED
    BY <1>1, <1>2, <1>3, <2>1, <2>2, <2>3, <2>4, ServerBalance
<1>7. LiveInv'
  BY <1>4, <1>5, <1>6, LiveFrom
<1> QED
  BY <1>2, <1>3, <1>7, ServerGoesOn

\* The client's request is the one its stage calls for.
LEMMA AskedIs ==
    ASSUME ShellInv, pc # "exit", c2s # <<>>, ~Plain(Head(c2s))
    PROVE  Waiting /\ Asks(Stage(pc), channel.local_window, Head(c2s))
<1>1. LiveInv /\ c2s \in Seq(ClientMessage)
  BY Live
<1>2. PICK k \in Nat, a \in Nat : InOrder(k) /\ Asking(k, a)
  BY <1>1 DEF LiveInv, OrderInv
<1>3. Head(c2s) = c2s[1] /\ 1 \in 1..Len(c2s)
  BY <1>1, TailIs
<1>4. a = 1
  BY <1>2, <1>3 DEF Asking, Plain
<1> QED
  BY <1>2, <1>3, <1>4 DEF Asking

LEMMA ReadsSafe ==
    ASSUME ShellInv, ServerReceives
    PROVE  ShellInv'
<1> DEFINE m == Head(c2s)
<1>1. /\ pc # "exit" /\ c2s # <<>> /\ c2s' = Tail(c2s)
      /\ UNCHANGED <<clientVars, s2c, tcp, requests, typed, produced, shown>>
  BY DEF ServerReceives, ServerIsAsked, ServerConsumes, ServerIsGranted,
         ServerIsAnswered, ServerSeesClose, Reads, ServerRuns, counters
<1>2. /\ ShellTypeOK /\ server \in ServerState /\ m \in ClientMessage
      /\ received \in Nat
  <2>1. ShellTypeOK /\ c2s \in Seq(ClientMessage)
    BY <1>1, Live
  <2> QED
    BY <1>1, <2>1, TailIs, ServerFields DEF ShellTypeOK, ServerState
<1>3. /\ server.send_window \in Nat /\ server.recv_window \in Nat
      /\ server.unanswered \in Nat
  BY <1>2, BookNumbers DEF Numbers
<1>4. request = m
  BY DEF request
<1> HIDE DEF m
<1>5. CASE ServerIsAsked
  <2>1. /\ m.type \in {"channel_open", "request"} /\ received' = received
        /\ server' = IF m.type = "channel_open"
                     THEN [server EXCEPT !.reply = "confirmation",
                                         !.send_window = m.window]
                     ELSE [server EXCEPT !.reply = m.name]
    BY <1>4, <1>5 DEF ServerIsAsked, Reads, counters
  <2>2. Waiting /\ Asks(Stage(pc), channel.local_window, m) /\ ~Plain(m)
    BY <1>1, <2>1, AskedIs DEF Plain, m
  <2>3. CASE m.type = "channel_open"
    <3>1. /\ Stage(pc) = "opening" /\ m.window = channel.local_window
          /\ ReplyTo(Stage(pc)) = "confirmation"
      BY <2>2, <2>3 DEF Asks, ReplyTo
    <3>2. m.window \in Nat /\ m.window \in UInt32
      BY <1>2, <3>1, ServerFields, ConnectionAssumption DEF UInt32
    <3>3. Worth(Head(c2s), 0, m.window, 0)
      BY <1>2, <2>3, AmountIs DEF Worth, m
    <3>4. Offered = m.window
      BY <2>2, <3>1 DEF Offered, Waiting
    <3>5. server.send_window + m.window <= Offered
      BY <1>1, <3>2, <3>3, ReadBounds
    <3>6. server.send_window = 0
      BY <1>3, <3>2, <3>4, <3>5
    <3>7. server' = [server EXCEPT !.reply = "confirmation",
                                   !.send_window = m.window]
      BY <2>1, <2>3
    <3>8. /\ server' \in ServerState
          /\ server'.phase = server.phase /\ server'.eof_sent = server.eof_sent
          /\ server'.exit_sent = server.exit_sent
          /\ server'.close_received = server.close_received
          /\ server'.reply = "confirmation" /\ server'.send_window = m.window
          /\ server'.recv_window = server.recv_window
          /\ server'.unanswered = server.unanswered
      BY <1>2, <3>2, <3>7 DEF ServerState
    <3>9. server'.close_received = (server.close_received \/ Head(c2s).type = "close")
      BY <1>2, <2>3, <3>8 DEF ServerState, m
    <3>10. /\ server'.send_window = server.send_window + m.window
           /\ server'.recv_window = server.recv_window - 0
           /\ server'.unanswered = server.unanswered - 0
           /\ received' = received + 0
      BY <1>2, <1>3, <2>1, <3>2, <3>6, <3>8
    <3>11. ~Plain(Head(c2s)) /\ server'.reply = ReplyTo(Stage(pc))
      BY <2>2, <3>1, <3>8 DEF m
    <3> QED
      BY <1>1, <3>2, <3>3, <3>8, <3>9, <3>10, <3>11, ReadKeeps
  <2>4. CASE m.type = "request"
    <3>1. m.name = ReplyTo(Stage(pc))
      BY <2>2, <2>4 DEF Asks
    <3>2. Worth(Head(c2s), 0, 0, 0)
      BY <1>2, <2>4, AmountIs DEF Worth, m
    <3>3. server' = [server EXCEPT !.reply = m.name]
      BY <2>1, <2>4
    <3>4. /\ server' \in ServerState
          /\ server'.phase = server.phase /\ server'.eof_sent = server.eof_sent
          /\ server'.exit_sent = server.exit_sent
          /\ server'.close_received = server.close_received
          /\ server'.reply = m.name
          /\ server'.send_window = server.send_window
          /\ server'.recv_window = server.recv_window
          /\ server'.unanswered = server.unanswered
      BY <1>2, <3>1, <3>3 DEF ServerState, ReplyTo
    <3>5. server'.close_received = (server.close_received \/ Head(c2s).type = "close")
      BY <1>2, <2>4, <3>4 DEF ServerState, m
    <3>6. /\ server'.send_window = server.send_window + 0
          /\ server'.recv_window = server.recv_window - 0
          /\ server'.unanswered = server.unanswered - 0
          /\ received' = received + 0
      BY <1>2, <1>3, <2>1, <3>4
    <3>7. ~Plain(Head(c2s)) /\ server'.reply = ReplyTo(Stage(pc))
      BY <2>2, <3>1, <3>4 DEF m
    <3> QED
      BY <1>1, <3>2, <3>4, <3>5, <3>6, <3>7, ReadKeeps
  <2> QED
    BY <2>1, <2>3, <2>4
<1>6. CASE ServerConsumes
  <2>1. /\ m.type = "data" /\ received' = received + m.size
        /\ server' = [server EXCEPT !.recv_window = @ - m.size]
    BY <1>4, <1>6 DEF ServerConsumes, Reads
  <2>2. m.size \in Nat
    BY <1>2, <2>1, ConnectionAssumption DEF ClientMessage, UInt32
  <2>3. Worth(Head(c2s), m.size, 0, 0)
    BY <1>2, <2>1, AmountIs DEF Worth, m
  <2>4. server.recv_window - m.size \in UInt32
    BY <1>1, <2>2, <2>3, ReadBounds
  <2>5. /\ server' \in ServerState
        /\ server'.phase = server.phase /\ server'.eof_sent = server.eof_sent
        /\ server'.exit_sent = server.exit_sent
        /\ server'.close_received = server.close_received
        /\ server'.reply = server.reply
        /\ server'.send_window = server.send_window
        /\ server'.recv_window = server.recv_window - m.size
        /\ server'.unanswered = server.unanswered
    BY <1>2, <2>1, <2>4 DEF ServerState
  <2>6. server'.close_received = (server.close_received \/ Head(c2s).type = "close")
    BY <1>2, <2>1, <2>5 DEF ServerState, m
  <2>7. /\ server'.send_window = server.send_window + 0
        /\ server'.unanswered = server.unanswered - 0
    BY <1>3, <2>5
  <2>8. Plain(Head(c2s))
    BY <2>1 DEF Plain, m
  <2> QED
    BY <1>1, <2>1, <2>2, <2>3, <2>5, <2>6, <2>7, <2>8, ReadKeeps
<1>7. CASE ServerIsGranted
  <2>1. /\ m.type = "window_adjust" /\ received' = received
        /\ server' = [server EXCEPT !.send_window = @ + m.bytes_to_add]
    BY <1>4, <1>7 DEF ServerIsGranted, Reads, counters
  <2>2. m.bytes_to_add \in Nat
    BY <1>2, <2>1, ConnectionAssumption DEF ClientMessage, UInt32
  <2>3. Worth(Head(c2s), 0, m.bytes_to_add, 0)
    BY <1>2, <2>1, AmountIs DEF Worth, m
  <2>4. server.send_window + m.bytes_to_add \in UInt32
    BY <1>1, <2>2, <2>3, ReadBounds
  <2>5. /\ server' \in ServerState
        /\ server'.phase = server.phase /\ server'.eof_sent = server.eof_sent
        /\ server'.exit_sent = server.exit_sent
        /\ server'.close_received = server.close_received
        /\ server'.reply = server.reply
        /\ server'.send_window = server.send_window + m.bytes_to_add
        /\ server'.recv_window = server.recv_window
        /\ server'.unanswered = server.unanswered
    BY <1>2, <2>1, <2>4 DEF ServerState
  <2>6. server'.close_received = (server.close_received \/ Head(c2s).type = "close")
    BY <1>2, <2>1, <2>5 DEF ServerState, m
  <2>7. /\ server'.recv_window = server.recv_window - 0
        /\ server'.unanswered = server.unanswered - 0
        /\ received' = received + 0
    BY <1>2, <1>3, <2>1, <2>5
  <2>8. Plain(Head(c2s))
    BY <2>1 DEF Plain, m
  <2> QED
    BY <1>1, <2>2, <2>3, <2>5, <2>6, <2>7, <2>8, ReadKeeps
<1>8. CASE ServerIsAnswered
  <2>1. /\ m.type = "request_failure" /\ received' = received
        /\ server' = [server EXCEPT !.unanswered = @ - 1]
    BY <1>4, <1>8 DEF ServerIsAnswered, Reads, counters
  <2>2. Worth(Head(c2s), 0, 0, 1)
    BY <1>2, <2>1, AmountIs DEF Worth, m
  <2>3. server.unanswered - 1 \in Nat
    BY <1>1, <2>2, ReadBounds
  <2>4. /\ server' \in ServerState
        /\ server'.phase = server.phase /\ server'.eof_sent = server.eof_sent
        /\ server'.exit_sent = server.exit_sent
        /\ server'.close_received = server.close_received
        /\ server'.reply = server.reply
        /\ server'.send_window = server.send_window
        /\ server'.recv_window = server.recv_window
        /\ server'.unanswered = server.unanswered - 1
    BY <1>2, <2>1, <2>3 DEF ServerState
  <2>5. server'.close_received = (server.close_received \/ Head(c2s).type = "close")
    BY <1>2, <2>1, <2>4 DEF ServerState, m
  <2>6. /\ server'.send_window = server.send_window + 0
        /\ server'.recv_window = server.recv_window - 0
        /\ received' = received + 0
    BY <1>2, <1>3, <2>1, <2>4
  <2>7. Plain(Head(c2s))
    BY <2>1 DEF Plain, m
  <2> QED
    BY <1>1, <2>2, <2>4, <2>5, <2>6, <2>7, ReadKeeps
<1>9. CASE ServerSeesClose
  <2>1. /\ m.type = "close" /\ received' = received
        /\ server' = [server EXCEPT !.close_received = TRUE]
    BY <1>4, <1>9 DEF ServerSeesClose, Reads, counters
  <2>2. Worth(Head(c2s), 0, 0, 0)
    BY <1>2, <2>1, AmountIs DEF Worth, m
  <2>3. /\ server' \in ServerState
        /\ server'.phase = server.phase /\ server'.eof_sent = server.eof_sent
        /\ server'.exit_sent = server.exit_sent
        /\ server'.close_received = TRUE
        /\ server'.reply = server.reply
        /\ server'.send_window = server.send_window
        /\ server'.recv_window = server.recv_window
        /\ server'.unanswered = server.unanswered
    BY <1>2, <2>1 DEF ServerState
  <2>4. server'.close_received = (server.close_received \/ Head(c2s).type = "close")
    BY <2>1, <2>3 DEF m
  <2>5. /\ server'.send_window = server.send_window + 0
        /\ server'.recv_window = server.recv_window - 0
        /\ server'.unanswered = server.unanswered - 0
        /\ received' = received + 0
    BY <1>2, <1>3, <2>1, <2>3
  <2>6. Plain(Head(c2s))
    BY <2>1 DEF Plain, m
  <2> QED
    BY <1>1, <2>2, <2>3, <2>4, <2>5, <2>6, ReadKeeps
<1> QED
  BY <1>5, <1>6, <1>7, <1>8, <1>9 DEF ServerReceives

\* The server sends a message.
LEMMA WriteKeeps ==
    ASSUME ShellInv, pc # "exit", NEW m \in ServerMessage, Proper(m),
           s2c' = Append(s2c, m), OrderInv',
           UNCHANGED <<clientVars, c2s, tcp, typed, received, shown>>,
           requests' \in 0..MaxGlobalRequests,
           NEW d \in Nat, NEW w \in Nat, NEW r \in Nat, Worth(m, d, w, r),
           produced' = produced + d, produced' \in 0..MaxOutput,
           server' \in ServerState, server.phase # "closed",
           m.type = "close" => server'.phase = "closed",
           m.type = "eof" => ~server.eof_sent,
           server'.eof_sent = (server.eof_sent \/ m.type = "eof"),
           m.type = "request" => ~server.exit_sent,
           server'.exit_sent = (server.exit_sent \/ m.type = "request"),
           server'.close_received = server.close_received,
           server'.send_window + d = server.send_window,
           server'.recv_window = server.recv_window + w,
           server'.unanswered = server.unanswered + r,
           server'.recv_window <= SERVER_WINDOW,
           server'.phase = "idle" => server'.recv_window = 0
    PROVE  ShellInv'
<1>1. /\ ShellTypeOK /\ LiveInv /\ ContentsInv /\ TypeOK
      /\ s2c \in Seq(ServerMessage) /\ c2s \in Seq(ClientMessage)
  BY Live
<1>2. pc' = pc /\ channel' = channel
  BY DEF clientVars
<1>3. SessionInv' /\ ShellTypeOK'
  <2>1. s2c' \in Seq(ServerMessage)
    BY <1>1, AppendIs
  <2>2. /\ received' \in 0..MaxTyped /\ c2s' \in Seq(ClientMessage)
        /\ tcp' \in {"up", "fin", "reset", "broken"}
    BY <1>1 DEF ShellTypeOK, TypeOK
  <2> QED
    BY <2>1, <2>2, ServerFrame
<1>4. ContentsInv'
  BY <1>1, <1>2, ContentsSent
<1>5. BooksInv'
  <2>1. More(s2c', s2c, d, w, r)
    BY <1>1, AppendedIsMore
  <2>2. More(c2s, c2s', 0, 0, 0)
    BY <1>1, NothingIsMore
  <2>3. ServerPays(d, w, r, 0, 0, 0)
    <3>1. Numbers
      BY <1>1, BookNumbers
    <3>2. Numbers'
      BY <1>3, BookNumbersNext
    <3>3. /\ server.send_window \in Nat /\ server.recv_window \in Nat
          /\ server.unanswered \in Nat /\ received \in Nat
          /\ server'.recv_window \in Nat /\ server'.unanswered \in Nat
      BY <3>1, <3>2 DEF Numbers
    <3>4. /\ server'.send_window + d = server.send_window + 0
          /\ received' = received + 0
      BY <3>3
    <3>5. /\ server'.recv_window + 0 = server.recv_window + w
          /\ server'.unanswered + 0 = server.unanswered + r
      BY <3>3
    <3> QED
      BY <3>4, <3>5 DEF ServerPays
  <2> QED
    BY <1>1, <1>2, <1>3, <2>1, <2>2, <2>3, ServerBalance
<1>6. LiveInv'
  BY <1>4, <1>5, LiveFrom
<1> QED
  BY <1>2, <1>3, <1>6, ServerGoesOn

\* Whatever suits the phase the server is in.
LEMMA SentInOrder ==
    ASSUME ShellInv, pc # "exit", NEW m \in ServerMessage,
           s2c' = Append(s2c, m), UNCHANGED <<clientVars, c2s>>,
           server'.reply = server.reply,
           \/ server'.phase = server.phase
           \/ server.phase = "shell" /\ server'.phase = "closed",
           \/ m.type = "global_request"
           \/ m.type = "window_adjust" /\ server.phase \in {"open", "shell"}
           \/ /\ m.type \in {"data", "extended_data", "eof", "request", "close"}
              /\ server.phase = "shell"
    PROVE  OrderInv'
<1>1. /\ LiveInv /\ pc \in Locations \ {"exit"}
      /\ s2c \in Seq(ServerMessage) /\ c2s \in Seq(ClientMessage)
  BY Live
<1>2. pc' = pc /\ channel' = channel
  BY DEF clientVars
<1>3. PICK k \in Nat, a \in Nat : InOrder(k) /\ Asking(k, a)
  BY <1>1 DEF LiveInv, OrderInv
<1>4. PICK at \in {"opening", "pty", "shell", "socket"} : at = Serving(k)
  BY <1>1, Stages DEF Serving, NextStage
<1>5. server.phase \in PhasesAt(at)
  BY <1>3, <1>4 DEF InOrder
<1>6. m.type \in Passing(at)
  BY <1>5, PassingIs DEF PhasesAt
<1>7. server'.phase \in PhasesAt(at)
  BY <1>5 DEF PhasesAt
<1>8. InOrder(k)'
  BY <1>1, <1>2, <1>3, <1>4, <1>6, <1>7, OrderExtended
<1>9. Asking(k, a)'
  BY <1>2, <1>3, AskingSame DEF Waiting
<1> QED
  BY <1>3, <1>8, <1>9, OrderFrom

\* What the client waits for.
LEMMA AnswerSent ==
    ASSUME ShellInv, pc # "exit", NEW m \in ServerMessage,
           s2c' = Append(s2c, m), UNCHANGED <<clientVars, c2s>>,
           server.reply # "none", server'.reply = "none",
           server.reply = "confirmation" =>
              m.type = "open_confirmation" /\ server'.phase = "open",
           server.reply = "pty-req" =>
              m.type = "success" /\ server'.phase = server.phase,
           server.reply = "shell" =>
              m.type = "success" /\ server'.phase = "shell"
    PROVE  /\ OrderInv'
           /\ server.reply = "confirmation" => server.phase = "idle"
           /\ server.reply # "confirmation" => server.phase = "open"
<1>1. /\ LiveInv /\ pc \in Locations \ {"exit"}
      /\ s2c \in Seq(ServerMessage) /\ c2s \in Seq(ClientMessage)
  BY Live
<1>2. pc' = pc /\ channel' = channel
  BY DEF clientVars
<1>3. PICK k \in Nat, a \in Nat : InOrder(k) /\ Asking(k, a)
  BY <1>1 DEF LiveInv, OrderInv
<1>4. PICK l \in Nat : l = Len(s2c) + 1
  BY <1>1
<1>5. /\ k = 0 /\ Waiting /\ server.reply = ReplyTo(Stage(pc))
      /\ Asking(l, 0)'
  BY <1>2, <1>3, AskingAnswered
<1>6. Stage(pc) \in {"opening", "pty", "shell"} /\ InOrder(0)
  BY <1>3, <1>5 DEF Waiting, Stage, InLoop
<1>7. server.phase \in PhasesAt(Stage(pc))
  BY <1>6 DEF InOrder, Serving
<1>8. /\ server.reply = "confirmation" <=> Stage(pc) = "opening"
      /\ server.reply = "pty-req" <=> Stage(pc) = "pty"
      /\ server.reply = "shell" <=> Stage(pc) = "shell"
  BY <1>5, <1>6 DEF ReplyTo
<1>9. /\ server.reply = "confirmation" => server.phase = "idle"
      /\ server.reply # "confirmation" => server.phase = "open"
  BY <1>6, <1>7, <1>8 DEF PhasesAt
<1>10. m.type = AnswerType(Stage(pc))
  BY <1>6, <1>8 DEF AnswerType
<1>11. server'.phase \in PhasesAt(NextStage(Stage(pc)))
  BY <1>6, <1>8, <1>9 DEF PhasesAt, NextStage
<1>12. InOrder(l)'
  BY <1>1, <1>2, <1>4, <1>5, <1>6, <1>10, <1>11, OrderPromoted
<1> QED
  BY <1>5, <1>9, <1>12, OrderFrom

\* What every sending step of the server starts from.
LEMMA SendingFrom ==
    ASSUME ShellInv, ServerRuns
    PROVE  /\ pc # "exit" /\ ShellTypeOK /\ LiveInv /\ server \in ServerState
           /\ server.send_window \in Nat /\ server.recv_window \in Nat
           /\ server.unanswered \in Nat /\ produced \in Nat
           /\ server.recv_window <= SERVER_WINDOW
           /\ server.phase = "idle" => server.recv_window = 0
           /\ requests \in 0..MaxGlobalRequests /\ produced \in 0..MaxOutput
           /\ {0, 1} \subseteq UInt32
<1>1. pc # "exit" /\ ShellTypeOK /\ LiveInv
  BY Live DEF ServerRuns
<1>2. Numbers
  BY <1>1, BookNumbers
<1>3. {0, 1} \subseteq UInt32
  BY ConnectionAssumption DEF UInt32
<1> QED
  BY <1>1, <1>2, <1>3 DEF Numbers, ShellTypeOK, ServerState, LiveInv, BooksInv

\* The answers the client waits for.
LEMMA ConfirmsSafe ==
    ASSUME ShellInv, ServerConfirms
    PROVE  ShellInv'
<1>1. PICK window \in {0, SERVER_WINDOW} :
        /\ Sends([type |-> "open_confirmation", recipient |-> 0,
                  sender |-> 1, window |-> window,
                  max_packet |-> SERVER_MAX_PACKET_SIZE,
                  well_formed |-> TRUE])
        /\ server' = [server EXCEPT !.phase = "open", !.reply = "none",
                                    !.recv_window = window]
  BY DEF ServerConfirms
<1> DEFINE m == [type |-> "open_confirmation", recipient |-> 0, sender |-> 1,
                 window |-> window, max_packet |-> SERVER_MAX_PACKET_SIZE,
                 well_formed |-> TRUE]
<1>2. /\ ServerRuns /\ server.reply = "confirmation"
      /\ UNCHANGED <<clientVars, c2s, tcp, requests, typed, received, produced, shown>>
  BY DEF ServerConfirms, counters
<1>3. /\ pc # "exit" /\ server \in ServerState
      /\ server.send_window \in Nat /\ server.unanswered \in Nat /\ produced \in Nat
      /\ server.phase = "idle" => server.recv_window = 0
      /\ requests \in 0..MaxGlobalRequests /\ produced \in 0..MaxOutput
      /\ {0, 1} \subseteq UInt32
  BY <1>2, SendingFrom
<1>4. window \in UInt32 /\ window \in Nat /\ window <= SERVER_WINDOW
  BY ShellSessionAssumption, ConnectionAssumption DEF UInt32
<1>5. m \in ServerMessage
  BY <1>3, <1>4, ShellSessionAssumption, ConnectionAssumption
     DEF ServerMessage, UInt32
<1>6. Proper(m)
  BY ShellSessionAssumption, ConnectionAssumption DEF Proper
<1>7. m.type = "open_confirmation" /\ m.window = window /\ s2c' = Append(s2c, m)
  BY <1>1 DEF Sends
<1> HIDE DEF m
<1>8. Worth(m, 0, window, 0)
  BY <1>5, <1>7, AmountIs DEF Worth
<1>9. /\ server' \in ServerState /\ server'.phase = "open"
      /\ server'.reply = "none" /\ server'.recv_window = window
      /\ server'.send_window = server.send_window
      /\ server'.unanswered = server.unanswered
      /\ server'.eof_sent = server.eof_sent /\ server'.exit_sent = server.exit_sent
      /\ server'.close_received = server.close_received
  BY <1>1, <1>3, <1>4 DEF ServerState, ServerPhases
<1>10. OrderInv' /\ server.phase = "idle"
  BY <1>2, <1>3, <1>5, <1>7, <1>9, AnswerSent
<1>11. /\ server'.eof_sent = (server.eof_sent \/ m.type = "eof")
       /\ server'.exit_sent = (server.exit_sent \/ m.type = "request")
  BY <1>3, <1>7, <1>9 DEF ServerState
<1>12. /\ server'.send_window + 0 = server.send_window
       /\ server'.recv_window = server.recv_window + window
       /\ server'.unanswered = server.unanswered + 0
       /\ produced' = produced + 0
  BY <1>2, <1>3, <1>4, <1>9, <1>10
<1>13. /\ m.type = "close" => server'.phase = "closed"
       /\ m.type = "eof" => ~server.eof_sent
       /\ m.type = "request" => ~server.exit_sent
       /\ server.phase # "closed" /\ server'.phase # "idle"
       /\ server'.recv_window <= SERVER_WINDOW
  BY <1>4, <1>7, <1>9, <1>10
<1> QED
  BY <1>2, <1>3, <1>4, <1>5, <1>6, <1>7, <1>8, <1>9, <1>10, <1>11, <1>12, <1>13,
     WriteKeeps

LEMMA AcceptsSafe ==
    ASSUME ShellInv, ServerAccepts
    PROVE  ShellInv'
<1> DEFINE m == [type |-> "success", recipient |-> 0, well_formed |-> TRUE]
<1>1. /\ ServerRuns /\ server.reply \in {"pty-req", "shell"}
      /\ s2c' = Append(s2c, m)
      /\ server' = [server EXCEPT
                      !.phase = IF server.reply = "shell" THEN "shell" ELSE @,
                      !.reply = "none"]
      /\ UNCHANGED <<clientVars, c2s, tcp, requests, typed, received, produced, shown>>
  BY DEF ServerAccepts, Sends, counters
<1>2. /\ pc # "exit" /\ server \in ServerState
      /\ server.send_window \in Nat /\ server.recv_window \in Nat
      /\ server.unanswered \in Nat /\ produced \in Nat
      /\ server.recv_window <= SERVER_WINDOW
      /\ requests \in 0..MaxGlobalRequests /\ produced \in 0..MaxOutput
      /\ {0, 1} \subseteq UInt32
  BY <1>1, SendingFrom
<1>3. m \in ServerMessage
  BY <1>2 DEF ServerMessage
<1>4. Proper(m) /\ m.type = "success"
  BY DEF Proper
<1> HIDE DEF m
<1>5. Worth(m, 0, 0, 0)
  BY <1>3, <1>4, AmountIs DEF Worth
<1>6. /\ server' \in ServerState /\ server'.reply = "none"
      /\ server'.phase = IF server.reply = "shell" THEN "shell" ELSE server.phase
      /\ server'.recv_window = server.recv_window
      /\ server'.send_window = server.send_window
      /\ server'.unanswered = server.unanswered
      /\ server'.eof_sent = server.eof_sent /\ server'.exit_sent = server.exit_sent
      /\ server'.close_received = server.close_received
  BY <1>1, <1>2 DEF ServerState, ServerPhases
<1>7. OrderInv' /\ server.phase = "open"
  BY <1>1, <1>2, <1>3, <1>4, <1>6, AnswerSent
<1>8. /\ server'.eof_sent = (server.eof_sent \/ m.type = "eof")
      /\ server'.exit_sent = (server.exit_sent \/ m.type = "request")
  BY <1>2, <1>4, <1>6 DEF ServerState
<1>9. /\ server'.send_window + 0 = server.send_window
      /\ server'.recv_window = server.recv_window + 0
      /\ server'.unanswered = server.unanswered + 0
      /\ produced' = produced + 0
  BY <1>1, <1>2, <1>6
<1>10. /\ m.type = "close" => server'.phase = "closed"
       /\ m.type = "eof" => ~server.eof_sent
       /\ m.type = "request" => ~server.exit_sent
       /\ server.phase # "closed" /\ server'.phase # "idle"
       /\ server'.recv_window <= SERVER_WINDOW
  BY <1>2, <1>4, <1>6, <1>7
<1> QED
  BY <1>1, <1>2, <1>3, <1>4, <1>5, <1>6, <1>7, <1>8, <1>9, <1>10, WriteKeeps

\* Window, questions and output.
LEMMA GrantsSafe ==
    ASSUME ShellInv, ServerGrants
    PROVE  ShellInv'
<1> DEFINE w == SERVER_WINDOW - server.recv_window
           m == [type |-> "window_adjust", recipient |-> 0, bytes_to_add |-> w,
                 well_formed |-> TRUE]
<1>1. /\ ServerRuns /\ server.phase \in {"open", "shell"}
      /\ server.recv_window < SERVER_WINDOW /\ s2c' = Append(s2c, m)
      /\ server' = [server EXCEPT !.recv_window = SERVER_WINDOW]
      /\ UNCHANGED <<clientVars, c2s, tcp, requests, typed, received, produced, shown>>
  BY DEF ServerGrants, Sends, counters
<1>2. /\ pc # "exit" /\ server \in ServerState
      /\ server.send_window \in Nat /\ server.recv_window \in Nat
      /\ server.unanswered \in Nat /\ produced \in Nat
      /\ requests \in 0..MaxGlobalRequests /\ produced \in 0..MaxOutput
      /\ {0, 1} \subseteq UInt32
  BY <1>1, SendingFrom
<1>3. SERVER_WINDOW \in Nat /\ SERVER_WINDOW \in UInt32
  BY ShellSessionAssumption, ConnectionAssumption DEF UInt32
<1>4. /\ w \in UInt32 /\ w \in Nat /\ w # 0
      /\ SERVER_WINDOW = server.recv_window + w
  BY <1>1, <1>2, <1>3, ConnectionAssumption DEF UInt32
<1> HIDE DEF w
<1>5. m \in ServerMessage
  BY <1>2, <1>4 DEF ServerMessage
<1>6. Proper(m) /\ m.type = "window_adjust" /\ m.bytes_to_add = w
  BY <1>4 DEF Proper
<1> HIDE DEF m
<1>7. Worth(m, 0, w, 0)
  BY <1>5, <1>6, AmountIs DEF Worth
<1>8. /\ server' \in ServerState /\ server'.reply = server.reply
      /\ server'.phase = server.phase /\ server'.recv_window = SERVER_WINDOW
      /\ server'.send_window = server.send_window
      /\ server'.unanswered = server.unanswered
      /\ server'.eof_sent = server.eof_sent /\ server'.exit_sent = server.exit_sent
      /\ server'.close_received = server.close_received
  BY <1>1, <1>2, <1>3 DEF ServerState
<1>9. OrderInv'
  BY <1>1, <1>2, <1>5, <1>6, <1>8, SentInOrder
<1>10. /\ server'.eof_sent = (server.eof_sent \/ m.type = "eof")
       /\ server'.exit_sent = (server.exit_sent \/ m.type = "request")
  BY <1>2, <1>6, <1>8 DEF ServerState
<1>11. /\ server'.send_window + 0 = server.send_window
       /\ server'.recv_window = server.recv_window + w
       /\ server'.unanswered = server.unanswered + 0
       /\ produced' = produced + 0
  BY <1>1, <1>2, <1>4, <1>8
<1>12. /\ m.type = "close" => server'.phase = "closed"
       /\ m.type = "eof" => ~server.eof_sent
       /\ m.type = "request" => ~server.exit_sent
       /\ server.phase # "closed" /\ server'.phase # "idle"
       /\ server'.recv_window <= SERVER_WINDOW
  BY <1>1, <1>3, <1>6, <1>8
<1> QED
  BY <1>1, <1>2, <1>4, <1>5, <1>6, <1>7, <1>8, <1>9, <1>10, <1>11, <1>12, WriteKeeps

LEMMA AsksSafe ==
    ASSUME ShellInv, NEW want_reply \in BOOLEAN, ServerAsks(want_reply)
    PROVE  ShellInv'
<1> DEFINE m == [type |-> "global_request", want_reply |-> want_reply,
                 well_formed |-> TRUE]
<1>1. /\ ServerRuns /\ server.phase # "closed"
      /\ requests < MaxGlobalRequests /\ requests' = requests + 1
      /\ s2c' = Append(s2c, m)
      /\ server' = [server EXCEPT !.unanswered = IF want_reply THEN @ + 1 ELSE @]
      /\ UNCHANGED <<clientVars, c2s, tcp, typed, received, produced, shown>>
  BY DEF ServerAsks, Sends
<1>2. /\ pc # "exit" /\ server \in ServerState
      /\ server.send_window \in Nat /\ server.recv_window \in Nat
      /\ server.unanswered \in Nat /\ produced \in Nat
      /\ server.recv_window <= SERVER_WINDOW
      /\ server.phase = "idle" => server.recv_window = 0
      /\ requests \in 0..MaxGlobalRequests /\ produced \in 0..MaxOutput
  BY <1>1, SendingFrom
<1>3. requests' \in 0..MaxGlobalRequests
  BY <1>1, <1>2, ShellSessionAssumption
<1>4. PICK r \in {0, 1} : r = IF want_reply THEN 1 ELSE 0
  OBVIOUS
<1>5. m \in ServerMessage
  BY DEF ServerMessage
<1>6. Proper(m) /\ m.type = "global_request" /\ m.want_reply = want_reply
  BY DEF Proper
<1> HIDE DEF m
<1>7. Worth(m, 0, 0, r)
  BY <1>4, <1>5, <1>6, AmountIs DEF Worth
<1>8. /\ server' \in ServerState /\ server'.reply = server.reply
      /\ server'.phase = server.phase /\ server'.recv_window = server.recv_window
      /\ server'.send_window = server.send_window
      /\ server'.unanswered = server.unanswered + r
      /\ server'.eof_sent = server.eof_sent /\ server'.exit_sent = server.exit_sent
      /\ server'.close_received = server.close_received
  BY <1>1, <1>2, <1>4 DEF ServerState
<1>9. OrderInv'
  BY <1>1, <1>2, <1>5, <1>6, <1>8, SentInOrder
<1>10. /\ server'.eof_sent = (server.eof_sent \/ m.type = "eof")
       /\ server'.exit_sent = (server.exit_sent \/ m.type = "request")
  BY <1>2, <1>6, <1>8 DEF ServerState
<1>11. /\ server'.send_window + 0 = server.send_window
       /\ server'.recv_window = server.recv_window + 0
       /\ produced' = produced + 0
  BY <1>1, <1>2, <1>8
<1>12. /\ m.type = "close" => server'.phase = "closed"
       /\ m.type = "eof" => ~server.eof_sent
       /\ m.type = "request" => ~server.exit_sent
       /\ server'.phase = "idle" => server'.recv_window = 0
       /\ server'.recv_window <= SERVER_WINDOW
  BY <1>2, <1>6, <1>8
<1> QED
  BY <1>1, <1>2, <1>3, <1>4, <1>5, <1>6, <1>7, <1>8, <1>9, <1>10, <1>11, <1>12,
     WriteKeeps

LEMMA OutputsSafe ==
    ASSUME ShellInv, NEW n \in 1..LOCAL_MAX_PACKET_SIZE, ServerOutputs(n)
    PROVE  ShellInv'
<1>1. PICK m \in OutputMessages(n) : Sends(m)
  BY DEF ServerOutputs
<1>2. /\ ServerRuns /\ server.phase = "shell" /\ n <= server.send_window
      /\ s2c' = Append(s2c, m) /\ produced + n <= MaxOutput
      /\ server' = [server EXCEPT !.send_window = @ - n]
      /\ produced' = produced + n
      /\ UNCHANGED <<clientVars, c2s, tcp, requests, typed, received, shown>>
  BY <1>1 DEF ServerOutputs, Sends
<1>3. /\ pc # "exit" /\ server \in ServerState
      /\ server.send_window \in Nat /\ server.recv_window \in Nat
      /\ server.unanswered \in Nat /\ produced \in Nat
      /\ server.recv_window <= SERVER_WINDOW
      /\ requests \in 0..MaxGlobalRequests
      /\ {0, 1} \subseteq UInt32
  BY <1>2, SendingFrom
<1>4. n \in UInt32 /\ n \in Nat /\ n <= LOCAL_MAX_PACKET_SIZE
  BY SessionAssumption, ConnectionAssumption DEF UInt32
<1>5. m \in ServerMessage
  <2>1. [type |-> "data", recipient |-> 0, size |-> n, well_formed |-> TRUE]
           \in ServerMessage
    BY <1>3, <1>4 DEF ServerMessage
  <2>2. [type |-> "extended_data", recipient |-> 0, data_type |-> 1, size |-> n,
         well_formed |-> TRUE] \in ServerMessage
    BY <1>3, <1>4 DEF ServerMessage
  <2> QED
    BY <2>1, <2>2 DEF OutputMessages
<1>6. Proper(m) /\ m.type \in {"data", "extended_data"} /\ m.size = n
  BY <1>4 DEF OutputMessages, Proper
<1>7. Worth(m, n, 0, 0)
  BY <1>5, <1>6, AmountIs DEF Worth
<1>8. server.send_window - n \in UInt32
  <2>1. server.send_window \in UInt32
    BY <1>3 DEF ServerState
  <2> QED
    BY <1>2, <1>4, <2>1, ConnectionAssumption DEF UInt32
<1>9. /\ server' \in ServerState /\ server'.reply = server.reply
      /\ server'.phase = server.phase /\ server'.recv_window = server.recv_window
      /\ server'.send_window = server.send_window - n
      /\ server'.unanswered = server.unanswered
      /\ server'.eof_sent = server.eof_sent /\ server'.exit_sent = server.exit_sent
      /\ server'.close_received = server.close_received
  BY <1>2, <1>3, <1>8 DEF ServerState
<1>10. OrderInv'
  BY <1>2, <1>3, <1>5, <1>6, <1>9, SentInOrder
<1>11. /\ server'.eof_sent = (server.eof_sent \/ m.type = "eof")
       /\ server'.exit_sent = (server.exit_sent \/ m.type = "request")
  BY <1>3, <1>6, <1>9 DEF ServerState
<1>12. /\ server'.send_window + n = server.send_window
       /\ server'.recv_window = server.recv_window + 0
       /\ server'.unanswered = server.unanswered + 0
  BY <1>3, <1>4, <1>9
<1>13. produced' \in 0..MaxOutput
  BY <1>2, <1>3, <1>4, ShellSessionAssumption
<1>14. /\ m.type = "close" => server'.phase = "closed"
       /\ m.type = "eof" => ~server.eof_sent
       /\ m.type = "request" => ~server.exit_sent
       /\ server.phase # "closed" /\ server'.phase # "idle"
       /\ server'.recv_window <= SERVER_WINDOW
  BY <1>2, <1>3, <1>6, <1>9
<1> QED
  BY <1>2, <1>3, <1>4, <1>5, <1>6, <1>7, <1>9, <1>10, <1>11, <1>12, <1>13, <1>14,
     WriteKeeps

\* EOF, the exit status and CLOSE.
LEMMA EndsSafe ==
    ASSUME ShellInv, ServerEof \/ ServerExitStatus \/ ServerClosesChannel
    PROVE  ShellInv'
<1>1. /\ ServerRuns /\ server.phase = "shell"
      /\ UNCHANGED <<clientVars, c2s, tcp, requests, typed, received, produced, shown>>
  BY DEF ServerEof, ServerExitStatus, ServerClosesChannel, counters
<1>2. /\ pc # "exit" /\ server \in ServerState
      /\ server.send_window \in Nat /\ server.recv_window \in Nat
      /\ server.unanswered \in Nat /\ produced \in Nat
      /\ server.recv_window <= SERVER_WINDOW
      /\ requests \in 0..MaxGlobalRequests /\ produced \in 0..MaxOutput
      /\ {0, 1} \subseteq UInt32
  BY <1>1, SendingFrom
<1>3. ASSUME NEW m \in ServerMessage, Proper(m), s2c' = Append(s2c, m),
             m.type \in {"eof", "request", "close"},
             server' \in ServerState, server'.reply = server.reply,
             server'.phase = IF m.type = "close" THEN "closed" ELSE server.phase,
             server'.recv_window = server.recv_window,
             server'.send_window = server.send_window,
             server'.unanswered = server.unanswered,
             m.type = "eof" => ~server.eof_sent,
             server'.eof_sent = (server.eof_sent \/ m.type = "eof"),
             m.type = "request" => ~server.exit_sent,
             server'.exit_sent = (server.exit_sent \/ m.type = "request"),
             server'.close_received = server.close_received
      PROVE  ShellInv'
  <2>1. OrderInv'
    BY <1>1, <1>2, <1>3, SentInOrder
  <2>2. Worth(m, 0, 0, 0)
    BY <1>3, AmountIs DEF Worth
  <2>3. /\ server'.send_window + 0 = server.send_window
        /\ server'.recv_window = server.recv_window + 0
        /\ server'.unanswered = server.unanswered + 0
        /\ produced' = produced + 0
    BY <1>1, <1>2, <1>3
  <2>4. /\ m.type = "close" => server'.phase = "closed"
        /\ server.phase # "closed" /\ server'.phase # "idle"
        /\ server'.recv_window <= SERVER_WINDOW
    BY <1>1, <1>2, <1>3
  <2> QED
    BY <1>1, <1>2, <1>3, <2>1, <2>2, <2>3, <2>4, WriteKeeps
<1>4. CASE ServerEof
  <2> DEFINE m == [type |-> "eof", recipient |-> 0, well_formed |-> TRUE]
  <2>1. /\ m \in ServerMessage /\ Proper(m) /\ m.type = "eof"
        /\ s2c' = Append(s2c, m)
    BY <1>2, <1>4 DEF ServerEof, Sends, ServerMessage, Proper
  <2>2. ~server.eof_sent /\ server' = [server EXCEPT !.eof_sent = TRUE]
    BY <1>4 DEF ServerEof
  <2> HIDE DEF m
  <2> QED
    BY <1>2, <1>3, <2>1, <2>2 DEF ServerState
<1>5. CASE ServerExitStatus
  <2> DEFINE m == [type |-> "request", recipient |-> 0, name |-> "exit-status",
                   exit_status |-> EXIT_STATUS, well_formed |-> TRUE]
  <2>1. m \in ServerMessage
    <3>1. 0 \in UInt32 /\ EXIT_STATUS \in UInt32
      BY <1>2, ShellSessionAssumption
    <3>2. m \in [type : {"request"}, recipient : UInt32,
                 name : {"exit-status", "exit-signal"}, exit_status : UInt32,
                 well_formed : BOOLEAN]
      BY <3>1
    <3> QED
      BY <3>2, Zenon DEF ServerMessage
  <2>2. Proper(m) /\ m.type = "request" /\ s2c' = Append(s2c, m)
    BY <1>5 DEF ServerExitStatus, Sends, Proper
  <2>3. ~server.exit_sent /\ server' = [server EXCEPT !.exit_sent = TRUE]
    BY <1>5 DEF ServerExitStatus
  <2> HIDE DEF m
  <2> QED
    BY <1>2, <1>3, <2>1, <2>2, <2>3 DEF ServerState
<1>6. CASE ServerClosesChannel
  <2> DEFINE m == [type |-> "close", recipient |-> 0, well_formed |-> TRUE]
  <2>1. /\ m \in ServerMessage /\ Proper(m) /\ m.type = "close"
        /\ s2c' = Append(s2c, m)
    BY <1>2, <1>6 DEF ServerClosesChannel, Sends, ServerMessage, Proper
  <2>2. server' = [server EXCEPT !.phase = "closed"]
    BY <1>6 DEF ServerClosesChannel
  <2> HIDE DEF m
  <2> QED
    BY <1>2, <1>3, <2>1, <2>2 DEF ServerState, ServerPhases
<1> QED
  BY <1>4, <1>5, <1>6

\* The server takes the connection down.
LEMMA DisconnectsSafe ==
    ASSUME ShellInv, ServerDisconnects
    PROVE  ShellInv'
<1>1. /\ pc # "exit" /\ server.close_received /\ tcp' = "fin"
      /\ UNCHANGED <<clientVars, s2c, c2s, server, requests, typed, received,
                     produced, shown>>
  BY DEF ServerDisconnects, ServerCloses, counters
<1>2. /\ ShellTypeOK /\ LiveInv /\ ContentsInv
      /\ s2c \in Seq(ServerMessage) /\ c2s \in Seq(ClientMessage)
  BY <1>1, Live
<1>3. pc' = pc /\ channel' = channel
  BY <1>1 DEF clientVars
<1>4. SessionInv' /\ ShellTypeOK'
  <2>1. /\ server' \in ServerState /\ requests' \in 0..MaxGlobalRequests
        /\ received' \in 0..MaxTyped /\ produced' \in 0..MaxOutput
    BY <1>1, <1>2 DEF ShellTypeOK, ServerState
  <2> QED
    BY <1>1, <1>2, <2>1, ServerFrame
<1>5. OrderInv'
  <2>1. PICK k \in Nat, a \in Nat : InOrder(k) /\ Asking(k, a)
    BY <1>2 DEF LiveInv, OrderInv
  <2>2. InOrder(k)'
    BY <1>1, <1>3, <2>1, OrderSame DEF Waiting
  <2>3. Asking(k, a)'
    BY <1>1, <1>3, <2>1, AskingSame DEF Waiting
  <2> QED
    BY <2>2, <2>3, OrderFrom
<1>6. ContentsInv'
  BY <1>1, <1>2, <1>3
     DEF ContentsInv, ProperInv, EofInv, StatusInv, CloseInv
<1>7. BooksInv'
  BY <1>1, <1>2, <1>3 DEF LiveInv, BooksInv, Offered
<1>8. LiveInv'
  BY <1>5, <1>6, <1>7, LiveFrom
<1> QED
  BY <1>1, <1>3, <1>4, <1>8, ServerGoesOn

LEMMA ServerSafe ==
    ASSUME ShellInv, ServerStep
    PROVE  ShellInv'
BY ReadsSafe, ConfirmsSafe, AcceptsSafe, GrantsSafe, AsksSafe, OutputsSafe,
   EndsSafe, DisconnectsSafe
   DEF ServerStep, ServerWrites

-------------------------------------------------------------------------------
(***************************************************************************)
(* The invariant holds throughout, and what follows from it.               *)
(***************************************************************************)
LEMMA ShellStarts == ShellInit => ShellInv
<1> SUFFICES ASSUME ShellInit PROVE ShellInv
  OBVIOUS
<1>1. /\ Init /\ pc = "start" /\ result = "running" /\ s2c = <<>> /\ c2s = <<>>
      /\ tcp = "up" /\ channel = InitialChannel
  BY DEF ShellInit, Init
<1>2. TypeOK /\ SessionInv
  <2>1. TypeOK
    BY <1>1, InitTypes
  <2> QED
    BY <1>1, <2>1, SessionAssumption
       DEF Init, SessionInv, WindowInv, OpenInv, TerminalInv, TerminalInit,
           InitialChannel, InLoop, UInt32
<1>3. ShellTypeOK
  BY <1>2, ShellSessionAssumption, ConnectionAssumption
     DEF ShellInit, ShellTypeOK, ServerPhases, UInt32
<1>4. NeverRejected /\ CompleteAtExit
  BY <1>1 DEF NeverRejected, CompleteAtExit
<1>5. Len(s2c) = 0 /\ Len(c2s) = 0
  BY <1>1
<1>6. OrderInv
  <2>1. Stage(pc) = "opening" /\ server.phase = "idle" /\ server.reply = "none"
    BY <1>1 DEF Stage, ShellInit
  <2>2. InOrder(0)
    BY <1>5, <2>1 DEF InOrder, Serving, PhasesAt
  <2>3. Asking(0, 0)
    BY <1>5, <2>1 DEF Asking
  <2> QED
    BY <1>5, <2>2, <2>3 DEF OrderInv
<1>7. /\ channel.local_id = 0 /\ channel.remote_window = 0
      /\ ~channel.remote_eof_received /\ ~channel.exit_status_received
      /\ ~channel.remote_close_received
  BY <1>1 DEF InitialChannel
<1>8. /\ ~server.eof_sent /\ ~server.exit_sent /\ ~server.close_received
      /\ server.send_window = 0 /\ server.recv_window = 0
      /\ server.unanswered = 0
  BY DEF ShellInit
<1>9. ProperInv /\ EofInv /\ StatusInv /\ CloseInv
  BY <1>1, <1>5, <1>7, <1>8 DEF ProperInv, EofInv, StatusInv, CloseInv, Once
<1>10. BooksInv
  <2>1. /\ InFlight("data", s2c) = 0 /\ InFlight("window", s2c) = 0
        /\ InFlight("reply", s2c) = 0 /\ InFlight("data", c2s) = 0
        /\ InFlight("window", c2s) = 0 /\ InFlight("reply", c2s) = 0
    BY <1>1, NoneInFlight DEF Kinds
  <2>2. Offered = 0
    BY <1>1 DEF Offered
  <2>3. produced = 0 /\ shown = 0 /\ typed = 0 /\ received = 0
    BY DEF ShellInit
  <2>4. SERVER_WINDOW \in Nat
    BY ShellSessionAssumption, ConnectionAssumption
  <2> QED
    BY <1>7, <1>8, <2>1, <2>2, <2>3, <2>4 DEF BooksInv
<1> QED
  BY <1>2, <1>3, <1>4, <1>6, <1>9, <1>10 DEF ShellInv, LiveInv

LEMMA ShellSame ==
    ASSUME ShellInv, UNCHANGED shellVars
    PROVE  ShellInv'
<1>1. SessionInv'
  <2>1. [Next]_vars
    BY DEF shellVars
  <2> QED
    BY <2>1, InvStep DEF ShellInv
<1>2. UNCHANGED <<channel, pc, result, s2c, c2s, tcp, server, requests, typed,
                  received, produced, shown>>
  BY DEF shellVars, vars, counters
<1>3. ShellTypeOK'
  BY <1>1, <1>2 DEF ShellInv, SessionInv, ShellTypeOK
<1>4. NeverRejected' /\ CompleteAtExit'
  BY <1>2 DEF ShellInv, NeverRejected, CompleteAtExit
<1>5. OrderInv => OrderInv'
  BY <1>2 DEF OrderInv, InOrder, Asking, Serving, Waiting
<1>6. ProperInv /\ EofInv /\ StatusInv /\ CloseInv =>
         ProperInv' /\ EofInv' /\ StatusInv' /\ CloseInv'
  BY <1>2 DEF ProperInv, EofInv, StatusInv, CloseInv
<1>7. BooksInv => BooksInv'
  BY <1>2 DEF BooksInv, Offered
<1>8. pc' # "exit" => LiveInv'
  BY <1>2, <1>5, <1>6, <1>7 DEF ShellInv, LiveInv
<1> QED
  BY <1>1, <1>3, <1>4, <1>8 DEF ShellInv

(***************************************************************************)
(* The invariant is inductive: whatever the client and the server do, in   *)
(* any order and for windows, packets and sessions of any size.            *)
(***************************************************************************)
THEOREM ShellInductive == ShellSpec => []ShellInv
<1>1. ShellInv /\ [ShellNext]_shellVars => ShellInv'
  <2> SUFFICES ASSUME ShellInv, [ShellNext]_shellVars PROVE ShellInv'
    OBVIOUS
  <2>1. CASE ClientStep
    BY <2>1, ClientSafe
  <2>2. CASE ServerStep
    BY <2>2, ServerSafe
  <2>3. CASE Terminated /\ UNCHANGED <<server, counters>>
    BY <2>3, ShellSame DEF Terminated, shellVars
  <2>4. CASE UNCHANGED shellVars
    BY <2>4, ShellSame
  <2> QED
    BY <2>1, <2>2, <2>3, <2>4 DEF ShellNext
<1> QED
  BY <1>1, ShellStarts, PTL DEF ShellSpec

(***************************************************************************)
(* The counters and windows of both ends stay in their ranges: no window   *)
(* of the server's exceeds 32 bits, no more is shown than was produced.    *)
(***************************************************************************)
THEOREM ShellTypeCorrect == ShellSpec => []ShellTypeOK
<1>1. ShellInv => ShellTypeOK
  BY DEF ShellInv
<1> QED
  BY <1>1, ShellInductive, PTL

(***************************************************************************)
(* A server that keeps to the protocol never has a packet refused          *)
(* (connection.cpp, the throws of the receive loops of main.cpp).          *)
(***************************************************************************)
THEOREM ProtocolAccepted == ShellSpec => []NeverRejected
<1>1. ShellInv => NeverRejected
  BY DEF ShellInv
<1> QED
  BY <1>1, ShellInductive, PTL

(***************************************************************************)
(* Both ends agree on both windows up to what is in flight                 *)
(* (main.cpp:273, 312-318, connection.cpp:259).                            *)
(***************************************************************************)
THEOREM WindowsAlwaysAgree == ShellSpec => []WindowsAgree
<1>1. ShellInv => WindowsAgree
  <2> SUFFICES ASSUME ShellInv, pc \notin {"start", "exit"} PROVE WindowsAgree
    BY DEF WindowsAgree
  <2>1. BooksInv
    BY DEF ShellInv, LiveInv
  <2> QED
    BY <2>1 DEF BooksInv, Offered, WindowsAgree
<1> QED
  BY <1>1, ShellInductive, PTL

(***************************************************************************)
(* The replies owed are exactly those under way or to be asked for         *)
(* (main.cpp:163-168).                                                     *)
(***************************************************************************)
THEOREM RepliesAlwaysOwed == ShellSpec => []RepliesOwed
<1>1. ShellInv => RepliesOwed
  BY DEF ShellInv, LiveInv, BooksInv, RepliesOwed
<1> QED
  BY <1>1, ShellInductive, PTL

(***************************************************************************)
(* A session that ends normally has shown everything and reports the exit  *)
(* status the server sent (main.cpp:462-464).                              *)
(***************************************************************************)
THEOREM NothingMissing == ShellSpec => []CompleteAtExit
<1>1. ShellInv => CompleteAtExit
  BY DEF ShellInv
<1> QED
  BY <1>1, ShellInductive, PTL

===============================================================================

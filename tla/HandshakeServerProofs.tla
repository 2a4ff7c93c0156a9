------------------------- MODULE HandshakeServerProofs -------------------------
(***************************************************************************)
(* HandshakeServer for every command line, known-hosts file and server     *)
(* key: client and server stay in step, whatever crosses on the way.       *)
(***************************************************************************)
EXTENDS HandshakeServer, HandshakeProofs

(***************************************************************************)
(* The server too sends a prefix of one script.  The packet p is the n-th  *)
(* of it, if r says whether the server has rejected the password.          *)
(***************************************************************************)
ServerScript(n, p, r) ==
    /\ p.well_formed
    /\ n = 1 => p.payload = "identification"
    /\ n = 2 => p.payload = "kexinit"
    /\ n = 3 => p.payload = "reply" /\ p.valid_signature
    /\ n = 4 => p.payload = "newkeys"
    /\ n \in 1..4 => p.keys = "none"
    /\ n = 5 => p.payload = "service_accept"
    /\ n = 6 => p.payload = "failure"
    /\ n = 7 => p.payload = "success" \/ r
    /\ n \in 5..7 => p.keys = SESSION /\ p.seq = n - 2

\* The packets q follow on the n-th.
Queue(n, q, r) == \A i \in 1..Len(q) : ServerScript(n + i, q[i], r)

\* How many of them the client has taken at a stage.
Consumed(stage) ==
    IF stage \in {"start", "connect", "identification"} THEN 0
    ELSE IF stage = "kexinit" THEN 1
    ELSE IF stage = "reply" THEN 2
    ELSE IF stage \in {"prompt", "newkeys"} THEN 3
    ELSE IF stage = "service" THEN 4
    ELSE IF stage = "none" THEN 5
    ELSE IF stage \in {"password", "answer"} THEN 6
    ELSE 7

\* How many the server has sent.
Produced(s) ==
    IF s.step = "identification" THEN 0
    ELSE IF s.step = "kexinit" THEN 1
    ELSE IF s.read < 3 THEN 2
    ELSE IF s.read = 3 THEN 4
    ELSE s.read

ServerState ==
    [step : {"identification", "kexinit", "serving"}, read : 0..7,
     refused : BOOLEAN, out_keys : {"none", SESSION}, in_keys : {"none", SESSION},
     out_seq : Nat, in_seq : Nat]

\* Its keys and numbers are those of the packets it has read and sent.
ServerInv(s) ==
    /\ s \in ServerState
    /\ s.step # "serving" => s.read = 0
    /\ s.refused => s.read = 7
    /\ s.out_keys = IF s.read < 3 THEN "none" ELSE SESSION
    /\ s.in_keys = IF s.read < 4 THEN "none" ELSE SESSION
    /\ s.out_seq = IF Produced(s) = 0 THEN 0 ELSE Produced(s) - 1
    /\ s.in_seq = IF s.read = 0 THEN 0 ELSE s.read - 1

\* What is on its way is what the server has sent and the client not taken.
StreamInv ==
    pc # "exit" =>
        /\ Consumed(pc) + Len(s2c) = Produced(server)
        /\ Queue(Consumed(pc), s2c, server.refused)
        /\ pc \in {"start", "connect"} => server.step = "identification"

SystemInv ==
    /\ HandshakeInv
    /\ ServerInv(server)
    /\ server.read <= Len(c2s)
    /\ StreamInv
    /\ NeverTurnedAway

LEMMA QueueTaken ==
    ASSUME NEW q \in Seq(PeerPacket), q # <<>>, NEW n \in Nat, NEW r,
           Queue(n, q, r)
    PROVE  /\ ServerScript(n + 1, Head(q), r)
           /\ Queue(n + 1, Tail(q), r)
           /\ Len(Tail(q)) = Len(q) - 1
<1>1. /\ Len(q) \in Nat /\ Len(q) >= 1
      /\ Head(q) = q[1]
      /\ Len(Tail(q)) = Len(q) - 1
      /\ \A i \in 1..(Len(q) - 1) : Tail(q)[i] = q[i + 1]
  OBVIOUS
<1>2. ServerScript(n + 1, Head(q), r)
  BY <1>1 DEF Queue
<1>3. ASSUME NEW i \in 1..Len(Tail(q))
      PROVE  ServerScript((n + 1) + i, Tail(q)[i], r)
  <2>1. i + 1 \in 1..Len(q) /\ n + (i + 1) = (n + 1) + i /\ Tail(q)[i] = q[i + 1]
    BY <1>1
  <2>2. ServerScript(n + (i + 1), q[i + 1], r)
    BY <2>1 DEF Queue
  <2> QED
    BY <2>1, <2>2
<1> QED
  BY <1>1, <1>2, <1>3 DEF Queue

LEMMA QueueExtended ==
    ASSUME NEW q \in Seq(PeerPacket), NEW n \in Nat, NEW r, Queue(n, q, r),
           NEW p \in PeerPacket, ServerScript(n + Len(q) + 1, p, r)
    PROVE  /\ Append(q, p) \in Seq(PeerPacket)
           /\ Queue(n, Append(q, p), r)
           /\ Len(Append(q, p)) = Len(q) + 1
<1> DEFINE g == Append(q, p)
<1>1. /\ Len(q) \in Nat /\ g \in Seq(PeerPacket)
      /\ Len(g) = Len(q) + 1
      /\ \A i \in 1..Len(q) : g[i] = q[i]
      /\ g[Len(q) + 1] = p
  OBVIOUS
<1> HIDE DEF g
<1>2. ASSUME NEW i \in 1..Len(g)
      PROVE  ServerScript(n + i, g[i], r)
  <2>1. CASE i \in 1..Len(q)
    BY <1>1, <2>1 DEF Queue
  <2>2. CASE i = Len(q) + 1
    <3>1. n + i = n + Len(q) + 1 /\ g[i] = p
      BY <1>1, <2>2
    <3> QED
      BY <3>1
  <2> QED
    BY <1>1, <2>1, <2>2
<1>3. Queue(n, g, r)
  BY <1>2 DEF Queue
<1> QED
  BY <1>1, <1>3 DEF g

LEMMA ConsumedNumber ==
    ASSUME NEW stage
    PROVE  Consumed(stage) \in 0..7
BY DEF Consumed

-------------------------------------------------------------------------------
(***************************************************************************)
(* The client's steps: it takes the next packet, or none, or it ends.      *)
(***************************************************************************)
Takes ==
    /\ s2c # <<>> /\ s2c' = Tail(s2c)
    /\ Consumed(pc') = Consumed(pc) + 1
    /\ pc' \notin {"start", "connect", "exit"}

TakesNothing ==
    /\ s2c' = s2c
    /\ Consumed(pc') = Consumed(pc)
    /\ pc' # "exit"
    /\ pc' \in {"start", "connect"} => pc \in {"start", "connect"}

LEMMA ClientMoves ==
    ASSUME HandshakeClient \/ User
    PROVE  /\ Takes \/ TakesNothing \/ pc' = "exit"
           /\ pc # "exit"
           /\ result' = "rejected" => ReceiveRejected \/ result = "rejected"
<1> USE DEF Takes, TakesNothing, Consumed, Stop
<1>1. CASE Start
  BY <1>1 DEF Start
<1>2. CASE Connect
  BY <1>2 DEF Connect
<1>3. CASE exchange_identification
  BY <1>3 DEF exchange_identification
<1>4. CASE ReceiveKexinit
  BY <1>4 DEF ReceiveKexinit, Receives
<1>5. CASE ReceiveReply
  BY <1>5 DEF ReceiveReply, Receives, SendNewkeys
<1>6. CASE ReceiveNewkeys
  BY <1>6 DEF ReceiveNewkeys, Receives
<1>7. CASE ReceiveServiceAccept
  BY <1>7 DEF ReceiveServiceAccept, Receives
<1>8. CASE ReceiveNoneFailure
  BY <1>8 DEF ReceiveNoneFailure, Receives
<1>9. CASE ReceiveAuthSuccess
  BY <1>9 DEF ReceiveAuthSuccess, Receives
<1>10. CASE ReceiveRejected
  BY <1>10 DEF ReceiveRejected, Awaited
<1>11. CASE UserAnswers
  BY <1>11 DEF UserAnswers, SendNewkeys
<1>12. CASE PasswordRead \/ PasswordInterrupted
  BY <1>12 DEF PasswordRead, PasswordInterrupted
<1> QED
  BY <1>1, <1>2, <1>3, <1>4, <1>5, <1>6, <1>7, <1>8, <1>9, <1>10, <1>11, <1>12
     DEF HandshakeClient, User

\* What the client has sent stays sent.
LEMMA ClientSendsMore ==
    ASSUME HandshakeInv, HandshakeClient \/ User
    PROVE  Len(c2s') >= Len(c2s) /\ Len(c2s) \in Nat /\ Len(c2s') \in Nat
<1>1. c2s \in Seq(ClientPacket) /\ c2s' \in Seq(ClientPacket)
  BY ClientKeeps DEF HandshakeInv, HandshakeTypeOK
<1>2. \A p : Len(Append(c2s, p)) = Len(c2s) + 1
  OBVIOUS
<1>3. Len(c2s) \in Nat /\ Len(c2s') \in Nat
  BY <1>1
<1>4. CASE \E p : c2s' = Append(c2s, p)
  BY <1>2, <1>3, <1>4
<1>5. CASE c2s' = c2s
  BY <1>3, <1>5
<1>6. CASE exchange_identification
  BY <1>3, <1>6 DEF HandshakeInv, StageInv, exchange_identification
<1>7. \/ \E p : c2s' = Append(c2s, p)
      \/ c2s' = c2s
      \/ exchange_identification
  BY DEF HandshakeClient, User, Start, Connect, ReceiveKexinit, ReceiveReply,
     ReceiveNewkeys, ReceiveServiceAccept, ReceiveNoneFailure,
     ReceiveAuthSuccess, ReceiveRejected, UserAnswers, PasswordRead,
     PasswordInterrupted, SendNewkeys
<1> QED
  BY <1>4, <1>5, <1>6, <1>7

\* The packet the client has to take next passes every check it makes.
LEMMA NextIsAccepted ==
    ASSUME SystemInv, ReceiveRejected
    PROVE  server.refused
<1> DEFINE p == Head(s2c)
<1>1. pc \in DOMAIN Awaited /\ s2c # <<>> /\ pc # "exit"
  BY DEF ReceiveRejected, Awaited
<1>2. ServerScript(Consumed(pc) + 1, p, server.refused)
  <2>1. s2c \in Seq(PeerPacket) /\ Queue(Consumed(pc), s2c, server.refused)
    BY <1>1 DEF SystemInv, HandshakeInv, HandshakeTypeOK, StreamInv
  <2> QED
    BY <1>1, <2>1, ConsumedNumber, QueueTaken
<1>3. StageInv /\ SESSION # "none"
  BY HandshakeAssumption DEF SystemInv, HandshakeInv
<1>4. ~ /\ p.payload = Awaited[pc]
        /\ p.well_formed
        /\ pc # "identification" => Authentic(p)
        /\ pc = "reply" => p.valid_signature
  BY DEF ReceiveRejected, verify_ed25519_signature
<1> HIDE DEF p
<1>5. pc # "identification"
  BY <1>2, <1>4 DEF Consumed, ServerScript, Awaited
<1>6. pc # "kexinit"
  BY <1>2, <1>3, <1>4 DEF Consumed, ServerScript, Awaited, Authentic, StageInv,
     TransportIs, TransportWith
<1>7. pc # "reply"
  BY <1>2, <1>3, <1>4 DEF Consumed, ServerScript, Awaited, Authentic, StageInv,
     TransportIs, TransportWith
<1>8. pc # "newkeys"
  BY <1>2, <1>3, <1>4 DEF Consumed, ServerScript, Awaited, Authentic, StageInv,
     TransportIs, TransportWith
<1>9. pc # "service"
  BY <1>2, <1>3, <1>4 DEF Consumed, ServerScript, Awaited, Authentic, StageInv,
     TransportIs, TransportWith
<1>10. pc # "none"
  BY <1>2, <1>3, <1>4 DEF Consumed, ServerScript, Awaited, Authentic, StageInv,
     TransportIs, TransportWith
<1>11. pc = "answer" => server.refused
  BY <1>2, <1>3, <1>4 DEF Consumed, ServerScript, Awaited, Authentic, StageInv,
     TransportIs, TransportWith
<1> QED
  BY <1>1, <1>5, <1>6, <1>7, <1>8, <1>9, <1>10, <1>11 DEF Awaited

LEMMA ClientStep ==
    ASSUME SystemInv, HandshakeClient \/ User, UNCHANGED server
    PROVE  SystemInv'
<1>1. HandshakeInv'
  BY ClientKeeps DEF SystemInv
<1>2. ServerInv(server)'
  BY DEF SystemInv
<1>3. server'.read <= Len(c2s')
  <2>1. server.read \in Nat /\ server.read <= Len(c2s)
    BY DEF SystemInv, ServerInv, ServerState
  <2> QED
    BY <2>1, ClientSendsMore DEF SystemInv
<1>4. NeverTurnedAway'
  BY ClientMoves, NextIsAccepted DEF SystemInv, NeverTurnedAway
<1>5. StreamInv'
  <2>1. /\ Consumed(pc) + Len(s2c) = Produced(server)
        /\ Queue(Consumed(pc), s2c, server.refused)
        /\ pc \in {"start", "connect"} => server.step = "identification"
        /\ s2c \in Seq(PeerPacket) /\ Len(s2c) \in Nat
        /\ Consumed(pc) \in Nat
    BY ClientMoves, ConsumedNumber
       DEF SystemInv, HandshakeInv, HandshakeTypeOK, StreamInv
  <2>2. CASE Takes
    <3>1. /\ Queue(Consumed(pc) + 1, Tail(s2c), server.refused)
          /\ Len(s2c') = Len(s2c) - 1
      BY <2>1, <2>2, QueueTaken DEF Takes
    <3>2. Queue(Consumed(pc'), s2c', server'.refused)
      BY <2>2, <3>1 DEF Takes
    <3>3. Consumed(pc') + Len(s2c') = Produced(server')
      BY <2>1, <2>2, <3>1 DEF Takes
    <3> QED
      BY <2>2, <3>2, <3>3 DEF StreamInv, Takes
  <2>3. CASE TakesNothing
    BY <2>1, <2>3 DEF StreamInv, TakesNothing
  <2>4. CASE pc' = "exit"
    BY <2>4 DEF StreamInv
  <2> QED
    BY <2>2, <2>3, <2>4, ClientMoves
<1> QED
  BY <1>1, <1>2, <1>3, <1>4, <1>5 DEF SystemInv

-------------------------------------------------------------------------------
(***************************************************************************)
(* The server's steps: what it reads is the next packet of the client's    *)
(* script, what it sends the next of its own.                              *)
(***************************************************************************)
LEMMA IncomingIsScripted ==
    ASSUME SystemInv, server.read < Len(c2s)
    PROVE  /\ server.read \in 0..6
           /\ incoming = Scripted(server.read + 1)
           /\ server.read + 1 <= Len(c2s)
           /\ incoming.payload = "identification" <=> server.read = 0
           /\ incoming.payload = "kexinit" <=> server.read = 1
           /\ incoming.payload = "ecdh_init" <=> server.read = 2
           /\ incoming.payload = "newkeys" <=> server.read = 3
           /\ incoming.payload = "service_request" <=> server.read = 4
           /\ incoming.payload = "none" <=> server.read = 5
           /\ incoming.payload = "password" <=> server.read = 6
<1> DEFINE n == server.read
<1>1. /\ n \in 0..7 /\ Len(c2s) \in Nat /\ Len(c2s) <= 7
      /\ \A i \in 1..Len(c2s) : c2s[i] = Scripted(i)
  BY DEF SystemInv, ServerInv, ServerState, HandshakeInv, HandshakeTypeOK, SentInv
<1>2. n \in 0..6 /\ n + 1 \in 1..Len(c2s)
  BY <1>1
<1>3. incoming = Scripted(n + 1)
  BY <1>1, <1>2 DEF incoming
<1>4. n = 0 \/ n = 1 \/ n = 2 \/ n = 3 \/ n = 4 \/ n = 5 \/ n = 6
  BY <1>2
<1> QED
  BY <1>2, <1>3, <1>4, ScriptedIs

LEMMA ServerQuiet ==
    ASSUME SystemInv, ServerInv(server'), server'.read <= Len(c2s),
           Produced(server') = Produced(server),
           server'.refused = server.refused,
           server.step # "identification",
           UNCHANGED s2c, UNCHANGED clientVars
    PROVE  SystemInv'
<1>1. HandshakeInv'
  BY Before, ArrivalKeeps DEF SystemInv, clientVars
<1>2. StreamInv' /\ NeverTurnedAway'
  BY DEF SystemInv, StreamInv, NeverTurnedAway, clientVars
<1> QED
  BY <1>1, <1>2 DEF SystemInv, clientVars

\* The queue does not ask more of a server that has rejected the password.
LEMMA QueueRefused ==
    ASSUME NEW n, NEW q, NEW r, NEW r2, r => r2, Queue(n, q, r)
    PROVE  Queue(n, q, r2)
BY DEF Queue, ServerScript

LEMMA ServerSendsOne ==
    ASSUME SystemInv, ServerInv(server'), server'.read <= Len(c2s),
           Produced(server') = Produced(server) + 1,
           server.refused => server'.refused,
           pc \notin {"start", "connect"},
           NEW p \in PeerPacket, s2c' = Append(s2c, p),
           ServerScript(Produced(server) + 1, p, server'.refused),
           UNCHANGED clientVars
    PROVE  SystemInv'
<1>1. s2c \in Seq(PeerPacket) /\ s2c' \in Seq(PeerPacket) /\ Len(s2c) \in Nat
  BY Before DEF SystemInv
<1>2. HandshakeInv'
  BY <1>1, ArrivalKeeps DEF SystemInv, clientVars
<1>3. NeverTurnedAway'
  BY DEF SystemInv, NeverTurnedAway, clientVars
<1>4. StreamInv'
  <2> SUFFICES ASSUME pc # "exit"
               PROVE  /\ Consumed(pc) + Len(s2c') = Produced(server')
                      /\ Queue(Consumed(pc), s2c', server'.refused)
    BY DEF StreamInv, clientVars
  <2>1. /\ Consumed(pc) + Len(s2c) = Produced(server)
        /\ Queue(Consumed(pc), s2c, server'.refused)
        /\ Consumed(pc) \in Nat
    BY ConsumedNumber, QueueRefused DEF SystemInv, StreamInv
  <2>2. ServerScript(Consumed(pc) + Len(s2c) + 1, p, server'.refused)
    BY <2>1
  <2> QED
    BY <1>1, <2>1, <2>2, QueueExtended
<1> QED
  BY <1>2, <1>3, <1>4 DEF SystemInv, clientVars

LEMMA ServerStarts ==
    ASSUME SystemInv, ServerIdentifies \/ ServerSendsKexinit
    PROVE  SystemInv'
<1>1. /\ server \in ServerState /\ server.read = 0
      /\ server.out_keys = "none" /\ server.in_keys = "none" /\ server.in_seq = 0
      /\ server.out_seq = 0 /\ server.refused = FALSE
      /\ Len(c2s) \in Nat
  BY DEF SystemInv, ServerInv, ServerState, Produced, ServerIdentifies,
     ServerSendsKexinit, HandshakeInv, HandshakeTypeOK
<1>2. CASE ServerIdentifies
  <2>1. /\ server' \in ServerState /\ server'.read = 0 /\ server'.step = "kexinit"
        /\ server'.out_keys = "none" /\ server'.in_keys = "none"
        /\ server'.in_seq = 0 /\ server'.out_seq = 0 /\ server'.refused = FALSE
    BY <1>1, <1>2 DEF ServerIdentifies, ServerState
  <2>2. ServerInv(server') /\ Produced(server) = 0 /\ Produced(server') = 1
    BY <1>2, <2>1 DEF ServerInv, Produced, ServerIdentifies
  <2>3. /\ ServerPacket("identification") \in PeerPacket
        /\ ServerScript(1, ServerPacket("identification"), server'.refused)
    BY <1>1 DEF ServerPacket, PeerPacket, Payloads, KeyNames, ServerScript
  <2> QED
    BY <1>1, <1>2, <2>1, <2>2, <2>3, ServerSendsOne DEF ServerIdentifies
<1>3. CASE ServerSendsKexinit
  <2>1. /\ server' \in ServerState /\ server'.read = 0 /\ server'.step = "serving"
        /\ server'.out_keys = "none" /\ server'.in_keys = "none"
        /\ server'.in_seq = 0 /\ server'.out_seq = 1 /\ server'.refused = FALSE
    <3>1. server' = [server EXCEPT !.step = "serving", !.out_seq = 1]
      BY <1>1, <1>3 DEF ServerSendsKexinit, ServerState
    <3> QED
      BY <1>1, <3>1 DEF ServerState
  <2>2. ServerInv(server') /\ Produced(server) = 1 /\ Produced(server') = 2
    BY <1>3, <2>1 DEF ServerInv, Produced, ServerSendsKexinit
  <2>3. /\ ServerPacket("kexinit") \in PeerPacket
        /\ ServerScript(2, ServerPacket("kexinit"), server'.refused)
    BY <1>1 DEF ServerPacket, PeerPacket, Payloads, KeyNames, ServerScript
  <2>4. CASE pc = "exit"
    BY <1>1, <1>3, <2>1, <2>2, <2>3, <2>4, ServerSendsOne DEF ServerSendsKexinit
  <2>5. CASE pc # "exit"
    <3>1. pc \notin {"start", "connect"}
      BY <1>3, <2>5 DEF ServerSendsKexinit, SystemInv, StreamInv
    <3> QED
      BY <1>1, <1>3, <2>1, <2>2, <2>3, <3>1, ServerSendsOne DEF ServerSendsKexinit
  <2> QED
    BY <2>4, <2>5
<1> QED
  BY <1>2, <1>3

\* A server that serves has been spoken to.
LEMMA ServingPastStart ==
    ASSUME SystemInv, server.step = "serving"
    PROVE  pc \notin {"start", "connect"}
BY DEF SystemInv, StreamInv

\* The state of the server after it has read one more packet.
LEMMA ServerReadsOne ==
    ASSUME SystemInv, NEW payload, NEW s \in ServerState, s.read = server.read,
           s.in_seq = server.in_seq, s.step = "serving", ServerReads(payload, s)
    PROVE  /\ server' \in ServerState
           /\ server'.read = server.read + 1
           /\ server'.in_seq = server.read
           /\ server'.step = "serving"
           /\ server'.refused = s.refused
           /\ server'.out_keys = s.out_keys /\ server'.in_keys = s.in_keys
           /\ server'.out_seq = s.out_seq
           /\ server'.read <= Len(c2s)
           /\ server.read \in 0..6 /\ server.step = "serving"
           /\ incoming.payload = payload
           /\ server.read < Len(c2s)
           /\ ServerInv(server) /\ UNCHANGED clientVars
<1>1. /\ server.read < Len(c2s) /\ server.step = "serving"
      /\ incoming.payload = payload /\ UNCHANGED clientVars
  BY DEF ServerReads
<1>2. /\ server.read \in 0..6 /\ server.read + 1 <= Len(c2s)
      /\ payload = "identification" <=> server.read = 0
  BY <1>1, IncomingIsScripted
<1>3. ServerInv(server)
  BY DEF SystemInv
<1>4. server' = [s EXCEPT !.read = server.read + 1, !.in_seq = server.read]
  <2>1. server.in_seq = IF server.read = 0 THEN 0 ELSE server.read - 1
    BY <1>3 DEF ServerInv
  <2>2. (IF payload = "identification" THEN s.in_seq ELSE s.in_seq + 1) = server.read
    BY <1>2, <2>1
  <2>3. server' = [s EXCEPT !.read = s.read + 1,
                            !.in_seq = IF payload = "identification"
                                       THEN s.in_seq ELSE s.in_seq + 1]
    BY DEF ServerReads, ServerState
  <2> QED
    BY <2>2, <2>3
<1>5. server.read + 1 \in 0..7 /\ server.read \in Nat
  BY <1>2
<1>6. /\ server'.read = server.read + 1 /\ server'.in_seq = server.read
      /\ server'.step = s.step /\ server'.refused = s.refused
      /\ server'.out_keys = s.out_keys /\ server'.in_keys = s.in_keys
      /\ server'.out_seq = s.out_seq
      /\ server' \in ServerState
  BY <1>4, <1>5 DEF ServerState
<1> QED
  BY <1>1, <1>2, <1>3, <1>6

\* It reads and says nothing.
LEMMA ServerReadsQuietly ==
    ASSUME SystemInv, ServerReadsHello \/ ServerReadsNewkeys
    PROVE  SystemInv'
<1>1. server \in ServerState /\ ServerInv(server)
  BY DEF SystemInv, ServerInv
<1>2. CASE ServerReadsHello
  <2>1. PICK payload \in {"identification", "kexinit"} : ServerReads(payload, server)
    BY <1>2 DEF ServerReadsHello
  <2>2. server.step = "serving"
    BY <2>1 DEF ServerReads
  <2>3. /\ server' \in ServerState
        /\ server'.read = server.read + 1
        /\ server'.in_seq = server.read
        /\ server'.step = "serving"
        /\ server'.refused = server.refused
        /\ server'.out_keys = server.out_keys /\ server'.in_keys = server.in_keys
        /\ server'.out_seq = server.out_seq
        /\ server'.read <= Len(c2s)
        /\ server.read < Len(c2s) /\ incoming.payload = payload
        /\ UNCHANGED clientVars
    BY <1>1, <2>1, <2>2, ServerReadsOne
  <2>4. server.read \in 0..1
    BY <2>1, <2>3, IncomingIsScripted
  <2>5. ServerInv(server') /\ Produced(server') = Produced(server)
    BY <1>1, <2>2, <2>3, <2>4 DEF ServerInv, Produced
  <2> QED
    BY <1>2, <2>2, <2>3, <2>5, ServerQuiet DEF ServerReadsHello
<1>3. CASE ServerReadsNewkeys
  <2> DEFINE s == [server EXCEPT !.in_keys = SESSION]
  <2>1. ServerReads("newkeys", s) /\ server.step = "serving"
    BY <1>3 DEF ServerReadsNewkeys, ServerReads
  <2>2. /\ s \in ServerState /\ s.read = server.read /\ s.in_seq = server.in_seq
        /\ s.step = "serving" /\ s.refused = server.refused
        /\ s.out_keys = server.out_keys /\ s.in_keys = SESSION
        /\ s.out_seq = server.out_seq
    BY <1>1, <2>1 DEF ServerState
  <2> HIDE DEF s
  <2>3. /\ server' \in ServerState
        /\ server'.read = server.read + 1
        /\ server'.in_seq = server.read
        /\ server'.step = "serving"
        /\ server'.refused = server.refused
        /\ server'.out_keys = server.out_keys /\ server'.in_keys = SESSION
        /\ server'.out_seq = server.out_seq
        /\ server'.read <= Len(c2s)
        /\ server.read < Len(c2s) /\ incoming.payload = "newkeys"
        /\ UNCHANGED clientVars
    BY <2>1, <2>2, ServerReadsOne
  <2>4. server.read = 3
    BY <2>3, IncomingIsScripted
  <2>5. ServerInv(server') /\ Produced(server') = Produced(server)
    BY <1>1, <2>1, <2>3, <2>4 DEF ServerInv, Produced
  <2> QED
    BY <1>3, <2>1, <2>3, <2>5, ServerQuiet DEF ServerReadsNewkeys
<1> QED
  BY <1>2, <1>3

\* It reads a request under the new keys and answers it.
LEMMA ServerReplies ==
    ASSUME SystemInv, NEW request, NEW s \in ServerState, ServerReads(request, s),
           s.read = server.read, s.in_seq = server.in_seq, s.step = server.step,
           s.out_keys = server.out_keys, s.in_keys = server.in_keys,
           s.out_seq = server.out_seq + 1,
           request \in {"service_request", "none", "password"},
           NEW payload \in {"service_accept", "failure", "success"},
           request = "service_request" => payload = "service_accept",
           request = "none" => payload = "failure",
           request = "password" => payload = "success" \/ s.refused,
           s.refused => request = "password",
           Answers(payload)
    PROVE  SystemInv'
<1>1. server.step = "serving"
  BY DEF ServerReads
<1>2. /\ server' \in ServerState
      /\ server'.read = server.read + 1
      /\ server'.in_seq = server.read
      /\ server'.step = "serving"
      /\ server'.refused = s.refused
      /\ server'.out_keys = server.out_keys /\ server'.in_keys = server.in_keys
      /\ server'.out_seq = server.out_seq + 1
      /\ server'.read <= Len(c2s)
      /\ server.read < Len(c2s) /\ incoming.payload = request
      /\ UNCHANGED clientVars /\ ServerInv(server)
  BY <1>1, ServerReadsOne
<1>3. /\ request = "service_request" => server.read = 4
      /\ request = "none" => server.read = 5
      /\ request = "password" => server.read = 6
      /\ server.read \in 4..6
  BY <1>2, IncomingIsScripted
<1>4. /\ ServerInv(server') /\ Produced(server) = server.read
      /\ Produced(server') = Produced(server) + 1
      /\ server.out_keys = SESSION /\ server.out_seq = server.read - 1
      /\ ~server.refused
  BY <1>1, <1>2, <1>3 DEF ServerInv, Produced
<1>5. ServerPacket(payload) \in PeerPacket
  BY <1>3, <1>4 DEF ServerPacket, PeerPacket, Payloads, KeyNames
<1>6. ServerScript(Produced(server) + 1, ServerPacket(payload), server'.refused)
  BY <1>2, <1>3, <1>4 DEF ServerScript, ServerPacket
<1> QED
  BY <1>1, <1>2, <1>4, <1>5, <1>6, ServingPastStart, ServerSendsOne DEF Answers

LEMMA OneSentIs ==
    ASSUME ServerInv(server)
    PROVE  /\ OneSent \in ServerState
           /\ OneSent.read = server.read /\ OneSent.in_seq = server.in_seq
           /\ OneSent.step = server.step /\ OneSent.refused = server.refused
           /\ OneSent.out_keys = server.out_keys
           /\ OneSent.in_keys = server.in_keys
           /\ OneSent.out_seq = server.out_seq + 1
BY DEF OneSent, ServerInv, ServerState

LEMMA ServerAnswers ==
    ASSUME SystemInv,
           ServerReadsServiceRequest \/ ServerReadsNone \/ ServerReadsPassword
    PROVE  SystemInv'
<1>1. ServerInv(server)
  BY DEF SystemInv
<1>2. ASSUME NEW payload, NEW s, ServerReads(payload, s)
      PROVE  ~server.refused
  <2>1. server.read \in 0..6
    BY <1>2, IncomingIsScripted DEF ServerReads
  <2> QED
    BY <1>1, <2>1 DEF ServerInv
<1>3. CASE ServerReadsServiceRequest
  BY <1>1, <1>2, <1>3, OneSentIs, ServerReplies DEF ServerReadsServiceRequest
<1>4. CASE ServerReadsNone
  BY <1>1, <1>2, <1>4, OneSentIs, ServerReplies DEF ServerReadsNone
<1>5. CASE ServerReads("password", OneSent) /\ Answers("success")
  BY <1>1, <1>2, <1>5, OneSentIs, ServerReplies
<1>6. CASE /\ ServerReads("password", [OneSent EXCEPT !.refused = TRUE])
           /\ Answers("failure")
  <2> DEFINE s == [OneSent EXCEPT !.refused = TRUE]
  <2>1. /\ s \in ServerState
        /\ s.read = server.read /\ s.in_seq = server.in_seq
        /\ s.step = server.step /\ s.refused = TRUE
        /\ s.out_keys = server.out_keys /\ s.in_keys = server.in_keys
        /\ s.out_seq = server.out_seq + 1
    BY <1>1, OneSentIs DEF ServerState
  <2> HIDE DEF s
  <2>2. ServerReads("password", s)
    BY <1>6 DEF s
  <2> QED
    BY <1>6, <2>1, <2>2, ServerReplies
<1> QED
  BY <1>3, <1>4, <1>5, <1>6 DEF ServerReadsPassword

\* Reply and NEWKEYS go out together, both in the clear.
LEMMA ServerReadsEcdhInitKeeps ==
    ASSUME SystemInv, ServerReadsEcdhInit
    PROVE  SystemInv'
<1> DEFINE s == [server EXCEPT !.out_seq = @ + 2, !.out_keys = SESSION]
           p == [payload |-> "reply", keys |-> "none", seq |-> server.out_seq,
                 well_formed |-> TRUE, host_key |-> SERVER_KEY,
                 valid_signature |-> TRUE]
           q == [payload |-> "newkeys", keys |-> "none",
                 seq |-> server.out_seq + 1, well_formed |-> TRUE]
<1>1. /\ ServerReads("ecdh_init", s) /\ server.step = "serving"
      /\ s2c' = s2c \o <<p, q>>
      /\ server \in ServerState
  BY DEF ServerReadsEcdhInit, ServerReads, SystemInv, ServerInv
<1>2. /\ p \in PeerPacket /\ q \in PeerPacket
      /\ \A r : ServerScript(3, p, r) /\ ServerScript(4, q, r)
  BY <1>1, HandshakeServerAssumption
     DEF ServerState, PeerPacket, Payloads, KeyNames, ServerScript
<1>3. /\ s \in ServerState /\ s.read = server.read /\ s.in_seq = server.in_seq
      /\ s.step = "serving" /\ s.refused = server.refused
      /\ s.out_keys = SESSION /\ s.in_keys = server.in_keys
      /\ s.out_seq = server.out_seq + 2
  <2>1. s = [server EXCEPT !.out_seq = server.out_seq + 2, !.out_keys = SESSION]
    BY <1>1 DEF ServerState
  <2>2. server.out_seq + 2 \in Nat
    BY <1>1 DEF ServerState
  <2> HIDE DEF s
  <2> QED
    BY <1>1, <2>1, <2>2 DEF ServerState
<1> HIDE DEF s, p, q
<1>4. /\ server' \in ServerState
      /\ server'.read = server.read + 1
      /\ server'.in_seq = server.read
      /\ server'.step = "serving"
      /\ server'.refused = server.refused
      /\ server'.out_keys = SESSION /\ server'.in_keys = server.in_keys
      /\ server'.out_seq = server.out_seq + 2
      /\ server'.read <= Len(c2s)
      /\ server.read < Len(c2s) /\ incoming.payload = "ecdh_init"
      /\ UNCHANGED clientVars /\ ServerInv(server)
  BY <1>1, <1>3, ServerReadsOne
<1>5. server.read = 2
  BY <1>4, IncomingIsScripted
<1>6. ServerInv(server') /\ Produced(server) = 2 /\ Produced(server') = 4
  BY <1>1, <1>4, <1>5 DEF ServerInv, Produced
<1>7. /\ s2c \in Seq(PeerPacket) /\ s2c' = Append(Append(s2c, p), q)
      /\ Append(s2c, p) \in Seq(PeerPacket) /\ s2c' \in Seq(PeerPacket)
  <2>1. s2c \in Seq(PeerPacket)
    BY Before DEF SystemInv
  <2>2. s2c' = Append(Append(s2c, p), q)
    BY <1>1, <1>2, <2>1
  <2> QED
    BY <1>2, <2>1, <2>2
<1>8. HandshakeInv'
  BY <1>4, <1>7, ArrivalKeeps DEF SystemInv, clientVars
<1>9. NeverTurnedAway'
  BY <1>4 DEF SystemInv, NeverTurnedAway, clientVars
<1>10. StreamInv'
  <2> SUFFICES ASSUME pc # "exit"
               PROVE  /\ Consumed(pc) + Len(s2c') = 4
                      /\ Queue(Consumed(pc), s2c', server.refused)
    BY <1>1, <1>4, <1>6, ServingPastStart DEF StreamInv, clientVars
  <2>1. /\ Consumed(pc) + Len(s2c) = 2 /\ Len(s2c) \in Nat
        /\ Queue(Consumed(pc), s2c, server.refused)
        /\ Consumed(pc) \in Nat
    BY <1>6, <1>7, ConsumedNumber DEF SystemInv, StreamInv
  <2>2. ServerScript(Consumed(pc) + Len(s2c) + 1, p, server.refused)
    BY <1>2, <2>1
  <2>3. /\ Queue(Consumed(pc), Append(s2c, p), server.refused)
        /\ Len(Append(s2c, p)) = Len(s2c) + 1
    BY <1>2, <1>7, <2>1, <2>2, QueueExtended
  <2>4. Consumed(pc) + Len(Append(s2c, p)) + 1 = 4
    BY <2>1, <2>3
  <2>5. /\ Queue(Consumed(pc), s2c', server.refused)
        /\ Len(s2c') = Len(Append(s2c, p)) + 1
    <3>1. PICK first : first = Append(s2c, p)
      OBVIOUS
    <3>2. ServerScript(Consumed(pc) + Len(first) + 1, q, server.refused)
      BY <1>2, <2>4, <3>1
    <3>3. /\ first \in Seq(PeerPacket)
          /\ Queue(Consumed(pc), first, server.refused)
      BY <1>7, <2>3, <3>1
    <3>4. /\ Queue(Consumed(pc), Append(first, q), server.refused)
          /\ Len(Append(first, q)) = Len(first) + 1
      BY <1>2, <2>1, <3>2, <3>3, QueueExtended
    <3> QED
      BY <1>7, <3>1, <3>4
  <2> QED
    BY <2>1, <2>3, <2>5
<1> QED
  BY <1>4, <1>6, <1>8, <1>9, <1>10 DEF SystemInv, clientVars

LEMMA SystemInitInv == SystemInit => SystemInv
<1> SUFFICES ASSUME SystemInit
             PROVE  SystemInv
  OBVIOUS
<1>1. HandshakeInv
  BY HandshakeInitInv DEF SystemInit
<1>2. ServerInv(server)
  BY DEF SystemInit, ServerInv, ServerState, Produced
<1>3. /\ server.read <= Len(c2s) /\ NeverTurnedAway /\ Len(s2c) = 0
  BY DEF SystemInit, HandshakeInit, NeverTurnedAway
<1>4. StreamInv
  BY <1>3 DEF SystemInit, HandshakeInit, StreamInv, Consumed, Produced, Queue
<1> QED
  BY <1>1, <1>2, <1>3, <1>4 DEF SystemInv

LEMMA SystemStep ==
    ASSUME SystemInv, [SystemNext]_systemVars
    PROVE  SystemInv'
<1>1. CASE (HandshakeClient \/ User) /\ UNCHANGED server
  BY <1>1, ClientStep
<1>2. CASE Server
  BY <1>2, ServerStarts, ServerReadsQuietly, ServerReadsEcdhInitKeeps,
     ServerAnswers DEF Server
<1>3. CASE UNCHANGED systemVars
  <2>1. /\ UNCHANGED <<pc, result, transport, file, host_key, signer, answer,
                       c2s, s2c, terminalVars, configVars>>
        /\ UNCHANGED server
    BY <1>3 DEF systemVars, handshakeVars
  <2>2. HandshakeInv'
    BY <2>1, Before, ArrivalKeeps DEF SystemInv
  <2> QED
    BY <2>1, <2>2 DEF SystemInv, StreamInv, NeverTurnedAway
<1> QED
  BY <1>1, <1>2, <1>3 DEF SystemNext, HandshakeOver, systemVars

(***************************************************************************)
(* Client and server, each at its own pace, agree on what has been sent,   *)
(* what has been read, and under which keys and numbers.                   *)
(***************************************************************************)
THEOREM SystemInductive == SystemSpec => []SystemInv
<1>1. SystemInit => SystemInv
  BY SystemInitInv
<1>2. SystemInv /\ [SystemNext]_systemVars => SystemInv'
  BY SystemStep
<1> QED
  BY <1>1, <1>2, PTL DEF SystemSpec

(***************************************************************************)
(* Every packet of the client's can be read by the server as its turn      *)
(* comes: both change keys at the same packet (main.cpp:395-409).          *)
(***************************************************************************)
THEOREM KeysInStep == SystemSpec => []KeysChangeInStep
<1>1. SystemInv => KeysChangeInStep
  <2> SUFFICES ASSUME SystemInv, server.read < Len(c2s)
               PROVE  Readable
    BY DEF KeysChangeInStep
  <2>1. server.read \in 0..6 /\ incoming = Scripted(server.read + 1)
    BY IncomingIsScripted
  <2>2. /\ server.in_keys = IF server.read < 4 THEN "none" ELSE SESSION
        /\ server.in_seq = IF server.read = 0 THEN 0 ELSE server.read - 1
    BY DEF SystemInv, ServerInv
  <2>3. /\ incoming.keys = IF server.read + 1 <= 4 THEN "none" ELSE SESSION
        /\ incoming.seq = IF server.read + 1 = 1 THEN 0 ELSE server.read + 1 - 2
    BY <2>1 DEF Scripted
  <2> QED
    BY <2>1, <2>2, <2>3 DEF Readable
<1> QED
  BY <1>1, SystemInductive, PTL

(***************************************************************************)
(* An honest server is turned away only after it has rejected the          *)
(* password: none of the client's checks fails on its packets.             *)
(***************************************************************************)
THEOREM HonestServerAccepted == SystemSpec => []NeverTurnedAway
<1>1. SystemInv => NeverTurnedAway
  BY DEF SystemInv
<1> QED
  BY <1>1, SystemInductive, PTL

===============================================================================

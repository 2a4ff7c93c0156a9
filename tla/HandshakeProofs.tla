---------------------------- MODULE HandshakeProofs ----------------------------
(***************************************************************************)
(* Handshake for every command line, known-hosts file and peer: the        *)
(* inductive invariant and what follows from it.                           *)
(***************************************************************************)
EXTENDS Handshake, KnownHostsFileProofs

(***************************************************************************)
(* Whatever the peer does, the client sends a prefix of one script, and    *)
(* the stage it is at says how long a prefix.                              *)
(***************************************************************************)
ClientScript == <<"identification", "kexinit", "ecdh_init", "newkeys",
                  "service_request", "none", "password">>

Scripted(n) ==
    [payload |-> ClientScript[n],
     keys |-> IF n <= 4 THEN "none" ELSE SESSION,
     seq |-> IF n = 1 THEN 0 ELSE n - 2]

SentInv ==
    /\ Len(c2s) <= 7
    /\ \A i \in 1..Len(c2s) : c2s[i] = Scripted(i)

TransportWith(out, in, sent, received) ==
    [out_keys |-> out, in_keys |-> in,
     outgoing_sequence |-> sent, incoming_sequence |-> received]

TransportIs(out, in, sent, received) ==
    transport = TransportWith(out, in, sent, received)

StageInv ==
    /\ pc # "exit" => result = "running"
    /\ pc \in {"start", "connect", "identification"} =>
         Len(c2s) = 0 /\ TransportIs("none", "none", 0, 0)
    /\ pc = "kexinit" => Len(c2s) = 2 /\ TransportIs("none", "none", 1, 0)
    /\ pc = "reply" => Len(c2s) = 3 /\ TransportIs("none", "none", 2, 1)
    /\ pc = "prompt" => Len(c2s) = 3 /\ TransportIs("none", "none", 2, 2)
    /\ pc = "newkeys" => Len(c2s) = 4 /\ TransportIs(SESSION, "none", 3, 2)
    /\ pc = "service" => Len(c2s) = 5 /\ TransportIs(SESSION, SESSION, 4, 3)
    /\ pc = "none" => Len(c2s) = 6 /\ TransportIs(SESSION, SESSION, 5, 4)
    /\ pc = "password" => Len(c2s) = 6 /\ TransportIs(SESSION, SESSION, 5, 5)
    /\ pc = "answer" => Len(c2s) = 7 /\ TransportIs(SESSION, SESSION, 6, 5)
    /\ pc = "session" => Len(c2s) = 7 /\ TransportIs(SESSION, SESSION, 6, 6)

Configured ==
    /\ accepts_arguments(arguments)
    /\ config = parse_client_config(arguments)

ConfigInv ==
    /\ arguments \in Invocations
    /\ config = <<>> \/ Configured
    /\ pc \notin {"start", "exit"} => Configured

\* The key the client goes on with has signed the exchange, and the user or
\* the file vouches for it.
KeyInv ==
    /\ GoodEnd(file)
    /\ pc = "prompt" => host_key \in Keys /\ host_key = signer
    /\ Len(c2s) >= 4 =>
         /\ Configured
         /\ host_key \in Keys /\ host_key = signer
         /\ answer = "yes" \/ Recorded(file, Host) = host_key
    /\ Len(c2s) >= 5 => transport.in_keys = SESSION

EchoInv ==
    /\ pc # "password" /\ result # "killed" => tty = "cooked"
    /\ original_settings = "none" /\ raw_mode_active = FALSE

HandshakeInv ==
    HandshakeTypeOK /\ SentInv /\ StageInv /\ ConfigInv /\ KeyInv /\ EchoInv

LEMMA HandshakeInitInv == HandshakeInit => HandshakeInv
<1> SUFFICES ASSUME HandshakeInit
             PROVE  HandshakeInv
  OBVIOUS
<1>1. Len(c2s) = 0 /\ Len(s2c) = 0
  BY DEF HandshakeInit
<1>2. HandshakeTypeOK
  <2>1. file \in File /\ s2c \in Seq(PeerPacket) /\ c2s \in Seq(ClientPacket)
    BY HandshakeAssumption DEF HandshakeInit
  <2>2. transport \in TransportState
    BY DEF HandshakeInit, TransportState
  <2>3. TerminalTypeOK
    BY DEF HandshakeInit, TerminalInit, TerminalTypeOK, TtySettings
  <2> QED
    BY <2>1, <2>2, <2>3 DEF HandshakeInit, HandshakeTypeOK, Stages, Ends
<1>3. SentInv
  BY <1>1 DEF SentInv
<1>4. StageInv
  BY <1>1 DEF StageInv, HandshakeInit, TransportIs, TransportWith
<1>5. ConfigInv
  BY DEF HandshakeInit, ConfigInv
<1>6. KeyInv
  BY <1>1, HandshakeAssumption DEF HandshakeInit, KeyInv, GoodEnd, EmptyFile
<1>7. EchoInv
  BY DEF HandshakeInit, TerminalInit, EchoInv
<1> QED
  BY <1>2, <1>3, <1>4, <1>5, <1>6, <1>7 DEF HandshakeInv

\* The entries of the script, and what they are sent with.
LEMMA ScriptedIs ==
    /\ Scripted(1) = [payload |-> "identification", keys |-> "none", seq |-> 0]
    /\ Scripted(2) = [payload |-> "kexinit", keys |-> "none", seq |-> 0]
    /\ Scripted(3) = [payload |-> "ecdh_init", keys |-> "none", seq |-> 1]
    /\ Scripted(4) = [payload |-> "newkeys", keys |-> "none", seq |-> 2]
    /\ Scripted(5) = [payload |-> "service_request", keys |-> SESSION, seq |-> 3]
    /\ Scripted(6) = [payload |-> "none", keys |-> SESSION, seq |-> 4]
    /\ Scripted(7) = [payload |-> "password", keys |-> SESSION, seq |-> 5]
BY DEF Scripted, ClientScript

LEMMA ScriptedType ==
    ASSUME NEW n \in 1..7
    PROVE  Scripted(n) \in ClientPacket
<1>1. n = 1 \/ n = 2 \/ n = 3 \/ n = 4 \/ n = 5 \/ n = 6 \/ n = 7
  OBVIOUS
<1> QED
  BY <1>1, ScriptedIs DEF ClientPacket, Payloads

\* The next packet of the script keeps to it.
LEMMA SentNext ==
    ASSUME HandshakeTypeOK, SentInv, NEW n \in 0..6, Len(c2s) = n,
           c2s' = Append(c2s, Scripted(n + 1))
    PROVE  SentInv' /\ Len(c2s') = n + 1 /\ c2s' \in Seq(ClientPacket)
<1>1. Scripted(n + 1) \in ClientPacket /\ c2s \in Seq(ClientPacket)
  BY ScriptedType DEF HandshakeTypeOK
<1>2. /\ Len(c2s') = n + 1 /\ c2s' \in Seq(ClientPacket)
      /\ \A i \in 1..n : c2s'[i] = c2s[i]
      /\ c2s'[n + 1] = Scripted(n + 1)
  BY <1>1
<1> QED
  BY <1>2 DEF SentInv

-------------------------------------------------------------------------------
(***************************************************************************)
(* Every action keeps the invariant.                                       *)
(***************************************************************************)
LEMMA HeadTail ==
    ASSUME HandshakeTypeOK, s2c # <<>>
    PROVE  Head(s2c) \in PeerPacket /\ Tail(s2c) \in Seq(PeerPacket)
BY HeadTailProperties DEF HandshakeTypeOK

LEMMA TransportSteps ==
    ASSUME NEW out, NEW in, NEW sent \in Nat, NEW received \in Nat
    PROVE  LET t == TransportWith(out, in, sent, received)
           IN  /\ Sent(t) = TransportWith(out, in, sent + 1, received)
               /\ Received(t) = TransportWith(out, in, sent, received + 1)
               /\ enable_outgoing_encryption(t) =
                    TransportWith(SESSION, in, sent, received)
               /\ enable_incoming_encryption(t) =
                    TransportWith(out, SESSION, sent, received)
               /\ t.out_keys = out /\ t.in_keys = in
               /\ t.outgoing_sequence = sent /\ t.incoming_sequence = received
               /\ out \in {"none", SESSION} /\ in \in {"none", SESSION} =>
                    t \in TransportState
BY DEF TransportWith, Sent, Received, enable_outgoing_encryption,
   enable_incoming_encryption, TransportState

LEMMA ExchangeIdentificationKeeps ==
    ASSUME HandshakeInv, exchange_identification
    PROVE  HandshakeInv'
<1>1. /\ HandshakeTypeOK /\ SentInv
      /\ Len(c2s) = 0 /\ TransportIs("none", "none", 0, 0)
  BY DEF HandshakeInv, StageInv, exchange_identification
<1>2. c2s' = c2s \o <<Scripted(1), Scripted(2)>>
  BY <1>1, ScriptedIs DEF exchange_identification, TransportIs, Packet, TransportWith
<1>3. SentInv' /\ Len(c2s') = 2 /\ c2s' \in Seq(ClientPacket)
  <2>1. c2s = <<>> /\ c2s \in Seq(ClientPacket)
    BY <1>1, EmptySeq DEF HandshakeTypeOK
  <2>2. Scripted(1) \in ClientPacket /\ Scripted(2) \in ClientPacket
    BY ScriptedType
  <2>3. c2s' = <<Scripted(1), Scripted(2)>>
    BY <1>2, <2>1, <2>2
  <2> QED
    BY <2>2, <2>3 DEF SentInv
<1>4. TransportIs("none", "none", 1, 0)'
  BY <1>1, TransportSteps DEF TransportIs, exchange_identification
<1>5. HandshakeTypeOK'
  BY <1>1, <1>3, <1>4, HeadTail DEF HandshakeTypeOK, exchange_identification,
     TransportIs, TransportWith, TransportState, Stages, TerminalTypeOK, terminalVars
<1>6. StageInv'
  BY <1>1, <1>3, <1>4 DEF HandshakeInv, StageInv, exchange_identification
<1>7. ConfigInv'
  BY DEF HandshakeInv, ConfigInv, Configured, exchange_identification, configVars
<1>8. KeyInv'
  BY <1>1, <1>3 DEF HandshakeInv, KeyInv, exchange_identification
<1>9. EchoInv'
  BY DEF HandshakeInv, EchoInv, exchange_identification, terminalVars
<1> QED
  BY <1>3, <1>5, <1>6, <1>7, <1>8, <1>9 DEF HandshakeInv

\* A packet is sent and the transport says so.
LEMMA SendKeeps ==
    ASSUME HandshakeInv, NEW n \in 2..6, Len(c2s) = n,
           c2s' = Append(c2s, Scripted(n + 1)),
           s2c' \in Seq(PeerPacket), StageInv',
           pc' \in Stages \ {"password", "prompt"}, pc' # "exit",
           transport' \in TransportState,
           file' \in File, GoodEnd(file'),
           host_key' \in Keys \cup {GARBAGE}, signer' \in Keys \cup {GARBAGE},
           answer' \in {"unasked", "yes", "no"},
           n >= 3 => /\ host_key' \in Keys /\ host_key' = signer'
                     /\ answer' = "yes" \/ Recorded(file', Host') = host_key',
           n >= 4 => transport'.in_keys = SESSION,
           tty' = "cooked", UNCHANGED <<original_settings, raw_mode_active>>,
           Configured, UNCHANGED configVars
    PROVE  HandshakeInv'
<1>1. SentInv' /\ Len(c2s') = n + 1 /\ c2s' \in Seq(ClientPacket)
  <2>1. HandshakeTypeOK /\ SentInv /\ n \in 0..6
    BY DEF HandshakeInv
  <2> QED
    BY <2>1, SentNext
<1>2. result' = "running"
  BY DEF StageInv
<1>3. EchoInv' /\ TerminalTypeOK'
  BY DEF HandshakeInv, EchoInv, HandshakeTypeOK, TerminalTypeOK, TtySettings
<1>4. HandshakeTypeOK'
  BY <1>1, <1>2, <1>3 DEF HandshakeTypeOK, Ends
<1>5. ConfigInv' /\ Configured'
  BY DEF HandshakeInv, ConfigInv, Configured, configVars
<1>6. KeyInv'
  BY <1>1, <1>5 DEF KeyInv
<1> QED
  BY <1>1, <1>3, <1>4, <1>5, <1>6 DEF HandshakeInv

\* The process ends.
LEMMA StopKeeps ==
    ASSUME HandshakeInv, NEW kind \in Ends, Stop(kind),
           transport' \in TransportState, transport'.in_keys = transport.in_keys,
           host_key' \in Keys \cup {GARBAGE}, signer' \in Keys \cup {GARBAGE},
           answer' \in {"unasked", "yes", "no"},
           s2c' \in Seq(PeerPacket),
           Len(c2s) >= 4 => UNCHANGED <<host_key, signer, answer>>,
           kind # "killed" => tty' = "cooked", tty' \in TtySettings,
           UNCHANGED <<file, c2s, arguments, original_settings, raw_mode_active>>,
           config' # config => pc = "start" /\ Configured'
    PROVE  HandshakeInv'
<1>1. SentInv' /\ Len(c2s') = Len(c2s) /\ Len(c2s) \in Nat
  BY DEF HandshakeInv, SentInv, HandshakeTypeOK
<1>2. EchoInv' /\ TerminalTypeOK'
  BY DEF HandshakeInv, EchoInv, TerminalTypeOK, TtySettings, Stop
<1>3. HandshakeTypeOK'
  BY <1>2 DEF HandshakeTypeOK, HandshakeInv, Stages, Stop
<1>4. ConfigInv'
  BY DEF HandshakeInv, ConfigInv, Configured, Stop
<1>5. StageInv'
  BY DEF StageInv, Stop
<1>6. KeyInv'
  <2>1. Len(c2s) >= 4 => config' = config
    BY <1>1 DEF HandshakeInv, StageInv
  <2>2. Len(c2s) >= 4 => Host' = Host
    BY <2>1 DEF Host
  <2> QED
    BY <1>1, <2>1, <2>2 DEF HandshakeInv, KeyInv, Configured, Stop
<1> QED
  BY <1>1, <1>2, <1>3, <1>4, <1>5, <1>6 DEF HandshakeInv

\* Nothing is sent and the process goes on.
LEMMA SilentKeeps ==
    ASSUME HandshakeInv, pc' \in Stages, pc' # "exit", StageInv',
           transport' \in TransportState, transport'.in_keys = transport.in_keys,
           host_key' \in Keys \cup {GARBAGE}, signer' \in Keys \cup {GARBAGE},
           s2c' \in Seq(PeerPacket),
           Len(c2s) >= 4 => UNCHANGED <<host_key, signer>>,
           pc' = "prompt" => host_key' \in Keys /\ host_key' = signer',
           pc' # "password" => tty' = "cooked", tty' \in TtySettings,
           UNCHANGED <<file, c2s, answer, arguments, original_settings,
                       raw_mode_active>>,
           Configured', config' # config => pc = "start"
    PROVE  HandshakeInv'
<1>1. SentInv' /\ Len(c2s') = Len(c2s) /\ Len(c2s) \in Nat
  BY DEF HandshakeInv, SentInv, HandshakeTypeOK
<1>2. EchoInv' /\ TerminalTypeOK'
  BY DEF HandshakeInv, EchoInv, TerminalTypeOK, TtySettings
<1>3. HandshakeTypeOK'
  <2>1. result' \in Ends
    BY DEF StageInv, Ends
  <2> QED
    BY <1>2, <2>1 DEF HandshakeTypeOK, HandshakeInv
<1>4. ConfigInv'
  BY DEF HandshakeInv, ConfigInv
<1>5. KeyInv'
  <2>1. Len(c2s) >= 4 => config' = config
    BY <1>1 DEF HandshakeInv, StageInv
  <2>2. Len(c2s) >= 4 => Host' = Host
    BY <2>1 DEF Host
  <2> QED
    BY <1>1, <2>1, <2>2 DEF HandshakeInv, KeyInv
<1> QED
  BY <1>1, <1>2, <1>3, <1>4, <1>5 DEF HandshakeInv

LEMMA ConfiguredHost ==
    ASSUME HandshakeInv, Configured
    PROVE  Host \in Hosts
BY HandshakeAssumption DEF HandshakeInv, ConfigInv, Configured, Host

\* What the invariant says of the state before a step.
LEMMA Before ==
    ASSUME HandshakeInv
    PROVE  /\ HandshakeTypeOK
           /\ transport \in TransportState
           /\ host_key \in Keys \cup {GARBAGE} /\ signer \in Keys \cup {GARBAGE}
           /\ answer \in {"unasked", "yes", "no"}
           /\ s2c \in Seq(PeerPacket)
           /\ s2c # <<>> => /\ Head(s2c) \in PeerPacket
                            /\ Tail(s2c) \in Seq(PeerPacket)
           /\ file \in File /\ GoodEnd(file)
           /\ pc \notin {"start", "exit"} => Configured /\ Host \in Hosts
           /\ pc \notin {"password", "exit"} => tty = "cooked"
           /\ tty \in TtySettings
BY HeadTail, ConfiguredHost DEF HandshakeInv, HandshakeTypeOK, ConfigInv, KeyInv,
   EchoInv, TerminalTypeOK, StageInv

LEMMA StartKeeps ==
    ASSUME HandshakeInv, Start
    PROVE  HandshakeInv'
<1> USE DEF terminalVars
<1>1. CASE accepts_arguments(arguments) /\ pc' = "connect"
  <2>1. Configured' /\ UNCHANGED <<result, transport, c2s>> /\ pc = "start"
    BY <1>1 DEF Start, Configured, Stop
  <2>2. StageInv'
    BY <1>1, <2>1 DEF HandshakeInv, StageInv, TransportIs
  <2> QED
    BY <1>1, <2>1, <2>2, Before, SilentKeeps DEF Start, Stages
<1>2. CASE accepts_arguments(arguments) /\ Stop("system")
  <2>1. config' = parse_client_config(arguments) /\ Configured' /\ pc = "start"
    BY <1>2 DEF Start, Configured
  <2> QED
    BY <1>2, <2>1, Before, StopKeeps DEF Start, Ends
<1>3. CASE ~accepts_arguments(arguments)
  BY <1>3, Before, StopKeeps DEF Start, Ends
<1> QED
  BY <1>1, <1>2, <1>3 DEF Start

LEMMA ConnectKeeps ==
    ASSUME HandshakeInv, Connect
    PROVE  HandshakeInv'
<1> USE DEF terminalVars, configVars
<1>1. Configured'
  BY Before DEF Connect, Configured
<1>2. CASE pc' = "identification"
  <2>1. StageInv'
    BY <1>2 DEF HandshakeInv, StageInv, TransportIs, Connect, Stop
  <2> QED
    BY <1>1, <1>2, <2>1, Before, SilentKeeps DEF Connect, Stages
<1>3. CASE Stop("system")
  BY <1>3, Before, StopKeeps DEF Connect, Ends
<1> QED
  BY <1>2, <1>3 DEF Connect

LEMMA ReceiveKexinitKeeps ==
    ASSUME HandshakeInv, ReceiveKexinit
    PROVE  HandshakeInv'
<1> USE DEF terminalVars, configVars
<1>1. Len(c2s) = 2 /\ TransportIs("none", "none", 1, 0)
  BY DEF HandshakeInv, StageInv, ReceiveKexinit
<1>2. c2s' = Append(c2s, Scripted(3))
  BY <1>1, ScriptedIs DEF ReceiveKexinit, TransportIs, Packet, TransportWith
<1>3. TransportIs("none", "none", 2, 1)'
  BY <1>1, TransportSteps DEF TransportIs, ReceiveKexinit
<1>4. StageInv' /\ Len(c2s') = 3
  <2>1. Len(c2s') = 3
    BY <1>1, <1>2, SentNext DEF HandshakeInv
  <2> QED
    BY <1>3, <2>1 DEF HandshakeInv, StageInv, ReceiveKexinit
<1>5. transport' \in TransportState
  BY <1>3 DEF TransportIs, TransportWith, TransportState
<1> QED
  BY <1>1, <1>2, <1>4, <1>5, Before, SendKeeps DEF ReceiveKexinit, Receives, Stages

LEMMA ReceiveNewkeysKeeps ==
    ASSUME HandshakeInv, ReceiveNewkeys
    PROVE  HandshakeInv'
<1> USE DEF terminalVars, configVars
<1>1. Len(c2s) = 4 /\ TransportIs(SESSION, "none", 3, 2)
  BY DEF HandshakeInv, StageInv, ReceiveNewkeys
<1>2. c2s' = Append(c2s, Scripted(5))
  BY <1>1, ScriptedIs DEF ReceiveNewkeys, TransportIs, Packet, Received,
     TransportWith, enable_incoming_encryption
<1>3. TransportIs(SESSION, SESSION, 4, 3)'
  BY <1>1, TransportSteps DEF TransportIs, ReceiveNewkeys
<1>4. StageInv'
  <2>1. Len(c2s') = 5
    BY <1>1, <1>2, SentNext DEF HandshakeInv
  <2> QED
    BY <1>3, <2>1 DEF HandshakeInv, StageInv, ReceiveNewkeys
<1>5. transport' \in TransportState /\ transport'.in_keys = SESSION
  BY <1>3 DEF TransportIs, TransportWith, TransportState
<1>6. /\ host_key \in Keys /\ host_key = signer
      /\ answer = "yes" \/ Recorded(file, Host) = host_key
  BY <1>1 DEF HandshakeInv, KeyInv
<1>7. Host' = Host
  BY DEF Host, ReceiveNewkeys
<1> QED
  BY <1>1, <1>2, <1>4, <1>5, <1>6, <1>7, Before, SendKeeps
     DEF ReceiveNewkeys, Receives, Stages

LEMMA ReceiveServiceAcceptKeeps ==
    ASSUME HandshakeInv, ReceiveServiceAccept
    PROVE  HandshakeInv'
<1> USE DEF terminalVars, configVars
<1>1. Len(c2s) = 5 /\ TransportIs(SESSION, SESSION, 4, 3)
  BY DEF HandshakeInv, StageInv, ReceiveServiceAccept
<1>2. c2s' = Append(c2s, Scripted(6))
  BY <1>1, ScriptedIs DEF ReceiveServiceAccept, TransportIs, Packet, TransportWith
<1>3. TransportIs(SESSION, SESSION, 5, 4)'
  BY <1>1, TransportSteps DEF TransportIs, ReceiveServiceAccept
<1>4. StageInv'
  <2>1. Len(c2s') = 6
    BY <1>1, <1>2, SentNext DEF HandshakeInv
  <2> QED
    BY <1>3, <2>1 DEF HandshakeInv, StageInv, ReceiveServiceAccept
<1>5. transport' \in TransportState /\ transport'.in_keys = SESSION
  BY <1>3 DEF TransportIs, TransportWith, TransportState
<1>6. /\ host_key \in Keys /\ host_key = signer
      /\ answer = "yes" \/ Recorded(file, Host) = host_key
  BY <1>1 DEF HandshakeInv, KeyInv
<1>7. Host' = Host
  BY DEF Host, ReceiveServiceAccept
<1> QED
  BY <1>1, <1>2, <1>4, <1>5, <1>6, <1>7, Before, SendKeeps
     DEF ReceiveServiceAccept, Receives, Stages

LEMMA ReceiveNoneFailureKeeps ==
    ASSUME HandshakeInv, ReceiveNoneFailure
    PROVE  HandshakeInv'
<1> USE DEF configVars
<1>1. Len(c2s) = 6 /\ TransportIs(SESSION, SESSION, 5, 4)
  BY DEF HandshakeInv, StageInv, ReceiveNoneFailure
<1>2. TransportIs(SESSION, SESSION, 5, 5)'
  BY <1>1, TransportSteps DEF TransportIs, ReceiveNoneFailure
<1>3. StageInv'
  BY <1>1, <1>2 DEF HandshakeInv, StageInv, ReceiveNoneFailure
<1>4. transport' \in TransportState /\ transport'.in_keys = transport.in_keys
  BY <1>1, <1>2 DEF TransportIs, TransportWith, TransportState
<1>5. Configured'
  BY Before DEF ReceiveNoneFailure, Configured
<1> QED
  BY <1>3, <1>4, <1>5, Before, SilentKeeps
     DEF ReceiveNoneFailure, Receives, Stages, HideInput, TtySettings

LEMMA ReceiveAuthSuccessKeeps ==
    ASSUME HandshakeInv, ReceiveAuthSuccess
    PROVE  HandshakeInv'
<1> USE DEF configVars, terminalVars
<1>1. Len(c2s) = 7 /\ TransportIs(SESSION, SESSION, 6, 5)
  BY DEF HandshakeInv, StageInv, ReceiveAuthSuccess
<1>2. TransportIs(SESSION, SESSION, 6, 6)'
  BY <1>1, TransportSteps DEF TransportIs, ReceiveAuthSuccess
<1>3. StageInv'
  BY <1>1, <1>2 DEF HandshakeInv, StageInv, ReceiveAuthSuccess
<1>4. transport' \in TransportState /\ transport'.in_keys = transport.in_keys
  BY <1>1, <1>2 DEF TransportIs, TransportWith, TransportState
<1>5. Configured'
  BY Before DEF ReceiveAuthSuccess, Configured
<1> QED
  BY <1>3, <1>4, <1>5, Before, SilentKeeps DEF ReceiveAuthSuccess, Receives, Stages

\* Both ways to go on with a host key end in SendNewkeys.
LEMMA SendNewkeysIs ==
    ASSUME HandshakeInv, Len(c2s) = 3, NEW t,
           t = TransportWith("none", "none", 2, 2), SendNewkeys(t),
           pc \in {"reply", "prompt"}
    PROVE  /\ c2s' = Append(c2s, Scripted(4))
           /\ transport' \in TransportState
           /\ StageInv' /\ pc' = "newkeys"
<1>1. c2s' = Append(c2s, Scripted(4))
  BY ScriptedIs, TransportSteps DEF SendNewkeys, Packet
<1>2. TransportIs(SESSION, "none", 3, 2)'
  BY TransportSteps DEF TransportIs, SendNewkeys
<1>3. transport' \in TransportState
  BY <1>2, TransportSteps DEF TransportIs
<1>4. Len(c2s') = 4
  BY <1>1, SentNext DEF HandshakeInv
<1>5. StageInv'
  BY <1>2, <1>4 DEF HandshakeInv, StageInv, SendNewkeys
<1> QED
  BY <1>1, <1>3, <1>5 DEF SendNewkeys

LEMMA ReceiveReplyKeeps ==
    ASSUME HandshakeInv, ReceiveReply
    PROVE  HandshakeInv'
<1> USE DEF terminalVars, configVars
<1> DEFINE key == Head(s2c).host_key
<1>1. /\ Len(c2s) = 3 /\ TransportIs("none", "none", 2, 1) /\ pc = "reply"
      /\ UNCHANGED <<file, answer, terminalVars, configVars>>
  BY DEF HandshakeInv, StageInv, ReceiveReply
<1>2. /\ key \in Keys /\ host_key' = key /\ host_key' \in Keys
      /\ signer' = host_key' /\ s2c' \in Seq(PeerPacket)
  BY Before DEF ReceiveReply, Receives, PeerPacket, Signer, verify_ed25519_signature
<1>3. Received(transport) = TransportWith("none", "none", 2, 2)
  BY <1>1, TransportSteps DEF TransportIs
<1>4. Configured /\ Configured' /\ Host \in Hosts /\ Host' = Host
  BY <1>1, Before DEF Configured, Host
<1>5. transport' = Received(transport) =>
        /\ transport' \in TransportState
        /\ transport'.in_keys = transport.in_keys
        /\ TransportIs("none", "none", 2, 2)'
  BY <1>1, <1>3, TransportSteps DEF TransportIs
<1>6. CASE check(file, Host, key) = "Match" /\ SendNewkeys(Received(transport))
  <2>1. /\ c2s' = Append(c2s, Scripted(4))
        /\ transport' \in TransportState
        /\ StageInv' /\ pc' = "newkeys"
    BY <1>1, <1>3, <1>6, SendNewkeysIs
  <2>2. Recorded(file', Host') = host_key'
    <3>1. Recorded(file, Host) = key
      BY <1>2, <1>4, <1>6, Before, MatchIsEntry DEF Recorded
    <3> QED
      BY <3>1, <1>1, <1>2, <1>4
  <2> QED
    BY <1>1, <1>2, <1>4, <2>1, <2>2, Before, SendKeeps DEF Stages
<1>7. CASE transport' = Received(transport) /\ pc' = "prompt" /\ UNCHANGED <<result, c2s>>
  <2>1. StageInv'
    BY <1>1, <1>5, <1>7 DEF HandshakeInv, StageInv
  <2> QED
    BY <1>1, <1>2, <1>4, <1>5, <1>7, <2>1, Before, SilentKeeps DEF Stages
<1>8. CASE transport' = Received(transport) /\ Stop("refused") /\ UNCHANGED c2s
  BY <1>1, <1>2, <1>4, <1>5, <1>8, Before, StopKeeps DEF Ends
<1> QED
  BY <1>6, <1>7, <1>8 DEF ReceiveReply

LEMMA UserAnswersKeeps ==
    ASSUME HandshakeInv, UserAnswers
    PROVE  HandshakeInv'
<1> USE DEF terminalVars, configVars
<1>1. /\ Len(c2s) = 3 /\ TransportIs("none", "none", 2, 2) /\ pc = "prompt"
      /\ UNCHANGED <<host_key, signer, s2c, terminalVars, configVars>>
      /\ host_key \in Keys /\ host_key = signer
  BY DEF HandshakeInv, StageInv, KeyInv, UserAnswers
<1>2. Configured /\ Host \in Hosts
  BY <1>1, Before
<1>3. CASE answer' = "yes" /\ SendNewkeys(transport)
  <2>1. /\ c2s' = Append(c2s, Scripted(4))
        /\ transport' \in TransportState
        /\ StageInv' /\ pc' = "newkeys"
    BY <1>1, <1>3, SendNewkeysIs DEF TransportIs
  <2>2. \/ \E text \in Texts(Host, host_key) : file' = Appended(file, text)
        \/ file' = file
    BY <1>3, <2>1 DEF UserAnswers, Texts, Stop
  <2>3. file' \in File /\ GoodEnd(file')
    BY <1>1, <1>2, <2>2, Before, AppendedFile
  <2> QED
    BY <1>1, <1>2, <1>3, <2>1, <2>3, Before, SendKeeps DEF Stages
<1>4. CASE /\ answer' \in {"yes", "no"}
           /\ Stop("system") \/ Stop("refused")
           /\ UNCHANGED <<file, c2s, transport>>
  BY <1>1, <1>4, Before, StopKeeps DEF Ends
<1> QED
  BY <1>3, <1>4 DEF UserAnswers

LEMMA PasswordKeeps ==
    ASSUME HandshakeInv, PasswordRead \/ PasswordInterrupted
    PROVE  HandshakeInv'
<1> USE DEF terminalVars, configVars
<1>1. /\ Len(c2s) = 6 /\ TransportIs(SESSION, SESSION, 5, 5) /\ pc = "password"
      /\ UNCHANGED <<file, host_key, signer, answer, s2c, configVars>>
  BY DEF HandshakeInv, StageInv, PasswordRead, PasswordInterrupted
<1>2. /\ host_key \in Keys /\ host_key = signer
      /\ answer = "yes" \/ Recorded(file, Host) = host_key
      /\ Host' = Host /\ Configured
  BY <1>1 DEF HandshakeInv, KeyInv, Host
<1>3. CASE PasswordRead /\ pc' = "answer"
  <2>1. c2s' = Append(c2s, Scripted(7)) /\ transport' = Sent(transport)
    BY <1>1, <1>3, ScriptedIs, TransportSteps
       DEF PasswordRead, Stop, TransportIs, Packet
  <2>2. TransportIs(SESSION, SESSION, 6, 5)'
    BY <1>1, <2>1, TransportSteps DEF TransportIs
  <2>3. transport' \in TransportState /\ transport'.in_keys = SESSION
    BY <2>2, TransportSteps DEF TransportIs
  <2>4. Len(c2s') = 7
    BY <1>1, <2>1, SentNext DEF HandshakeInv
  <2>5. StageInv'
    BY <1>3, <2>2, <2>4 DEF HandshakeInv, StageInv, PasswordRead, Stop
  <2> QED
    BY <1>1, <1>2, <1>3, <2>1, <2>3, <2>5, Before, SendKeeps
       DEF PasswordRead, ShowInput, Stages
<1>4. CASE PasswordRead /\ Stop("system") /\ UNCHANGED <<c2s, transport>>
  BY <1>1, <1>4, Before, StopKeeps DEF PasswordRead, ShowInput, Ends, TtySettings
<1>5. CASE PasswordInterrupted
  BY <1>1, <1>5, Before, StopKeeps DEF PasswordInterrupted, Ends
<1> QED
  BY <1>3, <1>4, <1>5 DEF PasswordRead

LEMMA FailureKeeps ==
    ASSUME HandshakeInv, ReceiveRejected \/ ConnectionFails
    PROVE  HandshakeInv'
<1> USE DEF terminalVars, configVars
<1>1. pc \notin {"password", "exit"}
  BY DEF ReceiveRejected, ConnectionFails, Awaited
<1>2. CASE ReceiveRejected
  BY <1>1, <1>2, Before, StopKeeps DEF ReceiveRejected, Ends
<1>3. CASE ConnectionFails
  BY <1>1, <1>3, Before, StopKeeps DEF ConnectionFails, Ends
<1> QED
  BY <1>2, <1>3

\* Packets that arrive, in what order ever, touch nothing else.
LEMMA ArrivalKeeps ==
    ASSUME HandshakeInv, s2c' \in Seq(PeerPacket),
           UNCHANGED <<pc, result, transport, file, host_key, signer, answer,
                       c2s, terminalVars, configVars>>
    PROVE  HandshakeInv'
<1> USE DEF terminalVars, configVars
<1>1. HandshakeTypeOK'
  BY DEF HandshakeInv, HandshakeTypeOK, TerminalTypeOK
<1>2. SentInv' /\ StageInv' /\ EchoInv'
  BY DEF HandshakeInv, SentInv, StageInv, TransportIs, EchoInv
<1>3. ConfigInv' /\ KeyInv'
  BY DEF HandshakeInv, ConfigInv, KeyInv, Configured, Host
<1> QED
  BY <1>1, <1>2, <1>3 DEF HandshakeInv

LEMMA ClientKeeps ==
    ASSUME HandshakeInv, HandshakeClient \/ User
    PROVE  HandshakeInv'
BY StartKeeps, ConnectKeeps, ExchangeIdentificationKeeps, ReceiveKexinitKeeps,
   ReceiveReplyKeeps, ReceiveNewkeysKeeps, ReceiveServiceAcceptKeeps,
   ReceiveNoneFailureKeeps, ReceiveAuthSuccessKeeps, UserAnswersKeeps,
   PasswordKeeps, FailureKeeps DEF HandshakeClient, User

LEMMA HandshakeStep ==
    ASSUME HandshakeInv, [HandshakeNext]_handshakeVars
    PROVE  HandshakeInv'
<1>1. CASE HandshakeClient \/ User
  BY <1>1, ClientKeeps
<1>2. CASE ConnectionFails
  BY <1>2, FailureKeeps
<1>3. ASSUME NEW p \in Peer, PeerSends(p)
      PROVE  HandshakeInv'
  <2>1. p \in PeerPacket /\ s2c \in Seq(PeerPacket)
    BY HandshakeAssumption, Before
  <2>2. s2c' \in Seq(PeerPacket)
    BY <1>3, <2>1 DEF PeerSends
  <2> QED
    BY <1>3, <2>2, ArrivalKeeps DEF PeerSends
<1>4. CASE UNCHANGED handshakeVars
  BY <1>4, Before, ArrivalKeeps DEF handshakeVars
<1> QED
  BY <1>1, <1>2, <1>3, <1>4 DEF HandshakeNext, HandshakeOver

(***************************************************************************)
(* Against any peer, the client that main.cpp:420-499 runs keeps to its    *)
(* script, to the transport state of the stage it is at, and to a host key *)
(* that has signed the exchange and is vouched for.                        *)
(***************************************************************************)
THEOREM HandshakeInductive == HandshakeSpec => []HandshakeInv
<1>1. HandshakeInit => HandshakeInv
  BY HandshakeInitInv
<1>2. HandshakeInv /\ [HandshakeNext]_handshakeVars => HandshakeInv'
  BY HandshakeStep
<1> QED
  BY <1>1, <1>2, PTL DEF HandshakeSpec

(***************************************************************************)
(* Keys, sequence numbers, host key, file and packets keep their types.    *)
(***************************************************************************)
THEOREM HandshakeTypes == HandshakeSpec => []HandshakeTypeOK
<1>1. HandshakeInv => HandshakeTypeOK
  BY DEF HandshakeInv
<1> QED
  BY <1>1, HandshakeInductive, PTL

(***************************************************************************)
(* The password leaves the client only under the session's keys, with both *)
(* directions encrypted, for a host key whose owner signed this exchange   *)
(* and that the user accepted or the file holds for this host and port     *)
(* (main.cpp:358-389, 411-440).                                            *)
(***************************************************************************)
THEOREM PasswordOnlyProtected == HandshakeSpec => []PasswordProtected
<1>1. HandshakeInv => PasswordProtected
  <2> SUFFICES ASSUME HandshakeInv, NEW i \in DOMAIN c2s,
                      c2s[i].payload = "password"
               PROVE  /\ c2s[i].keys = SESSION
                      /\ transport.in_keys = SESSION
                      /\ host_key \in Keys /\ host_key = signer
                      /\ \/ answer = "yes"
                         \/ \E host \in Hosts :
                               EntryFor(host) /\ Recorded(file, host) = host_key
    BY DEF PasswordProtected
  <2>1. Len(c2s) \in Nat /\ Len(c2s) <= 7 /\ i \in 1..Len(c2s) /\ c2s[i] = Scripted(i)
    BY DEF HandshakeInv, HandshakeTypeOK, SentInv
  <2>2. i = 1 \/ i = 2 \/ i = 3 \/ i = 4 \/ i = 5 \/ i = 6 \/ i = 7
    BY <2>1
  <2>3. i = 7 /\ c2s[i].keys = SESSION
    BY <2>1, <2>2, ScriptedIs
  <2>4. Len(c2s) = 7
    <3>1. \A n \in Nat : n <= 7 /\ 7 \in 1..n => n = 7
      OBVIOUS
    <3>2. 7 \in 1..Len(c2s)
      BY <2>1, <2>3, Zenon
    <3> QED
      BY <2>1, <3>1, <3>2, Zenon
  <2>5. /\ transport.in_keys = SESSION /\ Configured
        /\ host_key \in Keys /\ host_key = signer
        /\ answer = "yes" \/ Recorded(file, Host) = host_key
    BY <2>4 DEF HandshakeInv, KeyInv
  <2>6. Host \in Hosts /\ EntryFor(Host)
    BY <2>5, ConfiguredHost DEF EntryFor, Host, known_host_identifier
  <2> QED
    BY <2>3, <2>5, <2>6
<1> QED
  BY <1>1, HandshakeInductive, PTL

(***************************************************************************)
(* The client's packets are numbered from 0 without a gap or a reset, and  *)
(* encrypted exactly after its NEWKEYS (transport.cpp:179-222).            *)
(***************************************************************************)
THEOREM OutgoingInOrder == HandshakeSpec => []OutgoingStream
<1>1. HandshakeInv => OutgoingStream
  <2> SUFFICES ASSUME HandshakeInv, NEW i \in 2..Len(c2s)
               PROVE  /\ c2s[i].seq = i - 2
                      /\ c2s[i].keys # "none" <=>
                           \E j \in 1..(i - 1) : c2s[j].payload = "newkeys"
    BY DEF OutgoingStream
  <2>1. /\ Len(c2s) \in Nat /\ Len(c2s) <= 7
        /\ \A j \in 1..Len(c2s) : c2s[j] = Scripted(j)
    BY DEF HandshakeInv, HandshakeTypeOK, SentInv
  <2>2. \A j \in 1..7 : Scripted(j).payload = "newkeys" <=> j = 4
    <3> SUFFICES ASSUME NEW j \in 1..7
                 PROVE  Scripted(j).payload = "newkeys" <=> j = 4
      OBVIOUS
    <3>1. j = 1 \/ j = 2 \/ j = 3 \/ j = 4 \/ j = 5 \/ j = 6 \/ j = 7
      OBVIOUS
    <3> QED
      BY <3>1, ScriptedIs
  <2>3. (\E j \in 1..(i - 1) : c2s[j].payload = "newkeys") <=> i >= 5
    BY <2>1, <2>2, SMTT(30)
  <2>4. c2s[i].seq = i - 2 /\ (c2s[i].keys # "none" <=> i >= 5)
    <3>1. c2s[i] = Scripted(i) /\ i \in 2..7
      BY <2>1
    <3> QED
      BY <3>1, HandshakeAssumption DEF Scripted
  <2> QED
    BY <2>3, <2>4
<1> QED
  BY <1>1, HandshakeInductive, PTL

(***************************************************************************)
(* Echo is on again however the client ends, other than by a signal        *)
(* (terminal.cpp:18-56).                                                   *)
(***************************************************************************)
THEOREM EchoRestored == HandshakeSpec => []EchoUnlessKilled
<1>1. HandshakeInv => EchoUnlessKilled
  BY DEF HandshakeInv, EchoInv, EchoUnlessKilled
<1> QED
  BY <1>1, HandshakeInductive, PTL

-------------------------------------------------------------------------------
(***************************************************************************)
(* The command line.                                                       *)
(***************************************************************************)
LEMMA Remainder ==
    ASSUME NEW m \in Nat, NEW x \in 0..m
    PROVE  x % (m + 1) = x
OBVIOUS

LEMMA RemainderRange ==
    ASSUME NEW m \in Nat, NEW x \in Int
    PROVE  x % (m + 1) \in 0..m
OBVIOUS

\* A target with one AT sign inside it is put together again.
LEMMA TargetSplit ==
    ASSUME NEW t, Sequence(t), NEW i \in 2..(Len(t) - 1), separators(t) = {i}
    PROVE  LET user == SubSeq(t, 1, i - 1)
               host == SubSeq(t, i + 1, Len(t))
           IN  /\ t = user \o <<AT>> \o host
               /\ \A name \in {user, host} : name # <<>> /\ separators(name) = {}
<1> DEFINE S == {t[j] : j \in DOMAIN t}
           user == SubSeq(t, 1, i - 1)
           host == SubSeq(t, i + 1, Len(t))
           first == user \o <<AT>>
           all == first \o host
<1>1. t \in Seq(S) /\ Len(t) \in Nat /\ DOMAIN t = 1..Len(t)
  BY DEF Sequence
<1>2. t[i] = AT /\ AT \in S /\ \A j \in 1..Len(t) : t[j] = AT => j = i
  BY <1>1 DEF separators
<1> HIDE DEF S
<1>3. /\ user \in Seq(S) /\ Len(user) = i - 1
      /\ \A j \in 1..(i - 1) : user[j] = t[j]
  BY <1>1
<1>4. /\ host \in Seq(S) /\ Len(host) = Len(t) - i
      /\ \A j \in 1..(Len(t) - i) : host[j] = t[i + j]
  BY <1>1
<1> HIDE DEF user, host
<1>5. /\ first \in Seq(S) /\ Len(first) = i
      /\ \A j \in 1..(i - 1) : first[j] = t[j]
      /\ first[i] = AT
  BY <1>2, <1>3
<1> HIDE DEF first
<1>6. /\ all \in Seq(S) /\ Len(all) = Len(t)
      /\ \A j \in 1..i : all[j] = first[j]
      /\ \A j \in 1..(Len(t) - i) : all[i + j] = host[j]
  <2>1. first \in Seq(S) /\ host \in Seq(S)
    BY <1>4, <1>5
  <2>2. /\ all \in Seq(S) /\ Len(all) = Len(first) + Len(host)
        /\ \A j \in 1..Len(first) : all[j] = first[j]
        /\ \A j \in 1..Len(host) : all[Len(first) + j] = host[j]
    BY <2>1
  <2> HIDE DEF all
  <2>3. i \in Nat /\ i + (Len(t) - i) = Len(t)
    BY <1>1
  <2> QED
    BY <1>4, <1>5, <2>2, <2>3
<1> HIDE DEF all
<1>7. \A j \in 1..Len(t) : all[j] = t[j]
  <2> TAKE j \in 1..Len(t)
  <2>1. CASE j \in 1..(i - 1)
    BY <1>5, <1>6, <2>1
  <2>2. CASE j = i
    BY <1>2, <1>5, <1>6, <2>2
  <2>3. CASE j \in (i + 1)..Len(t)
    <3>1. j - i \in 1..(Len(t) - i) /\ i + (j - i) = j
      BY <1>1, <2>3
    <3> QED
      BY <3>1, <1>4, <1>6
  <2> QED
    BY <1>1, <2>1, <2>2, <2>3
<1>8. all = t
  BY <1>1, <1>6, <1>7, SeqEqual
<1>9. user # <<>> /\ host # <<>>
  BY <1>1, <1>3, <1>4
<1>10. separators(user) = {}
  BY <1>1, <1>2, <1>3 DEF separators
<1>11. separators(host) = {}
  <2>1. \A j \in 1..(Len(t) - i) : host[j] # AT
    BY <1>1, <1>2, <1>4
  <2> QED
    BY <1>1, <1>4, <2>1 DEF separators
<1> QED
  BY <1>8, <1>9, <1>10, <1>11 DEF all, first, user, host

\* An accepted port is in range and, without a sign, the number written.
LEMMA PortAccepted ==
    ASSUME NEW text \in PortText, accepts_port(text)
    PROVE  LET port == stoul(text) % (UINT16_MAX + 1)
           IN  /\ port \in 1..UINT16_MAX
               /\ text.negative \/ port = text.number
<1>1. /\ UINT16_MAX \in Nat /\ ULONG_MAX \in Nat
      /\ text.number \in 0..ULONG_MAX /\ text.negative \in BOOLEAN
      /\ stoul(text) # 0 /\ stoul(text) <= UINT16_MAX
  BY ConfigurationAssumption DEF PortText, accepts_port, stoul_throws
<1>2. stoul(text) \in 0..ULONG_MAX
  <2> DEFINE x == IF text.negative THEN -text.number ELSE text.number
  <2>1. x \in Int
    BY <1>1
  <2>2. stoul(text) = x % (ULONG_MAX + 1)
    BY DEF stoul
  <2> HIDE DEF x
  <2> QED
    BY <1>1, <2>1, <2>2, RemainderRange
<1>3. stoul(text) \in 1..UINT16_MAX
  BY <1>1, <1>2
<1>4. stoul(text) % (UINT16_MAX + 1) = stoul(text)
  BY <1>1, <1>3, Remainder
<1>5. ~text.negative => stoul(text) = text.number
  BY <1>1, Remainder DEF stoul
<1> QED
  BY <1>1, <1>3, <1>4, <1>5

(***************************************************************************)
(* The client connects to the user, host and port of the command line      *)
(* (main.cpp:53-91), for names of any length and ports of any width.       *)
(***************************************************************************)
THEOREM EndpointIsTheTarget == HandshakeSpec => []EndpointAsWritten
<1>1. HandshakeInv => EndpointAsWritten
  <2> SUFFICES ASSUME HandshakeInv, config # <<>>
               PROVE  EndpointAsWritten
    BY DEF EndpointAsWritten
  <2> DEFINE t == arguments[1]
  <2>1. /\ accepts_arguments(arguments)
        /\ config = parse_client_config(arguments)
        /\ CommandLine(arguments)
    BY HandshakeAssumption DEF HandshakeInv, ConfigInv, Configured
  <2>2. Len(arguments) = 1 \/ Len(arguments) = 2
    BY <2>1 DEF accepts_arguments
  <2>3. PICK i \in 2..(Len(t) - 1) : separators(t) = {i}
    BY <2>1 DEF accepts_arguments
  <2>4. Sequence(t)
    BY <2>1, <2>2 DEF CommandLine
  <2>5. (CHOOSE j \in separators(t) : TRUE) = i
    BY <2>3
  <2>6. /\ config.username = SubSeq(t, 1, i - 1)
        /\ config.hostname = SubSeq(t, i + 1, Len(t))
        /\ config.port = IF Len(arguments) = 1 THEN DEFAULT_SSH_PORT
                         ELSE stoul(arguments[2]) % (UINT16_MAX + 1)
    BY <2>1, <2>5 DEF parse_client_config
  <2>7. /\ t = config.username \o <<AT>> \o config.hostname
        /\ \A name \in {config.username, config.hostname} :
             name # <<>> /\ separators(name) = {}
    BY <2>3, <2>4, <2>6, TargetSplit, SMTT(30)
  <2>8. CASE Len(arguments) = 1
    <3>1. config.port = DEFAULT_SSH_PORT /\ config.port \in 1..UINT16_MAX
      BY <2>6, <2>8, ConfigurationAssumption
    <3> QED
      BY <2>7, <2>8, <3>1 DEF EndpointAsWritten
  <2>9. CASE Len(arguments) = 2
    <3>1. arguments[2] \in PortText /\ accepts_port(arguments[2])
      BY <2>1, <2>9 DEF CommandLine, accepts_arguments
    <3>2. /\ config.port \in 1..UINT16_MAX
          /\ arguments[2].negative \/ config.port = arguments[2].number
      BY <2>6, <2>9, <3>1, PortAccepted
    <3> QED
      BY <2>7, <2>9, <3>2 DEF EndpointAsWritten
  <2> QED
    BY <2>2, <2>8, <2>9
<1> QED
  BY <1>1, HandshakeInductive, PTL

===============================================================================

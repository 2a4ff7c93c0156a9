------------------------------- MODULE Handshake -------------------------------
(***************************************************************************)
(* The client from its start to the authenticated user: main,              *)
(* exchange_identification, perform_key_exchange and authenticate_user of  *)
(* src/src/main.cpp, over the packets of class Transport, against a peer   *)
(* that may send anything.                                                 *)
(*                                                                         *)
(* A packet carries the keys it is protected with and the sequence number  *)
(* its MAC covers.  Keys are named after the exchange they come from:      *)
(* SESSION is the exchange this client computes, "none" is plain text, and *)
(* "unknown" stands for all keys the client does not have.  A server's     *)
(* signature is valid or not for the exchange hash that this client        *)
(* computed.  A handshake sends less than a socket buffer holds, so no     *)
(* write blocks, and c2s keeps all that was ever sent.                     *)
(***************************************************************************)
EXTENDS KnownHostsFile, Terminal, Configuration

CONSTANTS
    Invocations,    \* the arguments the client may be started with
    SESSION,        \* the keys of this exchange
    Peer,           \* the packets and lines the peer may send
    KnownFiles,     \* what the known-hosts file may hold at the start
    MaxQueue        \* packets in flight to the client

\* The payloads; "identification" is the line before the first packet.
Payloads == {"identification", "kexinit", "ecdh_init", "reply", "newkeys",
             "service_request", "service_accept", "none", "password",
             "failure", "success", "other"}

KeyNames == {"none", SESSION, "unknown"}

\* well_formed: the packet parses, with all that the client asks of it.
PeerPacket ==
    [payload : Payloads \ {"reply"}, keys : KeyNames, seq : Nat,
     well_formed : BOOLEAN]
    \cup
    [payload : {"reply"}, keys : KeyNames, seq : Nat, well_formed : BOOLEAN,
     host_key : Keys, valid_signature : BOOLEAN]

ASSUME HandshakeAssumption ==
    /\ \A args \in Invocations :
         /\ CommandLine(args)
         /\ accepts_arguments(args) =>
              known_host_identifier(parse_client_config(args)) \in Hosts
    /\ SESSION \notin {"none", "unknown"}
    /\ Peer \subseteq PeerPacket
    /\ KnownFiles \subseteq File
    /\ \A f \in KnownFiles : f.lines = <<>> => f = EmptyFile
    /\ MaxQueue \in Nat

VARIABLES
    arguments,      \* the command line
    config,         \* ClientConfig, <<>> before it is parsed
    pc,             \* where the client is
    result,         \* how the process ended
    transport,      \* Transport: keys and sequence numbers of each direction
    file,           \* the known-hosts file
    host_key,       \* the host key of the reply the client goes on with
    signer,         \* history: the key that reply is really signed with
    answer,         \* what the user said to an unknown host key
    s2c, c2s        \* what travels to the client; what the client has sent

configVars == <<arguments, config>>

handshakeVars ==
    <<pc, result, transport, file, host_key, signer, answer, s2c, c2s,
      terminalVars, configVars>>

Stages == {"start", "connect", "identification", "kexinit", "reply", "prompt",
           "newkeys", "service", "none", "password", "answer", "session",
           "exit"}

Ends == {"running", "usage", "rejected", "system", "refused", "killed"}

ClientPacket == [payload : Payloads, keys : {"none", SESSION}, seq : Nat]

TransportState ==
    [out_keys : {"none", SESSION}, in_keys : {"none", SESSION},
     outgoing_sequence : Nat, incoming_sequence : Nat]

\* The types of what the functions of main.cpp hold between two packets.
HandshakeTypeOK ==
    /\ pc \in Stages
    /\ result \in Ends
    /\ transport \in TransportState
    /\ file \in File
    /\ host_key \in Keys \cup {GARBAGE} /\ signer \in Keys \cup {GARBAGE}
    /\ answer \in {"unasked", "yes", "no"}
    /\ s2c \in Seq(PeerPacket)
    /\ c2s \in Seq(ClientPacket)
    /\ TerminalTypeOK

HandshakeInit ==
    /\ arguments \in Invocations
    /\ config = <<>>
    /\ pc = "start"
    /\ result = "running"
    /\ transport = [out_keys |-> "none", in_keys |-> "none",
                    outgoing_sequence |-> 0, incoming_sequence |-> 0]
    /\ file \in KnownFiles
    /\ host_key = GARBAGE /\ signer = GARBAGE
    /\ answer = "unasked"
    /\ s2c = <<>>
    /\ c2s = <<>>
    /\ TerminalInit

-------------------------------------------------------------------------------
(***************************************************************************)
(* Transport.  The MAC of an encrypted packet is checked against the       *)
(* direction's keys and sequence number; plain text has no MAC.  The       *)
(* sequence numbers count packets from the first and go on across NEWKEYS. *)
(***************************************************************************)
Packet(payload, t) ==
    [payload |-> payload, keys |-> t.out_keys, seq |-> t.outgoing_sequence]

Sent(t) == [t EXCEPT !.outgoing_sequence = @ + 1]

Received(t) == [t EXCEPT !.incoming_sequence = @ + 1]

\* Mutants: the number starts again with the new keys.
enable_outgoing_encryption_Resets(t) ==
    [t EXCEPT !.out_keys = SESSION, !.outgoing_sequence = 0]

enable_incoming_encryption_Resets(t) ==
    [t EXCEPT !.in_keys = SESSION, !.incoming_sequence = 0]

enable_outgoing_encryption(t) == [t EXCEPT !.out_keys = SESSION]

enable_incoming_encryption(t) == [t EXCEPT !.in_keys = SESSION]

Authentic(p) ==
    /\ p.payload # "identification"
    /\ p.keys = transport.in_keys
    /\ p.keys # "none" => p.seq = transport.incoming_sequence

\* receive_packet returned the packet p, with this payload.
Receives(payload) ==
    /\ s2c # <<>>
    /\ Authentic(Head(s2c))
    /\ Head(s2c).payload = payload
    /\ Head(s2c).well_formed
    /\ s2c' = Tail(s2c)

Stop(kind) ==
    /\ pc' = "exit"
    /\ result' = kind

-------------------------------------------------------------------------------
\* main up to the socket: libsodium may fail to start and HOME be unset.
Start ==
    /\ pc = "start"
    /\ \/ /\ accepts_arguments(arguments)
          /\ config' = parse_client_config(arguments)
          /\ pc' = "connect"
          /\ UNCHANGED result
       \/ /\ accepts_arguments(arguments)
          /\ config' = parse_client_config(arguments)
          /\ Stop("system")
       \/ /\ ~accepts_arguments(arguments)
          /\ Stop("usage")
          /\ UNCHANGED config
    /\ UNCHANGED <<arguments, transport, file, host_key, signer, answer, s2c,
                   c2s, terminalVars>>

Connect ==
    /\ pc = "connect"
    /\ \/ pc' = "identification" /\ UNCHANGED result
       \/ Stop("system")
    /\ UNCHANGED <<transport, file, host_key, signer, answer, s2c, c2s,
                   terminalVars, configVars>>

\* The server's line is read first, then the client's is sent, then KEXINIT.
exchange_identification ==
    /\ pc = "identification"
    /\ s2c # <<>>
    /\ Head(s2c).payload = "identification" /\ Head(s2c).well_formed
    /\ s2c' = Tail(s2c)
    /\ c2s' = c2s \o <<[payload |-> "identification", keys |-> "none", seq |-> 0],
                       Packet("kexinit", transport)>>
    /\ transport' = Sent(transport)
    /\ pc' = "kexinit"
    /\ UNCHANGED <<result, file, host_key, signer, answer, terminalVars,
                   configVars>>

\* well_formed: the lists parse and have each of the client's algorithms.
ReceiveKexinit ==
    /\ pc = "kexinit"
    /\ Receives("kexinit")
    /\ c2s' = Append(c2s, Packet("ecdh_init", transport))
    /\ transport' = Sent(Received(transport))
    /\ pc' = "reply"
    /\ UNCHANGED <<result, file, host_key, signer, answer, terminalVars,
                   configVars>>

\* Mutant: NEWKEYS itself goes out under the new keys.
SendNewkeys_Early(t) ==
    /\ c2s' = Append(c2s, Packet("newkeys", enable_outgoing_encryption(t)))
    /\ transport' = enable_outgoing_encryption(Sent(t))
    /\ pc' = "newkeys"
    /\ UNCHANGED result

\* NEWKEYS is the last packet in the clear; what follows is encrypted.
SendNewkeys(t) ==
    /\ c2s' = Append(c2s, Packet("newkeys", t))
    /\ transport' = enable_outgoing_encryption(Sent(t))
    /\ pc' = "newkeys"
    /\ UNCHANGED result

\* The name under which the known-hosts file has the server.
Host == known_host_identifier(config)

\* The host key whose owner signed the exchange; GARBAGE when nobody did.
Signer(reply) == IF reply.valid_signature THEN reply.host_key ELSE GARBAGE

\* Mutant: the signature is not looked at.
verify_ed25519_signature_Skipped(reply) == TRUE

\* verify_ed25519_signature does not throw.
verify_ed25519_signature(reply) == reply.valid_signature

(***************************************************************************)
(* The reply parses, its public key is usable, its signature verifies;     *)
(* only then is the host key looked up.                                    *)
(***************************************************************************)
ReceiveReply ==
    LET reply == Head(s2c)
    IN  /\ pc = "reply"
        /\ Receives("reply")
        /\ verify_ed25519_signature(reply)
        /\ host_key' = reply.host_key
        /\ signer' = Signer(reply)
        /\ \/ /\ check(file, Host, reply.host_key) = "Match"
              /\ SendNewkeys(Received(transport))
           \/ /\ check(file, Host, reply.host_key) = "Unknown"
              /\ transport' = Received(transport)
              /\ pc' = "prompt"
              /\ UNCHANGED <<result, c2s>>
           \/ /\ check(file, Host, reply.host_key) \in {"Changed", "throws"}
              /\ transport' = Received(transport)
              /\ Stop("refused")
              /\ UNCHANGED c2s
        /\ UNCHANGED <<file, answer, terminalVars, configVars>>

\* add has no rival here: see KnownHosts for clients that share the file.
\* It throws when the file cannot be opened, not when the write fails.
UserAnswers ==
    /\ pc = "prompt"
    /\ \/ /\ answer' = "yes"
          /\ \/ \E text \in {Whole(Host, host_key)} \cup CutShort(Host, host_key) :
                    file' = Appended(file, text)
             \/ UNCHANGED file
          /\ SendNewkeys(transport)
       \/ /\ answer' = "yes"
          /\ Stop("system")
          /\ UNCHANGED <<file, c2s, transport>>
       \/ /\ answer' = "no"
          /\ Stop("refused")
          /\ UNCHANGED <<file, c2s, transport>>
    /\ UNCHANGED <<host_key, signer, s2c, terminalVars, configVars>>

\* authenticate_user starts by requesting the service.
ReceiveNewkeys ==
    LET t == enable_incoming_encryption(Received(transport))
    IN  /\ pc = "newkeys"
        /\ Receives("newkeys")
        /\ c2s' = Append(c2s, Packet("service_request", t))
        /\ transport' = Sent(t)
        /\ pc' = "service"
        /\ UNCHANGED <<result, file, host_key, signer, answer, terminalVars,
                       configVars>>

\* Mutant: the password is asked for when the server has not been.
ReceiveServiceAccept_NotAsked ==
    /\ pc = "service"
    /\ Receives("service_accept")
    /\ transport' = Received(transport)
    /\ pc' = "none"
    /\ UNCHANGED <<result, file, host_key, signer, answer, c2s, terminalVars,
                   configVars>>

ReceiveServiceAccept ==
    /\ pc = "service"
    /\ Receives("service_accept")
    /\ c2s' = Append(c2s, Packet("none", transport))
    /\ transport' = Sent(Received(transport))
    /\ pc' = "none"
    /\ UNCHANGED <<result, file, host_key, signer, answer, terminalVars,
                   configVars>>

\* Anything but USERAUTH_FAILURE, SUCCESS included, throws.
ReceiveNoneFailure ==
    /\ pc = "none"
    /\ Receives("failure")
    /\ transport' = Received(transport)
    /\ HideInput
    /\ pc' = "password"
    /\ UNCHANGED <<result, file, host_key, signer, answer, c2s, configVars>>

PasswordRead ==
    /\ pc = "password"
    /\ ShowInput("cooked")
    /\ \/ /\ c2s' = Append(c2s, Packet("password", transport))
          /\ transport' = Sent(transport)
          /\ pc' = "answer"
          /\ UNCHANGED result
       \/ Stop("system") /\ UNCHANGED <<c2s, transport>>
    /\ UNCHANGED <<file, host_key, signer, answer, s2c, configVars>>

\* The user types the interrupt character; no handler is installed.
PasswordInterrupted ==
    /\ pc = "password"
    /\ Stop("killed")
    /\ UNCHANGED <<transport, file, host_key, signer, answer, s2c, c2s,
                   terminalVars, configVars>>

ReceiveAuthSuccess ==
    /\ pc = "answer"
    /\ Receives("success")
    /\ transport' = Received(transport)
    /\ pc' = "session"
    /\ UNCHANGED <<result, file, host_key, signer, answer, c2s, terminalVars,
                   configVars>>

\* The packet read_version and receive_packet wait for, by stage.
Awaited == [identification |-> "identification", kexinit |-> "kexinit",
            reply |-> "reply", newkeys |-> "newkeys",
            service |-> "service_accept", none |-> "failure",
            answer |-> "success"]

\* A line that is not SSH-2.0, a packet whose MAC fails, one that does not
\* parse, one that is not awaited, a password that is rejected.
ReceiveRejected ==
    /\ pc \in DOMAIN Awaited
    /\ s2c # <<>>
    /\ LET p == Head(s2c)
       IN  ~ /\ p.payload = Awaited[pc]
             /\ p.well_formed
             /\ pc # "identification" => Authentic(p)
             /\ pc = "reply" => verify_ed25519_signature(p)
    /\ s2c' = Tail(s2c)
    /\ Stop("rejected")
    /\ UNCHANGED <<transport, file, host_key, signer, answer, c2s, terminalVars,
                   configVars>>

\* The connection fails under a read or a write.
ConnectionFails ==
    /\ pc \in DOMAIN Awaited
    /\ Stop("system")
    /\ UNCHANGED <<transport, file, host_key, signer, answer, s2c, c2s,
                   terminalVars, configVars>>

\* The client's steps, and those that need the user.
HandshakeClient ==
    \/ Start
    \/ Connect
    \/ exchange_identification
    \/ ReceiveKexinit
    \/ ReceiveReply
    \/ ReceiveNewkeys
    \/ ReceiveServiceAccept
    \/ ReceiveNoneFailure
    \/ ReceiveAuthSuccess
    \/ ReceiveRejected

User == UserAnswers \/ PasswordRead \/ PasswordInterrupted

PeerSends(p) ==
    /\ pc \notin {"start", "connect", "session", "exit"}
    /\ Len(s2c) < MaxQueue
    /\ s2c' = Append(s2c, p)
    /\ UNCHANGED <<pc, result, transport, file, host_key, signer, answer, c2s,
                   terminalVars, configVars>>

\* The process has ended, or Session goes on.
HandshakeOver == pc \in {"session", "exit"} /\ UNCHANGED handshakeVars

HandshakeNext ==
    \/ HandshakeClient
    \/ User
    \/ ConnectionFails
    \/ \E p \in Peer : PeerSends(p)
    \/ HandshakeOver

HandshakeSpec == HandshakeInit /\ [][HandshakeNext]_handshakeVars

-------------------------------------------------------------------------------
(***************************************************************************)
(* The client connects to the user, host and port of the command line: one *)
(* AT sign with names on both sides, and a port that is in range and, if   *)
(* it has no minus sign, is the number written (main.cpp:53-91).           *)
(***************************************************************************)
EndpointAsWritten ==
    config # <<>> =>
        /\ arguments[1] = config.username \o <<AT>> \o config.hostname
        /\ \A name \in {config.username, config.hostname} :
             name # <<>> /\ separators(name) = {}
        /\ config.port \in 1..UINT16_MAX
        /\ CASE Len(arguments) = 1 -> config.port = DEFAULT_SSH_PORT
             [] Len(arguments) = 2 ->
                  arguments[2].negative \/ config.port = arguments[2].number

\* The entry is for this host and this port of it.
EntryFor(host) ==
    \/ host = config.hostname /\ config.port = DEFAULT_SSH_PORT
    \/ host = Append(config.hostname, config.port)

(***************************************************************************)
(* The password leaves the client only under the keys of an exchange that  *)
(* the owner of the host key has signed, with both directions encrypted,   *)
(* and only for a host key that the user accepted or that the known-hosts  *)
(* file held for this very host and port (README.md:43-74, 155-159).       *)
(***************************************************************************)
PasswordProtected ==
    \A i \in DOMAIN c2s :
        c2s[i].payload = "password" =>
            /\ c2s[i].keys = SESSION
            /\ transport.in_keys = SESSION
            /\ host_key \in Keys /\ host_key = signer
            /\ \/ answer = "yes"
               \/ \E host \in Hosts :
                      EntryFor(host) /\ Recorded(file, host) = host_key

(***************************************************************************)
(* What the client puts on the wire: numbers that run from 0 without a gap *)
(* or a reset, plain text up to and including its NEWKEYS, the session's   *)
(* keys from then on (main.cpp:395-399, transport.cpp:179-222).            *)
(***************************************************************************)
OutgoingStream ==
    \A i \in 2..Len(c2s) :
        /\ c2s[i].seq = i - 2
        /\ c2s[i].keys # "none" <=> \E j \in 1..(i - 1) : c2s[j].payload = "newkeys"

(***************************************************************************)
(* However the client ends, other than by a signal, echo is on again       *)
(* (terminal.cpp:18-56).                                                   *)
(***************************************************************************)
EchoUnlessKilled ==
    pc \in {"exit", "session"} /\ result # "killed" => tty = "cooked"

(***************************************************************************)
(* "Reads one line while temporarily disabling local terminal echo"        *)
(* (terminal.hpp:29): once the client has ended, echo is on.               *)
(***************************************************************************)
EchoAtExit == pc = "exit" => tty = "cooked"

===============================================================================

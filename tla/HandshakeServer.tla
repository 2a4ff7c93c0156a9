---------------------------- MODULE HandshakeServer ----------------------------
(***************************************************************************)
(* The client of Handshake with a server that keeps to the protocol and a  *)
(* connection that does not fail.  The server is not part of the           *)
(* repository.  It sends its identification and KEXINIT unasked, and its   *)
(* NEWKEYS with its reply, before it has seen the client's: so packets     *)
(* under old and new keys cross.                                           *)
(***************************************************************************)
EXTENDS Handshake

CONSTANT SERVER_KEY     \* the server's host key

ASSUME HandshakeServerAssumption == SERVER_KEY \in Keys

\* step: what the server has to do unasked; read: how much of c2s it has read;
\* refused: it rejected the password.
VARIABLE server

systemVars == <<handshakeVars, server>>

SystemInit ==
    /\ HandshakeInit
    /\ server = [step |-> "identification", read |-> 0, refused |-> FALSE,
                 out_keys |-> "none", in_keys |-> "none",
                 out_seq |-> 0, in_seq |-> 0]

clientVars ==
    <<pc, result, transport, file, host_key, signer, answer, c2s, terminalVars,
      configVars>>

ServerPacket(payload) ==
    [payload |-> payload, keys |-> server.out_keys, seq |-> server.out_seq,
     well_formed |-> TRUE]

ServerIdentifies ==
    /\ pc \notin {"start", "connect"}
    /\ server.step = "identification"
    /\ s2c' = Append(s2c, ServerPacket("identification"))
    /\ server' = [server EXCEPT !.step = "kexinit"]
    /\ UNCHANGED clientVars

ServerSendsKexinit ==
    /\ server.step = "kexinit"
    /\ s2c' = Append(s2c, ServerPacket("kexinit"))
    /\ server' = [server EXCEPT !.step = "serving", !.out_seq = @ + 1]
    /\ UNCHANGED clientVars

incoming == c2s[server.read + 1]

Readable ==
    /\ incoming.keys = server.in_keys
    /\ incoming.keys # "none" => incoming.seq = server.in_seq

\* The server has read a packet of this payload; then it is as s.
ServerReads(payload, s) ==
    /\ server.step = "serving"
    /\ server.read < Len(c2s)
    /\ incoming.payload = payload
    /\ Readable
    /\ server' = [s EXCEPT
                    !.read = @ + 1,
                    !.in_seq = IF payload = "identification" THEN @ ELSE @ + 1]
    /\ UNCHANGED clientVars

Answers(payload) == s2c' = Append(s2c, ServerPacket(payload))

OneSent == [server EXCEPT !.out_seq = @ + 1]

ServerReadsHello ==
    /\ \E payload \in {"identification", "kexinit"} : ServerReads(payload, server)
    /\ UNCHANGED s2c

ServerReadsEcdhInit ==
    /\ ServerReads("ecdh_init",
                   [server EXCEPT !.out_seq = @ + 2, !.out_keys = SESSION])
    /\ s2c' = s2c \o
         <<[payload |-> "reply", keys |-> "none", seq |-> server.out_seq,
            well_formed |-> TRUE, host_key |-> SERVER_KEY,
            valid_signature |-> TRUE],
           [payload |-> "newkeys", keys |-> "none", seq |-> server.out_seq + 1,
            well_formed |-> TRUE]>>

ServerReadsNewkeys ==
    /\ ServerReads("newkeys", [server EXCEPT !.in_keys = SESSION])
    /\ UNCHANGED s2c

ServerReadsServiceRequest ==
    ServerReads("service_request", OneSent) /\ Answers("service_accept")

ServerReadsNone == ServerReads("none", OneSent) /\ Answers("failure")

ServerReadsPassword ==
    \/ ServerReads("password", OneSent) /\ Answers("success")
    \/ /\ ServerReads("password", [OneSent EXCEPT !.refused = TRUE])
       /\ Answers("failure")

Server ==
    \/ ServerIdentifies
    \/ ServerSendsKexinit
    \/ ServerReadsHello
    \/ ServerReadsEcdhInit
    \/ ServerReadsNewkeys
    \/ ServerReadsServiceRequest
    \/ ServerReadsNone
    \/ ServerReadsPassword

SystemNext ==
    \/ HandshakeClient /\ UNCHANGED server
    \/ User /\ UNCHANGED server
    \/ Server
    \/ HandshakeOver /\ UNCHANGED server

\* The user need not answer; the client and the server do not stop.
SystemSpec ==
    /\ SystemInit
    /\ [][SystemNext]_systemVars
    /\ WF_systemVars(HandshakeClient /\ UNCHANGED server)
    /\ WF_systemVars(Server)

-------------------------------------------------------------------------------
(***************************************************************************)
(* Both ends change keys at the same packet of each direction and count    *)
(* packets alike, whatever crosses on the way (main.cpp:395-409): every    *)
(* packet of the client's can be read by the server as its turn comes.     *)
(***************************************************************************)
KeysChangeInStep == server.read < Len(c2s) => Readable

(***************************************************************************)
(* And every packet of the server's by the client, whose other checks an   *)
(* honest server passes: it is turned away only after it has rejected the  *)
(* password.                                                               *)
(***************************************************************************)
NeverTurnedAway == result = "rejected" => server.refused

(***************************************************************************)
(* Nobody waits for a packet for ever: from every wait the client gets to  *)
(* the user, to the session or to its end.                                 *)
(***************************************************************************)
HandshakeProceeds ==
    pc \in DOMAIN Awaited ~> pc \in {"prompt", "password", "session", "exit"}

===============================================================================

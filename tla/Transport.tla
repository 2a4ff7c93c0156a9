------------------------------ MODULE Transport ------------------------------
(***************************************************************************)
(* Class Transport (src/src/transport) over class Socket (src/src/socket): *)
(* one direction of a connection, byte by byte.  send_packet frames a      *)
(* payload, and encrypts and authenticates it once NEWKEYS has gone out;   *)
(* write_exact puts its bytes into the kernel's buffer in pieces of any    *)
(* size; read_exact takes them out in pieces of any other size, for        *)
(* receive_packet to find the packets in them.                             *)
(*                                                                         *)
(* The far end of each of the client's two directions is not in the        *)
(* repository; it follows the same format, but may pad more.  So the       *)
(* sender is the client or its server, and so is the receiver.             *)
(*                                                                         *)
(* Cryptography is ideal.  AES-CTR is a stream: a byte encrypted at one    *)
(* position and decrypted at another comes out wrong.  A byte of a MAC     *)
(* tells which byte of the MAC of what it is.                              *)
(***************************************************************************)
EXTENDS Encoding

CONSTANTS
    min_packet_size, max_packet_size, min_padding_length,
    block_size, aes_block_size,
    MAC_BYTES,          \* size of an HMAC-SHA-256
    SEQUENCE_NUMBERS,   \* how many there are before they wrap
    NEWKEYS,            \* the payload after which the sender encrypts
    Payloads,           \* what may be sent
    SOCKET_BUFFER,      \* bytes the kernel holds
    MaxPackets,         \* bounds: packets sent, bytes altered
    MaxAltered

ASSUME TransportAssumption ==
    /\ min_packet_size \in Nat /\ max_packet_size \in UInt32
    /\ min_padding_length \in Nat \ {0}
    /\ block_size \in Nat \ {0} /\ aes_block_size \in Nat \ {0}
    /\ uint32_bytes < aes_block_size
    /\ aes_block_size <= min_packet_size /\ min_packet_size <= max_packet_size
    \* Whole blocks that hold the smallest payload are a packet's least size.
    /\ \A b \in {block_size, aes_block_size} :
         /\ min_packet_size % b = 0
         /\ min_packet_size - b < uint32_bytes + 2 + min_padding_length
    /\ MAC_BYTES \in Nat \ {0} /\ MAC_BYTES <= max_packet_size
    /\ SEQUENCE_NUMBERS \in Nat \ {0}
    /\ SOCKET_BUFFER \in Nat \ {0}
    /\ MaxPackets \in Nat /\ MaxAltered \in Nat
    /\ Payloads \subseteq Seq(Bytes) /\ NEWKEYS \in Payloads

VARIABLES
    sent, got,  \* payloads given to send_packet, returned by receive_packet
    out,        \* the sender: Transport's outgoing_ members, and the bytes
                \* write_exact has not written
    in,         \* the receiver: its incoming_ members, the read_exact it is
                \* in, what that has read, the packet so far
    wire,       \* bytes in the kernel
    tcp,        \* "up" or "closed"
    altered     \* bytes altered on the way

transportVars == <<sent, got, out, in, wire, tcp, altered>>

-------------------------------------------------------------------------------
(***************************************************************************)
(* Framing.                                                                *)
(***************************************************************************)
BlockSize(active) == IF active THEN aes_block_size ELSE block_size

\* Mutant: no upper limit.
accepts_packet_length_Unlimited(active, packet_length) ==
    /\ packet_length >= min_packet_size - uint32_bytes
    /\ (packet_length + uint32_bytes) % BlockSize(active) = 0

accepts_packet_length(active, packet_length) ==
    /\ packet_length >= min_packet_size - uint32_bytes
    /\ packet_length + uint32_bytes <= max_packet_size
    /\ (packet_length + uint32_bytes) % BlockSize(active) = 0

accepts_padding(packet_length, padding_length) ==
    /\ padding_length >= min_padding_length
    /\ padding_length + 2 <= packet_length

\* Mutant: the bytes of the length are not counted.
calculate_padding_length_Short(active, payload_size) ==
    LET b == BlockSize(active)
        total == min_padding_length + payload_size + 1
    IN  min_padding_length + ((b - (total % b)) % b)

calculate_padding_length(active, payload_size) ==
    LET b == BlockSize(active)
        total == min_padding_length + payload_size + uint32_bytes + 1
    IN  min_padding_length + ((b - (total % b)) % b)

\* The sizes send_packet does not throw for.
can_send(payload_size, padding_length) ==
    /\ payload_size >= 1
    /\ 1 + payload_size + padding_length + uint32_bytes <= max_packet_size
    /\ padding_length < BYTE

\* Padding is random; its bytes are never looked at.
Framed(payload, padding_length) ==
    encode_uint32(1 + Len(payload) + padding_length) \o <<padding_length>>
        \o payload \o [i \in 1..padding_length |-> 0]

-------------------------------------------------------------------------------
(***************************************************************************)
(* Bytes on the wire.  at is the place in the key stream, PLAIN outside    *)
(* it; mac is <<>> for a byte that is not of a MAC.                        *)
(***************************************************************************)
PLAIN == -1

InClear(packet) ==
    [i \in DOMAIN packet |-> [v |-> packet[i], at |-> PLAIN, mac |-> <<>>]]

encrypt(packet, position) ==
    [i \in DOMAIN packet |->
        [v |-> packet[i], at |-> position + i - 1, mac |-> <<>>]]

decrypt(bytes, position) ==
    [i \in DOMAIN bytes |->
        IF bytes[i].at = position + i - 1 THEN bytes[i].v
        ELSE (bytes[i].v + 1) % BYTE]

calculate_hmac(sequence_number, packet) ==
    [i \in 1..MAC_BYTES |->
        [v |-> 0, at |-> PLAIN, mac |-> <<i, sequence_number, packet>>]]

Values(bytes) == [i \in DOMAIN bytes |-> bytes[i].v]

\* Mutant: a wider counter.
Next_sequence_Wide(n) == n + 1

Next_sequence(n) == (n + 1) % SEQUENCE_NUMBERS

-------------------------------------------------------------------------------
(***************************************************************************)
(* Where receive_packet starts, by whether packets are encrypted.          *)
(***************************************************************************)
FirstRead(active) ==
    IF active THEN [stage |-> "block", want |-> aes_block_size]
    ELSE [stage |-> "length", want |-> uint32_bytes]

TransportInit ==
    /\ sent = <<>> /\ got = <<>>
    /\ out = [active |-> FALSE, sequence |-> 0, position |-> 0, todo |-> <<>>]
    /\ in = [active |-> FALSE, sequence |-> 0, position |-> 0, status |-> "up",
             stage |-> "length", want |-> uint32_bytes,
             buffer |-> <<>>, packet |-> <<>>]
    /\ wire = <<>>
    /\ tcp = "up"
    /\ altered = 0

Idle == out.todo = <<>> /\ tcp = "up" /\ Len(sent) < MaxPackets

\* send_packet up to its call of write_exact; encrypting moves the key stream.
Sends(payload, padding_length) ==
    LET packet == Framed(payload, padding_length)
    IN  /\ Idle
        /\ can_send(Len(payload), padding_length)
        /\ payload = NEWKEYS => ~out.active
        /\ sent' = Append(sent, payload)
        /\ out' = IF out.active
                  THEN [out EXCEPT
                          !.todo = encrypt(packet, out.position)
                                     \o calculate_hmac(out.sequence, packet),
                          !.position = @ + Len(packet)]
                  ELSE [out EXCEPT !.todo = InClear(packet)]
        /\ UNCHANGED <<got, in, wire, tcp, altered>>

send_packet(payload) ==
    Sends(payload, calculate_padding_length(out.active, Len(payload)))

\* A payload that does not fit; the exception ends the process.
send_packet_throws(payload) ==
    /\ Idle
    /\ ~can_send(Len(payload),
                 calculate_padding_length(out.active, Len(payload)))
    /\ tcp' = "closed"
    /\ UNCHANGED <<sent, got, out, in, wire, altered>>

\* The server pads with a block more than it must.
PeerSends(payload) ==
    Sends(payload, calculate_padding_length(out.active, Len(payload))
                     + BlockSize(out.active))

\* Mutant: the number starts again with the new keys.
Written_Resets(o) ==
    IF sent[Len(sent)] = NEWKEYS
    THEN [o EXCEPT !.active = TRUE, !.sequence = 0, !.position = 0]
    ELSE [o EXCEPT !.sequence = Next_sequence(@)]

\* write_exact has returned.  The sender of NEWKEYS calls
\* enable_outgoing_encryption next, which starts a key stream.
Written(o) ==
    IF sent[Len(sent)] = NEWKEYS
    THEN [o EXCEPT !.active = TRUE, !.sequence = Next_sequence(@),
                   !.position = 0]
    ELSE [o EXCEPT !.sequence = Next_sequence(@)]

\* One write of write_exact, which takes as much as the kernel has room for
\* or less.
write_exact(r) ==
    /\ tcp = "up"
    /\ r <= Len(out.todo)
    /\ r <= SOCKET_BUFFER - Len(wire)
    /\ wire' = wire \o SubSeq(out.todo, 1, r)
    /\ LET rest == [out EXCEPT !.todo = SubSeq(@, r + 1, Len(@))]
       IN  out' = IF rest.todo = <<>> THEN Written(rest) ELSE rest
    /\ UNCHANGED <<sent, got, in, tcp, altered>>

-------------------------------------------------------------------------------
Receiving == in.status = "up" /\ Len(in.buffer) < in.want

\* One read of read_exact.
read_exact(r) ==
    /\ Receiving
    /\ r <= in.want - Len(in.buffer)
    /\ r <= Len(wire)
    /\ in' = [in EXCEPT !.buffer = @ \o SubSeq(wire, 1, r)]
    /\ wire' = SubSeq(wire, r + 1, Len(wire))
    /\ UNCHANGED <<sent, got, out, tcp, altered>>

\* read returns 0 or an error; the connection may be lost inside a packet.
read_exact_throws ==
    /\ Receiving
    /\ wire = <<>> /\ tcp = "closed"
    /\ in' = [in EXCEPT !.status = "failed"]
    /\ UNCHANGED <<sent, got, out, wire, tcp, altered>>

\* read_exact at this stage has returned; what follows leaves everything but
\* the receiver alone.
ReadDone(stage) ==
    /\ in.status = "up"
    /\ in.stage = stage
    /\ Len(in.buffer) = in.want
    /\ UNCHANGED <<sent, out, wire, tcp, altered>>

Reads(r, stage, want) ==
    [r EXCEPT !.stage = stage, !.want = want, !.buffer = <<>>]

Throws == in' = [in EXCEPT !.status = "failed"] /\ UNCHANGED got

packet_length(packet) == decode_uint32(SubSeq(packet, 1, uint32_bytes))

LengthRead ==
    LET packet == Values(in.buffer)
    IN  /\ ReadDone("length")
        /\ \/ /\ accepts_packet_length(FALSE, packet_length(packet))
              /\ in' = [Reads(in, "body", packet_length(packet))
                          EXCEPT !.packet = packet]
              /\ UNCHANGED got
           \/ ~accepts_packet_length(FALSE, packet_length(packet)) /\ Throws

\* Mutant: the bytes of the first block are read once more.
BlockRead_Again ==
    LET packet == decrypt(in.buffer, in.position)
    IN  /\ ReadDone("block")
        /\ \/ /\ accepts_packet_length(TRUE, packet_length(packet))
              /\ in' = [Reads(in, "rest", uint32_bytes + packet_length(packet))
                          EXCEPT !.packet = packet,
                                 !.position = @ + aes_block_size]
              /\ UNCHANGED got
           \/ ~accepts_packet_length(TRUE, packet_length(packet)) /\ Throws

\* The first block is decrypted for the length; nothing of the packet may be
\* left after it.
BlockRead ==
    LET packet == decrypt(in.buffer, in.position)
    IN  /\ ReadDone("block")
        /\ \/ /\ accepts_packet_length(TRUE, packet_length(packet))
              /\ in' = [Reads(in, "rest", uint32_bytes + packet_length(packet)
                                            - aes_block_size)
                          EXCEPT !.packet = packet,
                                 !.position = @ + aes_block_size]
              /\ UNCHANGED got
           \/ ~accepts_packet_length(TRUE, packet_length(packet)) /\ Throws

RestRead ==
    /\ ReadDone("rest")
    /\ in' = [Reads(in, "mac", MAC_BYTES)
                EXCEPT !.packet = @ \o decrypt(in.buffer, in.position),
                       !.position = @ + in.want]
    /\ UNCHANGED got

(***************************************************************************)
(* The packet is complete: its padding is checked and its payload          *)
(* returned.  The receiver of NEWKEYS calls enable_incoming_encryption     *)
(* before it receives again.                                               *)
(***************************************************************************)
Returns(packet) ==
    LET padding == packet[uint32_bytes + 1]
        payload == SubSeq(packet, uint32_bytes + 2, Len(packet) - padding)
        active == in.active \/ payload = NEWKEYS
    IN  \/ /\ accepts_padding(packet_length(packet), padding)
           /\ got' = Append(got, payload)
           /\ in' = [Reads(in, FirstRead(active).stage, FirstRead(active).want)
                       EXCEPT !.active = active,
                              !.sequence = Next_sequence(@),
                              !.position = IF payload = NEWKEYS THEN 0 ELSE @,
                              !.packet = <<>>]
        \/ ~accepts_padding(packet_length(packet), padding) /\ Throws

BodyRead ==
    /\ ReadDone("body")
    /\ Returns(in.packet \o Values(in.buffer))

\* Mutant: the packet is used whatever its MAC.
MacRead_Unchecked ==
    /\ ReadDone("mac")
    /\ Returns(in.packet)

MacRead ==
    /\ ReadDone("mac")
    /\ \/ /\ in.buffer = calculate_hmac(in.sequence, in.packet)
          /\ Returns(in.packet)
       \/ in.buffer # calculate_hmac(in.sequence, in.packet) /\ Throws

-------------------------------------------------------------------------------
(***************************************************************************)
(* The network.  It may close or reset the connection between any two      *)
(* bytes, a reset losing what was not read, and alter bytes once they are  *)
(* protected, a length to another that is aligned among them; the packets  *)
(* in the clear are protected by the exchange hash (module Kex).           *)
(***************************************************************************)
Cut ==
    /\ tcp = "up"
    /\ tcp' = "closed"
    /\ \E n \in 0..Len(wire) : wire' = SubSeq(wire, 1, n)
    /\ UNCHANGED <<sent, got, out, in, altered>>

Altered(byte, difference) ==
    IF byte.mac = <<>> THEN [byte EXCEPT !.v = (@ + difference) % BYTE]
    ELSE [byte EXCEPT !.mac = <<>>]

Alter(i, difference) ==
    /\ altered < MaxAltered
    /\ wire[i].at # PLAIN \/ wire[i].mac # <<>>
    /\ wire' = [wire EXCEPT ![i] = Altered(@, difference)]
    /\ altered' = altered + 1
    /\ UNCHANGED <<sent, got, out, in, tcp>>

-------------------------------------------------------------------------------
Writing == \E r \in 1..SOCKET_BUFFER : write_exact(r)

Reading ==
    \/ \E r \in 1..SOCKET_BUFFER : read_exact(r)
    \/ read_exact_throws
    \/ LengthRead
    \/ BlockRead
    \/ RestRead
    \/ BodyRead
    \/ MacRead

TransportNext ==
    \/ \E payload \in Payloads :
          \/ send_packet(payload)
          \/ send_packet_throws(payload)
          \/ PeerSends(payload)
    \/ Writing
    \/ Reading
    \/ Cut
    \/ \E i \in DOMAIN wire : \E difference \in {1, aes_block_size} :
          Alter(i, difference)

\* Neither end stops inside a packet, unless the connection does.
TransportSpec ==
    /\ TransportInit
    /\ [][TransportNext]_transportVars
    /\ WF_transportVars(Writing)
    /\ WF_transportVars(Reading)

-------------------------------------------------------------------------------
WireByte ==
    [v : Bytes, at : Int, mac : {<<>>} \cup (Nat \X Nat \X Seq(Bytes))]

Sender ==
    [active : BOOLEAN, sequence : 0..(SEQUENCE_NUMBERS - 1), position : Nat,
     todo : Seq(WireByte)]

Receiver ==
    [active : BOOLEAN, sequence : 0..(SEQUENCE_NUMBERS - 1), position : Nat,
     status : {"up", "failed"},
     stage : {"length", "body", "block", "rest", "mac"}, want : Nat,
     buffer : Seq(WireByte), packet : Seq(Bytes)]

\* The types of both ends; read_exact never takes more than it was asked for
\* (socket.cpp:59-75), and the kernel holds no more than its buffer.
TransportTypeOK ==
    /\ sent \in Seq(Payloads)
    /\ got \in Seq(Seq(Bytes))
    /\ out \in Sender
    /\ in \in Receiver /\ Len(in.buffer) <= in.want
    /\ wire \in Seq(WireByte) /\ Len(wire) <= SOCKET_BUFFER
    /\ tcp \in {"up", "closed"}
    /\ altered \in 0..MaxAltered

(***************************************************************************)
(* The bytes implement the stream of payloads that the rest of the program *)
(* is written for: however reads and writes are cut, wherever the          *)
(* connection ends and whichever protected byte is altered, what           *)
(* receive_packet returns is what was given to send_packet, in order, and  *)
(* an exception is the end of it (transport.hpp:22-26).                    *)
(***************************************************************************)
Stream == INSTANCE PacketStream WITH status <- in.status

ImplementsStream == Stream!StreamSpec

(***************************************************************************)
(* Whenever nothing is under way the two ends agree on keys, packet number *)
(* and place in the key stream; the number may have wrapped                *)
(* (transport.cpp:138, 221).                                               *)
(***************************************************************************)
EndsInStep ==
    out.todo = <<>> /\ wire = <<>> /\ in.buffer = <<>>
      /\ in.stage = FirstRead(in.active).stage
      /\ in.status = "up" /\ tcp = "up" =>
        /\ in.active = out.active
        /\ in.sequence = out.sequence
        /\ in.position = out.position

(***************************************************************************)
(* What a sender that keeps to the format sends is refused only if the     *)
(* connection was lost or a byte altered: the smallest packet, of one      *)
(* block, and the most padded included (transport.cpp:39-66).              *)
(***************************************************************************)
RefusedForCause == in.status = "failed" => tcp = "closed" \/ altered > 0

(***************************************************************************)
(* The length is believed only within the limits, before any of the packet *)
(* is authenticated: no read waits for, and no vector is made for, more    *)
(* than a packet of the largest size (transport.cpp:75-79, 101-105).       *)
(***************************************************************************)
LengthBounded == in.want <= max_packet_size

(***************************************************************************)
(* A packet that was begun arrives or the receiver learns that it will     *)
(* not, in whatever pieces it comes, unless a byte of it was altered: then *)
(* the receiver may wait for bytes that were never sent.                   *)
(***************************************************************************)
PacketsArrive ==
    \A n \in 1..MaxPackets :
        Len(sent) >= n ~> Len(got) >= n \/ in.status = "failed" \/ altered > 0

===============================================================================

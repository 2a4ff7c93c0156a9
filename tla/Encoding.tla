------------------------------- MODULE Encoding -------------------------------
(***************************************************************************)
(* Namespace ssh_encoding (src/src/common): the numbers and strings of SSH *)
(* payloads.  A payload is a sequence of bytes; a position is the number   *)
(* of bytes read before it.  A read gives the position after it, or        *)
(* FAILED where the code throws; a read at FAILED has thrown before.       *)
(***************************************************************************)
EXTENDS Integers, Sequences

CONSTANT BYTE       \* values of a byte

ASSUME EncodingAssumption == BYTE \in Nat \ {0, 1}

uint32_bytes == 4

Bytes == 0..(BYTE - 1)

FAILED == -1

UInt32 == 0..(BYTE * BYTE * BYTE * BYTE - 1)

\* value >> 24, value >> 16, value >> 8 and value, each cut to a byte.
encode_uint32(value) ==
    LET third  == value \div BYTE
        second == third \div BYTE
        first  == second \div BYTE
    IN  <<first % BYTE, second % BYTE, third % BYTE, value % BYTE>>

decode_uint32(bytes) ==
    ((bytes[1] * BYTE + bytes[2]) * BYTE + bytes[3]) * BYTE + bytes[4]

append_string(destination, value) ==
    destination \o encode_uint32(Len(value)) \o value

\* The n bytes at position, and whether they are all there.
Slice(payload, position, n) == SubSeq(payload, position + 1, position + n)

Remain(payload, position, n) ==
    position # FAILED /\ Len(payload) - position >= n

read_uint32(payload, position) ==
    decode_uint32(Slice(payload, position, uint32_bytes))

after_string(payload, position) ==
    IF /\ Remain(payload, position, uint32_bytes)
       /\ Remain(payload, position + uint32_bytes, read_uint32(payload, position))
    THEN position + uint32_bytes + read_uint32(payload, position)
    ELSE FAILED

read_string(payload, position) ==
    Slice(payload, position + uint32_bytes, read_uint32(payload, position))

===============================================================================

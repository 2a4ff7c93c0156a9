SPECIFICATION TransportSpec
CONSTANTS
    BYTE = 16
    min_packet_size = 8
    max_packet_size = 20
    min_padding_length = 1
    block_size = 4
    aes_block_size = 8
    MAC_BYTES = 2
    SEQUENCE_NUMBERS = 2
    NEWKEYS <- MCNewkeys
    Payloads <- MCPayloads
    SOCKET_BUFFER = 4
    MaxPackets = 3
    MaxAltered = 1
CHECK_DEADLOCK FALSE
INVARIANTS
    TransportTypeOK
    EndsInStep
    RefusedForCause
    LengthBounded
PROPERTIES
    ImplementsStream
    PacketsArrive

SPECIFICATION FairSpec
CONSTANTS
    UINT32_MAX = 4
    MIN_MAX_PACKET_SIZE = 2
    LOCAL_WINDOW_TARGET = 4
    LOCAL_WINDOW_THRESHOLD = 2
    LOCAL_MAX_PACKET_SIZE = 3
    KEYBOARD_BUFFER_SIZE = 3
    ServerMessages <- MCServerMessages
    SEND_BUFFER = 1
    RECV_BUFFER = 1
INVARIANTS
    SessionInv
    NoInternalError
    WindowOffered
    RestoredUnlessKilled
    CloseHandshake
    LostForCause
PROPERTIES
    DeadConnectionEnds
    NothingAfterClose

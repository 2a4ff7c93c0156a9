SPECIFICATION ShellSpec
CONSTANTS
    UINT32_MAX = 3
    MIN_MAX_PACKET_SIZE = 2
    LOCAL_WINDOW_TARGET = 3
    LOCAL_WINDOW_THRESHOLD = 1
    LOCAL_MAX_PACKET_SIZE = 2
    KEYBOARD_BUFFER_SIZE = 3
    ServerMessages = {}
    SEND_BUFFER = 2
    RECV_BUFFER = 2
    SERVER_WINDOW = 3
    SERVER_MAX_PACKET_SIZE = 2
    EXIT_STATUS = 3
    MaxTyped = 4
    MaxOutput = 4
    MaxGlobalRequests = 2
INVARIANTS
    ShellTypeOK
    NeverRejected
    WindowsAgree
    RepliesOwed
    CompleteAtExit

SPECIFICATION FairShellSpec
CONSTANTS
    UINT32_MAX = 4
    MIN_MAX_PACKET_SIZE = 2
    LOCAL_WINDOW_TARGET = 3
    LOCAL_WINDOW_THRESHOLD = 1
    LOCAL_MAX_PACKET_SIZE = 2
    KEYBOARD_BUFFER_SIZE = 3
    ServerMessages = {}
    SEND_BUFFER = 1
    RECV_BUFFER = 1
    SERVER_WINDOW = 2
    SERVER_MAX_PACKET_SIZE = 2
    EXIT_STATUS = 3
    MaxTyped = 3
    MaxOutput = 4
    MaxGlobalRequests = 1
PROPERTIES
    OutputFlows
    KeyboardResumes
    CloseEndsSession
    RequestsAnswered

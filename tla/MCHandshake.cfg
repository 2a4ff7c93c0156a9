SPECIFICATION HandshakeSpec
CONSTANTS
    user = user
    a = a
    b = b
    k1 = k1
    k2 = k2
    Hosts <- MCHosts
    Keys = {k1, k2}
    ALGORITHM = ed25519
    GARBAGE = garbage
    AT = at
    DEFAULT_SSH_PORT = 2
    UINT16_MAX = 7
    ULONG_MAX = 31
    Invocations <- MCInvocations
    SESSION = session
    Peer <- MCPeer
    KnownFiles <- MCKnownFiles
    MaxQueue = 2
INVARIANTS
    HandshakeTypeOK
    EndpointAsWritten
    PasswordProtected
    OutgoingStream
    EchoUnlessKilled

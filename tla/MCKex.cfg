SPECIFICATION KexSpec
CONSTANTS
    BYTE = 64
    cookie_bytes = 1
    length_of_key = 2
    signature_bytes = 2
    KEXINIT = 20
    KEX_ECDH_INIT = 30
    KEX_ECDH_REPLY = 31
    COMMA = 44
    CR = 60
    VERSION <- MCVersion
    CLIENT_ID <- MCClientId
    SERVER_ID <- MCServerId
    ED25519 <- MCEd25519
    Supported <- MCSupported
    Offers <- MCOffers
    CLIENT_KEY <- MCClientKey
    SERVER_KEY <- MCServerKey
    HOST_KEY <- MCHostKey
    SIGNATURE <- MCSignature
    SharedSecrets <- MCSharedSecrets
    MaxAltered = 2
INVARIANTS
    KexTypeOK
    SameExchange
    SameKeys
    HonestOutcome
    KexinitExact

SPECIFICATION Spec
SYMMETRY Symmetric
CONSTANTS
    Hosts = {h1, h2}
    Keys = {k1, k2}
    ALGORITHM = ed25519
    GARBAGE = garbage
    Clients = {c1}
    MaxFailures = 2
INVARIANTS
    SavedKeyMatches

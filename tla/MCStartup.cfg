CONSTANTS
    NoIp = NoIp
    Localhost = "localhost"
    MaxHostBytes = 4
    Stems <- MCStems
    Loopback <- MCLoopback
    Unspecified <- MCUnspecified
    Clis <- MCClis
    MAX_CONNECTIONS = 2
    MAX_PENDING_REQUESTS = 2
    MAX_BROADCASTS = 8
    MIN_FRAME_BYTES = 2
    MAX_FRAME_BYTES = 8
    MAX_IN_FLIGHT_BYTES = 16
    UsizeValues = 32
SPECIFICATION Spec
INVARIANTS
    DialsSeparate
    SpellingIrrelevant
    RoundTrip

CONSTANTS
    Calls = {c1, c2}
    RelayTimeout = 2
    MaxConnections = 2
    ConnectTimeout = 1
    FlushGrace = 1
SPECIFICATION FairSpec
INVARIANTS
    ServerTypeOK
    SlotsConserved
    AtMostOneLateAccept
    ReportIsTrue
    CutOffOnlyIfSlow
    CallBounded
PROPERTIES
    NoCallDuringDrain
    ShutdownTerminates

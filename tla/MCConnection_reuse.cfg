CONSTANTS
    Ids = {i1}
    NoId = NoId
    MaxPending = 2
    OutputCapacity = 1
    WalletReusesIds = TRUE
    MaxReads = 2
    MaxUpstreamFrames = 2
SPECIFICATION Spec
PROPERTIES
    UpstreamNeverAnswersBroadcast

CONSTANTS
    Ids = {i1}
    NoId = NoId
    MaxPending = 1
    OutputCapacity = 1
    WalletReusesIds = FALSE
    MaxReads = 2
    MaxUpstreamFrames = 2
SPECIFICATION FairSpec
PROPERTIES
    UpstreamNeverAnswersBroadcast
    FollowsStages
    TeardownCompletes
    ShutdownCloses

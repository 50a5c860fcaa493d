CONSTANTS
    MaxFrameBytes = 5
    BufferBytes = 3
    MaxStream = 6
    IntegerIds <- MCIntegerIds
    Rounded <- MCRounded
    MAX_REQUEST_ID_STRING_BYTES = 2
    Requests <- MCRequests
    UpstreamIds <- MCIds
    MaxPending = 2
    JsonBytes = 1
SPECIFICATION InputSpec
INVARIANTS
    CorrelationExact
    PayloadWithinFrame
PROPERTIES
    FramesAreLines
    NothingHeldBack

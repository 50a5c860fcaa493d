CONSTANTS
    Publishers = {p1, p2, p3}
    Outsider = outsider
    Nobody = nobody
SPECIFICATION FairSpec
INVARIANTS
    Serialised
    SidecarVouches
    AllOrNothing
PROPERTIES
    OnlyCreatorTouches
    AllEnd

CONSTANTS
    Publishers = {p1, p2}
    Outsider = outsider
    Nobody = nobody
SPECIFICATION Spec
INVARIANTS
    InterruptedCopyRemoved

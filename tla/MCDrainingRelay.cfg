CONSTANTS
    Callers = {c1, c2, c3}
    MaxActive = 2
SPECIFICATION Spec
INVARIANTS
    IdleMeansReturned

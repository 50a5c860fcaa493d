CONSTANTS
    Callers = {c1, c2, c3}
    Calls = {c1, c2, c3}
    Limit = 2
    MaxSize = 3
    Budgets = {3, 4}
    PermitMax = 2
    MaxActive = 3
SPECIFICATION StackFairSpec
INVARIANTS
    ActiveExact
    ShutdownIsABoundary
    PermitsConserved
    BudgetNeverBinds
    IdleMeansPermitsFree
PROPERTIES
    NoAdapterCallAfterShutdown
    StackDrains

SPECIFICATION Spec
CONSTANTS
    Providers = {p1, p2, p3}
    Imports <- AllImports
    NoProvider = NoProvider
    MaxTickets = 3
    MaxRoots = 2
SYMMETRY Symmetry
INVARIANTS
    TypeOK
    CallsAreExclusive
    TicketsSettle
    AuthorityFollowsTheForest
PROPERTIES
    OutcomesAreFinal
    ImplementsKernelLease

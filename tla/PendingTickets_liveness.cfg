SPECIFICATION FairSpec
CONSTANTS
    Providers = {p1, p2}
    Imports <- AllImports
    NoProvider = NoProvider
    MaxTickets = 2
    MaxRoots = 2
PROPERTIES
    RootsAndCallsEnd

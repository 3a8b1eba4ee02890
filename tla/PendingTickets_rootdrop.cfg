SPECIFICATION Spec
CONSTANTS
    Providers = {p1, p2}
    Imports <- AllImports
    NoProvider = NoProvider
    MaxTickets = 2
    MaxRoots = 1
INVARIANTS
    RootDropDoesNotPanic

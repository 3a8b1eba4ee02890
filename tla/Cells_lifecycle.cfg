SPECIFICATION Spec
CONSTANTS
    p1 = p1
    p2 = p2
    Packages <- TwoPackages
    Properties <- Two
    Root = Root
    Granted <- SomeGrants
    Holds <- AllResources
    Generations = {g1, g2}
    None = None
    MaxSubscriptions = 2
    MaxLoads = 2
    MaxEpoch = 1
    MaxCursor = 2
    MaxRoot = 1
    MaxTicket = 1
CHECK_DEADLOCK FALSE
INVARIANTS
    CellsFollowTheirLoads

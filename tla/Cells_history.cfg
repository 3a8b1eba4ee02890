SPECIFICATION Spec
CONSTANTS
    p1 = p1
    p2 = p2
    Packages <- TwoPackages
    Properties <- Two
    Root = Root
    Granted <- SomeGrants
    Holds <- AllResources
    Generations = {g1}
    None = None
    MaxSubscriptions = 1
    MaxLoads = 1
    MaxEpoch = 3
    MaxCursor = 2
    MaxRoot = 2
    MaxTicket = 0
CHECK_DEADLOCK FALSE
PROPERTIES
    HistoryIsObserved

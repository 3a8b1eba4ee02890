SPECIFICATION MCSpec
CONSTANTS
    Parts = {"scope", "order", "wave", "labels", "joins", "resolution", "metadata", "graphs", "execution"}
    Unused = Unused
    Plugins <- MCPlugins
    Root = Root
    Keys <- MCKeys
    Home <- MCHome
    Owner <- C
    GetKey = GetKey
    SetKey = SetKey
    Resources <- MCResources
    Property = Property
    NoResource = NoResource
    Policies <- MCPolicies
    Requests <- MCRequests
    Tickets = {t1, t2}
    NoTicket = NoTicket
    Nodes <- WaveNodes
    Kinds <- WaveKind
    Inputs <- WaveInputs
    Flows <- WaveFlows
    Orders <- WaveOrders
    Cases <- WaveCases
    Source = 1
    Provider <- WaveProvider
    Denied = {}
    MaxValues = 40
    A = A
    B = B
    C = C
    RunA = RunA
    RunB = RunB
    RunC = RunC
    Spare = Spare
SYMMETRY Interchangeable
INVARIANTS
    ScopesAreSound
    CompiledOrdersAreSound
    WavesAreConfluent
    PlansAreSound
    BindingsAreSound
    MetadataLoadsAsWritten
PROPERTIES
    ExecutionsKeepTheirGraph
CHECK_DEADLOCK FALSE

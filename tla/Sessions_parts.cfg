SPECIFICATION MCSpec
CONSTANTS
    Parts = {"runs", "connection", "alone", "streams", "reader", "instance", "handles", "imports", "transport"}
    Unused = Unused
    Hosts = {terminal, editor}
    Acp = {editor}
    NoOne = NoOne
    NoCopy = NoCopy
    TurnLimit = 2
    MaxCalls = 1
    MaxRuns = 2
    MaxKills = 1
    MaxFaults = 1
    MaxReconciles = 1
    Properties = {"counter", "label"}
    Values = {0, 1}
    Synchronous = {"get"}
    Deferred = {"run"}
    None = None
    MaxRevision = 3
    MaxHooks = 3
    Calls = {oldCall, newCall}
    MaxPieces = 2
    MaxCuts = 2
    oneTab = oneTab
    otherTab = otherTab
    oldEdit = oldEdit
    newEdit = newEdit
    watcher = watcher
    oldCall = oldCall
    newCall = newCall
INVARIANTS
    EffectsAreSafe
PROPERTIES
    RunsEndOnce
    ConnectionsAnswerTheirRequests
    StreamsKeepTheirLines
    InstancesKeepTheirFields
    HandlesTellTheTruth
    TransportsAreSilenced
SYMMETRY Interchangeable
CHECK_DEADLOCK FALSE

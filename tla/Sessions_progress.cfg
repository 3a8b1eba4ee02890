SPECIFICATION MCFairSpec
CONSTANTS
    Parts = {"runs", "cancelling", "notices", "instance", "transport"}
    Unused = Unused
    Hosts = {terminal, editor}
    Acp = {editor}
    NoOne = NoOne
    NoCopy = NoCopy
    TurnLimit = 1
    MaxCalls = 1
    MaxRuns = 1
    MaxKills = 1
    MaxFaults = 1
    MaxReconciles = 0
    Properties = {"counter"}
    Values = {0, 1}
    Synchronous = {"get"}
    Deferred = {"run"}
    None = None
    MaxRevision = 1
    MaxHooks = 2
    Calls = {oldCall, newCall}
    MaxPieces = 1
    MaxCuts = 1
    oneTab = oneTab
    otherTab = otherTab
    oldEdit = oldEdit
    newEdit = newEdit
    watcher = watcher
    oldCall = oldCall
    newCall = newCall
PROPERTIES
    SessionsMakeProgress
CHECK_DEADLOCK FALSE

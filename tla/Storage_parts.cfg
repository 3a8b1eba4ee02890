SPECIFICATION MCSpec
CONSTANTS
    Parts = {"journal", "project", "evidence", "checkpoints", "files", "catalogue"}
    c1 = c1
    c2 = c2
    i1 = i1
    i2 = i2
    e1 = e1
    e2 = e2
    k1 = k1
    k2 = k2
    d1 = d1
    d2 = d2
    s1 = s1
    x = x
    y = y
    NoRecord = NoRecord
    Clients = {"p", "q"}
    Observers = {"screen"}
    JournalKey = "journal"
    PageLimit = 2
    MaxAppends = 1
    MaxRenders = 1
    MaxJobs = 3
    NoEntry = NoEntry
    FactIds = {x, y}
    Sources = {"src"}
    Times = {1, 2, 3}
    Facts <- SomeFacts
    MaxHistory = 3
    MaxLimit = 1
    MaxSourceVersion = 2
    MaxGrants = 1
    CheckpointIds = {i1, i2}
    NoCheckpoint = NoCheckpoint
    SourceEvents = {e1, e2}
    CitedSets = {{e1}, {e2}}
    AskedOfLine <- AskedOfTheLine
    MaxLine = 2
    MaxLost = 1
    Absent = Absent
    Processes = {c1, c2}
    Profiles = {"work"}
    Keys = {i1}
    Bindings = {"env"}
    EnvironmentKey = FALSE
    Callers = {c1, c2}
    Sessions = {s1}
    RecordKeys = {k1, k2}
    Values = {d1, d2}
    Project = Project
    Elsewhere = Elsewhere
    Asked <- AskedOfTheProject
    MaxVersion = 2
    MaxCommits = 3
    Connections = {"work", "local"}
    Declared = {"local"}
    Ttl = 1
    MaxIdentities = 1
    MaxClock = 2
    MaxCredential = 1
    MaxPage = 1
    MaxRevision = 3
    MaxInFlight = 2
SYMMETRY Interchangeable
INVARIANTS
    ProjectIsSerializable
PROPERTIES
    JournalIsALog
    EvidenceIsKept
    CheckpointsFormALine
    CredentialsSurvive
    CataloguesAreCurrent
CHECK_DEADLOCK FALSE

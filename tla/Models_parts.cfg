SPECIFICATION MCSpec
CONSTANTS
    Parts = {"choices", "rivals", "admission", "replies", "callings", "limits", "bodies", "signins", "compaction", "documents"}
    Unused = Unused
    Processes = {desk, laptop}
    Subjects = {ann, bob}
    MaxAttempts = 1
    MaxBegins = 2
    MaxLapses = 1
    MaxSignOuts = 1
    MaxFaults = 1
    desk = desk
    laptop = laptop
    gpt = gpt
    ann = ann
    bob = bob
    textA = textA
    textB = textB
    idA = idA
    idB = idB
    toolA = toolA
    toolB = toolB
    callA = callA
    callB = callB
    noCall = noCall
SYMMETRY Interchangeable
INVARIANTS
    CompactionKeepsTheTruth
    DocumentsAgree
PROPERTIES
    ChoicesAreHonoured
    RequestsFitTheirWindow
    ProtocolsTellTheSame
    SignInsAreSound
CHECK_DEADLOCK FALSE

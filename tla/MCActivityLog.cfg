\* Two processes; appends are cut short and the directory is deleted at any time.
SPECIFICATION FairSpec
CONSTANTS
    p1 = p1
    p2 = p2
    NoProcess = NoProcess
    Process <- MCProcess
    WritesFail = TRUE
    MayReset = TRUE
    MaxStamps = 3
INVARIANTS
    RecordedIsKept
    NonOverlappingInOrder
    AnswerIsComplete
PROPERTY
    CallsReturn

\* An append is cut short and another follows.
SPECIFICATION Spec
CONSTANTS
    p1 = p1
    p2 = p2
    NoProcess = NoProcess
    Process <- MCProcess
    WritesFail = TRUE
    MayReset = FALSE
    MaxStamps = 2
INVARIANT
    OneObjectPerLine

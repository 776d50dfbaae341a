\* One app and two shells over two devices: safety, refinement and liveness.
SPECIFICATION FairSpec
CONSTANTS
    a1 = a1
    s1 = s1
    s2 = s2
    d1 = d1
    d2 = d2
    App <- MCApp
    Shell <- MCShells
    Device <- MCDevices
    UnknownId = UnknownId
    GetAll = GetAll
    NoProc = NoProc
    NoFile = NoFile
    Torn = Torn
    MaxChanges = 1
INVARIANTS
    MutualExclusion
    NoLostUpdate
    NeverHalfAFile
    AnswerIsCurrent
PROPERTIES
    RefinesAtomicFleet
    CallsReturn
    LockIsReleased

\* A time-out that meets no holder: the directory was deleted under a live shell.
SPECIFICATION Spec
CONSTANTS
    a1 = a1
    s1 = s1
    s2 = s2
    d1 = d1
    d2 = d2
    App <- MCApp
    Shell <- MCShell
    Device <- MCDevices
    UnknownId = UnknownId
    GetAll = GetAll
    NoProc = NoProc
    NoFile = NoFile
    Torn = Torn
    MaxChanges = 1
PROPERTY
    TimeoutMeansHeld

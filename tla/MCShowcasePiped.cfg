\* A fetched object is piped to Set-ShowcaseDevice after the app moved on.
SPECIFICATION Spec
CONSTANTS
    a1 = a1
    a2 = a2
    s1 = s1
    s2 = s2
    d1 = d1
    d2 = d2
    App <- MCApp
    Shell <- MCShell
    Device <- MCDevice
    SeedStatus <- MCHealthySeed
    MinimumGrade = "Critical"
    MaxFailures = 0
    MaxCommands = 1
    MaxFaults = 1
PROPERTY
    PipedSetKeepsStatus

\* Two apps and one shell around one healthy device, of which one may fail: the log
\* stays in step, restarts last, devices recover, the log catches up.
SPECIFICATION FairSpec
CONSTANTS
    a1 = a1
    a2 = a2
    s1 = s1
    s2 = s2
    d1 = d1
    d2 = d2
    App <- MCApps
    Shell <- MCShell
    Device <- MCDevice
    SeedStatus <- MCHealthySeed
    MinimumGrade = "Warning"
    MaxCommands = 2
    MaxFaults = 1
    MaxFailures = 1
INVARIANTS
    AuditInStep
    RestartTakesThreeTicks
PROPERTIES
    MaintenanceEnds
    AuditCatchesUp

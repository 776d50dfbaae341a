\* The programs of the lectures one at a time; their loops end, and so do they.
SPECIFICATION FairSpec
CONSTANTS
    k1 = k1
    k2 = k2
    Key <- MCKey
    Token = 2
    Capacity = 4
    Rate = 1
    MaxTime = 4
    MaxCalls = 4
    Ticks = 3
    THRESHOLD = 50
    Messages = 3
    MayKill = TRUE
    MaxRuns = 2
    Value = {1, 2, 3, 4}
    hash_int <- MCHash
    nbuckets0 = 2
    MaxNodes = 5
    MaxSleep = 4
    MaxDelay = 2
    Clients = {1, 2}
    PerClient = 2
    MaxDevices = 2
    MaxCount = 3
    n = 3
    MaxSamples = 2
    Terminals = {1, 2}
    Cases <- MCCases
    Added = {2}
    Matching <- MCMatching
    Families <- MCFamilies
    CaseFiles <- MCCaseFiles
    MaxLines = 4
    MaxCommands = 3
    MaxDate = 1
    Weights <- MCWeights
    Capacities = {0, 1, 2, 3}
    MaxRequests = 6
    TableKey = {0, 1, 2, 3, 4, 5}
    HashFns <- MCHashFns
    Buckets0 = 2
    MaxAdds = 5
    MaxBurst = 6
    MaxPeriod = 4
    MaxLatency = 8
INVARIANTS
    LimitIsExact
    MessagesArriveOnce
    FirstOccurrencesAreKept
    AttemptsAreKept
    HitsFollowReuse
    KeysAreFound
    PeaksAreExact
PROPERTY
    LabsEnd
CHECK_DEADLOCK FALSE

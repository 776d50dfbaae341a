CONSTANTS
    Clients = {c1, c2}
    Half = 2
    MaxLoads = 2
    None = None
SPECIFICATION FairSpec
INVARIANTS
    NothingIsLeftBehind
    EveryIncrementIsAnsweredOnce
PROPERTIES
    RequestsReturn
    StopUnloads
\* When all clients have exited and the service was started MaxLoads times, or
\* after a bugcheck, nothing is left to do.
CHECK_DEADLOCK FALSE

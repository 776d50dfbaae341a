\* Three runspaces run commands, complete ids and remove the module.
\* A shell may be closed after its last command.
SPECIFICATION FairSpec
CONSTANTS
    r1 = r1
    r2 = r2
    r3 = r3
    Nobody = Nobody
    Runspace <- MCRunspaces
    MaxCommands = 3
INVARIANTS
    OneContainer
    EveryCommandCounts
PROPERTY
    CommandsGetServices
CHECK_DEADLOCK FALSE

SPECIFICATION InterruptsSpec
\* An exception stops the machine.
CHECK_DEADLOCK FALSE
CONSTANTS
    NTasks = 2
    DeviceLines = {8}
    WORD = 4
    PRINT_PERIOD = 2
INVARIANTS
    InterruptsOn
    ServiceMatches
PROPERTIES
    TicksApart
    PendingServed

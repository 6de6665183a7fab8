SPECIFICATION VmmSpec
CONSTANTS
    Entries = 6
    KERNEL_PDE_INDEX = 1
    DirectMapTables = 2
    NFrames = 13
    MaxSpaces = 2
    TlbSize = 1
INVARIANTS
    TlbFresh
    UserConfined
PROPERTIES
    ImplementsSpaces

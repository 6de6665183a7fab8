SPECIFICATION SchedSpec
CONSTANTS
    NPages = 5
    DirectMapPages = 5
    MAX_TASKS = 4
    Entries = {"body"}
    MaxTaskId = 6
INVARIANTS
    StacksOwned
    SpacesLive
    ContextReady
PROPERTIES
    RunnableRuns
    ZombieReaped

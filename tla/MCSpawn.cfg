SPECIFICATION SpawnSpec
CONSTANTS
    BUFFER_SIZE = 6
    Letters = {"u"}
    Commands <- ShellCommands
    USERSPAWN <- Userspawn
    EMXA_HEADER_SIZE = 2
    EMXA_ENTRY_SIZE = 5
    EMXA_PATH_SIZE = 3
    EMXF_HEADER_SIZE = 2
    PMM_PAGE_SIZE = 4
    WORD = 32
    Archives <- BootArchives
INVARIANTS
    LoadInBounds
PROPERTIES
    SpawnsTyped

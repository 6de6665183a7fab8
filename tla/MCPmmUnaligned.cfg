SPECIFICATION PmmSpec
CHECK_DEADLOCK FALSE
CONSTANTS
    PMM_PAGE_SIZE = 4
    VMM_DIRECT_MAP_LIMIT = 32
    WORD = 64
    Layouts <- UnalignedLayouts
INVARIANTS
    AllUsableCleared

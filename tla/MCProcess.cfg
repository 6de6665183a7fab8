SPECIFICATION ProcessSpec
CONSTANTS
    NPages = 10
    DirectMapPages = 10
    MAX_TASKS = 4
    Entries = {"user_exec_task", "zero_test"}
    MaxTaskId = 5
    USER_PROCESS_MAX = 3
    KEYBOARD_BUFFER_SIZE = 2
    MaxPid = 4
INVARIANTS
    PagesAccounted
    Isolation
    ProcessesMatchTasks
    ParentsCanWait
    NoTypeAhead
    NoPanic
PROPERTIES
    StatusKept
    RunsOnLiveMemory
    WaitReturns
    UserlandEnds

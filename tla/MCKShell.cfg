SPECIFICATION KShellSpec
CONSTANTS
    BUFFER_SIZE = 4
    Letters = {"a", "b"}
    Commands <- ShellCommands
INVARIANTS
    LineTerminated
    LineAsTyped
    RunsTypedCommand
PROPERTIES
    NewlineActedUpon

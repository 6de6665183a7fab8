-------------------------------- MODULE Spawn --------------------------------
(***************************************************************************)
(* The userspawn command, from the shell's line buffer to a loaded program: *)
(* cmd_userspawn (kernel/kshell.c), user_spawn and user_exec_task           *)
(* (kernel/user.c) and the boot archive.                                    *)
(*                                                                         *)
(* The path user_spawn works on is inside the line buffer, which the        *)
(* keyboard interrupt may change between strlen, the first search of the    *)
(* archive and the copy into the process record. The thread searches again, *)
(* for the copy.                                                            *)
(***************************************************************************)
EXTENDS KShell, Initramfs

CONSTANT USERSPAWN   \* the command's name

ASSUME SpawnAssumption == USERSPAWN \in Commands

VARIABLES
    archive,     \* the boot module
    path_len,    \* user_spawn's strlen
    file,        \* what its search found
    process,     \* the record: one process at a time
    meant        \* the path as typed when the command began

spawnVars == <<kshellVars, archive, path_len, file, process, meant>>

NoPath == [i \in PathIndices |-> NUL]
FreeProcess == [state |-> "free", path |-> NoPath, file |-> NoFile]

SpawnInit ==
    /\ KShellInit
    /\ archive \in Archives
    /\ path_len = 0
    /\ file = NoFile
    /\ process = FreeProcess
    /\ meant = NONE

\* The byte of path[i], path being what follows the name and a space. The search
\* reads past the line only when that has no terminator.
PathByte(i) ==
    LET k == Len(USERSPAWN) + 1 + i IN IF k \in Indices THEN buffer[k] ELSE NUL

Path == [i \in PathIndices |-> PathByte(i)]

strlen ==
    LET ends == {i \in 0 .. BUFFER_SIZE : PathByte(i) = NUL}
    IN  CHOOSE i \in ends : \A j \in ends : i <= j

Line == <<buffer, length, command_ready, active, cursor, typed, disturbed>>

Returns ==
    /\ command' = NONE /\ at' = "memset"
    /\ UNCHANGED <<Line, archive, process>>
    /\ path_len' = 0 /\ file' = NoFile /\ meant' = NONE

Continues(point) ==
    /\ at' = point
    /\ UNCHANGED <<Line, command, archive>>

\* Is there a path at all?
cmd_userspawn ==
    /\ at = "run" /\ command = USERSPAWN
    /\ IF length <= Len(USERSPAWN) \/ buffer[Len(USERSPAWN)] # SPACE
       THEN Returns
       ELSE Continues("strlen") /\ meant' = SubSeq(typed, Len(USERSPAWN) + 2, Len(typed))
            /\ UNCHANGED <<path_len, file, process>>

SpawnStrlen ==
    /\ at = "strlen"
    /\ IF strlen = 0 \/ strlen >= EMXA_PATH_SIZE
       THEN Returns
       ELSE Continues("find") /\ path_len' = strlen
            /\ UNCHANGED <<file, process, meant>>

SpawnFind ==
    /\ at = "find"
    /\ LET found == initramfs_find(archive, Path, NUL)
       IN  IF found = NoFile THEN Returns
           ELSE Continues("memcpy") /\ file' = found /\ UNCHANGED <<path_len, process, meant>>

\* Mutant: everything up to the terminator is copied, as strcpy does.
CopiedPath_Strcpy ==
    [i \in PathIndices |-> IF \E j \in 0 .. i : PathByte(j) = NUL THEN NUL ELSE PathByte(i)]

\* The record was cleared; path_len + 1 bytes are copied.
CopiedPath == [i \in PathIndices |-> IF i <= path_len THEN PathByte(i) ELSE NUL]

\* A record, a directory and a thread, or a failure to get one of them.
user_spawn ==
    /\ at = "memcpy"
    /\ \/ Returns
       \/ /\ process.state = "free"
          /\ process' = [FreeProcess EXCEPT !.state = "created", !.path = CopiedPath]
          /\ command' = NONE /\ at' = "memset"
          /\ path_len' = 0 /\ file' = NoFile /\ meant' = NONE
          /\ UNCHANGED <<Line, archive>>

\* The new thread: searches for the copied path and loads what it finds.
user_exec_task ==
    /\ process.state = "created"
    /\ LET found == initramfs_find(archive, process.path, NUL)
       IN  process' = IF found = NoFile THEN FreeProcess
                      ELSE IF load_emxf(archive.entries[found])
                      THEN [FreeProcess EXCEPT !.state = "running", !.file = found]
                      ELSE FreeProcess
    /\ UNCHANGED <<kshellVars, archive, path_len, file, meant>>

user_exit_current ==
    /\ process.state = "running"
    /\ process' = FreeProcess
    /\ UNCHANGED <<kshellVars, archive, path_len, file, meant>>

Shell ==
    /\ Loop \/ (CommandReturns /\ command # USERSPAWN) \/ KeyIrq \/ TimerIrq
    /\ UNCHANGED <<archive, path_len, file, process, meant>>

SpawnNext ==
    \/ Shell \/ cmd_userspawn \/ SpawnStrlen \/ SpawnFind \/ user_spawn
    \/ user_exec_task \/ user_exit_current

SpawnSpec == SpawnInit /\ [][SpawnNext]_spawnVars

-----------------------------------------------------------------------------
\* Whatever the archive's fields claim: a program that runs was read from inside
\* the archive, entry and image, fits in its one page and is entered inside it.
LoadInBounds ==
    process.state = "running" =>
       LET e == archive.entries[process.file]
           code == e.offset + EMXF_HEADER_SIZE
       IN  /\ EMXA_HEADER_SIZE + process.file * EMXA_ENTRY_SIZE <= archive.size
           /\ code + e.code_size <= archive.size
           /\ e.code_size <= PMM_PAGE_SIZE
           /\ e.entry_offset < e.code_size

AsPath(s) == [i \in PathIndices |-> IF i < Len(s) THEN s[i + 1] ELSE NUL]

\* A command no key fell into starts the program that was typed, and the thread
\* finds the file user_spawn found. When keys did fall into it the record still
\* holds a terminated path, but for one of the greatest length: the terminator is
\* copied from the line, where a key may have just overwritten it.
SpawnsTyped ==
    [][process.state = "free" /\ process'.state = "created" =>
          /\ ~disturbed =>
                /\ process'.path = AsPath(meant)
                /\ initramfs_find(archive, process'.path, NUL) = file
          /\ (\A i \in PathIndices : process'.path[i] # NUL) =>
                disturbed /\ path_len = EMXA_PATH_SIZE - 1]_spawnVars
=============================================================================

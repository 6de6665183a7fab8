------------------------------- MODULE KShell -------------------------------
(***************************************************************************)
(* The kernel shell's line buffer (kernel/kshell.c), which the keyboard     *)
(* interrupt fills and kmain's loop executes and resets, with no lock.      *)
(*                                                                         *)
(* The interrupt gate makes kshell_on_char one step. It may come between    *)
(* any two accesses of the loop; the reads of one string function, and of   *)
(* the search among the names, are taken together. A command is whatever its function does; from here   *)
(* it only takes time.                                                      *)
(***************************************************************************)
EXTENDS Integers, Sequences

CONSTANTS
    BUFFER_SIZE,     \* sizeof(buffer)
    Letters,         \* printable characters other than the space
    Commands         \* the names in commands[], as sequences of letters

SPACE == "space"
NEWLINE == "newline"
BACKSPACE == "backspace"
NUL == "nul"
NONE == <<>>         \* no command: not the name of one

Printable == Letters \cup {SPACE}
Keys == Printable \cup {NEWLINE, BACKSPACE}

ASSUME KShellAssumption ==
    /\ BUFFER_SIZE \in Nat \ {0}
    /\ Letters \cap {SPACE, NEWLINE, BACKSPACE, NUL} = {}
    /\ Commands \subseteq Seq(Letters) \ {NONE}

VARIABLES
    buffer, length, command_ready, active,
    at,               \* where kmain's loop is
    cursor,           \* memset's position, and then input_cmd_len
    command,          \* the command that runs, or NONE
    typed,            \* the line as typed since length was last reset
    disturbed         \* a key changed the line after its newline

kshellVars == <<buffer, length, command_ready, active, at, cursor, command, typed, disturbed>>

Indices == 0 .. BUFFER_SIZE - 1

\* memset, then two stores the compiler may order either way, then active.
Points == {"memset", "reset", "reset_length", "reset_ready", "prompt",
           "idle", "halted", "poll", "exec", "word", "search", "run"}

\* kmain has called kshell_init for the first time.
KShellInit ==
    /\ buffer = [i \in Indices |-> NUL]
    /\ length = 0
    /\ command_ready = FALSE
    /\ active = FALSE
    /\ at = "memset"
    /\ cursor = 0
    /\ command = NONE
    /\ typed = <<>>
    /\ disturbed = FALSE

-----------------------------------------------------------------------------
(* The keyboard interrupt, while no user process has the keyboard *)

\* Mutant: no terminator is written.
Typed_Unterminated(c) == [buffer EXCEPT ![length] = c]

\* The buffer after a character that fits.
Typed(c) == [buffer EXCEPT ![length] = c, ![length + 1] = NUL]

Room == length < BUFFER_SIZE - 1

NewLine ==
    /\ command_ready' = TRUE
    /\ UNCHANGED <<buffer, length, typed, disturbed>>

Backspace ==
    /\ length > 0
    /\ length' = length - 1
    /\ buffer' = [buffer EXCEPT ![length - 1] = NUL]
    /\ typed' = IF typed = <<>> THEN typed ELSE SubSeq(typed, 1, Len(typed) - 1)
    /\ disturbed' = command_ready
    /\ UNCHANGED command_ready

Character(c) ==
    /\ Room
    /\ buffer' = Typed(c)
    /\ length' = length + 1
    /\ typed' = Append(typed, c)
    /\ disturbed' = command_ready
    /\ UNCHANGED command_ready

kshell_on_char(c) ==
    /\ active
    /\ \/ c = NEWLINE /\ NewLine
       \/ c = BACKSPACE /\ Backspace
       \/ c \in Printable /\ Character(c)

\* Any interrupt ends a hlt.
Woken == at' = IF at = "halted" THEN "poll" ELSE at

KeyIrq ==
    /\ \E c \in Keys : kshell_on_char(c)
    /\ Woken
    /\ UNCHANGED <<active, cursor, command>>

\* Mutant: the timer's interrupt line stays masked.
TimerIrq_Masked == FALSE /\ UNCHANGED kshellVars

\* Only what it does to the loop: the tick counter is not part of this module.
TimerIrq ==
    /\ at = "halted" /\ Woken
    /\ UNCHANGED <<buffer, length, command_ready, active, cursor, command, typed, disturbed>>

-----------------------------------------------------------------------------
(* kshell_init *)

Memset ==
    /\ at = "memset"
    /\ buffer' = [buffer EXCEPT ![cursor] = NUL]
    /\ cursor' = (cursor + 1) % BUFFER_SIZE
    /\ at' = IF cursor + 1 < BUFFER_SIZE THEN "memset" ELSE "reset"
    /\ UNCHANGED <<length, command_ready, active, command, typed, disturbed>>

\* Mutant: the buffer is cleared and its length is not.
ResetLength_Keep ==
    /\ at \in {"reset", "reset_length"}
    /\ typed' = <<>>
    /\ at' = IF at = "reset" THEN "reset_ready" ELSE "prompt"
    /\ UNCHANGED <<buffer, length, command_ready, active, cursor, command, disturbed>>

ResetLength ==
    /\ at \in {"reset", "reset_length"}
    /\ length' = 0
    /\ typed' = <<>>
    /\ at' = IF at = "reset" THEN "reset_ready" ELSE "prompt"
    /\ UNCHANGED <<buffer, command_ready, active, cursor, command, disturbed>>

ResetReady ==
    /\ at \in {"reset", "reset_ready"}
    /\ command_ready' = FALSE
    /\ disturbed' = FALSE
    /\ at' = IF at = "reset" THEN "reset_length" ELSE "prompt"
    /\ UNCHANGED <<buffer, length, active, cursor, command, typed>>

Prompt ==
    /\ at = "prompt"
    /\ active' = TRUE
    /\ at' = "idle"
    /\ UNCHANGED <<buffer, length, command_ready, cursor, command, typed, disturbed>>

-----------------------------------------------------------------------------
(* kmain's loop: arch_idle, then kshell_poll *)

arch_idle ==
    /\ at = "idle"
    /\ at' = "halted"
    /\ UNCHANGED <<buffer, length, command_ready, active, cursor, command, typed, disturbed>>

kshell_poll ==
    /\ at = "poll"
    /\ at' = IF command_ready THEN "exec" ELSE "idle"
    /\ UNCHANGED <<buffer, length, command_ready, active, cursor, command, typed, disturbed>>

\* kshell_exec's test of strlen: an empty buffer is no command.
kshell_exec ==
    /\ at = "exec"
    /\ at' = IF buffer[0] = NUL THEN "memset" ELSE "word"
    /\ cursor' = 0
    /\ UNCHANGED <<buffer, length, command_ready, active, command, typed, disturbed>>

\* One turn of its loop over the characters before the first space.
MeasureWord ==
    /\ at = "word"
    /\ \/ cursor < length /\ buffer[cursor] # SPACE /\ cursor' = cursor + 1 /\ at' = at
       \/ (cursor >= length \/ buffer[cursor] = SPACE) /\ at' = "search" /\ cursor' = cursor
    /\ UNCHANGED <<buffer, length, command_ready, active, command, typed, disturbed>>

\* Mutant: the lengths are not compared.
Names_Prefix(name) == \A i \in 1 .. Len(name) : buffer[i - 1] = name[i]

Names(name) ==
    Len(name) = cursor /\ \A i \in 1 .. Len(name) : buffer[i - 1] = name[i]

\* "Unknown command", or the function of the command found. The comparisons with
\* the names are taken together.
Search ==
    /\ at = "search"
    /\ cursor' = 0
    /\ \/ \E name \in Commands : Names(name) /\ command' = name /\ at' = "run"
       \/ (\A name \in Commands : ~Names(name)) /\ at' = "memset" /\ UNCHANGED command
    /\ UNCHANGED <<buffer, length, command_ready, active, typed, disturbed>>

CommandReturns ==
    /\ at = "run"
    /\ command' = NONE
    /\ at' = "memset"
    /\ UNCHANGED <<buffer, length, command_ready, active, cursor, typed, disturbed>>

-----------------------------------------------------------------------------
Loop ==
    \/ Memset \/ ResetLength \/ ResetReady \/ Prompt
    \/ arch_idle \/ kshell_poll \/ kshell_exec \/ MeasureWord \/ Search

KShellNext == Loop \/ CommandReturns \/ KeyIrq \/ TimerIrq

\* The loop goes on, though a command may never return, and the timer ticks.
KShellSpec ==
    /\ KShellInit /\ [][KShellNext]_kshellVars
    /\ WF_kshellVars(Loop) /\ WF_kshellVars(TimerIrq)

-----------------------------------------------------------------------------
\* Type invariant: the line and its length stay inside the buffer.
KShellTypeOK ==
    /\ buffer \in [Indices -> Printable \cup {NUL}]
    /\ length \in Indices
    /\ {command_ready, active, disturbed} \subseteq BOOLEAN
    /\ at \in Points
    /\ cursor \in Indices
    /\ command \in Commands \cup {NONE}
    /\ typed \in Seq(Printable)

\* However keys fall between the steps of kshell_init, a line that has any
\* characters ends with a NUL inside the buffer: kshell_exec's and
\* cmd_userspawn's string functions stay in it and see no stale tail.
LineTerminated ==
    /\ buffer[BUFFER_SIZE - 1] = NUL
    /\ length > 0 => buffer[length] = NUL

\* Outside kshell_init's reset the buffer holds the characters typed since the
\* last one, none lost, doubled or left over from an earlier line.
LineAsTyped ==
    at \notin {"memset", "reset", "reset_length"} =>
       /\ Len(typed) = length
       /\ \A i \in 1 .. length : typed[i] = buffer[i - 1]

FirstWord(s) ==
    LET ends == {i \in 0 .. Len(s) : i = Len(s) \/ s[i + 1] = SPACE}
    IN  SubSeq(s, 1, CHOOSE i \in ends : \A j \in ends : i <= j)

\* A line that no key changed after its newline runs the command it names.
RunsTypedCommand == at = "run" /\ ~disturbed => FirstWord(typed) = command

\* A newline typed at the prompt is acted upon, also one that arrives after
\* kshell_poll looked and before the hlt.
NewlineActedUpon ==
    (command_ready /\ at \in {"idle", "halted", "poll"}) ~> at = "exec"
=============================================================================

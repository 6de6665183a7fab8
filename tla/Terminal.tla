------------------------------ MODULE Terminal -------------------------------
(***************************************************************************)
(* arch/i386/tty.c: the text screen, written to by the running task (printk *)
(* and the clear command) and, between any two of its memory accesses, by   *)
(* the keyboard interrupt, which echoes what is typed at the kernel shell.  *)
(*                                                                         *)
(* The task's calls are stepped access by access; a handler runs to its end *)
(* and is one step. Nothing here is volatile: where the source reads        *)
(* terminal_row a second time the program may use the value it read first.  *)
(* A character is the writer it comes from; colours are left out.           *)
(***************************************************************************)
EXTENDS Integers

CONSTANTS
    VGA_WIDTH, VGA_HEIGHT,
    BYTE,       \* values of a byte of the cursor's address
    MaxChars,   \* bound: positions used since the screen was cleared
    MaxKeys     \* bound: keys typed

ASSUME TerminalAssumption ==
    /\ {VGA_WIDTH, VGA_HEIGHT, BYTE} \subseteq Nat \ {0}
    /\ {MaxChars, MaxKeys} \subseteq Nat

VARIABLES
    tty,        \* [row, column, buffer, index, cursor], the controller's index and cursor
    pc,         \* where in a call the task is; "rest" outside
    c,          \* the character it prints
    reg,        \* [row, column, i, pos, updates]: registers of the call
    length,     \* of the shell's line, kshell.c
    disturbed,  \* a key was echoed inside the call, or the last one that moved the cursor
    paper,      \* what an endless roll would show: [cells, at, top], or torn
    keys        \* keys typed so far

terminalVars == <<tty, pc, c, reg, length, disturbed, paper, keys>>

Screen == VGA_WIDTH * VGA_HEIGHT

\* Text memory goes on behind the screen.
Memory == 0 .. (VGA_HEIGHT + MaxKeys + 2) * VGA_WIDTH - 1

Blank == " "
LF == "newline"
BS == "backspace"

Pos(t) == t.row * VGA_WIDTH + t.column

BlankBuffer == [i \in Memory |-> Blank]
NewPaper == [cells |-> [i \in 0 .. MaxChars + VGA_WIDTH |-> Blank], at |-> 0, top |-> 0]
Torn == [NewPaper EXCEPT !.top = -1]
NoReg == [row |-> 0, column |-> 0, i |-> 0, pos |-> 0, updates |-> 0]

\* terminal_init has run, before interrupts were enabled.
TerminalInit ==
    /\ tty = [row |-> 0, column |-> 0, buffer |-> BlankBuffer,
              index |-> 14, cursor |-> [b \in {14, 15} |-> 0]]
    /\ pc = "rest" /\ c = Blank /\ reg = NoReg
    /\ length = 0 /\ disturbed = FALSE /\ paper = NewPaper /\ keys = 0

-----------------------------------------------------------------------------
(* The functions of tty.c, run without interruption *)

\* Registers 15 and 14 of the controller hold the cursor's address.
terminal_update_cursor(t) ==
    [t EXCEPT !.index = 14, !.cursor = [b \in {14, 15} |->
                                         IF b = 15 THEN Pos(t) % BYTE ELSE Pos(t) \div BYTE]]

terminal_putentryat(t, ch, x, y) == [t EXCEPT !.buffer[y * VGA_WIDTH + x] = ch]

\* Mutant: the last row is left as it was.
ScrolledCell_Keep(buffer, i) ==
    IF i < Screen - VGA_WIDTH THEN buffer[i + VGA_WIDTH] ELSE buffer[i]

\* What the loops of terminal_scroll_up put into cell i.
ScrolledCell(buffer, i) ==
    IF i < Screen - VGA_WIDTH THEN buffer[i + VGA_WIDTH] ELSE Blank

\* Mutant: the row stays past the last one.
ScrolledRow_Past == VGA_HEIGHT

ScrolledRow == VGA_HEIGHT - 1

terminal_scroll_up(t) ==
    terminal_update_cursor(
       [t EXCEPT !.buffer = [i \in Memory |-> IF i < Screen THEN ScrolledCell(@, i) ELSE @[i]],
                 !.row = ScrolledRow, !.column = 0])

\* The row grew by one.
NextRow(t) ==
    LET down == [t EXCEPT !.column = 0, !.row = @ + 1]
    IN  terminal_update_cursor(IF down.row = VGA_HEIGHT THEN terminal_scroll_up(down) ELSE down)

\* Mutant: the cursor is not moved.
terminal_backspace_NoCursor(t) ==
    LET back == IF t.column # 0 THEN [t EXCEPT !.column = @ - 1]
                ELSE [t EXCEPT !.column = VGA_WIDTH - 1, !.row = @ - 1]
    IN  IF t.column = 0 /\ t.row = 0 THEN t
        ELSE terminal_putentryat(back, Blank, back.column, back.row)

terminal_backspace(t) ==
    LET back == IF t.column # 0 THEN [t EXCEPT !.column = @ - 1]
                ELSE [t EXCEPT !.column = VGA_WIDTH - 1, !.row = @ - 1]
    IN  IF t.column = 0 /\ t.row = 0 THEN t
        ELSE terminal_update_cursor(terminal_putentryat(back, Blank, back.column, back.row))

terminal_putchar(t, ch) ==
    LET put == [terminal_putentryat(t, ch, t.column, t.row) EXCEPT !.column = @ + 1]
    IN  IF ch = BS THEN terminal_backspace(t)
        ELSE IF ch = LF THEN NextRow(t)
        ELSE IF put.column = VGA_WIDTH THEN NextRow(put)
        ELSE terminal_update_cursor(put)

-----------------------------------------------------------------------------
(* Reference: a roll of paper that never scrolls, and the rows in view *)

\* The roll after ch, with the view moved down when the writer leaves it.
Rolled(p, ch) ==
    LET at  == IF ch = LF THEN (p.at \div VGA_WIDTH + 1) * VGA_WIDTH
               ELSE IF ch # BS THEN p.at + 1
               ELSE IF p.at > p.top * VGA_WIDTH THEN p.at - 1 ELSE p.at
        row == at \div VGA_WIDTH
    IN  [at    |-> at,
         cells |-> IF ch = LF \/ (ch = BS /\ at = p.at) THEN p.cells
                   ELSE IF ch = BS THEN [p.cells EXCEPT ![at] = Blank]
                   ELSE [p.cells EXCEPT ![p.at] = ch],
         top   |-> IF row >= p.top + VGA_HEIGHT THEN row - VGA_HEIGHT + 1 ELSE p.top]

Roll(ch) == IF paper = Torn THEN Torn ELSE Rolled(paper, ch)

HasRoom == paper.at + VGA_WIDTH <= MaxChars

-----------------------------------------------------------------------------
(* The keyboard interrupt *)

\* A backspace at the beginning of the screen: terminal_backspace returns at once.
Ignored(ch) == ch = BS /\ tty.row = 0 /\ tty.column = 0

\* kshell_on_char echoes what it keeps of the key: a backspace only when the
\* line is not empty.
Echo ==
    /\ keys < MaxKeys /\ HasRoom
    /\ \E ch \in {"k", LF, BS} :
          /\ ch = BS => length > 0
          /\ length' = IF ch = LF THEN length ELSE IF ch = BS THEN length - 1 ELSE length + 1
          /\ tty' = terminal_putchar(tty, ch)
          /\ paper' = IF pc = "rest" THEN Roll(ch) ELSE Torn
          /\ disturbed' = (pc # "rest" \/ (disturbed /\ Ignored(ch)))
    /\ keys' = keys + 1
    /\ UNCHANGED <<pc, c, reg>>

-----------------------------------------------------------------------------
(* The running task *)

Goto(p) == pc' = p /\ UNCHANGED <<c, length, disturbed, paper, keys>>

\* A character a program writes. While a process runs, keys go to its buffer and
\* nothing is echoed, so the interrupt does not disturb it.
sys_write ==
    /\ pc = "rest" /\ HasRoom
    /\ \E ch \in {"t", LF, BS} :
          /\ tty' = terminal_putchar(tty, ch)
          /\ paper' = Roll(ch)
          /\ disturbed' = (disturbed /\ Ignored(ch))
    /\ UNCHANGED <<pc, c, reg, length, keys>>

\* A character of the kernel's own printk, which has no backspace, or the clear
\* command. The shell may have begun a new line.
Call ==
    /\ pc = "rest"
    /\ \/ HasRoom /\ pc' = "load" /\ c' \in {"t", LF}
       \/ pc' = "row0" /\ c' = Blank
    /\ length' \in {length, 0}
    /\ disturbed' = FALSE
    /\ UNCHANGED <<tty, reg, paper, keys>>

Load ==
    /\ pc = "load"
    /\ reg' = [reg EXCEPT !.row = tty.row, !.column = tty.column]
    /\ Goto(IF c = LF THEN "zero" ELSE "cell") /\ UNCHANGED tty

Cell ==
    /\ pc = "cell"
    /\ tty' = terminal_putentryat(tty, c, reg.column, reg.row)
    /\ Goto("column") /\ UNCHANGED reg

\* ++terminal_column, of the value read before or a new one; the sum is what is
\* compared.
Column ==
    /\ pc = "column"
    /\ \E x \in {reg.column, tty.column} :
          /\ tty' = [tty EXCEPT !.column = x + 1]
          /\ Goto(IF x + 1 = VGA_WIDTH THEN "zero" ELSE "cursor")
    /\ reg' = [reg EXCEPT !.updates = 1]

ZeroColumn ==
    /\ pc = "zero"
    /\ tty' = [tty EXCEPT !.column = 0]
    /\ Goto("row") /\ UNCHANGED reg

Row ==
    /\ pc = "row"
    /\ \E x \in {reg.row, tty.row} :
          /\ tty' = [tty EXCEPT !.row = x + 1]
          /\ IF x + 1 = VGA_HEIGHT
             THEN Goto("scroll") /\ reg' = [reg EXCEPT !.i = 0, !.updates = 2]
             ELSE Goto("cursor") /\ reg' = [reg EXCEPT !.updates = 1]

\* One turn of terminal_scroll_up's loops.
Scroll ==
    /\ pc = "scroll" /\ reg.i < Screen
    /\ tty' = [tty EXCEPT !.buffer[reg.i] = ScrolledCell(tty.buffer, reg.i)]
    /\ reg' = [reg EXCEPT !.i = @ + 1]
    /\ Goto("scroll")

ScrollRow ==
    /\ pc = "scroll" /\ reg.i = Screen
    /\ tty' = [tty EXCEPT !.row = ScrolledRow]
    /\ Goto("scrolled") /\ UNCHANGED reg

ScrollColumn ==
    /\ pc = "scrolled"
    /\ tty' = [tty EXCEPT !.column = 0]
    /\ Goto("cursor") /\ UNCHANGED reg

\* terminal_init: the position, the cells one by one, the cursor.
InitRow ==
    /\ pc = "row0"
    /\ tty' = [tty EXCEPT !.row = 0]
    /\ Goto("column0") /\ UNCHANGED reg

InitColumn ==
    /\ pc = "column0"
    /\ tty' = [tty EXCEPT !.column = 0]
    /\ reg' = [reg EXCEPT !.i = 0, !.updates = 1]
    /\ Goto("clear")

Clear ==
    /\ pc = "clear"
    /\ tty' = [tty EXCEPT !.buffer[reg.i] = Blank]
    /\ reg' = [reg EXCEPT !.i = @ + 1]
    /\ Goto(IF reg.i + 1 = Screen THEN "cursor" ELSE "clear")

\* terminal_update_cursor: an index and a byte, twice. The byte goes to the
\* register the index names by then.
Cursor ==
    \/ /\ pc = "cursor"
       /\ reg' = [reg EXCEPT !.pos = Pos(tty)]
       /\ tty' = [tty EXCEPT !.index = 15]
       /\ Goto("low")
    \/ /\ pc = "low"
       /\ tty' = [tty EXCEPT !.cursor[tty.index] = reg.pos % BYTE]
       /\ Goto("index") /\ UNCHANGED reg
    \/ /\ pc = "index"
       /\ tty' = [tty EXCEPT !.index = 14]
       /\ Goto("high") /\ UNCHANGED reg

\* The last access: after a scroll the cursor is set once more, else the call
\* returns.
High ==
    /\ pc = "high"
    /\ tty' = [tty EXCEPT !.cursor[tty.index] = reg.pos \div BYTE]
    /\ IF reg.updates = 2
       THEN /\ reg' = [reg EXCEPT !.updates = 1]
            /\ Goto("cursor")
       ELSE /\ pc' = "rest" /\ reg' = NoReg
            /\ paper' = IF disturbed THEN Torn ELSE IF c = Blank THEN NewPaper ELSE Roll(c)
            /\ UNCHANGED <<c, length, disturbed, keys>>

Step ==
    \/ sys_write \/ Call \/ Load \/ Cell \/ Column \/ ZeroColumn \/ Row \/ Scroll \/ ScrollRow
    \/ ScrollColumn \/ InitRow \/ InitColumn \/ Clear \/ Cursor \/ High

TerminalNext == Echo \/ Step

TerminalSpec == TerminalInit /\ [][TerminalNext]_terminalVars

-----------------------------------------------------------------------------
\* Whatever is echoed while a task is in the middle of a character, a scroll or
\* a clear, the position is on the screen again when the call returns: later
\* output is never written behind it.
CursorRests == pc = "rest" => tty.row < VGA_HEIGHT /\ tty.column < VGA_WIDTH

\* After a call that moved it and that no key fell into, also when the one before
\* it left the controller's index on the wrong register, the blinking cursor is
\* where the next character will be.
CursorShown ==
    pc = "rest" /\ ~disturbed => tty.cursor[14] * BYTE + tty.cursor[15] = Pos(tty)

\* While no key fell into a call since the screen was last cleared, the screen
\* shows the last rows of everything printed and echoed, wrapped at its width.
ScreenShowsText ==
    pc = "rest" /\ paper # Torn =>
       /\ Pos(tty) = paper.at - paper.top * VGA_WIDTH
       /\ \A i \in 0 .. Screen - 1 :
             LET k == paper.top * VGA_WIDTH + i
             IN  tty.buffer[i] = IF k \in DOMAIN paper.cells THEN paper.cells[k] ELSE Blank
=============================================================================

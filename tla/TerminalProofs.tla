--------------------------- MODULE TerminalProofs ----------------------------
(***************************************************************************)
(* The position on the text screen, its cursor and its text, for every size *)
(* of it and however many keys are echoed into a call.                     *)
(***************************************************************************)
EXTENDS Terminal, TLAPS

Characters == {Blank, LF, BS, "t", "k"}

Buffers == [Memory -> Characters]
Indexes == {14, 15}
Cursors == [Indexes -> Nat]

Tty == [row : Nat, column : Nat, buffer : Buffers, index : Indexes, cursor : Cursors]

Registers == [row : Nat, column : Nat, i : Nat, pos : Nat, updates : {0, 1, 2}]

TerminalTypeOK == tty \in Tty /\ reg \in Registers /\ c \in Characters

\* A position a function of tty.c may find, and then leaves on the screen.
RowOn(t) == t.row < VGA_HEIGHT
ColumnOn(t) == t.column < VGA_WIDTH

\* Off the screen only between the two accesses that leave and re-enter it: the
\* row until the scroll is done, the column until it is zeroed. What the call
\* read before was on the screen.
TerminalInv ==
    /\ TerminalTypeOK
    /\ pc # "scroll" => RowOn(tty)
    /\ pc # "zero" => ColumnOn(tty)
    /\ pc \in {"cell", "column", "zero", "row"} =>
          reg.row < VGA_HEIGHT /\ reg.column < VGA_WIDTH

-----------------------------------------------------------------------------
(* The functions of tty.c *)

\* The screen has at least one row and one column.
LEMMA ScreenSize == /\ VGA_WIDTH \in Nat /\ VGA_HEIGHT \in Nat /\ BYTE \in Nat /\ MaxKeys \in Nat
                    /\ VGA_WIDTH > 0 /\ VGA_HEIGHT > 0 /\ BYTE > 0
BY TerminalAssumption

\* Positions are naturals.
LEMMA PositionNat == ASSUME NEW t \in Tty PROVE t.row \in Nat /\ t.column \in Nat
BY DEF Tty

\* A position is an address.
LEMMA PosNat == ASSUME NEW t \in Tty PROVE Pos(t) \in Nat
<1>1. t.row \in Nat /\ t.column \in Nat
    BY PositionNat
<1>2. \A x, y, z \in Nat : x * y + z \in Nat
    OBVIOUS
<1> QED BY <1>1, <1>2, ScreenSize DEF Pos

\* So are the two bytes of it that the controller is given.
LEMMA BytesNat == ASSUME NEW p \in Nat PROVE p % BYTE \in Nat /\ p \div BYTE \in Nat
BY ScreenSize

\* Text memory is addressed by naturals.
LEMMA MemoryNat == Memory \subseteq Nat
BY DEF Memory

\* The screen is part of the text memory.
LEMMA ScreenInMemory == \A i \in Nat : i < Screen - VGA_WIDTH => i + VGA_WIDTH \in Memory
<1>1. \A w, h, k \in Nat : w * h \in Nat /\ w * h <= (h + k + 2) * w
    OBVIOUS
<1>2. Screen <= (VGA_HEIGHT + MaxKeys + 2) * VGA_WIDTH
    BY <1>1, ScreenSize DEF Screen
<1>3. Screen \in Nat /\ (VGA_HEIGHT + MaxKeys + 2) * VGA_WIDTH \in Nat
    BY ScreenSize DEF Screen
<1> QED BY <1>2, <1>3, ScreenSize DEF Memory

\* terminal_update_cursor leaves the position alone.
LEMMA UpdateCursor ==
    ASSUME NEW t \in Tty
    PROVE  LET u == terminal_update_cursor(t)
           IN  u \in Tty /\ u.row = t.row /\ u.column = t.column
<1> DEFINE k == [b \in {14, 15} |-> IF b = 15 THEN Pos(t) % BYTE ELSE Pos(t) \div BYTE]
<1>1. k \in Cursors /\ 14 \in Indexes
    BY PosNat, BytesNat DEF Cursors, Indexes
<1>2. terminal_update_cursor(t) = [t EXCEPT !.index = 14, !.cursor = k]
    BY DEF terminal_update_cursor
<1> HIDE DEF k
<1> QED BY <1>1, <1>2 DEF Tty

\* terminal_putentryat leaves the position alone.
LEMMA PutEntry ==
    ASSUME NEW t \in Tty, NEW ch \in Characters, NEW x, NEW y
    PROVE  LET u == terminal_putentryat(t, ch, x, y)
           IN  u \in Tty /\ u.row = t.row /\ u.column = t.column
BY DEF Tty, Buffers, terminal_putentryat

\* terminal_scroll_up ends on the last row.
LEMMA ScrollUp ==
    ASSUME NEW t \in Tty
    PROVE  LET u == terminal_scroll_up(t)
           IN  u \in Tty /\ u.row = VGA_HEIGHT - 1 /\ u.column = 0
<1> DEFINE text == [i \in Memory |-> IF i < Screen THEN ScrolledCell(t.buffer, i) ELSE t.buffer[i]]
           s == [t EXCEPT !.buffer = text, !.row = ScrolledRow, !.column = 0]
<1>0. text \in Buffers
    BY ScreenInMemory, MemoryNat DEF Tty, Buffers, ScrolledCell, Characters
<1>2. terminal_scroll_up(t) = terminal_update_cursor(s)
    BY DEF terminal_scroll_up
<1> HIDE DEF text
<1>1. s \in Tty /\ s.row = VGA_HEIGHT - 1 /\ s.column = 0
  <2>1. VGA_HEIGHT - 1 \in Nat
    BY ScreenSize
  <2> QED BY <1>0, <2>1 DEF Tty, ScrolledRow
<1> HIDE DEF s
<1> QED BY <1>1, <1>2, UpdateCursor

\* A new line is on the screen, from a row that is.
LEMMA NextRowOn ==
    ASSUME NEW t \in Tty
    PROVE  NextRow(t) \in Tty /\ NextRow(t).column = 0 /\ (RowOn(t) => RowOn(NextRow(t)))
<1> DEFINE down == [t EXCEPT !.column = 0, !.row = @ + 1]
<1>1. down \in Tty /\ down.row = t.row + 1 /\ down.column = 0
  <2>1. down = [t EXCEPT !.column = 0, !.row = t.row + 1]
    BY DEF Tty
  <2>2. t.row + 1 \in Nat
    BY PositionNat
  <2> HIDE DEF down
  <2> QED BY <2>1, <2>2 DEF Tty
<1>2. NextRow(t) = terminal_update_cursor(IF down.row = VGA_HEIGHT THEN terminal_scroll_up(down) ELSE down)
    BY DEF NextRow
<1> HIDE DEF down
<1>3. CASE down.row = VGA_HEIGHT
  <2>1. /\ terminal_scroll_up(down) \in Tty /\ terminal_scroll_up(down).column = 0
        /\ terminal_scroll_up(down).row = VGA_HEIGHT - 1
    BY <1>1, ScrollUp
  <2> QED BY <1>2, <1>3, <2>1, UpdateCursor, ScreenSize DEF RowOn
<1>4. CASE down.row # VGA_HEIGHT
    BY <1>1, <1>2, <1>4, UpdateCursor, ScreenSize DEF RowOn, Tty
<1> QED BY <1>3, <1>4

\* A backspace never leaves the screen, and stays put at its beginning.
LEMMA BackspaceOn ==
    ASSUME NEW t \in Tty
    PROVE  LET u == terminal_backspace(t)
           IN  u \in Tty /\ (RowOn(t) => RowOn(u)) /\ (ColumnOn(t) => ColumnOn(u))
<1> DEFINE back == IF t.column # 0 THEN [t EXCEPT !.column = @ - 1]
                   ELSE [t EXCEPT !.column = VGA_WIDTH - 1, !.row = @ - 1]
           put == terminal_putentryat(back, Blank, back.column, back.row)
<1>1. CASE t.column = 0 /\ t.row = 0
    BY <1>1 DEF terminal_backspace
<1>2. CASE ~(t.column = 0 /\ t.row = 0)
  <2>1. back \in Tty /\ (RowOn(t) => RowOn(back)) /\ (ColumnOn(t) => ColumnOn(back))
    <3>1. CASE t.column # 0
      <4>1. back = [t EXCEPT !.column = t.column - 1]
        BY <3>1 DEF Tty
      <4>2. t.column - 1 \in Nat /\ t.column \in Nat
        BY <3>1, PositionNat
      <4> HIDE DEF back
      <4> QED BY <4>1, <4>2, ScreenSize DEF RowOn, ColumnOn, Tty
    <3>2. CASE t.column = 0
      <4>1. back = [t EXCEPT !.column = VGA_WIDTH - 1, !.row = t.row - 1]
        BY <3>2 DEF Tty
      <4>2. VGA_WIDTH - 1 \in Nat /\ t.row - 1 \in Nat
        BY <1>2, <3>2, PositionNat, ScreenSize
      <4> HIDE DEF back
      <4>3. back \in Tty /\ back.row = t.row - 1 /\ back.column = VGA_WIDTH - 1
        BY <4>1, <4>2 DEF Tty
      <4> QED BY <4>2, <4>3, PositionNat, ScreenSize DEF RowOn, ColumnOn
    <3> QED BY <3>1, <3>2
  <2>2. terminal_backspace(t) = terminal_update_cursor(put)
    BY <1>2 DEF terminal_backspace
  <2> HIDE DEF back
  <2>3. put \in Tty /\ put.row = back.row /\ put.column = back.column
    BY <2>1, PutEntry DEF Characters
  <2> HIDE DEF put
  <2> QED BY <2>1, <2>2, <2>3, UpdateCursor DEF RowOn, ColumnOn
<1> QED BY <1>1, <1>2

\* terminal_putchar keeps a row and a column that are on the screen there, each
\* by itself: the other may be off it when a key is echoed into a call.
LEMMA PutCharOn ==
    ASSUME NEW t \in Tty, NEW ch \in Characters
    PROVE  LET u == terminal_putchar(t, ch)
           IN  u \in Tty /\ (RowOn(t) => RowOn(u)) /\ (ColumnOn(t) => ColumnOn(u))
<1> DEFINE e == terminal_putentryat(t, ch, t.column, t.row)
           put == [e EXCEPT !.column = @ + 1]
<1>1. e \in Tty /\ e.row = t.row /\ e.column = t.column
    BY PutEntry
<1>2. terminal_putchar(t, ch) =
         IF ch = BS THEN terminal_backspace(t)
         ELSE IF ch = LF THEN NextRow(t)
         ELSE IF put.column = VGA_WIDTH THEN NextRow(put)
         ELSE terminal_update_cursor(put)
    BY DEF terminal_putchar
<1> HIDE DEF e
<1>3. put \in Tty /\ put.row = t.row /\ put.column = t.column + 1
    BY <1>1 DEF Tty
<1> HIDE DEF put
<1>4. CASE ch = BS
    BY <1>2, <1>4, BackspaceOn
<1>5. CASE ch # BS /\ ch = LF
    BY <1>2, <1>5, NextRowOn, ScreenSize DEF ColumnOn
<1>6. CASE ch # BS /\ ch # LF /\ put.column = VGA_WIDTH
    BY <1>2, <1>3, <1>6, NextRowOn, ScreenSize DEF ColumnOn, RowOn
<1>7. CASE ch # BS /\ ch # LF /\ put.column # VGA_WIDTH
    BY <1>2, <1>3, <1>7, UpdateCursor, ScreenSize DEF ColumnOn, RowOn, Tty
<1> QED BY <1>4, <1>5, <1>6, <1>7

-----------------------------------------------------------------------------
(* The invariant *)

\* terminal_init leaves the position at the screen's beginning.
LEMMA InitInv == TerminalInit => TerminalInv
<1> SUFFICES ASSUME TerminalInit PROVE TerminalInv
    OBVIOUS
<1>1. BlankBuffer \in Buffers /\ Blank \in Characters
    BY DEF BlankBuffer, Buffers, Characters
<1>2. 14 \in Indexes /\ [b \in {14, 15} |-> 0] \in Cursors
    BY DEF Indexes, Cursors
<1>3. tty \in Tty /\ tty.row = 0 /\ tty.column = 0
    BY <1>1, <1>2 DEF TerminalInit, Tty
<1>4. reg \in Registers /\ pc = "rest" /\ c \in Characters
    BY <1>1 DEF TerminalInit, Registers, NoReg
<1> QED BY <1>3, <1>4, ScreenSize DEF TerminalInv, TerminalTypeOK, RowOn, ColumnOn

\* What a step must establish, field by field.
LEMMA PartsInv ==
    ASSUME tty' \in Tty, reg' \in Registers, c' \in Characters,
           pc' # "scroll" => tty'.row < VGA_HEIGHT,
           pc' # "zero" => tty'.column < VGA_WIDTH,
           pc' \in {"cell", "column", "zero", "row"} =>
              reg'.row < VGA_HEIGHT /\ reg'.column < VGA_WIDTH
    PROVE  TerminalInv'
BY DEF TerminalInv, TerminalTypeOK, RowOn, ColumnOn

\* A character printed at once, by an echo or by a program.
LEMMA PutCharInv ==
    ASSUME TerminalInv, NEW ch \in Characters, tty' = terminal_putchar(tty, ch),
           UNCHANGED <<pc, c, reg>>
    PROVE  TerminalInv'
<1>1. /\ tty' \in Tty
      /\ tty.row < VGA_HEIGHT => tty'.row < VGA_HEIGHT
      /\ tty.column < VGA_WIDTH => tty'.column < VGA_WIDTH
    BY PutCharOn DEF TerminalInv, TerminalTypeOK, RowOn, ColumnOn
<1> QED BY <1>1, PartsInv DEF TerminalInv, TerminalTypeOK, RowOn, ColumnOn

\* Every access of a call, and every key echoed between two, keeps it.
LEMMA StepInv == TerminalInv /\ [TerminalNext]_terminalVars => TerminalInv'
<1> SUFFICES ASSUME TerminalInv, [TerminalNext]_terminalVars PROVE TerminalInv'
    OBVIOUS
<1>0. /\ tty \in Tty /\ reg \in Registers /\ c \in Characters
      /\ tty.row \in Nat /\ tty.column \in Nat
      /\ reg.row \in Nat /\ reg.column \in Nat /\ reg.i \in Nat /\ reg.pos \in Nat
      /\ pc # "scroll" => tty.row < VGA_HEIGHT
      /\ pc # "zero" => tty.column < VGA_WIDTH
      /\ pc \in {"cell", "column", "zero", "row"} =>
            reg.row < VGA_HEIGHT /\ reg.column < VGA_WIDTH
    BY PositionNat DEF TerminalInv, TerminalTypeOK, RowOn, ColumnOn, Registers
<1>1. CASE Echo
  <2>1. PICK ch \in Characters : tty' = terminal_putchar(tty, ch)
    BY <1>1 DEF Echo, Characters
  <2> QED BY <1>1, <2>1, PutCharInv DEF Echo
<1>2. CASE sys_write
  <2>1. PICK ch \in Characters : tty' = terminal_putchar(tty, ch)
    BY <1>2 DEF sys_write, Characters
  <2> QED BY <1>2, <2>1, PutCharInv DEF sys_write
<1>3. CASE Call
    BY <1>0, <1>3, PartsInv DEF Call, Characters
<1>4. CASE Load
  <2>1. reg' \in Registers /\ reg'.row = tty.row /\ reg'.column = tty.column
    BY <1>0, <1>4 DEF Load, Registers
  <2> QED BY <1>0, <1>4, <2>1, PartsInv DEF Load, Goto
<1>5. CASE Cell
  <2>1. tty' \in Tty /\ tty'.row = tty.row /\ tty'.column = tty.column
    BY <1>0, <1>5, PutEntry DEF Cell
  <2> QED BY <1>0, <1>5, <2>1, PartsInv DEF Cell, Goto
<1>6. CASE Column
  <2>1. PICK x \in {reg.column, tty.column} :
           /\ tty' = [tty EXCEPT !.column = x + 1]
           /\ Goto(IF x + 1 = VGA_WIDTH THEN "zero" ELSE "cursor")
    BY <1>6 DEF Column
  <2>2. x \in Nat /\ x < VGA_WIDTH /\ x + 1 \in Nat
    BY <1>0, <1>6 DEF Column
  <2>3. tty' \in Tty /\ tty'.row = tty.row /\ tty'.column = x + 1
    BY <1>0, <2>1, <2>2 DEF Tty
  <2>4. reg' \in Registers /\ reg'.row = reg.row /\ reg'.column = reg.column
    BY <1>0, <1>6 DEF Column, Registers
  <2>5. c' \in Characters /\ pc' = (IF x + 1 = VGA_WIDTH THEN "zero" ELSE "cursor")
    BY <1>0, <2>1 DEF Goto
  <2> QED BY <1>0, <1>6, <2>2, <2>3, <2>4, <2>5, PartsInv, ScreenSize DEF Column
<1>7. CASE ZeroColumn
  <2>1. tty' \in Tty /\ tty'.row = tty.row /\ tty'.column = 0
    BY <1>0, <1>7 DEF ZeroColumn, Tty
  <2> QED BY <1>0, <1>7, <2>1, PartsInv, ScreenSize DEF ZeroColumn, Goto
<1>8. CASE Row
  <2>1. PICK x \in {reg.row, tty.row} :
           /\ tty' = [tty EXCEPT !.row = x + 1]
           /\ IF x + 1 = VGA_HEIGHT
              THEN Goto("scroll") /\ reg' = [reg EXCEPT !.i = 0, !.updates = 2]
              ELSE Goto("cursor") /\ reg' = [reg EXCEPT !.updates = 1]
    BY <1>8 DEF Row
  <2>2. x \in Nat /\ x < VGA_HEIGHT /\ x + 1 \in Nat
    BY <1>0, <1>8 DEF Row
  <2>3. tty' \in Tty /\ tty'.row = x + 1 /\ tty'.column = tty.column
    BY <1>0, <2>1, <2>2 DEF Tty
  <2>4. reg' \in Registers
    <3>1. CASE reg' = [reg EXCEPT !.i = 0, !.updates = 2]
      BY <1>0, <3>1 DEF Registers
    <3>2. CASE reg' = [reg EXCEPT !.updates = 1]
      BY <1>0, <3>2 DEF Registers
    <3> QED BY <2>1, <3>1, <3>2
  <2>5. c' \in Characters /\ pc' = (IF x + 1 = VGA_HEIGHT THEN "scroll" ELSE "cursor")
    BY <1>0, <2>1 DEF Goto
  <2> QED BY <1>0, <1>8, <2>2, <2>3, <2>4, <2>5, PartsInv, ScreenSize DEF Row
<1>9. CASE Scroll
  <2>1. ScrolledCell(tty.buffer, reg.i) \in Characters
    <3>1. reg.i < Screen - VGA_WIDTH => reg.i + VGA_WIDTH \in Memory
      BY <1>0, ScreenInMemory
    <3> QED BY <1>0, <3>1 DEF ScrolledCell, Tty, Buffers, Characters
  <2>2. tty' \in Tty /\ tty'.row = tty.row /\ tty'.column = tty.column
    BY <1>0, <1>9, <2>1 DEF Scroll, Indexes, Tty, Buffers, Cursors
  <2>3. reg' = [reg EXCEPT !.i = reg.i + 1] /\ reg.i + 1 \in Nat
    BY <1>0, <1>9 DEF Scroll
  <2>4. reg' \in Registers
    BY <1>0, <2>3 DEF Registers
  <2> QED BY <1>0, <1>9, <2>2, <2>4, PartsInv DEF Scroll, Goto
<1>10. CASE ScrollRow
  <2>1. tty' \in Tty /\ tty'.row = VGA_HEIGHT - 1 /\ tty'.column = tty.column
    BY <1>0, <1>10, ScreenSize DEF ScrollRow, ScrolledRow, Tty
  <2> QED BY <1>0, <1>10, <2>1, PartsInv, ScreenSize DEF ScrollRow, Goto
<1>11. CASE ScrollColumn
  <2>1. tty' \in Tty /\ tty'.row = tty.row /\ tty'.column = 0
    BY <1>0, <1>11 DEF ScrollColumn, Tty
  <2> QED BY <1>0, <1>11, <2>1, PartsInv, ScreenSize DEF ScrollColumn, Goto
<1>12. CASE InitRow
  <2>1. tty' \in Tty /\ tty'.row = 0 /\ tty'.column = tty.column
    BY <1>0, <1>12 DEF InitRow, Tty
  <2> QED BY <1>0, <1>12, <2>1, PartsInv, ScreenSize DEF InitRow, Goto
<1>13. CASE InitColumn
  <2>1. tty' \in Tty /\ tty'.row = tty.row /\ tty'.column = 0
    BY <1>0, <1>13 DEF InitColumn, Tty
  <2>2. reg' \in Registers
    BY <1>0, <1>13 DEF InitColumn, Registers
  <2> QED BY <1>0, <1>13, <2>1, <2>2, PartsInv, ScreenSize DEF InitColumn, Goto
<1>14. CASE Clear
  <2>1. tty' \in Tty /\ tty'.row = tty.row /\ tty'.column = tty.column
    BY <1>0, <1>14 DEF Clear, Characters, Indexes, Tty, Buffers, Cursors
  <2>2. reg' = [reg EXCEPT !.i = reg.i + 1] /\ reg.i + 1 \in Nat
    BY <1>0, <1>14 DEF Clear
  <2>3. reg' \in Registers
    BY <1>0, <2>2 DEF Registers
  <2> QED BY <1>0, <1>14, <2>1, <2>3, PartsInv DEF Clear, Goto
<1>15. CASE Cursor
  <2>1. tty' \in Tty /\ tty'.row = tty.row /\ tty'.column = tty.column
    BY <1>0, <1>15, BytesNat DEF Cursor, Indexes, Tty, Buffers, Cursors
  <2>2. reg' \in Registers
    BY <1>0, <1>15, PosNat DEF Cursor, Registers
  <2>3. pc \notin {"scroll", "zero"} /\ pc' \in {"low", "index", "high"} /\ c' = c
    BY <1>15 DEF Cursor, Goto
  <2> QED BY <1>0, <2>1, <2>2, <2>3, PartsInv
<1>16. CASE High
  <2>1. tty' \in Tty /\ tty'.row = tty.row /\ tty'.column = tty.column
    BY <1>0, <1>16, BytesNat DEF High, Indexes, Tty, Buffers, Cursors
  <2>2. reg' \in Registers
    BY <1>0, <1>16 DEF High, NoReg, Registers
  <2>3. pc \notin {"scroll", "zero"} /\ pc' \in {"cursor", "rest"} /\ c' = c
    BY <1>16 DEF High, Goto
  <2> QED BY <1>0, <2>1, <2>2, <2>3, PartsInv
<1>17. CASE UNCHANGED terminalVars
    BY <1>0, <1>17, PartsInv DEF terminalVars
<1> QED BY <1>1, <1>2, <1>3, <1>4, <1>5, <1>6, <1>7, <1>8, <1>9, <1>10, <1>11,
           <1>12, <1>13, <1>14, <1>15, <1>16, <1>17 DEF TerminalNext, Step

-----------------------------------------------------------------------------
(* Theorems *)

\* The row leaves the screen only inside a scroll and the column only between a
\* wrap and its zeroing (terminal_putchar, terminal_scroll_up), keys echoed in
\* between included.
THEOREM TerminalInvariant == TerminalSpec => []TerminalInv
BY InitInv, StepInv, PTL DEF TerminalSpec

\* The position is on the screen whenever no call is under way, wherever keys
\* fell into the calls before (kshell_on_char in irq_handler).
THEOREM CursorComesBack == TerminalSpec => []CursorRests
<1>1. TerminalInv => CursorRests
    BY DEF TerminalInv, CursorRests, RowOn, ColumnOn
<1> QED BY <1>1, TerminalInvariant, PTL

-----------------------------------------------------------------------------
(* The blinking cursor *)

\* The controller's two registers hold the address of the position.
PointsAt(t) == t.cursor[14] * BYTE + t.cursor[15] = Pos(t)

\* Between the four accesses of an update that no key fell into, the address is
\* that of the position still, and each byte goes to its own register.
CursorInv ==
    ~disturbed =>
       /\ pc = "rest" => PointsAt(tty)
       /\ pc \in {"low", "index", "high"} => reg.pos = Pos(tty)
       /\ pc = "low" => tty.index = 15
       /\ pc \in {"index", "high"} => tty.cursor[15] = reg.pos % BYTE
       /\ pc = "high" => tty.index = 14

\* The two bytes make up the address.
LEMMA BytesOf ==
    ASSUME NEW p \in Nat
    PROVE  (p \div BYTE) * BYTE + (p % BYTE) = p
<1> DEFINE q == p \div BYTE
           r == p % BYTE
<1>1. q \in Nat /\ r \in Nat /\ p = BYTE * q + r
    BY ScreenSize
<1> HIDE DEF q, r
<1>2. q * BYTE = BYTE * q
    BY <1>1, ScreenSize
<1> QED BY <1>1, <1>2, ScreenSize DEF q, r

\* terminal_update_cursor shows the position it finds, and touches nothing else.
LEMMA UpdateShows ==
    ASSUME NEW t \in Tty
    PROVE  PointsAt(terminal_update_cursor(t)) /\ terminal_update_cursor(t).buffer = t.buffer
<1> DEFINE u == terminal_update_cursor(t)
           k == [b \in {14, 15} |-> IF b = 15 THEN Pos(t) % BYTE ELSE Pos(t) \div BYTE]
<1>1. u = [t EXCEPT !.index = 14, !.cursor = k]
    BY DEF terminal_update_cursor
<1>2. k[14] = Pos(t) \div BYTE /\ k[15] = Pos(t) % BYTE
    OBVIOUS
<1> HIDE DEF k, u
<1>3. u.cursor = k /\ u.buffer = t.buffer /\ u.row = t.row /\ u.column = t.column
    BY <1>1 DEF Tty
<1>4. Pos(u) = Pos(t)
    BY <1>3 DEF Pos
<1>5. PointsAt(u)
    BY <1>2, <1>3, <1>4, BytesOf, PosNat DEF PointsAt
<1> QED BY <1>3, <1>5 DEF u

Down(t) == [t EXCEPT !.column = 0, !.row = @ + 1]

Back(t) == IF t.column # 0 THEN [t EXCEPT !.column = @ - 1]
           ELSE [t EXCEPT !.column = VGA_WIDTH - 1, !.row = @ - 1]

\* The position a new line begins at, off the screen perhaps.
LEMMA DownIs ==
    ASSUME NEW t \in Tty
    PROVE  /\ Down(t) \in Tty /\ Down(t).row = t.row + 1 /\ Down(t).column = 0
           /\ Down(t).buffer = t.buffer
<1>1. Down(t) = [t EXCEPT !.column = 0, !.row = t.row + 1]
    BY DEF Down, Tty
<1>2. t.row + 1 \in Nat
    BY PositionNat
<1> DEFINE d == Down(t)
           n == t.row + 1
<1>3. d = [t EXCEPT !.column = 0, !.row = n] /\ n \in Nat
    BY <1>1, <1>2
<1> HIDE DEF d, n
<1>4. d \in Tty /\ d.row = n /\ d.column = 0 /\ d.buffer = t.buffer
    BY <1>3 DEF Tty
<1> QED BY <1>4 DEF d, n

\* The position before one that is not the screen's beginning.
LEMMA BackIs ==
    ASSUME NEW t \in Tty, ~(t.column = 0 /\ t.row = 0)
    PROVE  /\ Back(t) \in Tty /\ Back(t).buffer = t.buffer
           /\ IF t.column # 0
              THEN Back(t).row = t.row /\ Back(t).column = t.column - 1
              ELSE Back(t).row = t.row - 1 /\ Back(t).column = VGA_WIDTH - 1
<1>1. CASE t.column # 0
  <2>1. Back(t) = [t EXCEPT !.column = t.column - 1]
    BY <1>1 DEF Back, Tty
  <2>2. t.column - 1 \in Nat
    BY <1>1, PositionNat
  <2> QED BY <1>1, <2>1, <2>2 DEF Tty
<1>2. CASE t.column = 0
  <2>1. Back(t) = [t EXCEPT !.column = VGA_WIDTH - 1, !.row = t.row - 1]
    BY <1>2 DEF Back, Tty
  <2>2. VGA_WIDTH - 1 \in Nat /\ t.row - 1 \in Nat
    BY <1>2, PositionNat, ScreenSize
  <2>3. /\ Back(t) \in Tty /\ Back(t).buffer = t.buffer
        /\ Back(t).row = t.row - 1 /\ Back(t).column = VGA_WIDTH - 1
    BY <2>1, <2>2 DEF Tty
  <2> QED BY <1>2, <2>3
<1> QED BY <1>1, <1>2

\* A new line is shown.
LEMMA NextRowShows == ASSUME NEW t \in Tty PROVE PointsAt(NextRow(t))
<1> DEFINE s == IF Down(t).row = VGA_HEIGHT THEN terminal_scroll_up(Down(t)) ELSE Down(t)
<1>2. NextRow(t) = terminal_update_cursor(s)
    BY DEF NextRow, Down
<1>3. s \in Tty
    BY DownIs, ScrollUp
<1> HIDE DEF s
<1> QED BY <1>2, <1>3, UpdateShows

\* Whatever is printed is shown, but for the backspace that is ignored.
LEMMA PutCharShows ==
    ASSUME NEW t \in Tty, NEW ch \in Characters
    PROVE  LET u == terminal_putchar(t, ch)
           IN  IF ch = BS /\ t.row = 0 /\ t.column = 0 THEN u = t ELSE PointsAt(u)
<1> DEFINE e == terminal_putentryat(t, ch, t.column, t.row)
           put == [e EXCEPT !.column = @ + 1]
           blanked == terminal_putentryat(Back(t), Blank, Back(t).column, Back(t).row)
<1>1. e \in Tty /\ e.row = t.row /\ e.column = t.column
    BY PutEntry
<1>2. terminal_putchar(t, ch) =
         IF ch = BS THEN terminal_backspace(t)
         ELSE IF ch = LF THEN NextRow(t)
         ELSE IF put.column = VGA_WIDTH THEN NextRow(put)
         ELSE terminal_update_cursor(put)
    BY DEF terminal_putchar
<1>3. terminal_backspace(t) =
         IF t.column = 0 /\ t.row = 0 THEN t ELSE terminal_update_cursor(blanked)
    BY DEF terminal_backspace, Back
<1>4. ~(t.column = 0 /\ t.row = 0) => Back(t) \in Tty
    BY BackIs
<1> HIDE DEF e
<1>5. put \in Tty
    BY <1>1 DEF Tty
<1>6. Back(t) \in Tty => blanked \in Tty
    BY PutEntry DEF Characters
<1> HIDE DEF put, blanked
<1>7. CASE ch = BS
    BY <1>2, <1>3, <1>4, <1>6, <1>7, UpdateShows
<1>8. CASE ch # BS
    BY <1>2, <1>5, <1>8, NextRowShows, UpdateShows
<1> QED BY <1>7, <1>8

\* terminal_init has shown the cursor.
LEMMA InitCursor == TerminalInit => CursorInv
<1> SUFFICES ASSUME TerminalInit PROVE CursorInv
    OBVIOUS
<1>1. tty.row = 0 /\ tty.column = 0 /\ tty.cursor[14] = 0 /\ tty.cursor[15] = 0 /\ pc = "rest"
    BY DEF TerminalInit
<1>2. 0 * BYTE = 0 /\ 0 * VGA_WIDTH = 0
    BY ScreenSize
<1>3. PointsAt(tty)
    BY <1>1, <1>2 DEF PointsAt, Pos
<1> QED BY <1>1, <1>3 DEF CursorInv

\* Every access of a call, and every key echoed between two, keeps it.
LEMMA StepCursor == TerminalInv /\ CursorInv /\ [TerminalNext]_terminalVars => CursorInv'
<1> SUFFICES ASSUME TerminalInv, CursorInv, [TerminalNext]_terminalVars PROVE CursorInv'
    OBVIOUS
<1>0. tty \in Tty /\ reg \in Registers /\ c \in Characters
    BY DEF TerminalInv, TerminalTypeOK
<1>1. CASE Echo
  <2>1. PICK ch \in {"k", LF, BS} :
           /\ tty' = terminal_putchar(tty, ch)
           /\ disturbed' = (pc # "rest" \/ (disturbed /\ Ignored(ch)))
    BY <1>1 DEF Echo
  <2>2. pc' = pc
    BY <1>1 DEF Echo
  <2>3. CASE pc # "rest"
    BY <2>1, <2>3 DEF CursorInv
  <2>4. CASE pc = "rest" /\ Ignored(ch)
    <3>1. tty' = tty /\ (disturbed' <=> disturbed)
      BY <1>0, <2>1, <2>4, PutCharShows DEF Ignored, Characters
    <3> QED BY <2>2, <2>4, <3>1 DEF CursorInv
  <2>5. CASE pc = "rest" /\ ~Ignored(ch)
    <3>1. PointsAt(tty)'
      BY <1>0, <2>1, <2>5, PutCharShows DEF Ignored, Characters, PointsAt, Pos
    <3> QED BY <2>2, <2>5, <3>1 DEF CursorInv
  <2> QED BY <2>3, <2>4, <2>5
<1>2. CASE sys_write
  <2>1. PICK ch \in {"t", LF, BS} :
           /\ tty' = terminal_putchar(tty, ch)
           /\ disturbed' = (disturbed /\ Ignored(ch))
    BY <1>2 DEF sys_write
  <2>2. pc' = "rest" /\ pc = "rest"
    BY <1>2 DEF sys_write
  <2>3. CASE Ignored(ch)
    <3>1. tty' = tty /\ (disturbed' <=> disturbed)
      BY <1>0, <2>1, <2>3, PutCharShows DEF Ignored, Characters
    <3> QED BY <2>2, <3>1 DEF CursorInv
  <2>4. CASE ~Ignored(ch)
    <3>1. PointsAt(tty)'
      BY <1>0, <2>1, <2>4, PutCharShows DEF Ignored, Characters, PointsAt, Pos
    <3> QED BY <2>2, <3>1 DEF CursorInv
  <2> QED BY <2>3, <2>4
<1>3. CASE Call \/ Load \/ Cell \/ Column \/ ZeroColumn \/ Row \/ Scroll \/ ScrollRow
           \/ ScrollColumn \/ InitRow \/ InitColumn \/ Clear
  <2>1. pc' \notin {"rest", "low", "index", "high"}
    BY <1>3 DEF Call, Load, Cell, Column, ZeroColumn, Row, Scroll, ScrollRow,
                ScrollColumn, InitRow, InitColumn, Clear, Goto
  <2> QED BY <2>1 DEF CursorInv
<1>4. CASE Cursor
  <2>0. tty.row' = tty.row /\ tty.column' = tty.column
    BY <1>0, <1>4 DEF Cursor, Tty
  <2>1. Pos(tty)' = Pos(tty) /\ disturbed' = disturbed
    BY <1>4, <2>0 DEF Cursor, Goto, Pos
  <2>2. CASE pc = "cursor"
    <3>1. pc' = "low" /\ reg'.pos = Pos(tty) /\ tty'.index = 15
      BY <1>0, <1>4, <2>2 DEF Cursor, Goto, Tty, Registers
    <3> QED BY <2>1, <3>1 DEF CursorInv
  <2>3. CASE pc = "low"
    <3>1. pc' = "index" /\ reg' = reg /\ tty' = [tty EXCEPT !.cursor[tty.index] = reg.pos % BYTE]
      BY <1>4, <2>3 DEF Cursor, Goto
    <3>2. ~disturbed => tty'.cursor[15] = reg.pos % BYTE
      BY <1>0, <2>3, <3>1 DEF CursorInv, Tty, Cursors, Indexes
    <3> QED BY <2>1, <2>3, <3>1, <3>2 DEF CursorInv
  <2>4. CASE pc = "index"
    <3>1. pc' = "high" /\ reg' = reg /\ tty'.index = 14 /\ tty'.cursor = tty.cursor
      BY <1>0, <1>4, <2>4 DEF Cursor, Goto, Tty
    <3> QED BY <2>1, <2>4, <3>1 DEF CursorInv
  <2> QED BY <1>4, <2>2, <2>3, <2>4 DEF Cursor
<1>5. CASE High
  <2>0. tty' = [tty EXCEPT !.cursor[tty.index] = reg.pos \div BYTE] /\ pc = "high"
    BY <1>5 DEF High
  <2>1. tty'.row = tty.row /\ tty'.column = tty.column
    BY <1>0, <2>0 DEF Tty
  <2>2. disturbed' = disturbed /\ pc' \in {"cursor", "rest"}
    BY <1>5 DEF High, Goto
  <2>3. CASE ~disturbed
    <3>1. tty'.cursor[14] = reg.pos \div BYTE /\ tty'.cursor[15] = reg.pos % BYTE
      BY <1>0, <2>0, <2>3 DEF CursorInv, Tty, Cursors, Indexes
    <3>2. reg.pos = Pos(tty) /\ reg.pos \in Nat
      BY <1>0, <2>0, <2>3 DEF CursorInv, Registers
    <3>3. Pos(tty)' = Pos(tty)
      BY <2>1 DEF Pos
    <3>4. PointsAt(tty)'
      BY <3>1, <3>2, <3>3, BytesOf DEF PointsAt
    <3> QED BY <2>2, <3>4 DEF CursorInv
  <2> QED BY <2>2, <2>3 DEF CursorInv
<1>6. CASE UNCHANGED terminalVars
    BY <1>6 DEF terminalVars, CursorInv, PointsAt, Pos
<1> QED BY <1>1, <1>2, <1>3, <1>4, <1>5, <1>6 DEF TerminalNext, Step

\* Between calls the blinking cursor is at the position, unless a key fell into
\* the last call that moved it (terminal_update_cursor, terminal_backspace).
THEOREM CursorIsShown == TerminalSpec => []CursorShown
<1>1. CursorInv => CursorShown
    BY DEF CursorInv, CursorShown, PointsAt
<1> QED BY <1>1, InitCursor, StepCursor, InitInv, StepInv, PTL DEF TerminalSpec

-----------------------------------------------------------------------------
(* Rows and addresses *)

\* Products with the width, as the steps below need them.
LEMMA Rows ==
    ASSUME NEW a \in Nat, NEW b \in Nat
    PROVE  /\ a * VGA_WIDTH \in Nat
           /\ (a + b) * VGA_WIDTH = a * VGA_WIDTH + b * VGA_WIDTH
           /\ (a + 1) * VGA_WIDTH = a * VGA_WIDTH + VGA_WIDTH
           /\ a < b => a * VGA_WIDTH + VGA_WIDTH <= b * VGA_WIDTH
           /\ a <= b => a * VGA_WIDTH <= b * VGA_WIDTH
           /\ a > 0 => a * VGA_WIDTH >= VGA_WIDTH
           /\ 0 * VGA_WIDTH = 0
<1>1. \A x, y, w \in Nat : x * w \in Nat /\ (x + y) * w = x * w + y * w /\ (x + 1) * w = x * w + w
    OBVIOUS
<1>2. \A d, w \in Nat : d > 0 => d * w >= w
    OBVIOUS
<1>3. ASSUME a < b PROVE a * VGA_WIDTH + VGA_WIDTH <= b * VGA_WIDTH
  <2>1. b - a \in Nat /\ b - a > 0 /\ b = a + (b - a)
    BY <1>3
  <2>2. b * VGA_WIDTH = a * VGA_WIDTH + (b - a) * VGA_WIDTH
    BY <1>1, <2>1, ScreenSize
  <2>3. (b - a) * VGA_WIDTH >= VGA_WIDTH
    BY <1>2, <2>1, ScreenSize
  <2> QED BY <1>1, <2>1, <2>2, <2>3, ScreenSize
<1>4. a * VGA_WIDTH \in Nat /\ b * VGA_WIDTH \in Nat
    BY <1>1, ScreenSize
<1>5. a <= b => a * VGA_WIDTH <= b * VGA_WIDTH
    BY <1>3, <1>4, ScreenSize
<1>6. 0 * VGA_WIDTH = 0
    BY ScreenSize
<1> QED BY <1>1, <1>2, <1>3, <1>4, <1>5, <1>6, ScreenSize

\* The screen is its rows, and inside the text memory.
LEMMA ScreenIs ==
    /\ Screen = VGA_HEIGHT * VGA_WIDTH /\ Screen \in Nat /\ Screen >= VGA_WIDTH
    /\ 0 .. Screen - 1 \subseteq Memory
<1>1. \A x, y \in Nat : x * y = y * x
    OBVIOUS
<1>2. Screen = VGA_HEIGHT * VGA_WIDTH
    BY <1>1, ScreenSize DEF Screen
<1>3. VGA_HEIGHT * VGA_WIDTH \in Nat /\ VGA_HEIGHT * VGA_WIDTH >= VGA_WIDTH
    BY Rows, ScreenSize
<1>4. VGA_HEIGHT + MaxKeys + 2 \in Nat /\ VGA_HEIGHT <= VGA_HEIGHT + MaxKeys + 2
    BY ScreenSize
<1>5. VGA_HEIGHT * VGA_WIDTH <= (VGA_HEIGHT + MaxKeys + 2) * VGA_WIDTH
      /\ (VGA_HEIGHT + MaxKeys + 2) * VGA_WIDTH \in Nat
    BY <1>4, Rows, ScreenSize
<1> QED BY <1>2, <1>3, <1>5 DEF Memory

\* The row of an address, when its column is known or when it lies before a row.
LEMMA RowOf ==
    ASSUME NEW a \in Nat, NEW r \in Nat
    PROVE  /\ a \div VGA_WIDTH \in Nat
           /\ \A x \in Nat : x < VGA_WIDTH /\ a = r * VGA_WIDTH + x => a \div VGA_WIDTH = r
           /\ a < r * VGA_WIDTH => a \div VGA_WIDTH < r
<1> DEFINE q == a \div VGA_WIDTH
           m == a % VGA_WIDTH
<1>1. q \in Nat /\ m \in Nat /\ m < VGA_WIDTH /\ a = VGA_WIDTH * q + m
    BY ScreenSize
<1>2. \A x, y \in Nat : x * y = y * x
    OBVIOUS
<1>3. a = q * VGA_WIDTH + m
    BY <1>1, <1>2, ScreenSize
<1> HIDE DEF q, m
<1>4. /\ q * VGA_WIDTH \in Nat /\ r * VGA_WIDTH \in Nat
      /\ q < r => q * VGA_WIDTH + VGA_WIDTH <= r * VGA_WIDTH
      /\ r < q => r * VGA_WIDTH + VGA_WIDTH <= q * VGA_WIDTH
      /\ r <= q => r * VGA_WIDTH <= q * VGA_WIDTH
    BY <1>1, Rows
<1>5. ASSUME NEW x \in Nat, x < VGA_WIDTH, a = r * VGA_WIDTH + x
      PROVE  q = r
    BY <1>1, <1>3, <1>4, <1>5, ScreenSize
<1>6. a < r * VGA_WIDTH => q < r
    BY <1>1, <1>3, <1>4, ScreenSize
<1> QED BY <1>1, <1>5, <1>6 DEF q

-----------------------------------------------------------------------------
(* The roll of paper and the rows in view *)

Papers == [cells : [0 .. MaxChars + VGA_WIDTH -> Characters], at : Nat, top : Int]

\* A roll that is not torn: nothing is written past the writer.
Whole(p) ==
    /\ p \in Papers /\ p.top \in Nat
    /\ \A k \in DOMAIN p.cells : k >= p.at => p.cells[k] = Blank

\* What the roll shows in cell i of a screen whose first row is top.
View(p, top, i) ==
    LET k == top * VGA_WIDTH + i IN IF k \in DOMAIN p.cells THEN p.cells[k] ELSE Blank

Cells(p, top, buffer) == \A i \in 0 .. Screen - 1 : buffer[i] = View(p, top, i)

Placed(p, t) == Pos(t) = p.at - p.top * VGA_WIDTH

Shows(p, t) == Placed(p, t) /\ Cells(p, p.top, t.buffer)

OnScreen(t) == RowOn(t) /\ ColumnOn(t)

\* Room for one more character, or for the rest of a line.
Room(p) == p.at + VGA_WIDTH <= MaxChars

\* The writer's place on the roll, from the position on the screen.
LEMMA PlaceOf ==
    ASSUME NEW p, Whole(p), NEW t \in Tty, OnScreen(t), Placed(p, t)
    PROVE  /\ p.at = (p.top + t.row) * VGA_WIDTH + t.column
           /\ p.at \div VGA_WIDTH = p.top + t.row
           /\ p.at = p.top * VGA_WIDTH + Pos(t)
           /\ Pos(t) \in 0 .. Screen - 1
           /\ p.at + 1 = (p.top + t.row) * VGA_WIDTH + (t.column + 1)
           /\ p.at \in Nat /\ p.top \in Nat
<1>1. t.row \in Nat /\ t.column \in Nat /\ p.at \in Nat /\ p.top \in Nat
    BY PositionNat DEF Whole, Papers
<1>2. t.row < VGA_HEIGHT /\ t.column < VGA_WIDTH
    BY DEF OnScreen, RowOn, ColumnOn
<1>3. /\ p.top * VGA_WIDTH \in Nat /\ t.row * VGA_WIDTH \in Nat
      /\ (p.top + t.row) * VGA_WIDTH = p.top * VGA_WIDTH + t.row * VGA_WIDTH
    BY <1>1, Rows
<1>4. t.row * VGA_WIDTH + VGA_WIDTH <= Screen
    BY <1>1, <1>2, Rows, ScreenIs, ScreenSize
<1>5. Pos(t) = t.row * VGA_WIDTH + t.column /\ Pos(t) = p.at - p.top * VGA_WIDTH
    BY DEF Pos, Placed
<1>6. p.at = (p.top + t.row) * VGA_WIDTH + t.column /\ p.at = p.top * VGA_WIDTH + Pos(t)
    BY <1>1, <1>3, <1>5
<1>7. p.top + t.row \in Nat
    BY <1>1
<1>8. p.at \div VGA_WIDTH = p.top + t.row
    BY <1>1, <1>2, <1>6, <1>7, RowOf
<1>9. Pos(t) \in 0 .. Screen - 1
    BY <1>1, <1>2, <1>3, <1>4, <1>5, ScreenIs, ScreenSize
<1>10. p.at + 1 = (p.top + t.row) * VGA_WIDTH + (t.column + 1)
    BY <1>1, <1>3, <1>6
<1> QED BY <1>1, <1>6, <1>8, <1>9, <1>10

\* Where the writer goes, and the fields of the roll then.
Onward(p, ch) ==
    IF ch = LF THEN (p.at \div VGA_WIDTH + 1) * VGA_WIDTH
    ELSE IF ch # BS THEN p.at + 1
    ELSE IF p.at > p.top * VGA_WIDTH THEN p.at - 1 ELSE p.at

LEMMA RolledIs ==
    ASSUME NEW p, NEW ch
    PROVE  /\ Rolled(p, ch).at = Onward(p, ch)
           /\ Rolled(p, ch).top =
                 IF Onward(p, ch) \div VGA_WIDTH >= p.top + VGA_HEIGHT
                 THEN Onward(p, ch) \div VGA_WIDTH - VGA_HEIGHT + 1 ELSE p.top
           /\ Rolled(p, ch).cells =
                 IF ch = LF \/ (ch = BS /\ Onward(p, ch) = p.at) THEN p.cells
                 ELSE IF ch = BS THEN [p.cells EXCEPT ![Onward(p, ch)] = Blank]
                 ELSE [p.cells EXCEPT ![p.at] = ch]
           /\ Rolled(p, ch) = [at |-> Rolled(p, ch).at, cells |-> Rolled(p, ch).cells,
                               top |-> Rolled(p, ch).top]
BY DEF Rolled, Onward

\* After a line that ends here: the writer is at the beginning of the next row,
\* and the view moves by one row when that one is past the last.
LEMMA NewRow ==
    ASSUME NEW p, Whole(p), NEW t \in Tty, OnScreen(t), Placed(p, t), NEW ch,
           ch = LF \/ (ch \notin {LF, BS} /\ t.column + 1 = VGA_WIDTH)
    PROVE  /\ Rolled(p, ch).at = (p.top + t.row + 1) * VGA_WIDTH
           /\ Rolled(p, ch).top = IF t.row + 1 = VGA_HEIGHT THEN p.top + 1 ELSE p.top
<1> DEFINE at == (p.top + t.row + 1) * VGA_WIDTH
<1>0. /\ Rolled(p, ch).at = Onward(p, ch)
      /\ Rolled(p, ch).top =
            IF Onward(p, ch) \div VGA_WIDTH >= p.top + VGA_HEIGHT
            THEN Onward(p, ch) \div VGA_WIDTH - VGA_HEIGHT + 1 ELSE p.top
    BY RolledIs, Zenon
<1>1. /\ p.at = (p.top + t.row) * VGA_WIDTH + t.column
      /\ p.at \div VGA_WIDTH = p.top + t.row
      /\ p.at + 1 = (p.top + t.row) * VGA_WIDTH + (t.column + 1)
      /\ p.at \in Nat /\ p.top \in Nat
    BY PlaceOf
<1>2. t.row \in Nat /\ t.column \in Nat /\ p.top + t.row \in Nat /\ t.row < VGA_HEIGHT
    BY <1>1, PositionNat DEF OnScreen, RowOn
<1>3. at = (p.top + t.row) * VGA_WIDTH + VGA_WIDTH /\ at \in Nat
    BY <1>2, Rows, ScreenSize
<1>4. Rolled(p, ch).at = at /\ Onward(p, ch) = at
  <2>1. CASE ch = LF
    BY <1>0, <1>1, <2>1 DEF Onward
  <2>2. CASE ch \notin {LF, BS} /\ t.column + 1 = VGA_WIDTH
    BY <1>0, <1>1, <1>3, <2>2 DEF Onward
  <2> QED BY <2>1, <2>2
<1>5. at \div VGA_WIDTH = p.top + t.row + 1
  <2>1. p.top + t.row + 1 \in Nat /\ 0 \in Nat /\ 0 < VGA_WIDTH
    BY <1>2, ScreenSize
  <2>2. at = (p.top + t.row + 1) * VGA_WIDTH + 0
    BY <1>3
  <2> HIDE DEF at
  <2> QED BY <1>3, <2>1, <2>2, RowOf
<1> HIDE DEF at
<1>6. Rolled(p, ch).top =
         IF at \div VGA_WIDTH >= p.top + VGA_HEIGHT THEN at \div VGA_WIDTH - VGA_HEIGHT + 1 ELSE p.top
    BY <1>0, <1>4
<1>7. Rolled(p, ch).top = IF t.row + 1 = VGA_HEIGHT THEN p.top + 1 ELSE p.top
    BY <1>1, <1>2, <1>5, <1>6, ScreenSize
<1> QED BY <1>4, <1>7 DEF at

\* After a character inside a row.
LEMMA SameRow ==
    ASSUME NEW p, Whole(p), NEW t \in Tty, OnScreen(t), Placed(p, t), NEW ch,
           ch \notin {LF, BS}, t.column + 1 < VGA_WIDTH
    PROVE  Rolled(p, ch).at = p.at + 1 /\ Rolled(p, ch).top = p.top
<1>0. /\ Rolled(p, ch).at = Onward(p, ch)
      /\ Rolled(p, ch).top =
            IF Onward(p, ch) \div VGA_WIDTH >= p.top + VGA_HEIGHT
            THEN Onward(p, ch) \div VGA_WIDTH - VGA_HEIGHT + 1 ELSE p.top
    BY RolledIs, Zenon
<1>1. /\ p.at + 1 = (p.top + t.row) * VGA_WIDTH + (t.column + 1)
      /\ p.at \in Nat /\ p.top \in Nat
    BY PlaceOf
<1>2. t.row \in Nat /\ t.column + 1 \in Nat /\ p.top + t.row \in Nat /\ t.row < VGA_HEIGHT
    BY <1>1, PositionNat DEF OnScreen, RowOn
<1>3. (p.at + 1) \div VGA_WIDTH = p.top + t.row
  <2> DEFINE a == p.at + 1
             r == p.top + t.row
             x == t.column + 1
  <2>1. a \in Nat /\ r \in Nat /\ x \in Nat /\ x < VGA_WIDTH /\ a = r * VGA_WIDTH + x
    BY <1>1, <1>2
  <2> HIDE DEF a, r, x
  <2>2. a \div VGA_WIDTH = r
    BY <2>1, RowOf
  <2> QED BY <2>2 DEF a, r
<1>4. Rolled(p, ch).at = p.at + 1 /\ Onward(p, ch) = p.at + 1
    BY <1>0 DEF Onward
<1>5. Rolled(p, ch).top =
         IF (p.at + 1) \div VGA_WIDTH >= p.top + VGA_HEIGHT
         THEN (p.at + 1) \div VGA_WIDTH - VGA_HEIGHT + 1 ELSE p.top
    BY <1>0, <1>4
<1> QED BY <1>1, <1>2, <1>3, <1>4, <1>5, ScreenSize

\* After a backspace that is not ignored.
LEMMA BackRow ==
    ASSUME NEW p, Whole(p), NEW t \in Tty, OnScreen(t), Placed(p, t),
           ~(t.row = 0 /\ t.column = 0)
    PROVE  /\ Rolled(p, BS).at = p.at - 1 /\ Rolled(p, BS).top = p.top
           /\ Rolled(p, BS).cells = [p.cells EXCEPT ![p.at - 1] = Blank]
           /\ p.at - 1 \in Nat /\ Pos(t) > 0
<1> DEFINE a == p.at - 1
<1>0. /\ Rolled(p, BS).at = Onward(p, BS)
      /\ Rolled(p, BS).top =
            IF Onward(p, BS) \div VGA_WIDTH >= p.top + VGA_HEIGHT
            THEN Onward(p, BS) \div VGA_WIDTH - VGA_HEIGHT + 1 ELSE p.top
      /\ Rolled(p, BS).cells =
            IF BS = LF \/ (BS = BS /\ Onward(p, BS) = p.at) THEN p.cells
            ELSE IF BS = BS THEN [p.cells EXCEPT ![Onward(p, BS)] = Blank]
            ELSE [p.cells EXCEPT ![p.at] = BS]
    BY RolledIs, Zenon
<1>1. /\ p.at = (p.top + t.row) * VGA_WIDTH + t.column
      /\ p.at = p.top * VGA_WIDTH + Pos(t)
      /\ p.at \in Nat /\ p.top \in Nat
    BY PlaceOf
<1>2. t.row \in Nat /\ t.column \in Nat /\ t.row < VGA_HEIGHT /\ t.column < VGA_WIDTH
    BY PositionNat DEF OnScreen, RowOn, ColumnOn
<1>3. t.row * VGA_WIDTH \in Nat /\ (t.row > 0 => t.row * VGA_WIDTH >= VGA_WIDTH)
    BY <1>2, Rows
<1>4. Pos(t) \in Nat /\ Pos(t) > 0
    BY <1>2, <1>3, ScreenSize DEF Pos
<1>5. p.top * VGA_WIDTH \in Nat
    BY <1>1, Rows
<1>6. p.at > p.top * VGA_WIDTH /\ a \in Nat
    BY <1>1, <1>4, <1>5
<1>7. BS # LF
    BY DEF BS, LF
<1>8. Onward(p, BS) = a
    BY <1>6, <1>7 DEF Onward
<1>9. a \div VGA_WIDTH < p.top + VGA_HEIGHT
  <2> DEFINE r == p.top + VGA_HEIGHT
             q == p.top + t.row
  <2>1. q \in Nat /\ r \in Nat /\ q < r
    BY <1>1, <1>2, ScreenSize
  <2>2. q * VGA_WIDTH \in Nat /\ r * VGA_WIDTH \in Nat /\ q * VGA_WIDTH + VGA_WIDTH <= r * VGA_WIDTH
    BY <2>1, Rows
  <2>3. a < r * VGA_WIDTH
    BY <1>1, <1>2, <2>2, ScreenSize
  <2> HIDE DEF a, r
  <2>4. a \div VGA_WIDTH < r
    BY <1>6, <2>1, <2>3, RowOf
  <2> QED BY <2>4 DEF r
<1>10. a \div VGA_WIDTH \in Nat
    BY <1>6, RowOf
<1>11. a # p.at
    BY <1>1
<1> HIDE DEF a
<1>12. Rolled(p, BS).top = p.top
    BY <1>0, <1>1, <1>8, <1>9, <1>10, ScreenSize
<1>13. Rolled(p, BS).cells = [p.cells EXCEPT ![a] = Blank]
    BY <1>0, <1>7, <1>8, <1>11
<1> QED BY <1>0, <1>4, <1>6, <1>8, <1>12, <1>13 DEF a

\* The backspace that is ignored.
LEMMA NoBack ==
    ASSUME NEW p, Whole(p), NEW t \in Tty, OnScreen(t), Placed(p, t),
           t.row = 0, t.column = 0
    PROVE  /\ Rolled(p, BS).at = p.at /\ Rolled(p, BS).top = p.top
           /\ Rolled(p, BS).cells = p.cells
<1>0. /\ Rolled(p, BS).at = Onward(p, BS)
      /\ Rolled(p, BS).top =
            IF Onward(p, BS) \div VGA_WIDTH >= p.top + VGA_HEIGHT
            THEN Onward(p, BS) \div VGA_WIDTH - VGA_HEIGHT + 1 ELSE p.top
      /\ Rolled(p, BS).cells =
            IF BS = LF \/ (BS = BS /\ Onward(p, BS) = p.at) THEN p.cells
            ELSE IF BS = BS THEN [p.cells EXCEPT ![Onward(p, BS)] = Blank]
            ELSE [p.cells EXCEPT ![p.at] = BS]
    BY RolledIs, Zenon
<1>1. /\ p.at = p.top * VGA_WIDTH + Pos(t) /\ p.at \div VGA_WIDTH = p.top + t.row
      /\ p.at \in Nat /\ p.top \in Nat
    BY PlaceOf
<1>2. Pos(t) = 0 /\ p.top * VGA_WIDTH \in Nat
  <2>1. 0 * VGA_WIDTH = 0
    BY ScreenSize
  <2>2. t.row * VGA_WIDTH + t.column = 0
    BY <2>1
  <2> QED BY <1>1, <2>2, Rows DEF Pos
<1>3. BS # LF /\ ~(p.at > p.top * VGA_WIDTH)
    BY <1>1, <1>2 DEF BS, LF
<1>4. Onward(p, BS) = p.at
    BY <1>3 DEF Onward
<1>5. Rolled(p, BS).top = p.top
    BY <1>0, <1>1, <1>4, ScreenSize
<1>6. Rolled(p, BS).cells = p.cells
    BY <1>0, <1>4
<1> QED BY <1>0, <1>4, <1>5, <1>6

\* The cells of a roll after a line feed, and after a character.
LEMMA CellsRolled ==
    ASSUME NEW p, NEW ch
    PROVE  /\ ch = LF => Rolled(p, ch).cells = p.cells
           /\ ch \notin {LF, BS} => Rolled(p, ch).cells = [p.cells EXCEPT ![p.at] = ch]
<1>1. Rolled(p, ch).cells =
         IF ch = LF \/ (ch = BS /\ Onward(p, ch) = p.at) THEN p.cells
         ELSE IF ch = BS THEN [p.cells EXCEPT ![Onward(p, ch)] = Blank]
         ELSE [p.cells EXCEPT ![p.at] = ch]
    BY RolledIs, Zenon
<1> QED BY <1>1

\* A roll of which at most the cell before the writer changed is whole.
LEMMA WholeIf ==
    ASSUME NEW p, Whole(p), NEW R, NEW a \in Nat, NEW x \in Characters,
           R = [at |-> R.at, cells |-> R.cells, top |-> R.top],
           R.at \in Nat, R.top \in Nat,
           \/ R.cells = p.cells /\ R.at >= p.at
           \/ R.cells = [p.cells EXCEPT ![a] = x] /\ a < R.at /\ R.at >= p.at
           \/ R.cells = [p.cells EXCEPT ![a] = Blank] /\ a = R.at /\ p.at = a + 1
    PROVE  Whole(R)
<1>1. /\ p.cells \in [0 .. MaxChars + VGA_WIDTH -> Characters] /\ p.at \in Nat
      /\ \A k \in 0 .. MaxChars + VGA_WIDTH : k >= p.at => p.cells[k] = Blank
    BY DEF Whole, Papers
<1>2. Blank \in Characters
    BY DEF Characters
<1>3. R.cells \in [0 .. MaxChars + VGA_WIDTH -> Characters]
    BY <1>1, <1>2
<1>4. ASSUME NEW k \in 0 .. MaxChars + VGA_WIDTH, k >= R.at PROVE R.cells[k] = Blank
    BY <1>1, <1>4, TerminalAssumption, ScreenSize
<1>5. R \in Papers
    BY <1>3 DEF Papers
<1>6. DOMAIN R.cells = 0 .. MaxChars + VGA_WIDTH
    BY <1>3
<1> QED BY <1>4, <1>5, <1>6 DEF Whole

\* The roll stays whole.
LEMMA RolledWhole ==
    ASSUME NEW p, Whole(p), NEW t \in Tty, OnScreen(t), Placed(p, t), NEW ch \in Characters
    PROVE  Whole(Rolled(p, ch))
<1> DEFINE R == Rolled(p, ch)
<1>1. p.at \in Nat /\ p.top \in Nat /\ p.at = (p.top + t.row) * VGA_WIDTH + t.column
    BY PlaceOf
<1>2. R = [at |-> R.at, cells |-> R.cells, top |-> R.top]
    BY RolledIs, Zenon
<1>3. t.row \in Nat /\ t.column \in Nat /\ t.column < VGA_WIDTH /\ p.top + t.row \in Nat
    BY <1>1, PositionNat DEF OnScreen, ColumnOn
<1>4. (p.top + t.row + 1) * VGA_WIDTH = (p.top + t.row) * VGA_WIDTH + VGA_WIDTH
      /\ (p.top + t.row) * VGA_WIDTH \in Nat
    BY <1>3, Rows
<1>5. CASE ch = LF
  <2>1. R.at = (p.top + t.row + 1) * VGA_WIDTH /\ R.top \in {p.top, p.top + 1} /\ R.cells = p.cells
    BY <1>5, NewRow, CellsRolled
  <2>2. R.at \in Nat /\ R.top \in Nat /\ R.at >= p.at
    BY <1>1, <1>3, <1>4, <2>1, ScreenSize
  <2> HIDE DEF R
  <2> QED BY <1>1, <1>2, <2>1, <2>2, WholeIf DEF R, Characters
<1>6. CASE ch = BS /\ t.row = 0 /\ t.column = 0
  <2>1. R.at = p.at /\ R.top = p.top /\ R.cells = p.cells
    BY <1>6, NoBack
  <2>2. R.at \in Nat /\ R.top \in Nat /\ R.at >= p.at /\ Blank \in Characters /\ 0 \in Nat
    BY <1>1, <2>1 DEF Characters
  <2> HIDE DEF R
  <2>3. Whole(R)
    BY <1>2, <2>1, <2>2, WholeIf
  <2> QED BY <2>3 DEF R
<1>7. CASE ch = BS /\ ~(t.row = 0 /\ t.column = 0)
  <2>1. /\ R.at = p.at - 1 /\ R.top = p.top /\ p.at - 1 \in Nat
        /\ R.cells = [p.cells EXCEPT ![p.at - 1] = Blank]
    BY <1>7, BackRow
  <2> DEFINE a == p.at - 1
  <2>2. /\ a \in Nat /\ p.at = a + 1 /\ R.at = a /\ R.top \in Nat /\ Blank \in Characters
        /\ R.cells = [p.cells EXCEPT ![a] = Blank]
    BY <1>1, <2>1 DEF Characters
  <2> HIDE DEF R, a
  <2>3. Whole(R)
    BY <1>2, <2>2, WholeIf
  <2> QED BY <2>3 DEF R
<1>8. CASE ch \notin {LF, BS}
  <2>1. R.cells = [p.cells EXCEPT ![p.at] = ch]
    BY <1>8, CellsRolled
  <2>2. R.at = p.at + 1 /\ R.top \in {p.top, p.top + 1}
    <3>1. CASE t.column + 1 = VGA_WIDTH
      <4>1. R.at = (p.top + t.row + 1) * VGA_WIDTH /\ R.top \in {p.top, p.top + 1}
        BY <1>8, <3>1, NewRow
      <4> QED BY <1>1, <1>3, <1>4, <3>1, <4>1, ScreenSize
    <3>2. CASE t.column + 1 # VGA_WIDTH
      BY <1>3, <1>8, <3>2, SameRow, ScreenSize
    <3> QED BY <3>1, <3>2
  <2>3. R.at \in Nat /\ R.top \in Nat /\ R.at >= p.at /\ p.at < R.at
    BY <1>1, <2>2
  <2> HIDE DEF R
  <2> QED BY <1>1, <1>2, <2>1, <2>3, WholeIf DEF R
<1> QED BY <1>5, <1>6, <1>7, <1>8

\* A cell written on the screen and on the roll.
LEMMA CellsPut ==
    ASSUME NEW p, Whole(p), NEW top \in Nat, NEW n \in 0 .. Screen - 1,
           top * VGA_WIDTH + n \in DOMAIN p.cells, NEW x,
           NEW b \in Buffers, Cells(p, top, b),
           NEW R, R.cells = [p.cells EXCEPT ![top * VGA_WIDTH + n] = x]
    PROVE  Cells(R, top, [b EXCEPT ![n] = x])
<1>1. top * VGA_WIDTH \in Nat
    BY Rows
<1>2. DOMAIN R.cells = DOMAIN p.cells
    OBVIOUS
<1> DEFINE w == top * VGA_WIDTH
<1> HIDE DEF w
<1> SUFFICES ASSUME NEW i \in 0 .. Screen - 1
             PROVE  [b EXCEPT ![n] = x][i] = View(R, top, i)
    BY DEF Cells
<1>3. i \in Memory /\ n \in Memory /\ i \in Int /\ n \in Int
    BY ScreenIs
<1>4. b[i] = View(p, top, i)
    BY DEF Cells
<1>5. CASE i = n
    BY <1>2, <1>3, <1>5 DEF View, Buffers
<1>6. CASE i # n
  <2>1. [b EXCEPT ![n] = x][i] = b[i]
    BY <1>3, <1>6 DEF Buffers
  <2>2. w + i # w + n
    BY <1>1, <1>3, <1>6 DEF w
  <2>3. View(R, top, i) = View(p, top, i)
    BY <1>2, <2>2 DEF View, w
  <2> QED BY <1>4, <2>1, <2>3
<1> QED BY <1>5, <1>6

\* The roll moved by one row: what the loops of terminal_scroll_up put into a cell.
LEMMA ScrollView ==
    ASSUME NEW P, Whole(P), NEW top \in Nat, P.at = (top + VGA_HEIGHT) * VGA_WIDTH,
           NEW i \in 0 .. Screen - 1
    PROVE  IF i < Screen - VGA_WIDTH
           THEN View(P, top, i + VGA_WIDTH) = View(P, top + 1, i) /\ i + VGA_WIDTH \in 0 .. Screen - 1
           ELSE View(P, top + 1, i) = Blank
<1>1. /\ top * VGA_WIDTH \in Nat /\ VGA_HEIGHT * VGA_WIDTH \in Nat
      /\ (top + 1) * VGA_WIDTH = top * VGA_WIDTH + VGA_WIDTH
      /\ (top + VGA_HEIGHT) * VGA_WIDTH = top * VGA_WIDTH + VGA_HEIGHT * VGA_WIDTH
    BY Rows, ScreenSize
<1>2. Screen = VGA_HEIGHT * VGA_WIDTH /\ Screen \in Nat /\ i \in Nat
    BY ScreenIs
<1>3. CASE i < Screen - VGA_WIDTH
  <2>1. (top + 1) * VGA_WIDTH + i = top * VGA_WIDTH + (i + VGA_WIDTH)
    BY <1>1, <1>2, ScreenSize
  <2>2. i + VGA_WIDTH \in 0 .. Screen - 1
    BY <1>2, <1>3, ScreenSize
  <2> QED BY <1>3, <2>1, <2>2 DEF View
<1>4. CASE ~(i < Screen - VGA_WIDTH)
  <2>1. (top + 1) * VGA_WIDTH + i >= P.at
    BY <1>1, <1>2, <1>4, ScreenSize
  <2>2. View(P, top + 1, i) = Blank
    BY <2>1 DEF View, Whole
  <2> QED BY <1>4, <2>2
<1> QED BY <1>3, <1>4

-----------------------------------------------------------------------------
(* A character printed at once *)

\* terminal_update_cursor changes neither the text nor the position.
LEMMA UpdateKeeps ==
    ASSUME NEW t \in Tty, NEW p, Shows(p, t)
    PROVE  Shows(p, terminal_update_cursor(t))
<1> DEFINE u == terminal_update_cursor(t)
<1>1. u.row = t.row /\ u.column = t.column /\ u.buffer = t.buffer
    BY UpdateCursor, UpdateShows
<1> HIDE DEF u
<1>2. Shows(p, u)
    BY <1>1 DEF Shows, Placed, Pos
<1> QED BY <1>2 DEF u

\* The cells of the roll are all its view depends on.
LEMMA SameCells ==
    ASSUME NEW p, NEW R, R.cells = p.cells, NEW top, NEW b, Cells(p, top, b)
    PROVE  Cells(R, top, b)
BY DEF Cells, View

\* terminal_scroll_up moves the text up by a row.
LEMMA ScrollUpText ==
    ASSUME NEW t \in Tty, NEW i \in 0 .. Screen - 1
    PROVE  terminal_scroll_up(t).buffer[i] = ScrolledCell(t.buffer, i)
<1> DEFINE text == [k \in Memory |-> IF k < Screen THEN ScrolledCell(t.buffer, k) ELSE t.buffer[k]]
           s == [t EXCEPT !.buffer = text, !.row = ScrolledRow, !.column = 0]
<1>1. text \in Buffers
    BY ScreenInMemory, MemoryNat DEF Tty, Buffers, ScrolledCell, Characters
<1>2. terminal_scroll_up(t) = terminal_update_cursor(s)
    BY DEF terminal_scroll_up
<1>3. i \in Memory /\ i < Screen
    BY ScreenIs
<1>4. text[i] = ScrolledCell(t.buffer, i)
    BY <1>3
<1> HIDE DEF text
<1>5. VGA_HEIGHT - 1 \in Nat
    BY ScreenSize
<1>6. s \in Tty /\ s.buffer = text
    BY <1>1, <1>5 DEF Tty, ScrolledRow
<1> HIDE DEF s
<1> QED BY <1>2, <1>4, <1>6, UpdateShows

\* A new line, with the text up to it on the screen.
LEMMA NextRowPrints ==
    ASSUME NEW P, Whole(P), NEW top \in Nat, NEW t \in Tty, RowOn(t),
           P.at = (top + t.row + 1) * VGA_WIDTH,
           P.top = (IF t.row + 1 = VGA_HEIGHT THEN top + 1 ELSE top),
           Cells(P, top, t.buffer)
    PROVE  Shows(P, NextRow(t))
<1> DEFINE s == IF Down(t).row = VGA_HEIGHT THEN terminal_scroll_up(Down(t)) ELSE Down(t)
<1>1. NextRow(t) = terminal_update_cursor(s)
    BY DEF NextRow, Down
<1>2. t.row \in Nat
    BY PositionNat
<1>3. /\ Down(t) \in Tty /\ Down(t).row = t.row + 1 /\ Down(t).column = 0
      /\ Down(t).buffer = t.buffer
    BY DownIs
<1>4. CASE t.row + 1 = VGA_HEIGHT
  <2>1. s = terminal_scroll_up(Down(t)) /\ s \in Tty /\ s.row = VGA_HEIGHT - 1 /\ s.column = 0
    BY <1>3, <1>4, ScrollUp
  <2>2. P.top = top + 1 /\ top + t.row + 1 = top + VGA_HEIGHT /\ P.at = (top + VGA_HEIGHT) * VGA_WIDTH
    BY <1>2, <1>4
  <2>3. Pos(s) = P.at - P.top * VGA_WIDTH
    <3> DEFINE n == VGA_HEIGHT - 1
    <3>1. n \in Nat /\ top + 1 \in Nat /\ (top + 1) + n = top + VGA_HEIGHT
      BY ScreenSize
    <3>2. ((top + 1) + n) * VGA_WIDTH = (top + 1) * VGA_WIDTH + n * VGA_WIDTH
          /\ (top + 1) * VGA_WIDTH \in Nat /\ n * VGA_WIDTH \in Nat
      BY <3>1, Rows
    <3>3. Pos(s) = n * VGA_WIDTH
      BY <2>1, <3>2 DEF Pos
    <3> HIDE DEF n
    <3> QED BY <2>2, <3>1, <3>2, <3>3
  <2>4. ASSUME NEW i \in 0 .. Screen - 1 PROVE s.buffer[i] = View(P, top + 1, i)
    <3>1. s.buffer[i] = ScrolledCell(t.buffer, i)
      BY <1>3, <2>1, ScrollUpText
    <3>2. IF i < Screen - VGA_WIDTH
          THEN View(P, top, i + VGA_WIDTH) = View(P, top + 1, i) /\ i + VGA_WIDTH \in 0 .. Screen - 1
          ELSE View(P, top + 1, i) = Blank
      BY <2>2, ScrollView
    <3> QED BY <3>1, <3>2 DEF ScrolledCell, Cells
  <2>5. Shows(P, s)
    BY <2>2, <2>3, <2>4 DEF Shows, Placed, Cells
  <2> HIDE DEF s
  <2> QED BY <1>1, <2>1, <2>5, UpdateKeeps
<1>5. CASE t.row + 1 # VGA_HEIGHT
  <2>1. s = Down(t)
    BY <1>3, <1>5
  <2>2. P.top = top
    BY <1>5
  <2>3. Pos(Down(t)) = P.at - P.top * VGA_WIDTH
    <3> DEFINE n == t.row + 1
    <3>1. n \in Nat /\ top + t.row + 1 = top + n
      BY <1>2
    <3>2. (top + n) * VGA_WIDTH = top * VGA_WIDTH + n * VGA_WIDTH
          /\ top * VGA_WIDTH \in Nat /\ n * VGA_WIDTH \in Nat
      BY <3>1, Rows
    <3>3. Pos(Down(t)) = n * VGA_WIDTH
      BY <1>3, <3>2 DEF Pos
    <3> HIDE DEF n
    <3> QED BY <2>2, <3>1, <3>2, <3>3
  <2>4. Shows(P, Down(t))
    BY <1>3, <2>2, <2>3 DEF Shows, Placed
  <2> QED BY <1>1, <1>3, <2>1, <2>4, UpdateKeeps
<1> QED BY <1>4, <1>5

\* A cell of the screen that is written.
LEMMA PutEntryText ==
    ASSUME NEW t \in Tty, NEW ch \in Characters, NEW x, NEW y
    PROVE  terminal_putentryat(t, ch, x, y).buffer = [t.buffer EXCEPT ![y * VGA_WIDTH + x] = ch]
BY DEF Tty, terminal_putentryat

\* The writer's place is on the paper while there is room.
LEMMA PlaceOnPaper ==
    ASSUME NEW p, Whole(p), Room(p)
    PROVE  /\ p.at \in DOMAIN p.cells
           /\ p.at - 1 \in Nat => p.at - 1 \in DOMAIN p.cells
<1>1. p.at \in Nat /\ DOMAIN p.cells = 0 .. MaxChars + VGA_WIDTH
    BY DEF Whole, Papers
<1> QED BY <1>1, ScreenSize, TerminalAssumption DEF Room

\* The character a program or an echo prints is on the screen and on the roll.
LEMMA EntryPrints ==
    ASSUME NEW p, Whole(p), Room(p), NEW t \in Tty, OnScreen(t), Shows(p, t),
           NEW ch \in Characters, ch \notin {LF, BS},
           NEW b, b = [t.buffer EXCEPT ![Pos(t)] = ch]
    PROVE  Cells(Rolled(p, ch), p.top, b)
<1>1. /\ p.at = p.top * VGA_WIDTH + Pos(t) /\ Pos(t) \in 0 .. Screen - 1 /\ p.top \in Nat
    BY PlaceOf DEF Shows
<1>2. Rolled(p, ch).cells = [p.cells EXCEPT ![p.top * VGA_WIDTH + Pos(t)] = ch]
    BY <1>1, CellsRolled
<1>3. p.top * VGA_WIDTH + Pos(t) \in DOMAIN p.cells
    BY <1>1, PlaceOnPaper
<1>4. t.buffer \in Buffers /\ Cells(p, p.top, t.buffer)
    BY DEF Tty, Shows
<1> QED BY <1>1, <1>2, <1>3, <1>4, CellsPut

\* terminal_putchar does on the screen what the roll does.
LEMMA PutCharPrints ==
    ASSUME NEW p, Whole(p), Room(p), NEW t \in Tty, OnScreen(t), Shows(p, t),
           NEW ch \in Characters
    PROVE  Shows(Rolled(p, ch), terminal_putchar(t, ch))
<1> DEFINE R == Rolled(p, ch)
           e == terminal_putentryat(t, ch, t.column, t.row)
           put == [e EXCEPT !.column = @ + 1]
           blanked == terminal_putentryat(Back(t), Blank, Back(t).column, Back(t).row)
<1>1. terminal_putchar(t, ch) =
         IF ch = BS THEN terminal_backspace(t)
         ELSE IF ch = LF THEN NextRow(t)
         ELSE IF put.column = VGA_WIDTH THEN NextRow(put)
         ELSE terminal_update_cursor(put)
    BY DEF terminal_putchar
<1>2. terminal_backspace(t) =
         IF t.column = 0 /\ t.row = 0 THEN t ELSE terminal_update_cursor(blanked)
    BY DEF terminal_backspace, Back
<1>3. Placed(p, t) /\ Cells(p, p.top, t.buffer) /\ t.buffer \in Buffers
    BY DEF Shows, Tty
<1>4. /\ p.at = p.top * VGA_WIDTH + Pos(t) /\ Pos(t) \in 0 .. Screen - 1
      /\ p.at \in Nat /\ p.top \in Nat
    BY <1>3, PlaceOf
<1>5. p.top * VGA_WIDTH \in Nat
    BY <1>4, Rows
<1>6. t.row \in Nat /\ t.column \in Nat /\ t.row < VGA_HEIGHT /\ t.column < VGA_WIDTH
    BY PositionNat DEF OnScreen, RowOn, ColumnOn
<1>7. Whole(R)
    BY <1>3, RolledWhole
<1>8. t.row * VGA_WIDTH \in Nat /\ Pos(t) = t.row * VGA_WIDTH + t.column
    BY <1>6, Rows DEF Pos
<1>9. CASE ch = LF
  <2>1. /\ R.at = (p.top + t.row + 1) * VGA_WIDTH
        /\ R.top = IF t.row + 1 = VGA_HEIGHT THEN p.top + 1 ELSE p.top
    BY <1>3, <1>9, NewRow
  <2>2. Cells(R, p.top, t.buffer)
    BY <1>3, <1>9, CellsRolled, SameCells
  <2> HIDE DEF R
  <2>3. Shows(R, NextRow(t))
    BY <1>4, <1>7, <2>1, <2>2, NextRowPrints DEF OnScreen
  <2> QED BY <1>1, <1>9, <2>3 DEF R, BS, LF
<1>10. CASE ch = BS /\ t.row = 0 /\ t.column = 0
  <2>1. R.at = p.at /\ R.top = p.top /\ R.cells = p.cells
    BY <1>3, <1>10, NoBack
  <2> HIDE DEF R
  <2>2. Shows(R, t)
    BY <1>3, <2>1, SameCells DEF Shows, Placed
  <2> QED BY <1>1, <1>2, <1>10, <2>2 DEF R
<1>11. CASE ch = BS /\ ~(t.row = 0 /\ t.column = 0)
  <2>1. /\ R.at = p.at - 1 /\ R.top = p.top /\ Pos(t) > 0 /\ p.at - 1 \in Nat
        /\ R.cells = [p.cells EXCEPT ![p.at - 1] = Blank]
    BY <1>3, <1>11, BackRow
  <2>2. /\ Back(t) \in Tty /\ Back(t).buffer = t.buffer
        /\ IF t.column # 0
           THEN Back(t).row = t.row /\ Back(t).column = t.column - 1
           ELSE Back(t).row = t.row - 1 /\ Back(t).column = VGA_WIDTH - 1
    BY <1>11, BackIs
  <2>3. Back(t).row * VGA_WIDTH + Back(t).column = Pos(t) - 1
    <3>1. CASE t.column # 0
      BY <1>6, <1>8, <2>2, <3>1
    <3>2. CASE t.column = 0
      <4> DEFINE n == t.row - 1
      <4>1. n \in Nat /\ t.row = n + 1
        BY <1>6, <1>11, <3>2
      <4>2. (n + 1) * VGA_WIDTH = n * VGA_WIDTH + VGA_WIDTH /\ n * VGA_WIDTH \in Nat
        BY <4>1, Rows
      <4>3. Back(t).row = n /\ Back(t).column = VGA_WIDTH - 1
        BY <2>2, <3>2
      <4> HIDE DEF n
      <4> QED BY <1>8, <3>2, <4>1, <4>2, <4>3, ScreenSize
    <3> QED BY <3>1, <3>2
  <2>a. Blank \in Characters
    BY DEF Characters
  <2>b. blanked.buffer = [Back(t).buffer EXCEPT ![Back(t).row * VGA_WIDTH + Back(t).column] = Blank]
    <3> DEFINE d == Back(t)
    <3>1. d \in Tty
      BY <2>2
    <3> HIDE DEF d
    <3>2. terminal_putentryat(d, Blank, d.column, d.row).buffer
             = [d.buffer EXCEPT ![d.row * VGA_WIDTH + d.column] = Blank]
      BY <2>a, <3>1, PutEntryText
    <3> QED BY <3>2 DEF d
  <2>4. /\ blanked \in Tty /\ blanked.row = Back(t).row /\ blanked.column = Back(t).column
    BY <2>2, <2>a, PutEntry
  <2> DEFINE n == Pos(t) - 1
  <2>5. n \in 0 .. Screen - 1 /\ p.top * VGA_WIDTH + n = p.at - 1
    BY <1>4, <1>5, <2>1, ScreenIs
  <2>6. blanked.buffer = [t.buffer EXCEPT ![n] = Blank] /\ Pos(blanked) = n
    BY <2>2, <2>3, <2>4, <2>b DEF Pos
  <2>7. R.cells = [p.cells EXCEPT ![p.top * VGA_WIDTH + n] = Blank]
        /\ p.top * VGA_WIDTH + n \in DOMAIN p.cells
    BY <2>1, <2>5, PlaceOnPaper
  <2>8. n = R.at - R.top * VGA_WIDTH
    BY <1>4, <1>5, <2>1, <2>5
  <2> HIDE DEF n, R, blanked
  <2>9. Cells(R, p.top, [t.buffer EXCEPT ![n] = Blank])
    BY <1>3, <1>4, <2>5, <2>7, CellsPut
  <2>10. Shows(R, blanked)
    BY <2>1, <2>6, <2>8, <2>9 DEF Shows, Placed
  <2>11. Shows(R, terminal_update_cursor(blanked))
    BY <2>4, <2>10, UpdateKeeps
  <2> QED BY <1>1, <1>2, <1>11, <2>11 DEF R
<1>12. CASE ch \notin {LF, BS}
  <2>a. e \in Tty /\ e.row = t.row /\ e.column = t.column
    BY PutEntry
  <2>b. e.buffer = [t.buffer EXCEPT ![t.row * VGA_WIDTH + t.column] = ch]
    BY PutEntryText
  <2>1. /\ e \in Tty /\ e.row = t.row /\ e.column = t.column
        /\ e.buffer = [t.buffer EXCEPT ![Pos(t)] = ch]
    BY <1>8, <2>a, <2>b
  <2> HIDE DEF e
  <2>2. put \in Tty /\ put.row = t.row /\ put.column = t.column + 1 /\ put.buffer = e.buffer
    BY <1>6, <2>1 DEF Tty
  <2>3. Cells(R, p.top, put.buffer)
    BY <1>12, <2>1, <2>2, EntryPrints
  <2> HIDE DEF put
  <2>4. CASE t.column + 1 = VGA_WIDTH
    <3>1. /\ R.at = (p.top + put.row + 1) * VGA_WIDTH
          /\ R.top = IF put.row + 1 = VGA_HEIGHT THEN p.top + 1 ELSE p.top
      BY <1>3, <1>12, <2>2, <2>4, NewRow
    <3>2. RowOn(put)
      BY <1>6, <2>2 DEF RowOn
    <3> HIDE DEF R
    <3>3. Shows(R, NextRow(put))
      BY <1>4, <1>7, <2>2, <2>3, <3>1, <3>2, NextRowPrints
    <3> QED BY <1>1, <1>12, <2>2, <2>4, <3>3 DEF R
  <2>5. CASE t.column + 1 # VGA_WIDTH
    <3>1. R.at = p.at + 1 /\ R.top = p.top
      BY <1>3, <1>6, <1>12, <2>5, SameRow, ScreenSize
    <3>2. Pos(put) = Pos(t) + 1
      BY <1>6, <1>8, <2>2 DEF Pos
    <3>3. Pos(put) = R.at - R.top * VGA_WIDTH
      BY <1>4, <1>5, <3>1, <3>2
    <3> HIDE DEF R
    <3>4. Shows(R, put)
      BY <2>3, <3>1, <3>3 DEF Shows, Placed
    <3>5. Shows(R, terminal_update_cursor(put))
      BY <2>2, <3>4, UpdateKeeps
    <3> QED BY <1>1, <1>12, <2>2, <2>5, <3>5 DEF R
  <2> QED BY <2>4, <2>5
<1> QED BY <1>9, <1>10, <1>11, <1>12

-----------------------------------------------------------------------------
(* The screen during a call *)

Printing == {"load", "cell", "column", "zero", "row", "scroll", "scrolled"}
Clearing == {"row0", "column0", "clear"}
Updating == {"cursor", "low", "index", "high"}

\* The roll when the call is done.
Target == Rolled(paper, c)

\* What is printed or cleared, and that there is room for it.
CallInv ==
    /\ paper # Torn => Whole(paper)
    /\ pc \in Printing => c \in {"t", LF}
    /\ pc \in Clearing => c = Blank
    /\ pc \in Updating => c \in {"t", LF, Blank}
    /\ pc \in Printing \cup Updating /\ c # Blank /\ paper # Torn => Room(paper) /\ Whole(Target)

\* How far the screen is from what it showed to what it will show: the cell, the
\* row, and each cell that the scroll has passed.
PrintInv ==
    paper # Torn =>
       /\ pc \in {"rest", "load", "cell"} => Shows(paper, tty)
       /\ pc \in {"cell", "column"} => c = "t" /\ reg.row = tty.row /\ reg.column = tty.column
       /\ pc = "column" => Placed(paper, tty)
       /\ pc \in {"column", "zero", "row"} => Cells(Target, paper.top, tty.buffer)
       /\ pc \in {"zero", "row"} =>
             /\ reg.row = tty.row
             /\ Target.at = (paper.top + tty.row + 1) * VGA_WIDTH
             /\ Target.top = IF tty.row + 1 = VGA_HEIGHT THEN paper.top + 1 ELSE paper.top
       /\ pc \in {"row", "scroll"} => tty.column = 0
       /\ pc \in {"scroll", "scrolled"} =>
             Target.at = (paper.top + VGA_HEIGHT) * VGA_WIDTH /\ Target.top = paper.top + 1
       /\ pc = "scroll" =>
             /\ reg.i <= Screen
             /\ \A j \in 0 .. Screen - 1 :
                   tty.buffer[j] =
                      IF j < reg.i THEN View(Target, paper.top + 1, j) ELSE View(Target, paper.top, j)
       /\ pc = "scrolled" =>
             tty.row = VGA_HEIGHT - 1 /\ Cells(Target, paper.top + 1, tty.buffer)
       /\ pc \in Updating /\ c # Blank => Shows(Target, tty)

\* The same for the clear command, when no key falls into it.
ClearInv ==
    ~disturbed =>
       /\ pc \in {"column0", "clear"} => tty.row = 0
       /\ pc = "clear" =>
             /\ tty.column = 0 /\ reg.i < Screen
             /\ \A j \in 0 .. Screen - 1 : j < reg.i => tty.buffer[j] = Blank
       /\ pc \in Updating /\ c = Blank => Shows(NewPaper, tty)

ScreenInv == CallInv /\ PrintInv /\ ClearInv

\* The blank roll and the blank screen.
LEMMA NewPaperShown ==
    /\ Whole(NewPaper)
    /\ \A t \in Tty : (/\ t.row = 0 /\ t.column = 0
                       /\ \A i \in 0 .. Screen - 1 : t.buffer[i] = Blank) => Shows(NewPaper, t)
<1>1. /\ NewPaper.at = 0 /\ NewPaper.top = 0
      /\ NewPaper.cells = [i \in 0 .. MaxChars + VGA_WIDTH |-> Blank]
    BY DEF NewPaper
<1>2. Blank \in Characters
    BY DEF Characters
<1>3. NewPaper \in Papers
    BY <1>2 DEF NewPaper, Papers
<1>4. Whole(NewPaper)
    BY <1>1, <1>3 DEF Whole
<1>5. ASSUME NEW t \in Tty, t.row = 0, t.column = 0,
             \A i \in 0 .. Screen - 1 : t.buffer[i] = Blank
      PROVE  Shows(NewPaper, t)
  <2>1. 0 * VGA_WIDTH = 0
    BY ScreenSize
  <2>2. Pos(t) = NewPaper.at - NewPaper.top * VGA_WIDTH
    BY <1>1, <1>5, <2>1 DEF Pos
  <2>3. \A i \in 0 .. Screen - 1 : View(NewPaper, NewPaper.top, i) = Blank
    BY <1>1 DEF View
  <2> QED BY <1>5, <2>2, <2>3 DEF Shows, Placed, Cells
<1> QED BY <1>4, <1>5

\* A call that changes neither the text nor the position shows the same.
LEMMA ShowsSame ==
    ASSUME NEW p, NEW t, NEW u, u.row = t.row, u.column = t.column, u.buffer = t.buffer
    PROVE  Shows(p, u) <=> Shows(p, t)
BY DEF Shows, Placed, Pos

\* terminal_init has cleared the screen.
LEMMA InitScreen == TerminalInit => ScreenInv
<1> SUFFICES ASSUME TerminalInit PROVE ScreenInv
    OBVIOUS
<1>1. tty \in Tty
    BY InitInv DEF TerminalInv, TerminalTypeOK
<1>2. /\ tty.row = 0 /\ tty.column = 0 /\ tty.buffer = BlankBuffer /\ pc = "rest"
      /\ paper = NewPaper
    BY DEF TerminalInit
<1>3. \A i \in 0 .. Screen - 1 : tty.buffer[i] = Blank
    BY <1>2, ScreenIs DEF BlankBuffer
<1>4. Whole(paper) /\ Shows(paper, tty)
    BY <1>1, <1>2, <1>3, NewPaperShown
<1> QED BY <1>2, <1>4 DEF ScreenInv, CallInv, PrintInv, ClearInv, Printing, Clearing, Updating

\* An echo, and what a program writes, between calls.
LEMMA PutCharScreen ==
    ASSUME TerminalInv, ScreenInv, pc = "rest", pc' = "rest", HasRoom,
           NEW ch \in Characters, tty' = terminal_putchar(tty, ch), paper' = Roll(ch)
    PROVE  ScreenInv'
<1>1. tty \in Tty /\ OnScreen(tty)
    BY DEF TerminalInv, TerminalTypeOK, OnScreen
<1>2. CASE paper = Torn
  <2>1. paper' = Torn
    BY <1>2 DEF Roll
  <2>2. Torn' = Torn
    BY DEF Torn, NewPaper
  <2> QED BY <2>1, <2>2 DEF ScreenInv, CallInv, PrintInv, ClearInv, Printing, Clearing, Updating
<1>3. CASE paper # Torn
  <2>1. Whole(paper) /\ Shows(paper, tty) /\ Room(paper) /\ Placed(paper, tty)
    BY <1>3 DEF ScreenInv, CallInv, PrintInv, HasRoom, Room, Shows
  <2>2. paper' = Rolled(paper, ch)
    BY <1>3 DEF Roll
  <2>3. Whole(paper') /\ Shows(paper', tty')
    BY <1>1, <2>1, <2>2, RolledWhole, PutCharPrints
  <2> QED BY <2>3 DEF ScreenInv, CallInv, PrintInv, ClearInv, Printing, Clearing, Updating
<1> QED BY <1>2, <1>3

\* A key echoed into a call tears the roll.
LEMMA EchoScreen == ASSUME TerminalInv, ScreenInv, Echo PROVE ScreenInv'
<1>1. PICK ch \in Characters :
         /\ tty' = terminal_putchar(tty, ch)
         /\ paper' = IF pc = "rest" THEN Roll(ch) ELSE Torn
         /\ disturbed' = (pc # "rest" \/ (disturbed /\ Ignored(ch)))
    BY DEF Echo, Characters
<1>2. pc' = pc /\ c' = c /\ HasRoom
    BY DEF Echo
<1>3. CASE pc = "rest"
    BY <1>1, <1>2, <1>3, PutCharScreen
<1>4. CASE pc # "rest"
    BY <1>1, <1>2, <1>4 DEF ScreenInv, CallInv, PrintInv, ClearInv, Torn, NewPaper
<1> QED BY <1>3, <1>4

LEMMA WriteScreen == ASSUME TerminalInv, ScreenInv, sys_write PROVE ScreenInv'
<1>1. PICK ch \in Characters : tty' = terminal_putchar(tty, ch) /\ paper' = Roll(ch)
    BY DEF sys_write, Characters
<1>2. pc = "rest" /\ pc' = "rest" /\ HasRoom
    BY DEF sys_write
<1> QED BY <1>1, <1>2, PutCharScreen

LEMMA CallScreen == ASSUME TerminalInv, ScreenInv, Call PROVE ScreenInv'
<1>1. pc = "rest" /\ tty' = tty /\ paper' = paper
    BY DEF Call
<1>2. tty \in Tty /\ OnScreen(tty)
    BY <1>1 DEF TerminalInv, TerminalTypeOK, OnScreen
<1>3. paper # Torn => Whole(paper) /\ Shows(paper, tty) /\ Placed(paper, tty)
    BY <1>1 DEF ScreenInv, CallInv, PrintInv, Shows
<1>4. CASE HasRoom /\ pc' = "load" /\ c' \in {"t", LF}
  <2>1. c' \in Characters
    BY <1>4 DEF Characters
  <2>2. paper # Torn => Room(paper) /\ Whole(Rolled(paper, c'))
    BY <1>2, <1>3, <1>4, <2>1, RolledWhole DEF HasRoom, Room
  <2> QED BY <1>1, <1>3, <1>4, <2>2 DEF ScreenInv, CallInv, PrintInv, ClearInv, Printing, Clearing, Updating,
                                       Target, Torn, NewPaper
<1>5. CASE pc' = "row0" /\ c' = Blank
    BY <1>1, <1>3, <1>5 DEF ScreenInv, CallInv, PrintInv, ClearInv, Printing, Clearing, Updating
<1> QED BY <1>4, <1>5 DEF Call

LEMMA LoadScreen == ASSUME TerminalInv, ScreenInv, Load PROVE ScreenInv'
<1>1. /\ pc = "load" /\ tty' = tty /\ paper' = paper /\ c' = c /\ disturbed' = disturbed
      /\ pc' = IF c = LF THEN "zero" ELSE "cell"
    BY DEF Load, Goto
<1>2. tty \in Tty /\ OnScreen(tty) /\ reg \in Registers
    BY <1>1 DEF TerminalInv, TerminalTypeOK, OnScreen
<1>3. reg'.row = tty.row /\ reg'.column = tty.column
    BY <1>2 DEF Load, Registers
<1>4. c \in {"t", LF} /\ Target' = Target
    BY <1>1 DEF ScreenInv, CallInv, Printing, Target
<1>5. paper # Torn => /\ Whole(paper) /\ Shows(paper, tty) /\ Placed(paper, tty)
                      /\ Cells(paper, paper.top, tty.buffer) /\ Room(paper) /\ Whole(Target)
  <2>1. c # Blank
    BY <1>4 DEF Blank, LF
  <2> QED BY <1>1, <2>1 DEF ScreenInv, CallInv, PrintInv, Shows, Printing
<1>6. CASE c = LF
  <2>1. ASSUME paper # Torn
        PROVE  /\ Target.at = (paper.top + tty.row + 1) * VGA_WIDTH
               /\ Target.top = IF tty.row + 1 = VGA_HEIGHT THEN paper.top + 1 ELSE paper.top
    BY <1>2, <1>5, <1>6, <2>1, NewRow DEF Target
  <2>2. ASSUME paper # Torn PROVE Cells(Target, paper.top, tty.buffer)
    BY <1>5, <1>6, <2>2, CellsRolled, SameCells DEF Target
  <2>3. pc' = "zero"
    BY <1>1, <1>6
  <2> QED BY <1>1, <1>3, <1>4, <1>5, <2>1, <2>2, <2>3
          DEF ScreenInv, CallInv, PrintInv, ClearInv, Printing, Clearing, Updating, Torn, NewPaper
<1>7. CASE c # LF
  <2>1. pc' = "cell" /\ c = "t"
    BY <1>1, <1>4, <1>7
  <2> QED BY <1>1, <1>3, <1>4, <1>5, <2>1
          DEF ScreenInv, CallInv, PrintInv, ClearInv, Printing, Clearing, Updating, Torn, NewPaper
<1> QED BY <1>6, <1>7

LEMMA CellScreen == ASSUME TerminalInv, ScreenInv, Cell PROVE ScreenInv'
<1>1. /\ pc = "cell" /\ pc' = "column" /\ paper' = paper /\ c' = c /\ reg' = reg
      /\ tty' = terminal_putentryat(tty, c, reg.column, reg.row)
    BY DEF Cell, Goto
<1>2. tty \in Tty /\ OnScreen(tty) /\ c \in Characters
    BY <1>1 DEF TerminalInv, TerminalTypeOK, OnScreen
<1>3. c \in {"t", LF} /\ Target' = Target /\ c # Blank
    BY <1>1 DEF ScreenInv, CallInv, Printing, Target, Blank, LF
<1>4. /\ tty'.row = tty.row /\ tty'.column = tty.column
      /\ tty'.buffer = [tty.buffer EXCEPT ![reg.row * VGA_WIDTH + reg.column] = c]
    BY <1>1, <1>2, PutEntry, PutEntryText
<1>5. ASSUME paper # Torn
      PROVE  /\ Whole(paper) /\ Shows(paper, tty) /\ Room(paper) /\ Whole(Target)
             /\ c = "t" /\ reg.row = tty.row /\ reg.column = tty.column
    BY <1>1, <1>3, <1>5 DEF ScreenInv, CallInv, PrintInv, Printing
<1>6. ASSUME paper # Torn
      PROVE  Cells(Target, paper.top, tty'.buffer) /\ Placed(paper, tty')
  <2>1. tty'.buffer = [tty.buffer EXCEPT ![Pos(tty)] = c]
    BY <1>4, <1>5, <1>6 DEF Pos
  <2>2. c \notin {LF, BS}
    BY <1>5, <1>6 DEF LF, BS
  <2>3. Cells(Target, paper.top, tty'.buffer)
    BY <1>2, <1>5, <1>6, <2>1, <2>2, EntryPrints DEF Target
  <2>4. Placed(paper, tty')
    BY <1>4, <1>5, <1>6 DEF Shows, Placed, Pos
  <2> QED BY <2>3, <2>4
<1> QED BY <1>1, <1>3, <1>4, <1>5, <1>6
        DEF ScreenInv, CallInv, PrintInv, ClearInv, Printing, Clearing, Updating, Torn, NewPaper

\* The column grows: to a new line, or to the next cell.
LEMMA ColumnScreen == ASSUME TerminalInv, ScreenInv, Column PROVE ScreenInv'
<1>1. PICK x \in {reg.column, tty.column} :
         /\ tty' = [tty EXCEPT !.column = x + 1]
         /\ Goto(IF x + 1 = VGA_WIDTH THEN "zero" ELSE "cursor")
    BY DEF Column
<1>2. pc = "column" /\ reg' = [reg EXCEPT !.updates = 1]
    BY DEF Column
<1>3. /\ pc' = (IF x + 1 = VGA_WIDTH THEN "zero" ELSE "cursor")
      /\ paper' = paper /\ c' = c /\ disturbed' = disturbed
    BY <1>1 DEF Goto
<1>4. tty \in Tty /\ OnScreen(tty) /\ reg \in Registers
    BY <1>2 DEF TerminalInv, TerminalTypeOK, OnScreen
<1>5. reg'.row = reg.row
    BY <1>2, <1>4 DEF Registers
<1>6. tty'.row = tty.row /\ tty'.column = x + 1 /\ tty'.buffer = tty.buffer
    BY <1>1, <1>4 DEF Tty
<1>7. c \in {"t", LF} /\ Target' = Target /\ c # Blank
    BY <1>2, <1>3 DEF ScreenInv, CallInv, Printing, Target, Blank, LF
<1>8. ASSUME paper # Torn
      PROVE  /\ Whole(paper) /\ Placed(paper, tty) /\ Room(paper) /\ Whole(Target)
             /\ c = "t" /\ reg.row = tty.row /\ x = tty.column
             /\ Cells(Target, paper.top, tty.buffer)
    BY <1>2, <1>7, <1>8 DEF ScreenInv, CallInv, PrintInv, Printing
<1>9. c = "t" => c \notin {LF, BS}
    BY DEF LF, BS
<1>10. CASE x + 1 = VGA_WIDTH
  <2>1. ASSUME paper # Torn
        PROVE  /\ Target.at = (paper.top + tty.row + 1) * VGA_WIDTH
               /\ Target.top = IF tty.row + 1 = VGA_HEIGHT THEN paper.top + 1 ELSE paper.top
    BY <1>4, <1>8, <1>9, <1>10, <2>1, NewRow DEF Target
  <2>2. pc' = "zero"
    BY <1>3, <1>10
  <2> QED BY <1>3, <1>5, <1>6, <1>7, <1>8, <2>1, <2>2
          DEF ScreenInv, CallInv, PrintInv, ClearInv, Printing, Clearing, Updating, Torn, NewPaper
<1>11. CASE x + 1 # VGA_WIDTH
  <2>1. ASSUME paper # Torn PROVE Shows(Target, tty')
    <3>1. tty.row \in Nat /\ tty.column \in Nat /\ tty.column < VGA_WIDTH
      BY <1>4, PositionNat DEF OnScreen, ColumnOn
    <3>2. Target.at = paper.at + 1 /\ Target.top = paper.top
      BY <1>4, <1>8, <1>9, <1>11, <2>1, <3>1, SameRow, ScreenSize DEF Target
    <3>3. paper.at = paper.top * VGA_WIDTH + Pos(tty) /\ paper.at \in Nat /\ paper.top \in Nat
      BY <1>4, <1>8, <2>1, PlaceOf
    <3>4. tty.row * VGA_WIDTH \in Nat /\ paper.top * VGA_WIDTH \in Nat
      BY <3>1, <3>3, Rows
    <3>5. Pos(tty') = Pos(tty) + 1 /\ Pos(tty) \in Nat
      BY <1>6, <1>8, <2>1, <3>1, <3>4 DEF Pos
    <3>6. Pos(tty') = Target.at - Target.top * VGA_WIDTH
      BY <3>2, <3>3, <3>4, <3>5
    <3> QED BY <1>6, <1>8, <2>1, <3>2, <3>6 DEF Shows, Placed
  <2>2. pc' = "cursor"
    BY <1>3, <1>11
  <2> QED BY <1>3, <1>7, <1>8, <2>1, <2>2
          DEF ScreenInv, CallInv, PrintInv, ClearInv, Printing, Clearing, Updating, Torn, NewPaper
<1> QED BY <1>10, <1>11

\* The column starts anew.
LEMMA ZeroScreen == ASSUME TerminalInv, ScreenInv, ZeroColumn PROVE ScreenInv'
<1>1. /\ pc = "zero" /\ pc' = "row" /\ paper' = paper /\ c' = c /\ reg' = reg
      /\ tty' = [tty EXCEPT !.column = 0]
    BY DEF ZeroColumn, Goto
<1>2. tty \in Tty
    BY DEF TerminalInv, TerminalTypeOK
<1>3. tty'.row = tty.row /\ tty'.column = 0 /\ tty'.buffer = tty.buffer
    BY <1>1, <1>2 DEF Tty
<1>4. Target' = Target
    BY <1>1 DEF Target
<1> QED BY <1>1, <1>3, <1>4
        DEF ScreenInv, CallInv, PrintInv, ClearInv, Printing, Clearing, Updating, Torn, NewPaper

\* The row grows: past the last one, to the scroll, or to the next row.
LEMMA RowScreen == ASSUME TerminalInv, ScreenInv, Row PROVE ScreenInv'
<1>1. PICK x \in {reg.row, tty.row} :
         /\ tty' = [tty EXCEPT !.row = x + 1]
         /\ IF x + 1 = VGA_HEIGHT
            THEN Goto("scroll") /\ reg' = [reg EXCEPT !.i = 0, !.updates = 2]
            ELSE Goto("cursor") /\ reg' = [reg EXCEPT !.updates = 1]
    BY DEF Row
<1>2. pc = "row"
    BY DEF Row
<1>3. /\ pc' = (IF x + 1 = VGA_HEIGHT THEN "scroll" ELSE "cursor")
      /\ paper' = paper /\ c' = c /\ disturbed' = disturbed
    BY <1>1 DEF Goto
<1>4. tty \in Tty /\ OnScreen(tty) /\ reg \in Registers
    BY <1>2 DEF TerminalInv, TerminalTypeOK, OnScreen
<1>5. tty'.row = x + 1 /\ tty'.column = tty.column /\ tty'.buffer = tty.buffer
    BY <1>1, <1>4 DEF Tty
<1>6. c \in {"t", LF} /\ Target' = Target /\ c # Blank
    BY <1>2, <1>3 DEF ScreenInv, CallInv, Printing, Target, Blank, LF
<1>7. ASSUME paper # Torn
      PROVE  /\ Whole(paper) /\ Room(paper) /\ Whole(Target) /\ x = tty.row /\ tty.column = 0
             /\ Cells(Target, paper.top, tty.buffer)
             /\ Target.at = (paper.top + tty.row + 1) * VGA_WIDTH
             /\ Target.top = IF tty.row + 1 = VGA_HEIGHT THEN paper.top + 1 ELSE paper.top
    BY <1>2, <1>6, <1>7 DEF ScreenInv, CallInv, PrintInv, Printing
<1>8. ASSUME paper # Torn PROVE paper.top \in Nat
    BY <1>7, <1>8 DEF Whole
<1>9. tty.row \in Nat
    BY <1>4, PositionNat
<1>10. CASE x + 1 = VGA_HEIGHT
  <2>1. pc' = "scroll" /\ reg'.i = 0
    BY <1>1, <1>3, <1>4, <1>10 DEF Registers
  <2>2. ASSUME paper # Torn
        PROVE  Target.at = (paper.top + VGA_HEIGHT) * VGA_WIDTH /\ Target.top = paper.top + 1
    <3>1. paper.top + tty.row + 1 = paper.top + VGA_HEIGHT
      BY <1>7, <1>8, <1>9, <1>10, <2>2
    <3> QED BY <1>7, <1>10, <2>2, <3>1
  <2>3. ASSUME paper # Torn
        PROVE  \A j \in 0 .. Screen - 1 :
                  tty'.buffer[j] =
                     IF j < reg'.i THEN View(Target, paper.top + 1, j) ELSE View(Target, paper.top, j)
    BY <1>5, <1>7, <2>1, <2>3 DEF Cells
  <2>4. reg'.i <= Screen
    BY <2>1, ScreenIs
  <2> QED BY <1>3, <1>5, <1>6, <1>7, <2>1, <2>2, <2>3, <2>4
          DEF ScreenInv, CallInv, PrintInv, ClearInv, Printing, Clearing, Updating, Torn, NewPaper
<1>11. CASE x + 1 # VGA_HEIGHT
  <2>1. ASSUME paper # Torn PROVE Shows(Target, tty')
    <3> DEFINE n == tty.row + 1
    <3>1. n \in Nat /\ paper.top + tty.row + 1 = paper.top + n
      BY <1>8, <1>9, <2>1
    <3>2. (paper.top + n) * VGA_WIDTH = paper.top * VGA_WIDTH + n * VGA_WIDTH
          /\ paper.top * VGA_WIDTH \in Nat /\ n * VGA_WIDTH \in Nat
      BY <1>8, <2>1, <3>1, Rows
    <3>3. Target.top = paper.top /\ Target.at = (paper.top + n) * VGA_WIDTH
      BY <1>7, <1>11, <2>1, <3>1
    <3>4. Pos(tty') = n * VGA_WIDTH
      BY <1>5, <1>7, <2>1, <3>2 DEF Pos
    <3> HIDE DEF n
    <3>5. Pos(tty') = Target.at - Target.top * VGA_WIDTH
      BY <3>2, <3>3, <3>4
    <3> QED BY <1>5, <1>7, <2>1, <3>3, <3>5 DEF Shows, Placed
  <2>2. pc' = "cursor"
    BY <1>3, <1>11
  <2> QED BY <1>3, <1>6, <1>7, <2>1, <2>2
          DEF ScreenInv, CallInv, PrintInv, ClearInv, Printing, Clearing, Updating, Torn, NewPaper
<1> QED BY <1>10, <1>11

\* One turn of the loops of terminal_scroll_up: the cell read has not been passed.
LEMMA ScrollScreen == ASSUME TerminalInv, ScreenInv, Scroll PROVE ScreenInv'
<1>1. /\ pc = "scroll" /\ pc' = "scroll" /\ reg.i < Screen /\ paper' = paper /\ c' = c
      /\ tty' = [tty EXCEPT !.buffer[reg.i] = ScrolledCell(tty.buffer, reg.i)]
      /\ reg' = [reg EXCEPT !.i = @ + 1]
    BY DEF Scroll, Goto
<1>2. tty \in Tty /\ reg \in Registers /\ reg.i \in Nat
    BY DEF TerminalInv, TerminalTypeOK, Registers
<1>3. /\ tty'.column = tty.column /\ tty.buffer \in Buffers
      /\ tty'.buffer = [tty.buffer EXCEPT ![reg.i] = ScrolledCell(tty.buffer, reg.i)]
    BY <1>1, <1>2 DEF Tty
<1>4. reg'.i = reg.i + 1
    BY <1>1, <1>2 DEF Registers
<1>5. c \in {"t", LF} /\ Target' = Target /\ c # Blank
    BY <1>1 DEF ScreenInv, CallInv, Printing, Target, Blank, LF
<1>6. ASSUME paper # Torn
      PROVE  /\ Whole(paper) /\ Room(paper) /\ Whole(Target) /\ tty.column = 0
             /\ Target.at = (paper.top + VGA_HEIGHT) * VGA_WIDTH /\ Target.top = paper.top + 1
             /\ \A j \in 0 .. Screen - 1 :
                   tty.buffer[j] =
                      IF j < reg.i THEN View(Target, paper.top + 1, j) ELSE View(Target, paper.top, j)
    BY <1>1, <1>5, <1>6 DEF ScreenInv, CallInv, PrintInv, Printing
<1>7. reg.i \in 0 .. Screen - 1 /\ reg.i + 1 <= Screen
    BY <1>1, <1>2, ScreenIs
<1>8. ASSUME paper # Torn
      PROVE  ScrolledCell(tty.buffer, reg.i) = View(Target, paper.top + 1, reg.i)
  <2>1. paper.top \in Nat
    BY <1>6, <1>8 DEF Whole
  <2>2. IF reg.i < Screen - VGA_WIDTH
        THEN View(Target, paper.top, reg.i + VGA_WIDTH) = View(Target, paper.top + 1, reg.i)
             /\ reg.i + VGA_WIDTH \in 0 .. Screen - 1
        ELSE View(Target, paper.top + 1, reg.i) = Blank
    BY <1>6, <1>7, <1>8, <2>1, ScrollView
  <2>3. CASE reg.i < Screen - VGA_WIDTH
    <3>1. ~(reg.i + VGA_WIDTH < reg.i)
      BY <1>2, ScreenSize
    <3>2. tty.buffer[reg.i + VGA_WIDTH] = View(Target, paper.top, reg.i + VGA_WIDTH)
      BY <1>6, <1>8, <2>2, <2>3, <3>1
    <3> QED BY <2>2, <2>3, <3>2 DEF ScrolledCell
  <2>4. CASE ~(reg.i < Screen - VGA_WIDTH)
    BY <2>2, <2>4 DEF ScrolledCell
  <2> QED BY <2>3, <2>4
<1>9. ASSUME paper # Torn, NEW j \in 0 .. Screen - 1
      PROVE  tty'.buffer[j] =
                IF j < reg'.i THEN View(Target, paper.top + 1, j) ELSE View(Target, paper.top, j)
  <2>1. j \in Memory /\ reg.i \in Memory /\ j \in Int
    BY <1>7, ScreenIs
  <2>2. CASE j = reg.i
    <3>1. tty'.buffer[j] = View(Target, paper.top + 1, j)
      BY <1>3, <1>8, <1>9, <2>1, <2>2 DEF Buffers
    <3>2. j < reg'.i
      BY <1>2, <1>4, <2>2
    <3> QED BY <3>1, <3>2
  <2>3. CASE j # reg.i
    <3>1. tty'.buffer[j] = tty.buffer[j]
      BY <1>3, <2>1, <2>3 DEF Buffers
    <3>2. j < reg'.i <=> j < reg.i
      BY <1>2, <1>4, <2>1, <2>3
    <3> QED BY <1>6, <1>9, <3>1, <3>2
  <2> QED BY <2>2, <2>3
<1> QED BY <1>1, <1>3, <1>4, <1>5, <1>6, <1>7, <1>9
        DEF ScreenInv, CallInv, PrintInv, ClearInv, Printing, Clearing, Updating, Torn, NewPaper

\* The scroll is done.
LEMMA ScrollRowScreen == ASSUME TerminalInv, ScreenInv, ScrollRow PROVE ScreenInv'
<1>1. /\ pc = "scroll" /\ pc' = "scrolled" /\ reg.i = Screen /\ paper' = paper /\ c' = c
      /\ tty' = [tty EXCEPT !.row = ScrolledRow]
    BY DEF ScrollRow, Goto
<1>2. tty \in Tty
    BY DEF TerminalInv, TerminalTypeOK
<1>3. tty'.row = VGA_HEIGHT - 1 /\ tty'.buffer = tty.buffer
    BY <1>1, <1>2 DEF Tty, ScrolledRow
<1>4. Target' = Target
    BY <1>1 DEF Target
<1>5. ASSUME paper # Torn PROVE Cells(Target, paper.top + 1, tty.buffer)
  <2>1. \A j \in 0 .. Screen - 1 : j < reg.i
    BY <1>1, ScreenIs
  <2> QED BY <1>1, <1>5, <2>1 DEF ScreenInv, PrintInv, Cells
<1> QED BY <1>1, <1>3, <1>4, <1>5
        DEF ScreenInv, CallInv, PrintInv, ClearInv, Printing, Clearing, Updating, Torn, NewPaper

\* The position after a scroll.
LEMMA ScrollColumnScreen == ASSUME TerminalInv, ScreenInv, ScrollColumn PROVE ScreenInv'
<1>1. /\ pc = "scrolled" /\ pc' = "cursor" /\ paper' = paper /\ c' = c
      /\ tty' = [tty EXCEPT !.column = 0]
    BY DEF ScrollColumn, Goto
<1>2. tty \in Tty
    BY DEF TerminalInv, TerminalTypeOK
<1>3. tty'.row = tty.row /\ tty'.column = 0 /\ tty'.buffer = tty.buffer
    BY <1>1, <1>2 DEF Tty
<1>4. c \in {"t", LF} /\ Target' = Target /\ c # Blank
    BY <1>1 DEF ScreenInv, CallInv, Printing, Target, Blank, LF
<1>5. ASSUME paper # Torn
      PROVE  /\ Whole(paper) /\ Room(paper) /\ Whole(Target) /\ tty.row = VGA_HEIGHT - 1
             /\ Target.at = (paper.top + VGA_HEIGHT) * VGA_WIDTH /\ Target.top = paper.top + 1
             /\ Cells(Target, paper.top + 1, tty.buffer)
    BY <1>1, <1>4, <1>5 DEF ScreenInv, CallInv, PrintInv, Printing
<1>6. ASSUME paper # Torn PROVE Shows(Target, tty')
  <2> DEFINE n == VGA_HEIGHT - 1
             top == paper.top + 1
  <2>1. paper.top \in Nat
    BY <1>5, <1>6 DEF Whole
  <2>2. n \in Nat /\ top \in Nat /\ top + n = paper.top + VGA_HEIGHT
    BY <2>1, ScreenSize
  <2>3. (top + n) * VGA_WIDTH = top * VGA_WIDTH + n * VGA_WIDTH
        /\ top * VGA_WIDTH \in Nat /\ n * VGA_WIDTH \in Nat
    BY <2>2, Rows
  <2>4. Target.at = (top + n) * VGA_WIDTH /\ Target.top = top
    BY <1>5, <1>6, <2>2
  <2>5. Pos(tty') = n * VGA_WIDTH
    BY <1>3, <1>5, <1>6, <2>3 DEF Pos
  <2>6. Cells(Target, top, tty'.buffer)
    BY <1>3, <1>5, <1>6
  <2> HIDE DEF n, top
  <2> QED BY <2>3, <2>4, <2>5, <2>6 DEF Shows, Placed
<1> QED BY <1>1, <1>4, <1>5, <1>6
        DEF ScreenInv, CallInv, PrintInv, ClearInv, Printing, Clearing, Updating, Torn, NewPaper

\* The clear command sets the position first.
LEMMA InitRowScreen == ASSUME TerminalInv, ScreenInv, InitRow \/ InitColumn PROVE ScreenInv'
<1>1. tty \in Tty /\ reg \in Registers
    BY DEF TerminalInv, TerminalTypeOK
<1>2. CASE InitRow
  <2>1. /\ pc = "row0" /\ pc' = "column0" /\ paper' = paper /\ c' = c /\ disturbed' = disturbed
        /\ tty' = [tty EXCEPT !.row = 0]
    BY <1>2 DEF InitRow, Goto
  <2>2. tty'.row = 0
    BY <1>1, <2>1 DEF Tty
  <2> QED BY <2>1, <2>2
          DEF ScreenInv, CallInv, PrintInv, ClearInv, Printing, Clearing, Updating, Torn, NewPaper
<1>3. CASE InitColumn
  <2>1. /\ pc = "column0" /\ pc' = "clear" /\ paper' = paper /\ c' = c /\ disturbed' = disturbed
        /\ tty' = [tty EXCEPT !.column = 0] /\ reg' = [reg EXCEPT !.i = 0, !.updates = 1]
    BY <1>3 DEF InitColumn, Goto
  <2>2. tty'.row = tty.row /\ tty'.column = 0 /\ reg'.i = 0
    BY <1>1, <2>1 DEF Tty, Registers
  <2>3. 0 < Screen /\ \A j \in 0 .. Screen - 1 : ~(j < 0)
    BY ScreenIs, ScreenSize
  <2> QED BY <2>1, <2>2, <2>3
          DEF ScreenInv, CallInv, PrintInv, ClearInv, Printing, Clearing, Updating, Torn, NewPaper
<1> QED BY <1>2, <1>3

\* It blanks the cells in order.
LEMMA ClearScreen == ASSUME TerminalInv, ScreenInv, Clear PROVE ScreenInv'
<1>1. /\ pc = "clear" /\ pc' = (IF reg.i + 1 = Screen THEN "cursor" ELSE "clear")
      /\ paper' = paper /\ c' = c /\ disturbed' = disturbed
      /\ tty' = [tty EXCEPT !.buffer[reg.i] = Blank] /\ reg' = [reg EXCEPT !.i = @ + 1]
    BY DEF Clear, Goto
<1>2. tty \in Tty /\ reg \in Registers /\ reg.i \in Nat
    BY DEF TerminalInv, TerminalTypeOK, Registers
<1>3. /\ tty'.row = tty.row /\ tty'.column = tty.column /\ tty.buffer \in Buffers
      /\ tty'.buffer = [tty.buffer EXCEPT ![reg.i] = Blank]
    BY <1>1, <1>2 DEF Tty
<1>4. reg'.i = reg.i + 1
    BY <1>1, <1>2 DEF Registers
<1>5. c = Blank
    BY <1>1 DEF ScreenInv, CallInv, Clearing
<1>6. ASSUME ~disturbed
      PROVE  /\ tty.row = 0 /\ tty.column = 0 /\ reg.i < Screen
             /\ \A j \in 0 .. Screen - 1 : j < reg.i => tty.buffer[j] = Blank
    BY <1>1, <1>6 DEF ScreenInv, ClearInv
<1>7. ASSUME ~disturbed, NEW j \in 0 .. Screen - 1, j < reg.i + 1 PROVE tty'.buffer[j] = Blank
  <2>1. j \in Memory /\ j \in Int
    BY ScreenIs
  <2>2. CASE j = reg.i
    BY <1>3, <2>1, <2>2 DEF Buffers
  <2>3. CASE j # reg.i
    <3>1. j < reg.i
      BY <1>2, <1>7, <2>1, <2>3
    <3>2. tty.buffer[j] = Blank
      BY <1>6, <1>7, <3>1
    <3> QED BY <1>3, <2>1, <2>3, <3>2 DEF Buffers
  <2> QED BY <2>2, <2>3
<1>8. CASE reg.i + 1 = Screen
  <2>1. tty' \in Tty
    BY <1>1, <1>2 DEF Characters, Tty, Buffers
  <2>2. ASSUME ~disturbed PROVE Shows(NewPaper, tty')
    <3>1. \A j \in 0 .. Screen - 1 : j < reg.i + 1
      BY <1>8, ScreenIs
    <3>2. \A j \in 0 .. Screen - 1 : tty'.buffer[j] = Blank
      BY <1>7, <2>2, <3>1
    <3>3. tty'.row = 0 /\ tty'.column = 0
      BY <1>3, <1>6, <2>2
    <3> QED BY <2>1, <3>2, <3>3, NewPaperShown
  <2>3. pc' = "cursor"
    BY <1>1, <1>8
  <2> QED BY <1>1, <1>5, <2>2, <2>3
          DEF ScreenInv, CallInv, PrintInv, ClearInv, Printing, Clearing, Updating, Torn, NewPaper
<1>9. CASE reg.i + 1 # Screen
  <2>1. pc' = "clear"
    BY <1>1, <1>9
  <2>2. ASSUME ~disturbed PROVE reg'.i < Screen
    BY <1>2, <1>4, <1>6, <1>9, <2>2, ScreenIs
  <2> QED BY <1>1, <1>3, <1>4, <1>5, <1>6, <1>7, <2>1, <2>2
          DEF ScreenInv, CallInv, PrintInv, ClearInv, Printing, Clearing, Updating, Torn, NewPaper
<1> QED BY <1>8, <1>9

\* Showing the cursor leaves the text alone.
LEMMA CursorScreen == ASSUME TerminalInv, ScreenInv, Cursor PROVE ScreenInv'
<1>1. /\ pc \in {"cursor", "low", "index"} /\ pc' \in {"low", "index", "high"}
      /\ paper' = paper /\ c' = c /\ disturbed' = disturbed
    BY DEF Cursor, Goto
<1>2. tty \in Tty
    BY DEF TerminalInv, TerminalTypeOK
<1>3. tty'.row = tty.row /\ tty'.column = tty.column /\ tty'.buffer = tty.buffer
    BY <1>2 DEF Cursor, Tty
<1>4. Target' = Target
    BY <1>1 DEF Target
<1>5. \A p : Shows(p, tty') <=> Shows(p, tty)
    BY <1>3, ShowsSame
<1>6. pc \in Updating /\ pc' \in Updating
      /\ pc' \notin Printing \cup Clearing \cup {"rest"}
    BY <1>1 DEF Printing, Clearing, Updating
<1>7. CallInv'
    BY <1>1, <1>4, <1>6 DEF ScreenInv, CallInv, Torn, NewPaper
<1>8. PrintInv'
    BY <1>1, <1>4, <1>5, <1>6 DEF ScreenInv, PrintInv, Torn, NewPaper
<1>9. ClearInv'
    BY <1>1, <1>5, <1>6 DEF ScreenInv, ClearInv, NewPaper
<1> QED BY <1>7, <1>8, <1>9 DEF ScreenInv

\* The call returns, and the roll has what it printed.
LEMMA HighScreen == ASSUME TerminalInv, ScreenInv, High PROVE ScreenInv'
<1>1. pc = "high" /\ tty' = [tty EXCEPT !.cursor[tty.index] = reg.pos \div BYTE]
    BY DEF High
<1>2. tty \in Tty
    BY DEF TerminalInv, TerminalTypeOK
<1>3. tty'.row = tty.row /\ tty'.column = tty.column /\ tty'.buffer = tty.buffer
    BY <1>1, <1>2 DEF Tty
<1>4. \A p : Shows(p, tty') <=> Shows(p, tty)
    BY <1>3, ShowsSame
<1>5. CASE reg.updates = 2
  <2>1. pc' = "cursor" /\ paper' = paper /\ c' = c /\ disturbed' = disturbed
    BY <1>5 DEF High, Goto
  <2>2. Target' = Target
    BY <2>1 DEF Target
  <2>3. pc \in Updating /\ pc' \in Updating
        /\ pc' \notin Printing \cup Clearing \cup {"rest"}
    BY <1>1, <2>1 DEF Printing, Clearing, Updating
  <2>4. CallInv'
    BY <2>1, <2>2, <2>3 DEF ScreenInv, CallInv, Torn, NewPaper
  <2>5. PrintInv'
    BY <1>4, <2>1, <2>2, <2>3 DEF ScreenInv, PrintInv, Torn, NewPaper
  <2>6. ClearInv'
    BY <1>4, <2>1, <2>3 DEF ScreenInv, ClearInv, NewPaper
  <2> QED BY <2>4, <2>5, <2>6 DEF ScreenInv
<1>6. CASE reg.updates # 2
  <2>1. /\ pc' = "rest"
        /\ paper' = IF disturbed THEN Torn ELSE IF c = Blank THEN NewPaper ELSE Roll(c)
    BY <1>6 DEF High
  <2>2. ASSUME paper' # Torn PROVE Whole(paper') /\ Shows(paper', tty)
    <3>1. CASE c = Blank
      BY <1>1, <2>1, <2>2, <3>1, NewPaperShown DEF ScreenInv, ClearInv, Updating
    <3>2. CASE c # Blank
      <4>1. paper # Torn /\ paper' = Target
        BY <2>1, <2>2, <3>2 DEF Roll, Target
      <4> QED BY <1>1, <3>2, <4>1 DEF ScreenInv, CallInv, PrintInv, Updating
    <3> QED BY <3>1, <3>2
  <2>3. Torn' = Torn
    BY DEF Torn, NewPaper
  <2> QED BY <1>4, <2>1, <2>2, <2>3
          DEF ScreenInv, CallInv, PrintInv, ClearInv, Printing, Clearing, Updating
<1> QED BY <1>5, <1>6

\* Every access of a call, and every key echoed between two, keeps it.
LEMMA StepScreen == TerminalInv /\ ScreenInv /\ [TerminalNext]_terminalVars => ScreenInv'
<1> SUFFICES ASSUME TerminalInv, ScreenInv, [TerminalNext]_terminalVars PROVE ScreenInv'
    OBVIOUS
<1>1. CASE UNCHANGED terminalVars
  <2>1. tty' = tty /\ pc' = pc /\ c' = c /\ reg' = reg /\ disturbed' = disturbed /\ paper' = paper
    BY <1>1 DEF terminalVars
  <2>2. Target' = Target
    BY <2>1 DEF Target
  <2>3. CallInv'
    BY <2>1, <2>2 DEF ScreenInv, CallInv, Torn, NewPaper
  <2>4. PrintInv'
    BY <2>1, <2>2 DEF ScreenInv, PrintInv, Torn, NewPaper
  <2>5. ClearInv'
    BY <2>1 DEF ScreenInv, ClearInv, NewPaper
  <2> QED BY <2>3, <2>4, <2>5 DEF ScreenInv
<1>2. CASE TerminalNext
    BY <1>2, EchoScreen, WriteScreen, CallScreen, LoadScreen, CellScreen, ColumnScreen,
       ZeroScreen, RowScreen, ScrollScreen, ScrollRowScreen, ScrollColumnScreen,
       InitRowScreen, ClearScreen, CursorScreen, HighScreen DEF TerminalNext, Step
<1> QED BY <1>1, <1>2

\* The inductive invariant of the text: between the accesses of a call the screen
\* is on its way from the rows it showed to the rows it will show.
THEOREM ScreenInvariant == TerminalSpec => [](TerminalInv /\ ScreenInv)
BY InitInv, StepInv, InitScreen, StepScreen, PTL DEF TerminalSpec

\* Until a key falls into a call, the screen shows the last rows of all that was
\* printed and echoed since it was cleared: the wraps and scrolls of terminal_putchar
\* lose no character and keep none twice, whatever the size of the screen.
THEOREM ScreenShows == TerminalSpec => []ScreenShowsText
<1>1. ScreenInv => ScreenShowsText
    BY DEF ScreenInv, PrintInv, ScreenShowsText, Shows, Placed, Cells, View
<1> QED BY <1>1, ScreenInvariant, PTL
=============================================================================

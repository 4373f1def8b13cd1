------------------------------ MODULE Terminal ------------------------------
(***************************************************************************)
(* The VGA text terminal, src/vga.c: a screen of characters and a cursor.  *)
(* Cells are numbered as in terminal_buffer, row after row.  Colours are   *)
(* left out.  So are '\r' and '\t': the one writer of '\r' is the boot     *)
(* animation, which clears the screen before anything is read, and nothing *)
(* writes a tab.                                                           *)
(***************************************************************************)
EXTENDS Naturals

CONSTANTS
  VGA_WIDTH, VGA_HEIGHT,
  Chars,             \* what a cell can hold
  Space, NewLine     \* ' ' and '\n'

ASSUME ScreenAssumption ==
  /\ VGA_WIDTH \in Nat \ {0} /\ VGA_HEIGHT \in Nat \ {0}
  /\ Space \in Chars /\ NewLine \notin Chars

Cells == 0..(VGA_WIDTH * VGA_HEIGHT - 1)
LastRow == VGA_WIDTH * (VGA_HEIGHT - 1)   \* its first cell

Screen ==
  [cells : [Cells -> Chars], row : 0..(VGA_HEIGHT - 1), column : 0..(VGA_WIDTH - 1)]

\* The cell under the cursor, as terminal_update_cursor tells the hardware.
Position(s) == s.row * VGA_WIDTH + s.column

At(cells, row, column) == [cells |-> cells, row |-> row, column |-> column]

terminal_clear == At([p \in Cells |-> Space], 0, 0)

terminal_putentryat(s, c, p) == [s.cells EXCEPT ![p] = c]

terminal_scroll(s) ==
  At([p \in Cells |-> IF p < LastRow THEN s.cells[p + VGA_WIDTH] ELSE Space],
     IF s.row > 0 THEN s.row - 1 ELSE s.row,
     s.column)

NextRow(s) ==
  LET below == At(s.cells, s.row + 1, 0) IN
  IF below.row >= VGA_HEIGHT THEN terminal_scroll(below) ELSE below

\* Defective variant: the end of a row is not tested for the end of the screen.
terminal_putchar_NoScroll(s, c) ==
  LET put == At(terminal_putentryat(s, c, Position(s)), s.row, s.column + 1) IN
  IF c = NewLine THEN NextRow(s)
  ELSE IF put.column >= VGA_WIDTH THEN At(put.cells, s.row + 1, 0)
  ELSE put

terminal_putchar(s, c) ==
  LET put == At(terminal_putentryat(s, c, Position(s)), s.row, s.column + 1) IN
  IF c = NewLine THEN NextRow(s)
  ELSE IF put.column >= VGA_WIDTH THEN NextRow(put)
  ELSE put

\* Defective variant: nothing to erase at the left margin.
terminal_backspace_StopsAtMargin(s) ==
  IF s.column = 0 THEN s
  ELSE At(terminal_putentryat(s, Space, Position(s) - 1), s.row, s.column - 1)

\* The character before the cursor is erased, over the end of a row too.
terminal_backspace(s) ==
  LET cells == terminal_putentryat(s, Space, Position(s) - 1) IN
  IF s.column > 0 THEN At(cells, s.row, s.column - 1)
  ELSE IF s.row > 0 THEN At(cells, s.row - 1, VGA_WIDTH - 1)
  ELSE s
=============================================================================

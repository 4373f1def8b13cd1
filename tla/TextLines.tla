----------------------------- MODULE TextLines -----------------------------
(***************************************************************************)
(* The text of a RAM file and what the keys of an editor do to it.  The    *)
(* kernel has two editors, cmd_edit in src/shell.c and Code Studio in      *)
(* src/gui.c; their cursor and line operations are the same and are here.  *)
(*                                                                         *)
(* A text is a sequence of lines.  An edit is a record of the text, the    *)
(* cursor cy, cx, counted from 0 as in the code, and the modified flag.    *)
(***************************************************************************)
EXTENDS Naturals, Sequences

CONSTANTS
  Chars,           \* the characters that can be typed
  EDIT_LINES_MAX,  \* lines of a file
  EDIT_LINE_MAX,   \* bytes of a line, with the one that ends it
  NewLine          \* what separates lines in the user's view of a file

ASSUME LimitsAssumption ==
  EDIT_LINES_MAX \in Nat \ {0} /\ EDIT_LINE_MAX \in Nat \ {0}

Line == {l \in Seq(Chars) : Len(l) < EDIT_LINE_MAX}
Text == {t \in Seq(Line) : Len(t) \in 1..EDIT_LINES_MAX}
EmptyText == << << >> >>

MoveKeys == {"UP", "DOWN", "LEFT", "RIGHT", "HOME", "END"}
EditKeys == {"ENTER", "BS", "DELETE"}

Edit == [text : Text, cy : Nat, cx : Nat, dirty : BOOLEAN]

\* The cursor is on a line of the text, on a character of it or behind its last.
OnText(e) == e.cy < Len(e.text) /\ e.cx <= Len(e.text[e.cy + 1])

LineAt(e) == e.text[e.cy + 1]
AtMost(n, limit) == IF n > limit THEN limit ELSE n

\* The cursor back on the text, after the text under it has changed.
Clamp(e) ==
  LET cy == AtMost(e.cy, Len(e.text) - 1) IN
  [e EXCEPT !.cy = cy, !.cx = AtMost(@, Len(e.text[cy + 1]))]

\* Defective variant: the place just behind the view counts as inside.
ScrolledLate(first, place, size) ==
  IF place < first THEN place
  ELSE IF place > first + size THEN place - size + 1
  ELSE first

\* First row and column of a view of rows by cols that has the cursor in it.
Scrolled(first, place, size) ==
  IF place < first THEN place
  ELSE IF place >= first + size THEN place - size + 1
  ELSE first

-----------------------------------------------------------------------------
(* Keys that move the cursor.                                              *)

Up(e) == IF e.cy > 0 THEN [e EXCEPT !.cy = @ - 1] ELSE e
Down(e) == IF e.cy + 1 < Len(e.text) THEN [e EXCEPT !.cy = @ + 1] ELSE e

Left(e) ==
  IF e.cx > 0 THEN [e EXCEPT !.cx = @ - 1]
  ELSE IF e.cy > 0 THEN [e EXCEPT !.cy = @ - 1, !.cx = Len(e.text[e.cy])]
  ELSE e

Right(e) ==
  IF e.cx < Len(LineAt(e)) THEN [e EXCEPT !.cx = @ + 1]
  ELSE IF e.cy + 1 < Len(e.text) THEN [e EXCEPT !.cy = @ + 1, !.cx = 0]
  ELSE e

Moved(e, key) ==
  CASE key = "UP"    -> Up(e)
    [] key = "DOWN"  -> Down(e)
    [] key = "LEFT"  -> Left(e)
    [] key = "RIGHT" -> Right(e)
    [] key = "HOME"  -> [e EXCEPT !.cx = 0]
    [] key = "END"   -> [e EXCEPT !.cx = Len(LineAt(e))]

-----------------------------------------------------------------------------
(* Keys that change the text.                                              *)

\* Defective variant: the byte that ends the line is forgotten.
WithCharNoEnd(line, pos, c) ==
  IF Len(line) >= EDIT_LINE_MAX THEN line
  ELSE SubSeq(line, 1, pos) \o <<c>> \o SubSeq(line, pos + 1, Len(line))

WithChar(line, pos, c) ==
  IF Len(line) >= EDIT_LINE_MAX - 1 THEN line
  ELSE SubSeq(line, 1, pos) \o <<c>> \o SubSeq(line, pos + 1, Len(line))

WithoutChar(line, pos) == SubSeq(line, 1, pos) \o SubSeq(line, pos + 2, Len(line))

WithLine(e, line) == [e EXCEPT !.text[e.cy + 1] = line, !.dirty = TRUE]

\* The line is cut at the cursor; the lines below go down by one.
Split(e) ==
  LET line == LineAt(e) IN
  IF Len(e.text) < EDIT_LINES_MAX
  THEN [text |-> SubSeq(e.text, 1, e.cy)
                   \o <<SubSeq(line, 1, e.cx), SubSeq(line, e.cx + 1, Len(line))>>
                   \o SubSeq(e.text, e.cy + 2, Len(e.text)),
        cy |-> e.cy + 1, cx |-> 0, dirty |-> TRUE]
  ELSE e

\* Defective variant: the byte that ends the line is forgotten.
JoinsNoEnd(text, y) == Len(text[y + 1]) + Len(text[y + 2]) <= EDIT_LINE_MAX

\* Line y and the one below it, counted from 0, as one; the lines below go up.
Joins(text, y) == Len(text[y + 1]) + Len(text[y + 2]) < EDIT_LINE_MAX
Join(text, y) ==
  SubSeq(text, 1, y) \o <<text[y + 1] \o text[y + 2]>> \o SubSeq(text, y + 3, Len(text))

Backspace(e) ==
  IF e.cx > 0
  THEN [WithLine(e, WithoutChar(LineAt(e), e.cx - 1)) EXCEPT !.cx = @ - 1]
  ELSE IF e.cy > 0 /\ Joins(e.text, e.cy - 1)
  THEN [text |-> Join(e.text, e.cy - 1),
        cy |-> e.cy - 1, cx |-> Len(e.text[e.cy]), dirty |-> TRUE]
  ELSE e

Delete(e) ==
  IF e.cx < Len(LineAt(e)) THEN WithLine(e, WithoutChar(LineAt(e), e.cx))
  ELSE IF e.cy + 1 < Len(e.text) /\ Joins(e.text, e.cy)
  THEN [e EXCEPT !.text = Join(e.text, e.cy), !.dirty = TRUE]
  ELSE e

\* A character marks the file and moves the cursor, fit it or not.
CharTyped(e, c) == [WithLine(e, WithChar(LineAt(e), e.cx, c)) EXCEPT !.cx = @ + 1]

\* The edit after a key that is not a character.
AfterControl(e, key) ==
  CASE key \in MoveKeys -> Moved(e, key)
    [] key = "ENTER"    -> Split(e)
    [] key = "BS"       -> Backspace(e)
    [] key = "DELETE"   -> Delete(e)

\* The edit after a key; the cursor is on the text.
AfterKey(e, key) == IF key \in Chars THEN CharTyped(e, key) ELSE AfterControl(e, key)

-----------------------------------------------------------------------------
(* The user's view of a file.                                              *)

FT == INSTANCE FlatText
=============================================================================

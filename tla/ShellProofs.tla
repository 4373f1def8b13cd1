---------------------------- MODULE ShellProofs ----------------------------
(***************************************************************************)
(* Theorems about the text shell and its terminal, for every screen, every *)
(* prompt and every limit: the cursor and all the lists keep to their      *)
(* arrays, what is typed is what is shown, and the todo list is a list of  *)
(* tasks.                                                                  *)
(***************************************************************************)
EXTENDS Shell, SequenceTheorems, FiniteSetTheorems, FunctionTheorems,
        WellFoundedInduction, TLAPS

\* A part of a sequence.
LEMMA Part ==
  ASSUME NEW S, NEW s \in Seq(S), NEW m \in Nat \ {0}, NEW n \in 0..Len(s)
  PROVE  /\ SubSeq(s, m, n) \in Seq(S)
         /\ Len(SubSeq(s, m, n)) = IF m <= n THEN n - m + 1 ELSE 0
         /\ \A i \in 1..n - m + 1 : SubSeq(s, m, n)[i] = s[m + i - 1]
<1>1. m \in Int /\ n \in Int /\ Len(s) \in Nat
  BY LenProperties
<1>2. \A i \in m..n : s[i] \in S
  BY <1>1, ElementOfSeq
<1>. QED BY <1>1, <1>2, SubSeqProperties

-----------------------------------------------------------------------------
(* The screen as a row of cells.                                           *)

\* Cells are numbered row by row without a gap.
LEMMA Rows ==
  ASSUME NEW w \in Nat \ {0}, NEW h \in Nat \ {0}, NEW r \in 0..h
  PROVE  /\ w * h = w * (h - 1) + w
         /\ (r + 1) * w = r * w + w
         /\ r = h - 1 => r * w = w * (h - 1)
         /\ r <= h - 1 => r * w <= w * (h - 1)
         /\ r >= 1 => (r - 1) * w = r * w - w
         /\ r >= 1 => r * w >= w
         /\ r * w \in Nat /\ w * h \in Nat /\ w * (h - 1) \in Nat
<1>1. \A x, y, z \in Int : (x + y) * z = x * z + y * z /\ x * y = y * x
  OBVIOUS
<1>2. \A x, y \in Nat : x * y \in Nat
  OBVIOUS
<1>3. \A x, y, z \in Nat : x <= y => x * z <= y * z
  <2>. TAKE x, y, z \in Nat
  <2>. HAVE x <= y
  <2>1. y - x \in Nat /\ y = x + (y - x)
    OBVIOUS
  <2>2. y * z = x * z + (y - x) * z
    BY <1>1, <2>1
  <2>3. (y - x) * z \in Nat /\ x * z \in Nat
    BY <1>2, <2>1
  <2>. QED BY <2>2, <2>3
<1>4. w * h = w * (h - 1) + w
  <2>1. h = (h - 1) + 1 /\ h - 1 \in Int /\ h \in Int /\ w \in Int
    OBVIOUS
  <2>2. ((h - 1) + 1) * w = (h - 1) * w + 1 * w
    BY <1>1, <2>1
  <2>3. h * w = w * h /\ (h - 1) * w = w * (h - 1) /\ 1 * w = w
    BY <1>1, <2>1
  <2>. QED BY <2>1, <2>2, <2>3
<1>5. (r + 1) * w = r * w + w
  <2>1. (r + 1) * w = r * w + 1 * w
    BY <1>1
  <2>. QED BY <2>1
<1>6. r = h - 1 => r * w = w * (h - 1)
  BY <1>1
<1>7. r <= h - 1 => r * w <= w * (h - 1)
  BY <1>1, <1>3
<1>8. r >= 1 => (r - 1) * w = r * w - w /\ r * w >= w
  <2>. HAVE r >= 1
  <2>1. r - 1 \in Nat /\ r = (r - 1) + 1
    OBVIOUS
  <2>2. ((r - 1) + 1) * w = (r - 1) * w + 1 * w
    BY <1>1, <2>1
  <2>3. r * w = (r - 1) * w + w
    BY <2>1, <2>2
  <2>4. (r - 1) * w \in Nat
    BY <1>2, <2>1
  <2>. QED BY <2>3, <2>4
<1>9. r * w \in Nat /\ w * h \in Nat /\ w * (h - 1) \in Nat
  BY <1>2
<1>. QED BY <1>4, <1>5, <1>6, <1>7, <1>8, <1>9

\* The number of the cell under the cursor.
LEMMA CursorCell ==
  ASSUME NEW s \in Screen
  PROVE  /\ Position(s) \in Cells /\ Position(s) < s.row * VGA_WIDTH + VGA_WIDTH
         /\ s.row * VGA_WIDTH <= LastRow
         /\ LastRow \in Nat /\ VGA_WIDTH * VGA_HEIGHT = LastRow + VGA_WIDTH
<1>1. s.row \in 0..VGA_HEIGHT - 1 /\ s.column \in 0..VGA_WIDTH - 1
  BY DEF Screen
<1>2. /\ VGA_WIDTH * VGA_HEIGHT = LastRow + VGA_WIDTH
      /\ s.row * VGA_WIDTH <= LastRow
      /\ s.row * VGA_WIDTH \in Nat /\ LastRow \in Nat
  BY <1>1, Rows, ScreenAssumption DEF LastRow
<1>3. Position(s) \in 0..VGA_WIDTH * VGA_HEIGHT - 1
  BY <1>1, <1>2, ScreenAssumption DEF Position
<1>. QED BY <1>1, <1>2, <1>3, ScreenAssumption DEF Cells, Position

\* Every cell of t is the one k places further on of s.
MovedUp(t, s, k) ==
  \A p \in Cells : t.cells[p] = IF p + k \in Cells THEN s.cells[p + k] ELSE Space

\* The rows move up when the cursor leaves the last one, and it stays in that.
LEMMA RowEnded ==
  ASSUME NEW cells \in [Cells -> Chars], NEW r \in 0..VGA_HEIGHT - 1, NEW col
  PROVE  LET s == At(cells, r, col)
             t == NextRow(s)
         IN /\ t \in Screen
            /\ \E k \in {0, VGA_WIDTH} :
                 /\ MovedUp(t, s, k)
                 /\ Position(t) = r * VGA_WIDTH + VGA_WIDTH - k
                 /\ k = VGA_WIDTH => Position(t) = LastRow
<1>. DEFINE s == At(cells, r, col)
            t == NextRow(s)
            b == At(cells, r + 1, 0)
<1>1. t = IF r + 1 >= VGA_HEIGHT THEN terminal_scroll(b) ELSE b
  BY DEF NextRow, At
<1>2. VGA_WIDTH \in Nat \ {0} /\ VGA_HEIGHT \in Nat \ {0} /\ Space \in Chars
  BY ScreenAssumption
<1>3. /\ VGA_WIDTH * VGA_HEIGHT = LastRow + VGA_WIDTH
      /\ (r + 1) * VGA_WIDTH = r * VGA_WIDTH + VGA_WIDTH
      /\ r = VGA_HEIGHT - 1 => r * VGA_WIDTH = LastRow
      /\ r * VGA_WIDTH \in Nat /\ LastRow \in Nat
  BY <1>2, Rows DEF LastRow
<1>4. CASE r + 1 < VGA_HEIGHT
  <2>1. t = b
    BY <1>1, <1>2, <1>4
  <2>2. b \in Screen
    BY <1>2, <1>4 DEF Screen, At
  <2>3. MovedUp(b, s, 0)
    BY DEF MovedUp, Cells, At
  <2>4. Position(b) = r * VGA_WIDTH + VGA_WIDTH - 0
    BY <1>2, <1>3 DEF Position, At
  <2>. QED BY <2>1, <2>2, <2>3, <2>4, <1>2
<1>5. CASE r + 1 = VGA_HEIGHT
  <2>. DEFINE up == [p \in Cells |-> IF p < LastRow THEN cells[p + VGA_WIDTH] ELSE Space]
              u == At(up, r, 0)
  <2>1. t = u
    BY <1>1, <1>2, <1>5 DEF terminal_scroll, At
  <2>2. \A p \in Cells : p < LastRow <=> p + VGA_WIDTH \in Cells
    BY <1>2, <1>3 DEF Cells
  <2>3. up \in [Cells -> Chars]
    BY <2>2, <1>2
  <2>4. u \in Screen
    BY <1>2, <2>3 DEF Screen, At
  <2>5. MovedUp(u, s, VGA_WIDTH)
    BY <2>2 DEF MovedUp, At
  <2>6. Position(u) = LastRow /\ LastRow = r * VGA_WIDTH + VGA_WIDTH - VGA_WIDTH
    BY <1>2, <1>3, <1>5 DEF Position, At
  <2>. QED BY <2>1, <2>4, <2>5, <2>6
<1>. QED BY <1>2, <1>4, <1>5

\* A character goes into the cell under the cursor, which moves to the next one.
LEMMA CharPut ==
  ASSUME NEW s \in Screen, NEW c \in Chars
  PROVE  LET t == terminal_putchar(s, c) IN
         /\ t \in Screen
         /\ \E k \in {0, VGA_WIDTH} :
              /\ \A p \in Cells :
                   t.cells[p] = IF p + k \notin Cells THEN Space
                                ELSE IF p + k = Position(s) THEN c ELSE s.cells[p + k]
              /\ Position(t) = Position(s) + 1 - k
              /\ k = VGA_WIDTH => Position(t) = LastRow
<1>. DEFINE t == terminal_putchar(s, c)
            cells == terminal_putentryat(s, c, Position(s))
            put == At(cells, s.row, s.column + 1)
<1>1. /\ s.cells \in [Cells -> Chars]
      /\ s.row \in 0..VGA_HEIGHT - 1 /\ s.column \in 0..VGA_WIDTH - 1
  BY DEF Screen
<1>2. Position(s) \in Cells
  BY CursorCell
<1>3. /\ cells \in [Cells -> Chars]
      /\ \A p \in Cells : cells[p] = IF p = Position(s) THEN c ELSE s.cells[p]
  BY <1>1, <1>2 DEF terminal_putentryat
<1>4. t = IF s.column + 1 >= VGA_WIDTH THEN NextRow(put) ELSE put
  <2>1. c # NewLine
    BY ScreenAssumption
  <2>. QED BY <2>1 DEF terminal_putchar, At
<1>5. /\ VGA_WIDTH \in Nat \ {0} /\ VGA_HEIGHT \in Nat \ {0}
      /\ s.row * VGA_WIDTH \in Nat
  BY <1>1, ScreenAssumption
<1>. HIDE DEF cells, t
<1>6. CASE s.column + 1 < VGA_WIDTH
  <2>1. t = put
    BY <1>1, <1>4, <1>5, <1>6
  <2>2. put \in Screen
    BY <1>1, <1>3, <1>5, <1>6 DEF Screen, At
  <2>3. Position(put) = Position(s) + 1 - 0
    BY <1>1, <1>5 DEF Position, At
  <2>4. \A p \in Cells : p + 0 \in Cells /\ p + 0 = p /\ put.cells = cells
    BY DEF Cells, At
  <2>. QED BY <1>3, <1>5, <2>1, <2>2, <2>3, <2>4 DEF t
<1>7. CASE s.column + 1 = VGA_WIDTH
  <2>1. t = NextRow(put)
    BY <1>1, <1>4, <1>5, <1>7
  <2>2. PICK k \in {0, VGA_WIDTH} :
          /\ t \in Screen /\ MovedUp(t, put, k)
          /\ Position(t) = s.row * VGA_WIDTH + VGA_WIDTH - k
          /\ k = VGA_WIDTH => Position(t) = LastRow
    BY <1>1, <1>3, <2>1, RowEnded
  <2>3. s.row * VGA_WIDTH + VGA_WIDTH - k = Position(s) + 1 - k
    BY <1>1, <1>5, <1>7 DEF Position
  <2>4. \A p \in Cells :
          t.cells[p] = IF p + k \notin Cells THEN Space
                       ELSE IF p + k = Position(s) THEN c ELSE s.cells[p + k]
    <3>1. put.cells = cells
      BY DEF At
    <3>. QED BY <1>3, <2>2, <3>1 DEF MovedUp
  <2>. QED BY <2>2, <2>3, <2>4 DEF t
<1>. QED BY <1>1, <1>5, <1>6, <1>7

\* A line end writes nothing; the cursor goes on to the next row.
LEMMA LineEnded ==
  ASSUME NEW s \in Screen
  PROVE  LET t == terminal_putchar(s, NewLine) IN
         /\ t \in Screen
         /\ \E k \in {0, VGA_WIDTH} : MovedUp(t, s, k) /\ Position(t) >= Position(s) + 1 - k
<1>. DEFINE t == terminal_putchar(s, NewLine)
<1>1. /\ s.cells \in [Cells -> Chars]
      /\ s.row \in 0..VGA_HEIGHT - 1 /\ s.column \in 0..VGA_WIDTH - 1
      /\ s = At(s.cells, s.row, s.column)
  BY DEF Screen, At
<1>2. t = NextRow(s)
  BY DEF terminal_putchar
<1>. HIDE DEF t
<1>3. PICK k \in {0, VGA_WIDTH} :
        /\ t \in Screen /\ MovedUp(t, s, k)
        /\ Position(t) = s.row * VGA_WIDTH + VGA_WIDTH - k
  BY <1>1, <1>2, RowEnded
<1>4. s.row * VGA_WIDTH + VGA_WIDTH - k >= Position(s) + 1 - k
  BY <1>1, ScreenAssumption DEF Position
<1>. QED BY <1>3, <1>4 DEF t

\* Erasing blanks the cell before the cursor, which moves there.
LEMMA CharErased ==
  ASSUME NEW s \in Screen
  PROVE  LET t == terminal_backspace(s) IN
         /\ t \in Screen
         /\ Position(s) > 0 =>
              /\ Position(t) = Position(s) - 1
              /\ \A p \in Cells :
                   t.cells[p] = IF p = Position(s) - 1 THEN Space ELSE s.cells[p]
<1>. DEFINE t == terminal_backspace(s)
            cells == terminal_putentryat(s, Space, Position(s) - 1)
<1>1. /\ s.cells \in [Cells -> Chars]
      /\ s.row \in 0..VGA_HEIGHT - 1 /\ s.column \in 0..VGA_WIDTH - 1
      /\ Position(s) \in Cells
  BY CursorCell DEF Screen
<1>2. VGA_WIDTH \in Nat \ {0} /\ VGA_HEIGHT \in Nat \ {0} /\ Space \in Chars
  BY ScreenAssumption
<1>3. /\ s.row * VGA_WIDTH \in Nat
      /\ s.row >= 1 => (s.row - 1) * VGA_WIDTH = s.row * VGA_WIDTH - VGA_WIDTH
      /\ s.row = 0 => s.row * VGA_WIDTH = 0
      /\ s.row >= 1 => s.row * VGA_WIDTH >= VGA_WIDTH
  BY <1>1, <1>2, Rows
<1>4. /\ cells \in [Cells -> Chars]
      /\ \A p \in Cells : cells[p] = IF p = Position(s) - 1 THEN Space ELSE s.cells[p]
  BY <1>1, <1>2 DEF terminal_putentryat
<1>5. t = IF s.column > 0 THEN At(cells, s.row, s.column - 1)
          ELSE IF s.row > 0 THEN At(cells, s.row - 1, VGA_WIDTH - 1) ELSE s
  BY DEF terminal_backspace
<1>. HIDE DEF cells, t
<1>6. CASE s.column > 0
  <2>1. t = At(cells, s.row, s.column - 1)
    BY <1>5, <1>6
  <2>2. At(cells, s.row, s.column - 1) \in Screen
    BY <1>1, <1>2, <1>4, <1>6 DEF Screen, At
  <2>3. Position(At(cells, s.row, s.column - 1)) = Position(s) - 1
    BY <1>1, <1>2, <1>3 DEF Position, At
  <2>4. At(cells, s.row, s.column - 1).cells = cells
    BY DEF At
  <2>. QED BY <1>4, <2>1, <2>2, <2>3, <2>4 DEF t
<1>7. CASE s.column = 0 /\ s.row > 0
  <2>1. t = At(cells, s.row - 1, VGA_WIDTH - 1)
    BY <1>5, <1>7
  <2>2. At(cells, s.row - 1, VGA_WIDTH - 1) \in Screen
    BY <1>1, <1>2, <1>4, <1>7 DEF Screen, At
  <2>3. Position(At(cells, s.row - 1, VGA_WIDTH - 1)) = Position(s) - 1
    BY <1>1, <1>2, <1>3, <1>7 DEF Position, At
  <2>4. At(cells, s.row - 1, VGA_WIDTH - 1).cells = cells
    BY DEF At
  <2>. QED BY <1>4, <2>1, <2>2, <2>3, <2>4 DEF t
<1>8. CASE s.column = 0 /\ s.row = 0
  <2>1. t = s /\ Position(s) = 0
    BY <1>2, <1>3, <1>5, <1>8 DEF Position
  <2>. QED BY <2>1 DEF t
<1>. QED BY <1>1, <1>6, <1>7, <1>8

-----------------------------------------------------------------------------
(* What stands on the screen.                                              *)

\* A written character stands before the cursor, after what stood there.
LEMMA PutShows ==
  ASSUME NEW s \in Screen, NEW c \in Chars, NEW text \in Seq(Chars)
  PROVE  LET t == terminal_putchar(s, c) IN
         /\ BlankBehind(s) => BlankBehind(t)
         /\ StandsBefore(s, text) /\ Len(text) < LastRow
              => StandsBefore(t, Append(text, c))
<1>. DEFINE t == terminal_putchar(s, c)
<1>1. PICK k \in {0, VGA_WIDTH} :
        /\ \A p \in Cells :
             t.cells[p] = IF p + k \notin Cells THEN Space
                          ELSE IF p + k = Position(s) THEN c ELSE s.cells[p + k]
        /\ Position(t) = Position(s) + 1 - k
        /\ k = VGA_WIDTH => Position(t) = LastRow
  BY CharPut
<1>2. t \in Screen
  BY CharPut
<1>3. /\ Position(s) \in Cells /\ Position(t) \in Cells
      /\ k \in Nat /\ LastRow \in Nat /\ VGA_WIDTH * VGA_HEIGHT \in Nat
  BY <1>2, CursorCell, ScreenAssumption
<1>. HIDE DEF t
<1>4. BlankBehind(s) => BlankBehind(t)
  <2>. SUFFICES ASSUME BlankBehind(s), NEW p \in Cells, p >= Position(t)
                PROVE  t.cells[p] = Space
    BY DEF BlankBehind
  <2>1. p + k > Position(s)
    BY <1>1, <1>3 DEF Cells
  <2>2. p + k \in Cells => s.cells[p + k] = Space
    BY <1>3, <2>1 DEF BlankBehind, Cells
  <2>3. p + k # Position(s)
    BY <1>3, <2>1 DEF Cells
  <2>. QED BY <1>1, <2>2, <2>3
<1>5. ASSUME StandsBefore(s, text), Len(text) < LastRow
      PROVE  StandsBefore(t, Append(text, c))
  <2>. DEFINE n == Len(text)
  <2>1. /\ n \in Nat /\ Len(Append(text, c)) = n + 1
        /\ \A i \in 1..n : Append(text, c)[i] = text[i]
        /\ Append(text, c)[n + 1] = c
    OBVIOUS
  <2>2. n <= Position(s) /\ \A i \in 1..n : s.cells[Position(s) - n + i - 1] = text[i]
    BY <1>5 DEF StandsBefore
  <2>3. n + 1 <= Position(t)
    BY <1>1, <1>3, <1>5, <2>1, <2>2 DEF Cells
  <2>4. ASSUME NEW i \in 1..n + 1
        PROVE  t.cells[Position(t) - (n + 1) + i - 1] = Append(text, c)[i]
    <3>. DEFINE p == Position(t) - (n + 1) + i - 1
    <3>1. p \in Cells /\ p + k = Position(s) - n + i - 1 /\ p + k \in Cells
      <4>. DEFINE last == VGA_WIDTH * VGA_HEIGHT - 1
                  ps == Position(s)
                  pt == Position(t)
      <4>1. /\ ps \in 0..last /\ pt \in 0..last /\ last \in Int
            /\ k \in Nat /\ n \in Nat /\ i \in 1..n + 1
        BY <1>3, <2>1 DEF Cells
      <4>2. pt = ps + 1 - k /\ n <= ps /\ n + 1 <= pt
        BY <1>1, <2>2, <2>3
      <4>. HIDE DEF last, ps, pt, n
      <4>3. pt - (n + 1) + i - 1 \in 0..last
        BY <4>1, <4>2
      <4>4. pt - (n + 1) + i - 1 + k = ps - n + i - 1
        BY <4>1, <4>2
      <4>5. ps - n + i - 1 \in 0..last
        BY <4>1, <4>2
      <4>. QED BY <4>3, <4>4, <4>5 DEF Cells, last, ps, pt
    <3>2. t.cells[p] = IF p + k = Position(s) THEN c ELSE s.cells[p + k]
      BY <1>1, <3>1
    <3>3. p + k = Position(s) <=> i = n + 1
      <4>1. Position(s) \in Int /\ i \in Int
        BY <1>3 DEF Cells
      <4>. QED BY <2>1, <3>1, <4>1
    <3>. HIDE DEF p
    <3>4. CASE i = n + 1
      BY <2>1, <3>2, <3>3, <3>4 DEF p
    <3>5. CASE i # n + 1
      <4>1. i \in 1..n
        BY <2>1, <3>5
      <4>2. t.cells[p] = s.cells[Position(s) - n + i - 1]
        BY <3>1, <3>2, <3>3, <3>5
      <4>. QED BY <2>1, <2>2, <4>1, <4>2 DEF p
    <3>. QED BY <3>4, <3>5
  <2>. QED BY <2>1, <2>3, <2>4 DEF StandsBefore
<1>. QED BY <1>4, <1>5 DEF t

\* Nothing comes to stand behind the cursor when a line ends.
LEMMA EndShows ==
  ASSUME NEW s \in Screen, BlankBehind(s)
  PROVE  BlankBehind(terminal_putchar(s, NewLine))
<1>. DEFINE t == terminal_putchar(s, NewLine)
<1>1. PICK k \in {0, VGA_WIDTH} : MovedUp(t, s, k) /\ Position(t) >= Position(s) + 1 - k
  BY LineEnded
<1>2. t \in Screen
  BY LineEnded
<1>3. /\ Position(s) \in Cells /\ Position(t) \in Cells
      /\ k \in Nat /\ VGA_WIDTH * VGA_HEIGHT \in Nat
  BY <1>2, CursorCell, ScreenAssumption
<1>. HIDE DEF t
<1>4. ASSUME NEW p \in Cells, p >= Position(t)
      PROVE  t.cells[p] = Space
  <2>1. p + k > Position(s)
    BY <1>1, <1>3, <1>4 DEF Cells
  <2>2. p + k \in Cells => s.cells[p + k] = Space
    BY <1>3, <2>1 DEF BlankBehind, Cells
  <2>. QED BY <1>1, <2>2 DEF MovedUp
<1>. QED BY <1>4 DEF BlankBehind, t

\* Erasing takes the last character of what stands before the cursor.
LEMMA EraseShows ==
  ASSUME NEW s \in Screen, NEW text \in Seq(Chars), text # << >>, StandsBefore(s, text)
  PROVE  LET t == terminal_backspace(s) IN
         /\ StandsBefore(t, SubSeq(text, 1, Len(text) - 1))
         /\ BlankBehind(s) => BlankBehind(t)
<1>. DEFINE t == terminal_backspace(s)
            n == Len(text)
            rest == SubSeq(text, 1, n - 1)
<1>1. n \in Nat \ {0} /\ n <= Position(s) /\ Position(s) \in Cells
  BY CursorCell, EmptySeq, LenProperties DEF StandsBefore
<1>2. VGA_WIDTH * VGA_HEIGHT \in Nat
  BY ScreenAssumption
<1>3. Position(s) > 0
  BY <1>1 DEF Cells
<1>4. /\ Position(t) = Position(s) - 1
      /\ \A p \in Cells : t.cells[p] = IF p = Position(s) - 1 THEN Space ELSE s.cells[p]
  BY <1>3, CharErased
<1>. HIDE DEF t
<1>5. Len(rest) = n - 1 /\ \A i \in 1..n - 1 : rest[i] = text[i]
  <2>1. n - 1 \in 0..Len(text) /\ 1 \in Nat \ {0}
    BY <1>1
  <2>2. /\ Len(rest) = IF 1 <= n - 1 THEN n - 1 - 1 + 1 ELSE 0
        /\ \A i \in 1..n - 1 - 1 + 1 : rest[i] = text[1 + i - 1]
    BY <2>1, Part
  <2>. HIDE DEF rest, n
  <2>3. n - 1 - 1 + 1 = n - 1 /\ \A i \in 1..n - 1 : 1 + i - 1 = i
    BY <1>1
  <2>. QED BY <1>1, <2>2, <2>3
<1>6. ASSUME NEW i \in 1..n - 1
      PROVE  t.cells[Position(t) - (n - 1) + i - 1] = text[i]
  <2>1. s.cells[Position(s) - n + i - 1] = text[i]
    BY <1>1 DEF StandsBefore
  <2>2. /\ Position(t) - (n - 1) + i - 1 = Position(s) - n + i - 1
        /\ Position(s) - n + i - 1 \in Cells
        /\ Position(s) - n + i - 1 # Position(s) - 1
    BY <1>1, <1>2, <1>4 DEF Cells
  <2>. QED BY <1>4, <2>1, <2>2
<1>7. n - 1 <= Position(t)
  BY <1>1, <1>4 DEF Cells
<1>8. StandsBefore(t, rest)
  BY <1>5, <1>6, <1>7 DEF StandsBefore
<1>9. BlankBehind(s) => BlankBehind(t)
  BY <1>1, <1>4 DEF BlankBehind, Cells
<1>. QED BY <1>8, <1>9 DEF t

-----------------------------------------------------------------------------
(* Lines and lists.                                                        *)

\* A search from below finds the first match.
LEMMA FirstMatch ==
  ASSUME NEW T, T \subseteq Nat, T # {}
  PROVE  \E x \in T : \A y \in T : x <= y
<1>. DEFINE R == OpToRel(<, Nat)
<1>1. IsWellFoundedOn(R, Nat)
  BY NatLessThanWellFounded
<1>2. \A x, y \in Nat : x < y => <<x, y>> \in R
  BY DEF OpToRel
<1>. HIDE DEF R
<1>3. PICK x \in T : \A y \in T : <<y, x>> \notin R
  BY <1>1, WFMin
<1>4. \A y \in T : x <= y
  <2>. TAKE y \in T
  <2>1. x \in Nat /\ y \in Nat /\ ~(y < x)
    BY <1>2, <1>3
  <2>. QED BY <2>1
<1>. QED BY <1>4

\* A line that is not blank stays in its array when it is trimmed.
LEMMA Trimmed ==
  ASSUME NEW l \in Line, ~Blank(l)
  PROVE  Trim(l) \in Line
<1>. DEFINE IsFirst(i) == l[i] # Space /\ \A j \in 1..i - 1 : l[j] = Space
            IsLast(i) == l[i] # Space /\ \A j \in i + 1..Len(l) : l[j] = Space
            first == CHOOSE i \in 1..Len(l) : IsFirst(i)
            last == CHOOSE i \in 1..Len(l) : IsLast(i)
            T == {i \in 1..Len(l) : l[i] # Space}
            U == {n \in 0..Len(l) : Len(l) - n \in T}
<1>1. l \in Seq(Chars) /\ Len(l) \in Nat /\ Len(l) < LINE_MAX
  BY LenProperties DEF Line
<1>2. T \subseteq Nat /\ T # {}
  BY <1>1 DEF Blank
<1>3. first \in 1..Len(l)
  <2>1. PICK x \in T : \A y \in T : x <= y
    <3>. HIDE DEF T
    <3>. QED BY <1>2, FirstMatch
  <2>2. \A j \in 1..x - 1 : j \in 1..Len(l) /\ ~(x <= j)
    BY <1>1, <2>1
  <2>3. x \in 1..Len(l) /\ IsFirst(x)
    BY <2>1, <2>2
  <2>. HIDE DEF IsFirst
  <2>. QED BY <2>3
<1>4. last \in 1..Len(l)
  <2>1. PICK t \in T : TRUE
    BY <1>2
  <2>2. U \subseteq Nat /\ Len(l) - t \in U
    BY <1>1
  <2>3. PICK x \in U : \A y \in U : x <= y
    <3>. HIDE DEF U
    <3>. QED BY <2>2, FirstMatch
  <2>4. \A j \in Len(l) - x + 1..Len(l) : l[j] = Space
    <3>. TAKE j \in Len(l) - x + 1..Len(l)
    <3>1. Len(l) - j \in 0..Len(l) /\ Len(l) - (Len(l) - j) = j /\ j \in 1..Len(l)
      BY <1>1, <2>3
    <3>2. Len(l) - j \in U => x <= Len(l) - j
      BY <2>3
    <3>3. ~(x <= Len(l) - j)
      BY <1>1, <2>3
    <3>. QED BY <3>1, <3>2, <3>3
  <2>5. Len(l) - x \in 1..Len(l) /\ IsLast(Len(l) - x)
    BY <1>1, <2>3, <2>4
  <2>. HIDE DEF IsLast
  <2>. QED BY <2>5
<1>5. Trim(l) = SubSeq(l, first, last)
  BY DEF Trim
<1>. HIDE DEF first, last
<1>6. /\ SubSeq(l, first, last) \in Seq(Chars)
      /\ Len(SubSeq(l, first, last)) = IF first <= last THEN last - first + 1 ELSE 0
  BY <1>1, <1>3, <1>4, Part
<1>7. Len(SubSeq(l, first, last)) <= Len(l)
  BY <1>1, <1>3, <1>4, <1>6
<1>. QED BY <1>1, <1>5, <1>6, <1>7, ShellAssumption DEF Line

\* The first word of a line.
LEMMA FirstWord ==
  ASSUME NEW l \in Seq(Chars)
  PROVE  next_token(l) \in Seq(Chars)
<1>. DEFINE IsFirst(i) == l[i] = Space /\ \A j \in 1..i - 1 : l[j] # Space
            space == CHOOSE i \in 1..Len(l) : IsFirst(i)
            T == {i \in 1..Len(l) : l[i] = Space}
<1>1. Len(l) \in Nat
  BY LenProperties
<1>2. CASE T = {}
  BY <1>2 DEF next_token
<1>3. CASE T # {}
  <2>1. PICK x \in T : \A y \in T : x <= y
    <3>1. T \subseteq Nat
      BY <1>1
    <3>. HIDE DEF T
    <3>. QED BY <1>3, <3>1, FirstMatch
  <2>2. \A j \in 1..x - 1 : j \in 1..Len(l) /\ ~(x <= j)
    BY <1>1, <2>1
  <2>3. x \in 1..Len(l) /\ IsFirst(x)
    BY <2>1, <2>2
  <2>4. space \in 1..Len(l)
    <3>. HIDE DEF IsFirst
    <3>. QED BY <2>3
  <2>5. next_token(l) = SubSeq(l, 1, space - 1)
    BY <1>3 DEF next_token
  <2>. HIDE DEF space
  <2>6. space - 1 \in 0..Len(l)
    BY <1>1, <2>4
  <2>. QED BY <2>5, <2>6, Part
<1>. QED BY <1>2, <1>3

\* Whatever is typed, the user's name fits its array.
LEMMA UserName ==
  ASSUME NEW raw \in Line
  PROVE  set_username(raw) \in Name
<1>1. DefaultName \in Name /\ USERNAME_MAX \in Nat \ {0}
  BY ShellAssumption DEF Name
<1>2. CASE Blank(raw)
  BY <1>1, <1>2 DEF set_username
<1>3. CASE ~Blank(raw)
  <2>. DEFINE word == next_token(Trim(raw))
  <2>1. word \in Seq(Chars) /\ Len(word) \in Nat
    BY <1>3, Trimmed, FirstWord, LenProperties DEF Line
  <2>2. set_username(raw) = IF Len(word) < USERNAME_MAX THEN word
                            ELSE SubSeq(word, 1, USERNAME_MAX - 1)
    BY <1>3 DEF set_username
  <2>. HIDE DEF word
  <2>3. CASE Len(word) < USERNAME_MAX
    BY <2>1, <2>2, <2>3 DEF Name
  <2>4. CASE ~(Len(word) < USERNAME_MAX)
    <3>1. USERNAME_MAX - 1 \in 0..Len(word)
      BY <1>1, <2>1, <2>4
    <3>2. /\ SubSeq(word, 1, USERNAME_MAX - 1) \in Seq(Chars)
          /\ Len(SubSeq(word, 1, USERNAME_MAX - 1)) < USERNAME_MAX
      <4>1. /\ SubSeq(word, 1, USERNAME_MAX - 1) \in Seq(Chars)
            /\ Len(SubSeq(word, 1, USERNAME_MAX - 1))
                 = IF 1 <= USERNAME_MAX - 1 THEN USERNAME_MAX - 1 - 1 + 1 ELSE 0
        BY <2>1, <3>1, Part
      <4>. QED BY <1>1, <4>1
    <3>. QED BY <2>2, <2>4, <3>2 DEF Name
  <2>. QED BY <2>3, <2>4
<1>. QED BY <1>2, <1>3

\* A bounded list that drops its oldest element.
LEMMA Pushed ==
  ASSUME NEW S, NEW list \in Seq(S), NEW x \in S, NEW max \in Nat \ {0}, Len(list) <= max
  PROVE  LET new == IF Len(list) < max THEN Append(list, x) ELSE Append(Tail(list), x)
         IN new \in Seq(S) /\ Len(new) <= max
<1>1. Len(list) \in Nat
  BY LenProperties
<1>2. CASE Len(list) < max
  BY <1>1, <1>2, AppendProperties
<1>3. CASE Len(list) = max
  <2>1. list # << >>
    BY <1>3, EmptySeq
  <2>2. Tail(list) \in Seq(S) /\ Len(Tail(list)) = max - 1
    BY <1>3, <2>1, HeadTailProperties
  <2>. QED BY <1>3, <2>2, AppendProperties
<1>. QED BY <1>1, <1>2, <1>3

-----------------------------------------------------------------------------
(* Type correctness.                                                       *)

AskedBy(who, name) == IF who = "login" THEN Question ELSE name \o PromptEnd

\* What is being asked has room on the screen with any line after it.
LEMMA AskedFits ==
  ASSUME NEW who, NEW name \in Name
  PROVE  /\ AskedBy(who, name) \in Seq(Chars)
         /\ Len(AskedBy(who, name)) \in Nat
         /\ Len(AskedBy(who, name)) + LINE_MAX - 1 <= LastRow
<1>. DEFINE asked == name \o PromptEnd
<1>1. /\ Question \in Seq(Chars) /\ PromptEnd \in Seq(Chars) /\ name \in Seq(Chars)
      /\ LINE_MAX \in Nat /\ USERNAME_MAX \in Nat /\ LastRow \in Nat
      /\ Len(name) < USERNAME_MAX
  BY ShellAssumption, ScreenAssumption DEF Name, LastRow
<1>2. /\ Len(Question) \in Nat /\ Len(PromptEnd) \in Nat /\ Len(name) \in Nat
      /\ asked \in Seq(Chars) /\ Len(asked) = Len(name) + Len(PromptEnd)
  BY <1>1, LenProperties, ConcatProperties
<1>3. /\ Len(Question) + LINE_MAX - 1 <= LastRow
      /\ USERNAME_MAX - 1 + Len(PromptEnd) + LINE_MAX - 1 <= LastRow
  BY FitAssumption DEF FitAssumption
<1>. QED BY <1>1, <1>2, <1>3 DEF AskedBy

\* When the parts of the screen's text are filled.
Phases ==
  /\ pc # "read" => line = << >>
  /\ pc = "read" => written = Len(Asked)
  /\ pc \in {"output", "stopped"} => written = 0

\* The lists as parts of the type.
MemoryOK ==
  /\ username \in Name
  /\ history \in Seq(Line) /\ Len(history) <= HISTORY_MAX
  /\ syslog \in Seq(Commands \cup {BootEvent}) /\ Len(syslog) <= SYSLOG_MAX
  /\ notes \in Seq(Texts) /\ Len(notes) <= NOTE_MAX
  /\ todos \in Seq(Texts) /\ Len(todos) <= TODO_MAX
  /\ todo_done_flags \in [1..TODO_MAX -> BOOLEAN]

DialogueOK ==
  /\ screen \in Screen
  /\ pc \in {"output", "prompt", "read", "stopped"}
  /\ asker \in {"login", "shell"}
  /\ written \in 0..Len(Asked)
  /\ line \in Line

\* Type and phases hold at the start.
LEMMA InitTypes == Init => TypeOK /\ Phases /\ BlankBehind(screen)
<1>. SUFFICES ASSUME Init PROVE TypeOK /\ Phases /\ BlankBehind(screen)
  OBVIOUS
<1>1. screen \in Screen /\ BlankBehind(screen)
  BY ScreenAssumption DEF Init, terminal_clear, Screen, At, BlankBehind
<1>2. /\ username \in Name /\ line \in Line
      /\ {HISTORY_MAX, SYSLOG_MAX, NOTE_MAX, TODO_MAX} \subseteq Nat
  BY ShellAssumption DEF Init, Name, Line
<1>3. written \in 0..Len(Asked)
  <2>1. Asked = AskedBy(asker, username)
    BY DEF Asked, AskedBy, prompt
  <2>. QED BY <1>2, <2>1, AskedFits DEF Init
<1>. QED BY <1>1, <1>2, <1>3 DEF Init, TypeOK, Phases

\* Writing any character leaves the screen a screen with nothing behind the cursor.
LEMMA AnyPut ==
  ASSUME NEW s \in Screen, NEW c \in Chars \cup {NewLine}
  PROVE  /\ terminal_putchar(s, c) \in Screen
         /\ BlankBehind(s) => BlankBehind(terminal_putchar(s, c))
<1>1. CASE c \in Chars
  <2>1. << >> \in Seq(Chars)
    OBVIOUS
  <2>. QED BY <1>1, <2>1, CharPut, PutShows
<1>2. CASE c = NewLine
  BY <1>2, LineEnded, EndShows
<1>. QED BY <1>1, <1>2

\* A cleared screen.
LEMMA Cleared == terminal_clear \in Screen /\ BlankBehind(terminal_clear)
BY ScreenAssumption DEF terminal_clear, Screen, At, BlankBehind

\* History, log and lists keep to their arrays.
LEMMA MemoryStep ==
  ASSUME TypeOK, [Next]_vars
  PROVE  MemoryOK'
<1>1. /\ username \in Name
      /\ history \in Seq(Line) /\ Len(history) <= HISTORY_MAX
      /\ syslog \in Seq(Commands \cup {BootEvent}) /\ Len(syslog) <= SYSLOG_MAX
      /\ notes \in Seq(Texts) /\ Len(notes) <= NOTE_MAX
      /\ todos \in Seq(Texts) /\ Len(todos) <= TODO_MAX
      /\ todo_done_flags \in [1..TODO_MAX -> BOOLEAN]
      /\ line \in Line
  BY DEF TypeOK
<1>2. {HISTORY_MAX, SYSLOG_MAX, NOTE_MAX, TODO_MAX} \subseteq Nat \ {0}
  BY ShellAssumption
<1>3. ASSUME UNCHANGED memory PROVE MemoryOK'
  BY <1>1, <1>3 DEF memory, lists, MemoryOK
<1>4. ASSUME NEW x \in Line, add_history(x)
      PROVE  history' \in Seq(Line) /\ Len(history') <= HISTORY_MAX
  BY <1>1, <1>2, <1>4, Pushed DEF add_history
<1>5. ASSUME NEW x \in Commands \cup {BootEvent}, log_event(x)
      PROVE  syslog' \in Seq(Commands \cup {BootEvent}) /\ Len(syslog') <= SYSLOG_MAX
  BY <1>1, <1>2, <1>5, Pushed DEF log_event
<1>6. ASSUME NEW raw \in Line, Login(raw) PROVE MemoryOK'
  <2>1. username' \in Name
    BY <1>6, UserName DEF Login
  <2>2. syslog' \in Seq(Commands \cup {BootEvent}) /\ Len(syslog') <= SYSLOG_MAX
    BY <1>5, <1>6 DEF Login
  <2>. QED BY <1>1, <1>6, <2>1, <2>2 DEF Login, lists, MemoryOK
<1>7. CASE EnterName
  BY <1>1, <1>6, <1>7 DEF EnterName
<1>8. CASE CtrlC
  <2>1. << >> \in Line
    BY ShellAssumption DEF Line
  <2>. QED BY <1>3, <1>6, <1>8, <2>1 DEF CtrlC
<1>9. CASE EnterUnknown
  <2>1. Trim(line) \in Line
    BY <1>1, <1>9, Trimmed DEF EnterUnknown
  <2>2. history' \in Seq(Line) /\ Len(history') <= HISTORY_MAX
    BY <1>4, <1>9, <2>1 DEF EnterUnknown
  <2>. QED BY <1>1, <1>9, <2>2 DEF EnterUnknown, lists, MemoryOK
<1>10. CASE EnterCommand
  <2>1. Trim(line) \in Line
    BY <1>1, <1>10, Trimmed DEF EnterCommand
  <2>2. history' \in Seq(Line) /\ Len(history') <= HISTORY_MAX
    BY <1>4, <1>10, <2>1 DEF EnterCommand
  <2>3. syslog' \in Seq(Commands \cup {BootEvent}) /\ Len(syslog') <= SYSLOG_MAX
    BY <1>5, <1>10 DEF EnterCommand
  <2>. DEFINE ListsOK ==
                /\ notes' \in Seq(Texts) /\ Len(notes') <= NOTE_MAX
                /\ todos' \in Seq(Texts) /\ Len(todos') <= TODO_MAX
                /\ todo_done_flags' \in [1..TODO_MAX -> BOOLEAN]
  <2>4. ASSUME UNCHANGED lists PROVE ListsOK
    BY <1>1, <2>4 DEF lists
  <2>5. Len(notes) \in Nat /\ Len(todos) \in Nat
    BY <1>1, LenProperties
  <2>6. ASSUME ChangesLists PROVE ListsOK
    <3>1. CASE cmd_note_add
      <4>1. notes' \in Seq(Texts) /\ Len(notes') <= NOTE_MAX
        BY <1>1, <1>2, <2>5, <3>1, AppendProperties DEF cmd_note_add
      <4>. QED BY <1>1, <3>1, <4>1 DEF cmd_note_add
    <3>2. CASE cmd_noteclr
      BY <1>1, <1>2, <3>2 DEF cmd_noteclr
    <3>3. CASE cmd_todo_add
      <4>1. todos' \in Seq(Texts) /\ Len(todos') <= TODO_MAX
        BY <1>1, <1>2, <2>5, <3>3, AppendProperties DEF cmd_todo_add
      <4>. QED BY <1>1, <3>3, <4>1 DEF cmd_todo_add
    <3>4. CASE cmd_todoclr
      BY <1>1, <1>2, <3>4 DEF cmd_todoclr
    <3>5. CASE cmd_done
      BY <1>1, <3>5 DEF cmd_done
    <3>. QED BY <2>6, <3>1, <3>2, <3>3, <3>4, <3>5 DEF ChangesLists
  <2>7. ListsOK
    BY <1>10, <2>4, <2>6 DEF EnterCommand, Prints, Clears, Stops
  <2>. QED BY <1>1, <1>10, <2>2, <2>3, <2>7 DEF EnterCommand, MemoryOK
<1>. QED
  BY <1>3, <1>7, <1>8, <1>9, <1>10
  DEF Next, vars, Output, EndOutput, Prompt, StartReading, Type, Erase, EnterBlank

-----------------------------------------------------------------------------
(* The dialogue on the screen.                                             *)

Inv == TypeOK /\ Phases /\ LineShown

\* The text that stands on the screen is a sequence that fits on it.
LEMMA ShownFits ==
  ASSUME Inv
  PROVE  /\ Shown \in Seq(Chars) /\ Len(Shown) = written + Len(line)
         /\ Asked \in Seq(Chars) /\ Len(Asked) \in Nat /\ Len(line) \in Nat
         /\ Len(Asked) + LINE_MAX - 1 <= LastRow
         /\ SubSeq(Asked, 1, written) \in Seq(Chars)
<1>1. /\ username \in Name /\ line \in Seq(Chars) /\ Len(line) \in Nat
      /\ written \in 0..Len(Asked)
  BY LenProperties DEF Inv, TypeOK, Line
<1>2. Asked = AskedBy(asker, username)
  BY DEF Asked, AskedBy, prompt
<1>3. /\ Asked \in Seq(Chars) /\ Len(Asked) \in Nat
      /\ Len(Asked) + LINE_MAX - 1 <= LastRow
  BY <1>1, <1>2, AskedFits
<1>4. /\ SubSeq(Asked, 1, written) \in Seq(Chars)
      /\ Len(SubSeq(Asked, 1, written)) = IF 1 <= written THEN written - 1 + 1 ELSE 0
  BY <1>1, <1>3, Part
<1>5. Len(SubSeq(Asked, 1, written)) = written
  BY <1>1, <1>3, <1>4
<1>6. /\ SubSeq(Asked, 1, written) \o line \in Seq(Chars)
      /\ Len(SubSeq(Asked, 1, written) \o line) = written + Len(line)
  BY <1>1, <1>4, <1>5, ConcatProperties
<1>. QED BY <1>1, <1>3, <1>4, <1>6 DEF Shown

\* One more character of a sequence.
LEMMA OneMore ==
  ASSUME NEW S, NEW a \in Seq(S), NEW b \in Seq(S), NEW c \in S,
         NEW n \in Nat, n < Len(a)
  PROVE  /\ SubSeq(a, 1, n + 1) \o << >> = Append(SubSeq(a, 1, n) \o << >>, a[n + 1])
         /\ a \o Append(b, c) = Append(a \o b, c)
<1>1. Len(a) \in Nat /\ Len(b) \in Nat
  BY LenProperties
<1>2. a \o Append(b, c) = Append(a \o b, c)
  OBVIOUS
<1>3. SubSeq(a, 1, n + 1) \o << >> = Append(SubSeq(a, 1, n) \o << >>, a[n + 1])
  BY <1>1
<1>. QED BY <1>2, <1>3

\* Taking the last character of the second sequence.
LEMMA OneLess ==
  ASSUME NEW S, NEW a \in Seq(S), NEW b \in Seq(S), b # << >>
  PROVE  a \o SubSeq(b, 1, Len(b) - 1) = SubSeq(a \o b, 1, Len(a \o b) - 1)
  OBVIOUS

\* A line has ended: nothing is asked or typed until the next prompt.
LEMMA EndStep ==
  ASSUME Inv, MemoryOK', EndReading,
         screen' \in Screen, BlankBehind(screen)',
         asker' \in {"login", "shell"}, pc' \in {"output", "prompt", "stopped"}
  PROVE  DialogueOK' /\ Phases' /\ LineShown'
<1>1. written' = 0 /\ line' = << >>
  BY DEF EndReading
<1>2. Asked' \in Seq(Chars) /\ Len(Asked') \in Nat
  <2>1. username' \in Name
    BY DEF MemoryOK
  <2>2. Asked' = AskedBy(asker', username')
    BY DEF Asked, AskedBy, prompt
  <2>. QED BY <2>1, <2>2, AskedFits
<1>3. << >> \in Line
  BY ShellAssumption DEF Line
<1>4. DialogueOK'
  BY <1>1, <1>2, <1>3 DEF DialogueOK
<1>5. Phases'
  BY <1>1 DEF Phases
<1>6. StandsBefore(screen', Shown')
  <2>1. \A a \in Seq(Chars) : SubSeq(a, 1, 0) \o << >> = << >>
    OBVIOUS
  <2>2. Shown' = << >>
    BY <1>1, <1>2, <2>1 DEF Shown
  <2>3. \A s \in Screen : Position(s) >= 0
    BY CursorCell DEF Cells
  <2>4. Len(<< >>) = 0 /\ 1..0 = {}
    OBVIOUS
  <2>5. \A s \in Screen : StandsBefore(s, << >>)
    BY <2>3, <2>4 DEF StandsBefore
  <2>. QED BY <2>2, <2>5
<1>7. LineShown'
  BY <1>6 DEF LineShown
<1>. QED BY <1>4, <1>5, <1>7

\* Every step keeps the dialogue on the screen.
LEMMA DialogueStep ==
  ASSUME Inv, [Next]_vars, MemoryOK'
  PROVE  DialogueOK' /\ Phases' /\ LineShown'
<1>1. /\ screen \in Screen /\ BlankBehind(screen)
      /\ pc \in {"output", "prompt", "read", "stopped"} /\ asker \in {"login", "shell"}
      /\ written \in 0..Len(Asked) /\ line \in Line /\ line \in Seq(Chars)
      /\ username \in Name
  BY DEF Inv, TypeOK, LineShown, Line
<1>2. ASSUME UNCHANGED <<asker, username>> PROVE Asked' = Asked
  BY <1>2 DEF Asked, prompt
<1>3. ASSUME UNCHANGED <<asker, memory, reading>>
      PROVE  Asked' = Asked /\ Shown' = Shown
  BY <1>2, <1>3 DEF memory, reading, Shown
<1>4. ASSUME EndLine PROVE screen' \in Screen /\ BlankBehind(screen)'
  <2>1. screen' = terminal_putchar(screen, NewLine)
    BY <1>4 DEF EndLine
  <2>2. screen' \in Screen /\ BlankBehind(screen')
    BY <1>1, <2>1, AnyPut
  <2>. QED BY <2>2 DEF BlankBehind
<1>5. CASE UNCHANGED vars
  <2>1. Asked' = Asked /\ Shown' = Shown
    BY <1>3, <1>5 DEF vars
  <2>. QED BY <1>1, <1>5, <2>1
           DEF vars, reading, Inv, DialogueOK, Phases, LineShown, StandsBefore, BlankBehind
<1>6. ASSUME NEW c \in Chars \cup {NewLine}, Output(c)
      PROVE  DialogueOK' /\ Phases' /\ LineShown'
  <2>1. screen' \in Screen /\ BlankBehind(screen')
    BY <1>1, <1>6, AnyPut DEF Output
  <2>2. BlankBehind(screen)'
    BY <2>1 DEF BlankBehind
  <2>3. Asked' = Asked
    BY <1>3, <1>6 DEF Output
  <2>. QED BY <1>1, <1>6, <2>1, <2>2, <2>3
           DEF Output, reading, Inv, DialogueOK, Phases, LineShown
<1>7. CASE EndOutput
  <2>1. Asked' = Asked /\ Shown' = Shown
    BY <1>3, <1>7 DEF EndOutput
  <2>2. written = 0 /\ line = << >>
    BY <1>7 DEF EndOutput, Inv, Phases
  <2>3. StandsBefore(screen, Shown)
    <3>1. Len(Shown) = 0
      BY <2>2, ShownFits
    <3>2. Position(screen) >= 0
      BY <1>1, CursorCell DEF Cells
    <3>. QED BY <3>1, <3>2 DEF StandsBefore
  <2>4. screen' = screen /\ BlankBehind(screen)' /\ StandsBefore(screen', Shown')
    BY <1>1, <1>7, <2>1, <2>3 DEF EndOutput, BlankBehind
  <2>. QED BY <1>1, <1>7, <2>1, <2>2, <2>4
           DEF EndOutput, reading, DialogueOK, Phases, LineShown
<1>8. CASE Prompt
  <2>. DEFINE c == Asked[written + 1]
  <2>1. written \in Nat /\ written < Len(Asked) /\ line = << >> /\ c \in Chars
    BY <1>1, <1>8, ShownFits, ElementOfSeq DEF Prompt, Inv, Phases
  <2>2. Asked' = Asked /\ line' = line /\ written' = written + 1
    BY <1>2, <1>8 DEF Prompt, memory
  <2>3. Shown' = Append(Shown, c)
    <3>1. \A a \in Seq(Chars) : \A n \in Nat :
            n < Len(a) => SubSeq(a, 1, n + 1) \o << >>
                            = Append(SubSeq(a, 1, n) \o << >>, a[n + 1])
      <4>1. << >> \in Seq(Chars) /\ Space \in Chars
        BY ScreenAssumption
      <4>. QED BY <4>1, OneMore
    <3>. QED BY <2>1, <2>2, <3>1, ShownFits DEF Shown
  <2>4. StandsBefore(screen, Shown) /\ Len(Shown) < LastRow
    <3>1. StandsBefore(screen, Shown)
      BY <1>8 DEF Prompt, Inv, LineShown
    <3>2. Len(<< >>) = 0
      OBVIOUS
    <3>3. Len(Shown) < Len(Asked)
      BY <2>1, <3>2, ShownFits
    <3>4. LINE_MAX \in Nat \ {0} /\ LastRow \in Nat /\ Len(Shown) \in Nat
      BY <1>1, ShownFits, CursorCell, ShellAssumption, LenProperties
    <3>5. Len(Asked) \in Nat /\ Len(Asked) + LINE_MAX - 1 <= LastRow
      BY ShownFits
    <3>. QED BY <3>1, <3>3, <3>4, <3>5
  <2>5. screen' = terminal_putchar(screen, c)
    BY <1>8 DEF Prompt
  <2>. HIDE DEF c
  <2>6. /\ screen' \in Screen /\ BlankBehind(screen')
        /\ StandsBefore(screen', Shown')
    BY <1>1, <2>1, <2>3, <2>4, <2>5, ShownFits, CharPut, PutShows
  <2>7. BlankBehind(screen)'
    BY <2>6 DEF BlankBehind
  <2>8. written' \in 0..Len(Asked') /\ pc' = "prompt" /\ asker' = asker
    BY <1>8, <2>1, <2>2, ShownFits DEF Prompt
  <2>. QED BY <1>1, <2>1, <2>2, <2>6, <2>7, <2>8 DEF DialogueOK, Phases, LineShown
<1>9. CASE StartReading
  <2>1. Asked' = Asked /\ Shown' = Shown
    BY <1>3, <1>9 DEF StartReading
  <2>2. StandsBefore(screen, Shown)
    BY <1>9 DEF StartReading, Inv, LineShown
  <2>3. screen' = screen /\ BlankBehind(screen)' /\ StandsBefore(screen', Shown')
    BY <1>1, <1>9, <2>1, <2>2 DEF StartReading, BlankBehind
  <2>. QED BY <1>1, <1>9, <2>1, <2>3
           DEF StartReading, reading, DialogueOK, Phases, LineShown
<1>10. ASSUME NEW c \in Chars, Type(c)
       PROVE  DialogueOK' /\ Phases' /\ LineShown'
  <2>1. /\ pc = "read" /\ Len(line) + 1 < LINE_MAX /\ line' = Append(line, c)
        /\ written' = written /\ pc' = pc /\ asker' = asker
        /\ screen' = terminal_putchar(screen, c)
    BY <1>10 DEF Type
  <2>2. Asked' = Asked
    BY <1>2, <1>10 DEF Type, memory
  <2>3. Shown' = Append(Shown, c)
    <3>1. \A a, b \in Seq(Chars) : a \o Append(b, c) = Append(a \o b, c)
      OBVIOUS
    <3>. QED BY <1>1, <2>1, <2>2, <3>1, ShownFits DEF Shown
  <2>4. StandsBefore(screen, Shown) /\ Len(Shown) < LastRow
    <3>1. StandsBefore(screen, Shown) /\ written = Len(Asked)
      BY <2>1 DEF Inv, Phases, LineShown
    <3>2. LINE_MAX \in Nat \ {0} /\ LastRow \in Nat
      BY <1>1, CursorCell, ShellAssumption
    <3>3. /\ Len(Asked) \in Nat /\ Len(line) \in Nat
          /\ Len(Asked) + LINE_MAX - 1 <= LastRow /\ Len(Shown) = written + Len(line)
      BY ShownFits
    <3>. QED BY <2>1, <3>1, <3>2, <3>3
  <2>5. /\ screen' \in Screen /\ BlankBehind(screen')
        /\ StandsBefore(screen', Shown')
    BY <1>1, <2>1, <2>3, <2>4, ShownFits, CharPut, PutShows
  <2>6. BlankBehind(screen)'
    BY <2>5 DEF BlankBehind
  <2>7. line' \in Line
    BY <1>1, <2>1, AppendProperties DEF Line
  <2>. QED BY <1>1, <2>1, <2>2, <2>5, <2>6, <2>7
           DEF Inv, DialogueOK, Phases, LineShown
<1>11. CASE Erase
  <2>1. /\ pc = "read" /\ line # << >> /\ line' = SubSeq(line, 1, Len(line) - 1)
        /\ written' = written /\ pc' = pc /\ asker' = asker
        /\ screen' = terminal_backspace(screen)
    BY <1>11 DEF Erase
  <2>2. Asked' = Asked
    BY <1>2, <1>11 DEF Erase, memory
  <2>3. Shown' = SubSeq(Shown, 1, Len(Shown) - 1)
    BY <1>1, <2>1, <2>2, ShownFits, OneLess DEF Shown
  <2>4. Len(line) \in Nat \ {0}
    BY <1>1, <2>1, LenProperties, EmptySeq
  <2>5. StandsBefore(screen, Shown) /\ Shown # << >>
    <3>1. Len(<< >>) = 0
      OBVIOUS
    <3>2. Len(Shown) > 0
      BY <1>1, <2>4, ShownFits
    <3>. QED BY <2>1, <3>1, <3>2 DEF Inv, LineShown
  <2>6. /\ screen' \in Screen /\ BlankBehind(screen')
        /\ StandsBefore(screen', Shown')
    BY <1>1, <2>1, <2>3, <2>5, ShownFits, CharErased, EraseShows
  <2>7. BlankBehind(screen)'
    BY <2>6 DEF BlankBehind
  <2>8. line' \in Line
    <3>1. Len(line) - 1 \in 0..Len(line) /\ Len(line) < LINE_MAX
      BY <1>1, <2>4 DEF Line
    <3>2. /\ SubSeq(line, 1, Len(line) - 1) \in Seq(Chars)
          /\ Len(SubSeq(line, 1, Len(line) - 1))
               = IF 1 <= Len(line) - 1 THEN Len(line) - 1 - 1 + 1 ELSE 0
      BY <1>1, <3>1, Part
    <3>3. Len(SubSeq(line, 1, Len(line) - 1)) < LINE_MAX
      BY <2>4, <3>1, <3>2, ShellAssumption
    <3>. QED BY <2>1, <3>2, <3>3 DEF Line
  <2>. QED BY <1>1, <2>1, <2>2, <2>6, <2>7, <2>8
           DEF Inv, DialogueOK, Phases, LineShown
<1>12. CASE EnterName
  BY <1>4, <1>12, EndStep DEF EnterName, Login
<1>13. CASE CtrlC
  <2>1. screen' \in Screen /\ BlankBehind(screen)'
    BY <1>1, <1>13 DEF CtrlC, BlankBehind
  <2>. QED BY <1>1, <1>13, <2>1, EndStep DEF CtrlC, Login
<1>14. CASE EnterBlank
  BY <1>1, <1>4, <1>14, EndStep DEF EnterBlank
<1>15. CASE EnterUnknown
  BY <1>1, <1>4, <1>15, EndStep DEF EnterUnknown
<1>16. CASE EnterCommand
  <2>1. CASE Clears
    <3>1. screen' \in Screen /\ BlankBehind(screen')
      BY <2>1, Cleared DEF Clears
    <3>2. BlankBehind(screen)'
      BY <3>1 DEF BlankBehind
    <3>. QED BY <1>1, <1>16, <2>1, <3>1, <3>2, EndStep DEF EnterCommand, Clears
  <2>2. CASE Prints \/ Stops \/ ChangesLists
    BY <1>1, <1>4, <1>16, <2>2, EndStep DEF EnterCommand, Prints, Stops, ChangesLists
  <2>. QED BY <1>16, <2>1, <2>2 DEF EnterCommand
<1>. QED
  BY <1>5, <1>6, <1>7, <1>8, <1>9, <1>10, <1>11, <1>12, <1>13, <1>14, <1>15, <1>16
  DEF Next

-----------------------------------------------------------------------------
(* The theorems.                                                           *)

LEMMA Invariance == Spec => []Inv
<1>1. Init => Inv
  <2>1. ASSUME Init PROVE LineShown
    BY <2>1, InitTypes DEF Init, LineShown
  <2>. QED BY <2>1, InitTypes DEF Inv
<1>2. Inv /\ [Next]_vars => Inv'
  <2>. SUFFICES ASSUME Inv, [Next]_vars PROVE Inv'
    OBVIOUS
  <2>1. MemoryOK'
    BY MemoryStep DEF Inv
  <2>2. DialogueOK' /\ Phases' /\ LineShown'
    BY <2>1, DialogueStep
  <2>. QED BY <2>1, <2>2 DEF Inv, TypeOK, MemoryOK, DialogueOK
<1>. QED BY <1>1, <1>2, PTL DEF Spec

\* Cursor, line, name and lists keep to their arrays in every session.
THEOREM TypeCorrect == Spec => []TypeOK
<1>1. Inv => TypeOK
  BY DEF Inv
<1>. QED BY <1>1, Invariance, PTL

\* The prompt and the typed line stand before the cursor, with nothing behind it,
\* on every screen that they fit on.
THEOREM LineShownAlways == Spec => []LineShown
<1>1. Inv => LineShown
  BY DEF Inv
<1>. QED BY <1>1, Invariance, PTL

-----------------------------------------------------------------------------
(* History and log.                                                        *)

\* What a bounded list keeps of its elements when one is added to it.
LEMMA Kept ==
  ASSUME NEW S, NEW list \in Seq(S), NEW x \in S, NEW max \in Nat \ {0}, Len(list) <= max,
         NEW new, new = IF Len(list) < max THEN Append(list, x) ELSE Append(Tail(list), x)
  PROVE  \E d \in {0, 1} :
           /\ Len(new) = Len(list) + 1 - d
           /\ d = 1 => Len(list) = max
           /\ \A i \in 1..Len(new) - 1 : new[i] = list[i + d]
           /\ new[Len(new)] = x
<1>1. Len(list) \in Nat
  BY LenProperties
<1>2. CASE Len(list) < max
  <2>1. /\ Len(new) = Len(list) + 1 - 0
        /\ \A i \in 1..Len(new) - 1 : new[i] = list[i + 0]
        /\ new[Len(new)] = x
    BY <1>1, <1>2, AppendProperties
  <2>. QED BY <2>1
<1>3. CASE Len(list) = max
  <2>1. list # << >>
    BY <1>3, EmptySeq
  <2>2. /\ Tail(list) \in Seq(S) /\ Len(Tail(list)) = max - 1
        /\ \A i \in 1..max - 1 : Tail(list)[i] = list[i + 1]
    BY <1>3, <2>1, HeadTailProperties
  <2>3. /\ Len(new) = Len(list) + 1 - 1
        /\ \A i \in 1..Len(new) - 1 : new[i] = list[i + 1]
        /\ new[Len(new)] = x
    BY <1>1, <1>3, <2>2, AppendProperties
  <2>. QED BY <1>3, <2>3
<1>. QED BY <1>1, <1>2, <1>3

\* As many numbers are left when each is made smaller by the same number.
LEMMA MovedDown ==
  ASSUME NEW S \in SUBSET Int, IsFiniteSet(S), NEW d \in Int,
         NEW T, T = {s - d : s \in S}
  PROVE  IsFiniteSet(T) /\ Cardinality(T) = Cardinality(S)
<1>. DEFINE f == [s \in S |-> s - d]
<1>1. f \in [S -> T] /\ \A a, b \in S : f[a] = f[b] => a = b
  <2>1. \A a, b \in S : a - d = b - d => a = b
    OBVIOUS
  <2>2. \A a \in S : f[a] = a - d
    OBVIOUS
  <2>. QED BY <2>1, <2>2
<1>2. \A t \in T : \E s \in S : f[s] = t
  OBVIOUS
<1>3. f \in Bijection(S, T)
  <2>1. f \in Injection(S, T)
    BY <1>1, Fun_IsInj
  <2>. QED BY <1>2, <2>1, Fun_IsBij
<1>4. ExistsBijection(S, T)
  BY <1>3 DEF ExistsBijection
<1>. QED BY <1>4, FS_Bijection

\* The commands from a line on, when the list has taken another line.
LEMMA CommandsLater ==
  ASSUME Len(history) \in Nat, Len(history') \in Nat, NEW d \in {0, 1},
         Len(history') = Len(history) + 1 - d,
         \A i \in 1..Len(history') - 1 : history'[i] = history[i + d],
         NEW i \in 1..Len(history') - 1
  PROVE  /\ NameOf(i)' = NameOf(i + d)
         /\ Cardinality(CommandsFrom(i)')
              = Cardinality(CommandsFrom(i + d))
                  + IF next_token(history'[Len(history')]) \in Commands THEN 1 ELSE 0
<1>. DEFINE n == Len(history')
            A == CommandsFrom(i + d)
            T == {s - d : s \in A}
            last == IF next_token(history'[n]) \in Commands THEN {n} ELSE {}
<1>1. n \in Nat /\ d \in Int /\ i + d \in Int /\ Len(history) = n - 1 + d
  OBVIOUS
<1>2. A \in SUBSET Int /\ IsFiniteSet(A)
  <2>1. A \in SUBSET ((i + d)..Len(history))
    BY DEF CommandsFrom
  <2>2. (i + d)..Len(history) \in SUBSET Int /\ IsFiniteSet((i + d)..Len(history))
    BY <1>1, FS_Interval
  <2>. HIDE DEF A
  <2>. QED BY <2>1, <2>2, FS_Subset
<1>3. IsFiniteSet(T) /\ Cardinality(T) = Cardinality(A) /\ Cardinality(A) \in Nat
  <2>. HIDE DEF A
  <2>1. T = {s - d : s \in A}
    OBVIOUS
  <2>. HIDE DEF T
  <2>. QED BY <1>1, <1>2, <2>1, MovedDown, FS_CardinalityType
<1>4. \A j \in i..n - 1 : NameOf(j)' = NameOf(j + d)
  <2>. TAKE j \in i..n - 1
  <2>1. history'[j] = history[j + d]
    OBVIOUS
  <2>. QED BY <2>1 DEF NameOf
<1>5. CommandsFrom(i)' = T \cup last
  <2>1. \A j : j \in T <=> j \in i..n - 1 /\ NameOf(j)' \in Commands
    <3>. TAKE j
    <3>1. ASSUME j \in T PROVE j \in i..n - 1 /\ NameOf(j)' \in Commands
      <4>1. PICK s \in A : j = s - d
        BY <3>1
      <4>2. s \in (i + d)..Len(history) /\ NameOf(s) \in Commands
        BY DEF CommandsFrom
      <4>3. j \in i..n - 1 /\ s = j + d
        BY <1>1, <4>1, <4>2
      <4>. QED BY <1>4, <4>2, <4>3
    <3>2. ASSUME j \in i..n - 1, NameOf(j)' \in Commands PROVE j \in T
      <4>1. NameOf(j + d) \in Commands
        BY <1>4, <3>2
      <4>2. j + d \in (i + d)..Len(history) /\ j = (j + d) - d
        BY <1>1, <3>2
      <4>3. j + d \in A
        BY <4>1, <4>2 DEF CommandsFrom
      <4>. QED BY <4>2, <4>3
    <3>. QED BY <3>1, <3>2
  <2>2. CommandsFrom(i)' = {j \in i..n : NameOf(j)' \in Commands}
    BY DEF CommandsFrom
  <2>. HIDE DEF n
  <2>3. \A j : j \in i..n <=> j \in i..n - 1 \/ j = n
    BY <1>1
  <2>4. \A j : j \in last <=> j = n /\ next_token(history'[n]) \in Commands
    OBVIOUS
  <2>5. \A j : NameOf(j)' = next_token(history'[j])
    BY DEF NameOf
  <2>. HIDE DEF T, last
  <2>6. \A j : j \in CommandsFrom(i)' <=> j \in T \cup last
    BY <2>1, <2>2, <2>3, <2>4, <2>5
  <2>. QED BY <2>6
<1>6. n \notin T
  BY <1>1 DEF CommandsFrom
<1>7. Cardinality(CommandsFrom(i)')
        = Cardinality(A) + IF next_token(history'[n]) \in Commands THEN 1 ELSE 0
  <2>. HIDE DEF T, n, A
  <2>1. CASE next_token(history'[n]) \in Commands
    <3>1. CommandsFrom(i)' = T \cup {n}
      BY <1>5, <2>1
    <3>2. Cardinality(T \cup {n}) = Cardinality(T) + 1
      BY <1>3, <1>6, FS_AddElement
    <3>. QED BY <1>3, <2>1, <3>1, <3>2
  <2>2. CASE next_token(history'[n]) \notin Commands
    <3>1. CommandsFrom(i)' = T
      BY <1>5, <2>2
    <3>. QED BY <1>3, <2>2, <3>1
  <2>. QED BY <2>1, <2>2
<1>8. NameOf(i)' = NameOf(i + d)
  BY <1>4
<1>. QED BY <1>7, <1>8 DEF n

\* The commands from a line on are at most as many as the lines are.
LEMMA CommandsCount ==
  ASSUME NEW i \in 1..Len(history), Len(history) \in Nat
  PROVE  /\ Cardinality(CommandsFrom(i)) \in 0..Len(history) - i + 1
         /\ NameOf(i) \in Commands => Cardinality(CommandsFrom(i)) \in 1..Len(history) - i + 1
         /\ i = Len(history) /\ NameOf(i) \in Commands => Cardinality(CommandsFrom(i)) = 1
<1>. DEFINE A == CommandsFrom(i)
<1>1. A \in SUBSET (i..Len(history))
  BY DEF CommandsFrom
<1>2. IsFiniteSet(i..Len(history)) /\ Cardinality(i..Len(history)) = Len(history) - i + 1
  BY FS_Interval
<1>3. NameOf(i) \in Commands => i \in A
  BY DEF CommandsFrom
<1>. HIDE DEF A
<1>4. IsFiniteSet(A) /\ Cardinality(A) <= Len(history) - i + 1
  BY <1>1, <1>2, FS_Subset
<1>5. Cardinality(A) \in Nat
  BY <1>4, FS_CardinalityType
<1>6. Cardinality(A) = 0 => A = {}
  BY <1>4, FS_EmptySet
<1>. QED BY <1>3, <1>4, <1>5, <1>6 DEF A

\* No line is in the history while the name is asked for.
LogInv == LogNamesHistory /\ (asker = "login" => history = << >>)

\* Every step takes the same command into both lists, or a command into neither.
LEMMA LogStep ==
  ASSUME TypeOK, MemoryOK', LogInv, [Next]_vars
  PROVE  LogInv'
<1>1. /\ history \in Seq(Line) /\ Len(history) <= HISTORY_MAX
      /\ syslog \in Seq(Commands \cup {BootEvent}) /\ Len(syslog) <= SYSLOG_MAX
      /\ Len(history) \in Nat /\ Len(syslog) \in Nat
      /\ history' \in Seq(Line) /\ Len(history') <= HISTORY_MAX
      /\ Len(history') \in Nat /\ Len(syslog') \in Nat /\ Len(syslog') <= SYSLOG_MAX
      /\ line \in Line
  BY LenProperties DEF TypeOK, MemoryOK
<1>2. /\ HISTORY_MAX \in Nat \ {0} /\ SYSLOG_MAX \in Nat \ {0}
      /\ HISTORY_MAX <= SYSLOG_MAX
  BY ShellAssumption, LogAssumption
<1>3. ASSUME history' = history, syslog' = syslog PROVE LogNamesHistory'
  <2>1. \A i : NameOf(i)' = NameOf(i) /\ CommandsFrom(i)' = CommandsFrom(i)
    BY <1>3 DEF NameOf, CommandsFrom
  <2>. QED BY <1>3, <2>1 DEF LogInv, LogNamesHistory
<1>4. CASE EnterUnknown
  <2>. DEFINE x == Trim(line)
              n == Len(history')
  <2>1. x \in Line /\ next_token(x) \notin Commands /\ syslog' = syslog /\ asker' = "shell"
    BY <1>1, <1>4, Trimmed DEF EnterUnknown
  <2>2. history' = IF Len(history) < HISTORY_MAX THEN Append(history, x)
                   ELSE Append(Tail(history), x)
    BY <1>4 DEF EnterUnknown, add_history
  <2>. HIDE DEF x
  <2>3. PICK d \in {0, 1} :
          /\ n = Len(history) + 1 - d
          /\ \A i \in 1..n - 1 : history'[i] = history[i + d]
          /\ history'[n] = x
    BY <1>1, <1>2, <2>1, <2>2, Kept
  <2>4. next_token(history'[n]) \notin Commands
    BY <2>1, <2>3 DEF NameOf
  <2>5. ASSUME NEW i \in 1..n, NameOf(i)' \in Commands
        PROVE  /\ Cardinality(CommandsFrom(i)') <= Len(syslog')
               /\ syslog'[Len(syslog') + 1 - Cardinality(CommandsFrom(i)')] = NameOf(i)'
    <3>1. i \in 1..n - 1 /\ i + d \in 1..Len(history)
      <4>1. i # n
        BY <2>4, <2>5 DEF NameOf
      <4>. QED BY <1>1, <2>3, <4>1
    <3>2. /\ NameOf(i)' = NameOf(i + d)
          /\ Cardinality(CommandsFrom(i)') = Cardinality(CommandsFrom(i + d)) + 0
      BY <1>1, <2>3, <2>4, <3>1, CommandsLater
    <3>3. Cardinality(CommandsFrom(i + d)) \in Nat
      BY <1>1, <3>1, CommandsCount
    <3>. QED BY <2>1, <2>5, <3>1, <3>2, <3>3 DEF LogInv, LogNamesHistory
  <2>. QED BY <2>1, <2>5 DEF LogInv, LogNamesHistory
<1>5. CASE EnterCommand
  <2>. DEFINE x == Trim(line)
              name == next_token(x)
              n == Len(history')
              m == Len(syslog')
  <2>1. x \in Line /\ name \in Commands /\ asker' = "shell"
    BY <1>1, <1>5, Trimmed DEF EnterCommand
  <2>2. history' = IF Len(history) < HISTORY_MAX THEN Append(history, x)
                   ELSE Append(Tail(history), x)
    BY <1>5 DEF EnterCommand, add_history
  <2>3. syslog' = IF Len(syslog) < SYSLOG_MAX THEN Append(syslog, name)
                  ELSE Append(Tail(syslog), name)
    BY <1>5 DEF EnterCommand, log_event
  <2>4. PICK d \in {0, 1} :
          /\ n = Len(history) + 1 - d
          /\ \A i \in 1..n - 1 : history'[i] = history[i + d]
          /\ history'[n] = x
    <3>. HIDE DEF x
    <3>. QED BY <1>1, <1>2, <2>1, <2>2, Kept
  <2>5. PICK e \in {0, 1} :
          /\ m = Len(syslog) + 1 - e
          /\ e = 1 => Len(syslog) = SYSLOG_MAX
          /\ \A i \in 1..m - 1 : syslog'[i] = syslog[i + e]
          /\ syslog'[m] = name
    <3>. HIDE DEF name
    <3>1. name \in Commands \cup {BootEvent}
      BY <2>1
    <3>. QED BY <1>1, <1>2, <2>3, <3>1, Kept
  <2>6. next_token(history'[n]) = name /\ next_token(history'[n]) \in Commands
    BY <2>1, <2>4 DEF NameOf
  <2>. HIDE DEF x, name
  <2>7. ASSUME NEW i \in 1..n, NameOf(i)' \in Commands
        PROVE  /\ Cardinality(CommandsFrom(i)') <= m
               /\ syslog'[m + 1 - Cardinality(CommandsFrom(i)')] = NameOf(i)'
    <3>1. CASE i = n
      <4>1. Cardinality(CommandsFrom(i)') = 1
        <5>1. CommandsFrom(i)' = {j \in i..n : next_token(history'[j]) \in Commands}
          BY DEF CommandsFrom, NameOf
        <5>2. \A j : j \in i..n <=> j = n
          BY <3>1
        <5>3. CommandsFrom(i)' = {n}
          BY <2>6, <5>1, <5>2
        <5>. QED BY <5>3, FS_Singleton
      <4>2. m \in Nat /\ m >= 1 /\ m + 1 - 1 = m
        BY <1>1, <2>5, <1>2
      <4>3. NameOf(i)' = name
        BY <2>6, <3>1 DEF NameOf
      <4>. QED BY <2>5, <4>1, <4>2, <4>3
    <3>2. CASE i # n
      <4>. DEFINE k == Cardinality(CommandsFrom(i + d))
      <4>1. i \in 1..n - 1 /\ i + d \in 1..Len(history)
        BY <1>1, <2>4, <3>2
      <4>2. /\ NameOf(i)' = NameOf(i + d)
            /\ Cardinality(CommandsFrom(i)') = k + 1
        BY <1>1, <2>4, <2>6, <4>1, CommandsLater
      <4>3. NameOf(i + d) \in Commands
        BY <2>7, <4>2
      <4>4. k \in 1..Len(history) - (i + d) + 1
        BY <1>1, <4>1, <4>3, CommandsCount
      <4>5. k <= Len(syslog) /\ syslog[Len(syslog) + 1 - k] = NameOf(i + d)
        BY <4>1, <4>3 DEF LogInv, LogNamesHistory
      <4>. HIDE DEF k
      <4>6. k + 1 <= HISTORY_MAX
        BY <1>1, <1>2, <2>4, <4>1, <4>4
      <4>7. k + 1 <= m
        BY <1>1, <1>2, <2>5, <4>4, <4>5, <4>6
      <4>8. /\ m + 1 - (k + 1) \in 1..m - 1
            /\ m + 1 - (k + 1) + e = Len(syslog) + 1 - k
        BY <1>1, <2>5, <4>4, <4>7
      <4>. QED BY <2>5, <4>2, <4>5, <4>7, <4>8
    <3>. QED BY <3>1, <3>2
  <2>. QED BY <2>1, <2>7 DEF LogInv, LogNamesHistory
<1>6. ASSUME NEW raw, Login(raw) PROVE LogInv'
  <2>1. history' = << >> /\ asker' = "shell"
    BY <1>6 DEF Login, LogInv
  <2>2. 1..Len(history') = {}
    BY <2>1
  <2>. QED BY <2>1, <2>2 DEF LogInv, LogNamesHistory
<1>7. ASSUME UNCHANGED <<asker, memory>> PROVE LogInv'
  <2>1. UNCHANGED <<asker, history, syslog>>
    BY <1>7 DEF memory
  <2>. QED BY <1>3, <2>1 DEF LogInv
<1>8. CASE EnterName
  BY <1>6, <1>8 DEF EnterName
<1>9. CASE CtrlC
  <2>1. CASE Login(<< >>)
    BY <1>6, <2>1
  <2>2. CASE UNCHANGED <<asker, memory>>
    BY <1>7, <2>2
  <2>. QED BY <1>9, <2>1, <2>2 DEF CtrlC
<1>10. CASE UNCHANGED <<asker, memory>>
  BY <1>7, <1>10
<1>. QED
  BY <1>4, <1>5, <1>8, <1>9, <1>10
  DEF Next, vars, Output, EndOutput, Prompt, StartReading, Type, Erase, EnterBlank

\* However many lines history and log have dropped, the log ends with the commands
\* of the history.
THEOREM LogNamesHistoryAlways == Spec => []LogNamesHistory
<1>1. Init => LogInv
  <2>1. ASSUME Init PROVE history = << >> /\ 1..Len(history) = {}
    BY <2>1 DEF Init
  <2>. QED BY <2>1 DEF LogInv, LogNamesHistory
<1>2. Inv /\ Inv' /\ LogInv /\ [Next]_vars => LogInv'
  <2>. SUFFICES ASSUME Inv, Inv', LogInv, [Next]_vars PROVE LogInv'
    OBVIOUS
  <2>1. TypeOK /\ MemoryOK'
    BY DEF Inv, TypeOK, MemoryOK
  <2>. QED BY <2>1, LogStep
<1>3. LogInv => LogNamesHistory
  BY DEF LogInv
<1>. QED BY <1>1, <1>2, <1>3, Invariance, PTL DEF Spec

-----------------------------------------------------------------------------
(* The todo list.                                                          *)

TaskAt(i) == [task |-> todos[i], done |-> todo_done_flags[i]]
TaskList == [i \in 1..Len(todos) |-> TaskAt(i)]

\* A list is changed in its length or in its elements or not at all.
LEMMA SameTasks == UNCHANGED lists => TaskList' = TaskList
  BY DEF lists, TaskList, TaskAt

\* Every step adds, finishes or clears as the promise has it, or changes no task.
LEMMA TodoStep ==
  ASSUME Inv, [Next]_vars
  PROVE  [TL!Next]_TaskList
<1>1. /\ todos \in Seq(Texts) /\ Len(todos) \in Nat
      /\ todo_done_flags \in [1..TODO_MAX -> BOOLEAN] /\ TODO_MAX \in Nat
      /\ Len(todos) <= TODO_MAX
  BY ShellAssumption, LenProperties DEF Inv, TypeOK
<1>2. CASE cmd_todo_add
  <2>1. PICK t \in Texts : todos' = Append(todos, t)
    BY <1>2 DEF cmd_todo_add
  <2>2. /\ Len(todos) < TODO_MAX
        /\ todo_done_flags' = [todo_done_flags EXCEPT ![Len(todos) + 1] = FALSE]
    BY <1>2 DEF cmd_todo_add
  <2>3. /\ Len(todos') = Len(todos) + 1 /\ todos'[Len(todos) + 1] = t
        /\ \A i \in 1..Len(todos) : todos'[i] = todos[i]
    BY <1>1, <2>1
  <2>4. /\ todo_done_flags'[Len(todos) + 1] = FALSE
        /\ \A i \in 1..Len(todos) : todo_done_flags'[i] = todo_done_flags[i]
    <3>1. \A f, k, b : k \in DOMAIN f =>
            /\ [f EXCEPT ![k] = b][k] = b
            /\ \A j \in DOMAIN f : j # k => [f EXCEPT ![k] = b][j] = f[j]
      OBVIOUS
    <3>2. /\ DOMAIN todo_done_flags = 1..TODO_MAX /\ Len(todos) + 1 \in 1..TODO_MAX
          /\ \A i \in 1..Len(todos) : i \in 1..TODO_MAX /\ i # Len(todos) + 1
      BY <1>1, <2>2
    <3>3. /\ [todo_done_flags EXCEPT ![Len(todos) + 1] = FALSE][Len(todos) + 1] = FALSE
          /\ \A j \in 1..TODO_MAX : j # Len(todos) + 1 =>
               [todo_done_flags EXCEPT ![Len(todos) + 1] = FALSE][j] = todo_done_flags[j]
      BY <3>1, <3>2, Zenon
    <3>. QED BY <2>2, <3>2, <3>3, Zenon
  <2>5. TaskList' = [i \in 1..Len(todos) + 1 |->
                       IF i \in 1..Len(todos) THEN TaskAt(i) ELSE [task |-> t, done |-> FALSE]]
    <3>. DEFINE e(i) == IF i \in 1..Len(todos) THEN TaskAt(i) ELSE [task |-> t, done |-> FALSE]
    <3>1. ASSUME NEW i \in 1..Len(todos) + 1
          PROVE  [task |-> todos'[i], done |-> todo_done_flags'[i]] = e(i)
      <4>1. CASE i \in 1..Len(todos)
        BY <2>3, <2>4, <4>1, Zenon DEF TaskAt
      <4>2. CASE i \notin 1..Len(todos)
        <5>1. i = Len(todos) + 1
          BY <1>1, <4>2
        <5>. QED BY <2>3, <2>4, <4>2, <5>1, Zenon
      <4>. QED BY <4>1, <4>2
    <3>2. TaskList' = [i \in 1..Len(todos) + 1 |->
                         [task |-> todos'[i], done |-> todo_done_flags'[i]]]
      BY <2>3, Zenon DEF TaskList, TaskAt
    <3>. QED BY <3>1, <3>2, Zenon
  <2>6. \A n \in Nat : \A f, e :
          f = [i \in 1..n |-> f[i]] =>
            Append(f, e) = [i \in 1..n + 1 |-> IF i \in 1..n THEN f[i] ELSE e]
    OBVIOUS
  <2>7. TaskList' = Append(TaskList, [task |-> t, done |-> FALSE])
    <3>. DEFINE e == [task |-> t, done |-> FALSE]
    <3>1. TaskList = [i \in 1..Len(todos) |-> TaskList[i]]
      BY DEF TaskList
    <3>2. \A i \in 1..Len(todos) : TaskList[i] = TaskAt(i)
      BY DEF TaskList
    <3>. HIDE DEF e, TaskList, TaskAt
    <3>3. Append(TaskList, e)
            = [i \in 1..Len(todos) + 1 |-> IF i \in 1..Len(todos) THEN TaskList[i] ELSE e]
      <4>1. Len(todos) \in Nat
        BY <1>1
      <4>2. \A e1 : Append(TaskList, e1)
              = [i \in 1..Len(todos) + 1 |-> IF i \in 1..Len(todos) THEN TaskList[i] ELSE e1]
        BY <2>6, <3>1, <4>1
      <4>. QED BY <4>2
    <3>4. TaskList' = [i \in 1..Len(todos) + 1 |-> IF i \in 1..Len(todos) THEN TaskAt(i) ELSE e]
      BY <2>5 DEF e
    <3>5. Append(TaskList, e) = TaskList'
      BY <3>2, <3>3, <3>4
    <3>. QED BY <3>5 DEF e
  <2>8. Len(TaskList) = Len(todos)
    BY <1>1 DEF TaskList
  <2>. QED BY <2>2, <2>7, <2>8 DEF TL!Next, TL!Add, TaskList, TaskAt
<1>3. CASE cmd_todoclr
  <2>1. TaskList' = << >>
    BY <1>3 DEF cmd_todoclr, TaskList
  <2>. QED BY <2>1 DEF TL!Next, TL!Clear, TaskList, TaskAt
<1>4. CASE cmd_done
  <2>1. PICK i \in 1..Len(todos) :
          todo_done_flags' = [todo_done_flags EXCEPT ![i] = TRUE]
    BY <1>4 DEF cmd_done
  <2>2. todos' = todos
    BY <1>4 DEF cmd_done
  <2>3. TaskList' = [TaskList EXCEPT ![i] = [task |-> TaskList[i].task, done |-> TRUE]]
    <3>2. \A f, n, k, e : f = [j \in 1..n |-> f[j]] =>
            [f EXCEPT ![k] = e] = [j \in 1..n |-> IF j = k THEN e ELSE f[j]]
      OBVIOUS
    <3>3. TaskList = [j \in 1..Len(todos) |-> TaskList[j]]
      BY DEF TaskList
    <3>4. \A j \in 1..Len(todos) : TaskList[j] = TaskAt(j)
      BY DEF TaskList
    <3>5. TaskList[i].task = todos[i]
      <4>1. TaskList[i] = [task |-> todos[i], done |-> todo_done_flags[i]]
        BY <2>1, <3>4, Zenon DEF TaskAt
      <4>2. \A r, a, b : r = [task |-> a, done |-> b] => r.task = a
        OBVIOUS
      <4>. QED BY <4>1, <4>2, Zenon
    <3>6. [TaskList EXCEPT ![i] = [task |-> TaskList[i].task, done |-> TRUE]]
            = [TaskList EXCEPT ![i] = [task |-> todos[i], done |-> TRUE]]
      BY <3>5
    <3>7. [TaskList EXCEPT ![i] = [task |-> todos[i], done |-> TRUE]]
            = [j \in 1..Len(todos) |->
                 IF j = i THEN [task |-> todos[i], done |-> TRUE] ELSE TaskList[j]]
      BY <3>2, <3>3, Zenon
    <3>8. TaskList' = [j \in 1..Len(todos) |->
                         [task |-> todos[j], done |-> todo_done_flags'[j]]]
      BY <2>2, Zenon DEF TaskList, TaskAt
    <3>9. \A j \in 1..Len(todos) :
            todo_done_flags'[j] = IF j = i THEN TRUE ELSE todo_done_flags[j]
      <4>1. \A f, k, b : k \in DOMAIN f =>
              \A j \in DOMAIN f : [f EXCEPT ![k] = b][j] = IF j = k THEN b ELSE f[j]
        OBVIOUS
      <4>2. DOMAIN todo_done_flags = 1..TODO_MAX /\ 1..Len(todos) \subseteq 1..TODO_MAX
        BY <1>1
      <4>. QED BY <2>1, <4>1, <4>2, Zenon
    <3>10. \A j \in 1..Len(todos) :
             [task |-> todos[j], done |-> todo_done_flags'[j]]
               = IF j = i THEN [task |-> todos[i], done |-> TRUE] ELSE TaskList[j]
      BY <3>4, <3>9, Zenon DEF TaskAt
    <3>. QED BY <3>6, <3>7, <3>8, <3>10, Zenon
  <2>4. DOMAIN TaskList = 1..Len(todos)
    BY DEF TaskList
  <2>. QED BY <2>3, <2>4 DEF TL!Next, TL!Finish, TaskList, TaskAt
<1>5. CASE UNCHANGED <<todos, todo_done_flags>>
  <2>1. TaskList' = TaskList
    BY <1>5 DEF TaskList, TaskAt
  <2>. QED BY <2>1
<1>6. ASSUME UNCHANGED lists PROVE UNCHANGED <<todos, todo_done_flags>>
  BY <1>6 DEF lists
<1>7. CASE EnterCommand
  BY <1>2, <1>3, <1>4, <1>5, <1>6, <1>7
  DEF EnterCommand, Prints, Clears, Stops, ChangesLists, cmd_note_add, cmd_noteclr
<1>8. CASE UNCHANGED lists
  BY <1>5, <1>6, <1>8
<1>. QED
  BY <1>7, <1>8
  DEF Next, vars, memory, Output, EndOutput, Prompt, StartReading, Type, Erase, EnterName,
      CtrlC, Login, EnterBlank, EnterUnknown

\* The shell's two arrays and counter are a list of tasks, in every session.
THEOREM TodoRefinement == Spec => RefinesTodoList
<1>1. Init => TL!Init
  BY DEF Init, TL!Init
<1>2. Inv /\ [Next]_vars => [TL!Next]_TaskList
  BY TodoStep
<1>. QED BY <1>1, <1>2, Invariance, PTL DEF Spec, RefinesTodoList, TL!Spec, TaskList, TaskAt
=============================================================================

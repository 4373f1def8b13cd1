-------------------------- MODULE CodeStudioProofs --------------------------
(* Code Studio: the limits of the table and of the text, and the cursor that *)
(* a frame shows, whatever rm does to the table under the editor.            *)
EXTENDS CodeStudio, TextLinesProofs

LEMMA SlotFacts ==
  ASSUME TypeOK, NEW i \in Slots
  PROVE  slots[i] \in Slot /\ slots[i].text \in Text
  BY DEF TypeOK, Slot

\* Where ram_file_find and ram_file_alloc point.
LEMMA FindFacts ==
  ASSUME TypeOK, NEW n
  PROVE  /\ ram_file_find(n) \in Listed \cup {-1}
         /\ Allocated(n) \in Slots \cup {-1}
         /\ Listed \subseteq Slots
         /\ ram_file_find(n) >= 0 =>
              /\ ram_file_find(n) \in Matches(n)
              /\ \A i \in Matches(n) : ram_file_find(n) <= i
         /\ ~(ram_file_find(n) >= 0) => Matches(n) = {}
<1>1. edit_file_count \in Nat /\ edit_file_count <= EDIT_FILE_MAX /\ EDIT_FILE_MAX \in Nat \ {0}
  BY SizesAssumption DEF TypeOK
<1>2. Listed \subseteq Slots /\ Listed \subseteq Nat
  BY <1>1 DEF Listed, Slots
<1>3. /\ ram_file_find(n) \in Listed \cup {-1}
      /\ ram_file_find(n) >= 0 =>
           /\ ram_file_find(n) \in Matches(n)
           /\ \A i \in Matches(n) : ram_file_find(n) <= i
      /\ ~(ram_file_find(n) >= 0) => Matches(n) = {}
  <2>1. CASE Matches(n) = {}
    BY <2>1 DEF ram_file_find
  <2>2. CASE Matches(n) # {}
    <3>1. Matches(n) \subseteq Listed
      BY DEF Matches
    <3>2. \E i \in Matches(n) : \A j \in Matches(n) : i <= j
      BY <1>2, <2>2, <3>1, FirstMatch
    <3>. DEFINE k == ram_file_find(n)
    <3>3. k \in Matches(n) /\ \A j \in Matches(n) : k <= j
      BY <2>2, <3>2 DEF ram_file_find
    <3>4. k \in Listed /\ k \in Nat
      BY <1>2, <3>1, <3>3
    <3>. HIDE DEF k
    <3>5. k >= 0
      BY <3>4
    <3>. QED BY <3>3, <3>4, <3>5 DEF k
  <2>. QED BY <2>1, <2>2
<1>4. edit_file_count >= EDIT_FILE_MAX \/ edit_file_count \in Slots
  BY <1>1 DEF Slots
<1>. QED BY <1>2, <1>3, <1>4 DEF Allocated

-----------------------------------------------------------------------------
(* The cursor and the view.                                                *)

LEMMA CurrentFacts ==
  ASSUME TypeOK, code_file >= 0
  PROVE  code_file \in Slots /\ CurrentEdit \in Edit
<1>1. code_file \in Slots
  BY DEF TypeOK, Slots
<1>2. slots[code_file].text \in Text
  BY <1>1, SlotFacts
<1>3. code_cy \in Nat /\ code_cx \in Nat /\ code_dirty \in BOOLEAN
  BY LimitsAssumption DEF TypeOK
<1>. QED BY <1>1, <1>2, <1>3 DEF CurrentEdit, Edit

\* editor_clamp keeps cursor and view inside the arrays.
LEMMA ClampInArrays ==
  ASSUME NEW e \in Edit, NEW top \in 0..EDIT_LINES_MAX - 1, NEW col \in 0..EDIT_LINE_MAX - 1
  PROVE  /\ Clamp(e).cy \in 0..EDIT_LINES_MAX - 1
         /\ Clamp(e).cx \in 0..EDIT_LINE_MAX - 1
         /\ FirstRow(top, Clamp(e)) \in 0..EDIT_LINES_MAX - 1
         /\ FirstCol(col, Clamp(e)) \in 0..EDIT_LINE_MAX - 1
         /\ Clamp(e).cy \in FirstRow(top, Clamp(e))..FirstRow(top, Clamp(e)) + VIEW_ROWS - 1
         /\ Clamp(e).cx \in FirstCol(col, Clamp(e))..FirstCol(col, Clamp(e)) + VIEW_COLS - 1
<1>. DEFINE c == Clamp(e)
            r == FirstRow(top, c)
            k == FirstCol(col, c)
<1>1. c \in Edit /\ OnText(c)
  BY Clamped
<1>2. /\ c.cy \in Nat /\ c.cx \in Nat /\ c.text \in Text /\ c.cy + 1 \in 1..Len(c.text)
      /\ LineAt(c) \in Line /\ c.cx \in 0..Len(LineAt(c))
  BY <1>1, EditFacts
<1>3. Len(c.text) \in Nat /\ Len(c.text) <= EDIT_LINES_MAX
  BY <1>2, TextFacts
<1>4. Len(LineAt(c)) \in Nat /\ Len(LineAt(c)) < EDIT_LINE_MAX
  BY <1>2, LineFacts
<1>. HIDE DEF c
<1>5. c.cy \in 0..EDIT_LINES_MAX - 1 /\ c.cx \in 0..EDIT_LINE_MAX - 1
  BY <1>2, <1>3, <1>4, LimitsAssumption
<1>6. top \in Nat /\ col \in Nat
  BY LimitsAssumption
<1>7. r \in Nat /\ c.cy \in r..r + VIEW_ROWS - 1 /\ (r <= top \/ r <= c.cy)
  BY <1>2, <1>6, SizesAssumption, ScrolledToCursor DEF FirstRow
<1>8. k \in Nat /\ c.cx \in k..k + VIEW_COLS - 1 /\ (k <= col \/ k <= c.cx)
  BY <1>2, <1>6, SizesAssumption, ScrolledToCursor DEF FirstCol
<1>. HIDE DEF r, k
<1>9. r \in 0..EDIT_LINES_MAX - 1 /\ k \in 0..EDIT_LINE_MAX - 1
  BY <1>5, <1>6, <1>7, <1>8, LimitsAssumption
<1>. QED BY <1>5, <1>7, <1>8, <1>9 DEF c, r, k

-----------------------------------------------------------------------------
LEMMA InitTypeOK == Init => TypeOK
<1>1. 0 \in 0..EDIT_LINES_MAX - 1 /\ 0 \in 0..EDIT_LINE_MAX - 1 /\ 0 \in 0..EDIT_FILE_MAX
  BY LimitsAssumption, SizesAssumption
<1>2. [name |-> NoName, text |-> EmptyText] \in Slot
  BY EmptyIsText DEF Slot
<1>. QED BY <1>1, <1>2 DEF Init, TypeOK

\* The cursor and the corner of the view have indices of the arrays.
Placed ==
  /\ code_cy \in 0..EDIT_LINES_MAX - 1 /\ code_cx \in 0..EDIT_LINE_MAX - 1
  /\ code_top \in 0..EDIT_LINES_MAX - 1 /\ code_col \in 0..EDIT_LINE_MAX - 1

LEMMA OpenTypeOK ==
  ASSUME TypeOK, NEW n \in Names, code_open_file(n)
  PROVE  TypeOK'
<1>1. 0 \in 0..EDIT_LINES_MAX - 1 /\ 0 \in 0..EDIT_LINE_MAX - 1
  BY LimitsAssumption
<1>2. slots' \in [Slots -> Slot] /\ edit_file_count' \in 0..EDIT_FILE_MAX
  <2>1. CASE UNCHANGED table
    BY <2>1 DEF TypeOK, table
  <2>2. CASE ~UNCHANGED table
    <3>1. /\ edit_file_count < EDIT_FILE_MAX /\ edit_file_count' = edit_file_count + 1
          /\ slots' = [slots EXCEPT ![edit_file_count] = [name |-> Cut[n], text |-> EmptyText]]
      BY <2>2, SizesAssumption DEF code_open_file, ram_file_alloc, TypeOK
    <3>2. [name |-> Cut[n], text |-> EmptyText] \in Slot
      BY EmptyIsText, NamesAssumption DEF Slot
    <3>3. slots' \in [Slots -> Slot]
      BY <3>1, <3>2 DEF TypeOK
    <3>4. edit_file_count' \in 0..EDIT_FILE_MAX
      BY <3>1, SizesAssumption DEF TypeOK
    <3>. QED BY <3>3, <3>4
  <2>. QED BY <2>1, <2>2
<1>3. CASE Allocated(n) < 0
  BY <1>2, <1>3 DEF code_open_file, TypeOK, cursor, view
<1>4. CASE ~(Allocated(n) < 0)
  <2>1. Allocated(n) \in Slots \cup {-1}
    BY FindFacts
  <2>. QED BY <1>1, <1>2, <1>4, <2>1 DEF code_open_file, TypeOK
<1>. QED BY <1>3, <1>4

LEMMA EditKeyTypeOK ==
  ASSUME TypeOK, code_file >= 0, NEW key \in Chars \cup MoveKeys \cup EditKeys, EditKey(key)
  PROVE  TypeOK'
<1>. DEFINE c == Clamp(CurrentEdit)
            a == EditAfter(key)
            r == FirstRow(code_top, c)
            k == FirstCol(code_col, c)
<1>1. code_file \in Slots /\ CurrentEdit \in Edit
  BY CurrentFacts
<1>2. c \in Edit /\ OnText(c)
  BY <1>1, Clamped
<1>3. a \in Edit
  BY <1>2, KeysKeepLimits DEF EditAfter
<1>4. r \in 0..EDIT_LINES_MAX - 1 /\ k \in 0..EDIT_LINE_MAX - 1
  BY <1>1, ClampInArrays DEF TypeOK
<1>5. /\ slots' = [slots EXCEPT ![code_file].text = a.text]
      /\ code_cy' = Clamp(a).cy /\ code_cx' = Clamp(a).cx
      /\ code_top' = FirstRow(r, Clamp(a)) /\ code_col' = FirstCol(k, Clamp(a))
      /\ code_dirty' = a.dirty /\ drawn' = FALSE
      /\ UNCHANGED <<edit_file_count, code_file, open, stale>>
  BY DEF EditKey, editor_clamp
<1>. HIDE DEF a, r, k, c
<1>6. Placed'
  BY <1>3, <1>4, <1>5, ClampInArrays DEF Placed
<1>7. slots' \in [Slots -> Slot]
  <2>1. [slots[code_file] EXCEPT !.text = a.text] \in Slot
    BY <1>1, <1>3, SlotFacts DEF Slot, Edit
  <2>2. slots' = [slots EXCEPT ![code_file] = [slots[code_file] EXCEPT !.text = a.text]]
    BY <1>5
  <2>. QED BY <2>1, <2>2 DEF TypeOK
<1>8. a.dirty \in BOOLEAN
  BY <1>3 DEF Edit
<1>. QED BY <1>5, <1>6, <1>7, <1>8 DEF TypeOK, Placed

LEMMA RmTypeOK ==
  ASSUME TypeOK, NEW n \in Names, ConsoleRm(n)
  PROVE  TypeOK'
<1>1. Listed \subseteq Slots /\ ram_file_find(n) \in Listed
  BY FindFacts DEF ConsoleRm
<1>2. slots' \in [Slots -> Slot]
  <2>1. \A i \in Slots : (IF i >= ram_file_find(n) /\ i + 1 \in Listed THEN slots[i + 1]
                          ELSE slots[i]) \in Slot
    BY <1>1, SlotFacts
  <2>. QED BY <2>1 DEF ConsoleRm, RemoveSlot
<1>3. edit_file_count' = edit_file_count - 1 /\ edit_file_count - 1 \in 0..EDIT_FILE_MAX
  BY <1>1, SizesAssumption DEF ConsoleRm, RemoveSlot, TypeOK, Listed
<1>. QED BY <1>2, <1>3 DEF ConsoleRm, TypeOK, cursor, view

LEMMA ClampTypeOK ==
  ASSUME TypeOK, code_file >= 0, editor_clamp(CurrentEdit, code_top, code_col),
         UNCHANGED <<slots, edit_file_count, code_file, stale>>,
         code_dirty' \in BOOLEAN, open' \in BOOLEAN, drawn' \in BOOLEAN
  PROVE  TypeOK'
<1>1. CurrentEdit \in Edit
  BY CurrentFacts
<1>2. Placed'
  BY <1>1, ClampInArrays DEF editor_clamp, Placed, TypeOK
<1>. QED BY <1>2 DEF TypeOK, Placed

LEMMA NextTypeOK == TypeOK /\ [Next]_vars => TypeOK'
<1>. SUFFICES ASSUME TypeOK, [Next]_vars PROVE TypeOK'
  OBVIOUS
<1>1. ASSUME NEW key \in Chars \cup MoveKeys \cup EditKeys \cup {"F8", "F9"}, handle_code_key(key)
      PROVE  TypeOK'
  <2>1. CASE code_file < 0 /\ key \in Chars /\ code_open_file(MAIN_C)
    BY <2>1, OpenTypeOK, NamesAssumption
  <2>2. CASE UNCHANGED vars
    BY <2>2 DEF TypeOK, vars, table, cursor, view, history
  <2>3. CASE code_file >= 0 /\ CloseKey(key)
    <3>1. code_dirty' \in BOOLEAN /\ open' \in BOOLEAN /\ drawn' \in BOOLEAN
      BY <2>3 DEF CloseKey
    <3>. QED BY <2>3, <3>1, ClampTypeOK DEF CloseKey, table
  <2>4. CASE code_file >= 0 /\ key \in Chars \cup MoveKeys \cup EditKeys /\ EditKey(key)
    BY <2>4, EditKeyTypeOK
  <2>. QED BY <1>1, <2>1, <2>2, <2>3, <2>4 DEF handle_code_key
<1>2. ASSUME NEW n \in Names, OpenFile(n)
      PROVE  TypeOK'
  BY <1>2, OpenTypeOK DEF OpenFile
<1>3. ASSUME NEW n \in Names, ConsoleRm(n)
      PROVE  TypeOK'
  BY <1>3, RmTypeOK
<1>4. CASE OpenWindow \/ CloseWindow
  BY <1>4 DEF OpenWindow, CloseWindow, TypeOK, table, cursor, view
<1>5. CASE draw_code
  <2>1. CASE code_file < 0
    BY <1>5, <2>1 DEF draw_code, TypeOK, table, cursor, view
  <2>2. CASE ~(code_file < 0)
    <3>1. /\ code_file >= 0 /\ code_dirty' \in BOOLEAN /\ open' \in BOOLEAN
          /\ drawn' \in BOOLEAN
      BY <1>5, <2>2, SizesAssumption DEF draw_code, TypeOK, Slots
    <3>. QED BY <1>5, <2>2, <3>1, ClampTypeOK DEF draw_code, table
  <2>. QED BY <2>1, <2>2
<1>6. CASE UNCHANGED vars
  BY <1>6 DEF TypeOK, vars, table, cursor, view, history
<1>. QED BY <1>1, <1>2, <1>3, <1>4, <1>5, <1>6 DEF Next

\* For every number and size of files and lines and whatever names are cut
\* to, no sequence of keys, commands and frames leaves an array or the table
\* (src/gui.c:166-172, 286).
THEOREM TypeCorrect == Spec => []TypeOK
  BY InitTypeOK, NextTypeOK, PTL DEF Spec

\* For every size of the window, a frame shows the cursor, also when rm has put
\* another text under it (src/gui.c:172).
THEOREM CursorShownAlways == Spec => []CursorShown
<1>1. Init => CursorShown
  BY DEF Init, CursorShown
<1>2. TypeOK /\ CursorShown /\ [Next]_vars => CursorShown'
  <2>. SUFFICES ASSUME TypeOK, CursorShown, [Next]_vars, drawn', code_file' >= 0
                PROVE  CursorShown'
    BY DEF CursorShown
  <2>1. CASE UNCHANGED vars
    BY <2>1 DEF CursorShown, CurrentEdit, vars, table, cursor, view, history
  <2>2. CASE draw_code
    <3>. DEFINE c == Clamp(CurrentEdit)
    <3>1. slots' = slots /\ code_file' = code_file /\ ~(code_file < 0)
      BY <2>2, SizesAssumption DEF draw_code, table, TypeOK, Slots
    <3>2. CurrentEdit \in Edit /\ code_file \in Slots /\ code_file >= 0
      BY <3>1, CurrentFacts
    <3>3. /\ code_cy' = c.cy /\ code_cx' = c.cx
          /\ code_top' = FirstRow(code_top, c) /\ code_col' = FirstCol(code_col, c)
      BY <2>2, <3>1 DEF draw_code, editor_clamp
    <3>4. OnText(c) /\ c.text = slots[code_file].text
      BY <3>2, Clamped DEF CurrentEdit
    <3>5. /\ code_cy' \in code_top'..code_top' + VIEW_ROWS - 1
          /\ code_cx' \in code_col'..code_col' + VIEW_COLS - 1
      BY <3>2, <3>3, ClampInArrays DEF TypeOK
    <3>. HIDE DEF c
    <3>6. CurrentEdit'.text = c.text /\ CurrentEdit'.cy = c.cy /\ CurrentEdit'.cx = c.cx
      BY <3>1, <3>3, <3>4 DEF CurrentEdit
    <3>7. OnText(CurrentEdit')
      BY <3>4, <3>6 DEF OnText
    <3>. QED BY <3>5, <3>7 DEF CursorShown
  <2>3. CASE OpenWindow \/ CloseWindow
    BY <2>3 DEF OpenWindow, CloseWindow
  <2>4. ASSUME NEW n \in Names, OpenFile(n) \/ ConsoleRm(n)
        PROVE  FALSE
    BY <2>4 DEF OpenFile, code_open_file, ConsoleRm
  <2>5. ASSUME NEW key \in Chars \cup MoveKeys \cup EditKeys \cup {"F8", "F9"}, handle_code_key(key)
        PROVE  UNCHANGED vars
    BY <2>5 DEF handle_code_key, code_open_file, EditKey, CloseKey
  <2>. QED BY <2>1, <2>2, <2>3, <2>4, <2>5 DEF Next
<1>. QED BY <1>1, <1>2, TypeCorrect, PTL DEF Spec
-----------------------------------------------------------------------------
(* The table is a list of flat files.                                      *)

FlatFile(f) == [name |-> f.name, text |-> FT!Flat(f.text)]
FlatFiles == [name : Names \cup {NoName}, text : Seq(Letters)]

\* The files in the first n slots.
ListOf(t, n) == [i \in 1..n |-> [name |-> t[i - 1].name, text |-> FT!Flat(t[i - 1].text)]]
List == ListOf(slots, edit_file_count)

LEMMA ListFacts ==
  ASSUME NEW t \in [Slots -> Slot], NEW n \in 0..EDIT_FILE_MAX
  PROVE  /\ ListOf(t, n) \in Seq(FlatFiles) /\ Len(ListOf(t, n)) = n
         /\ DOMAIN ListOf(t, n) = 1..n
         /\ \A i \in 1..n : /\ ListOf(t, n)[i] = FlatFile(t[i - 1])
                           /\ i - 1 \in Slots /\ t[i - 1] \in Slot
<1>. DEFINE l == ListOf(t, n)
<1>1. n \in Nat /\ n <= EDIT_FILE_MAX /\ EDIT_FILE_MAX \in Nat
  BY SizesAssumption
<1>2. \A i \in 1..n : i - 1 \in Slots /\ t[i - 1] \in Slot
  BY <1>1 DEF Slots
<1>3. /\ \A i \in 1..n : l[i] = FlatFile(t[i - 1])
      /\ l = [i \in 1..n |-> l[i]]
  BY DEF ListOf, FlatFile
<1>. HIDE DEF l
<1>4. ASSUME NEW i \in 1..n
      PROVE  l[i] \in FlatFiles
  <2>1. t[i - 1] \in Slot /\ t[i - 1].text \in Text /\ t[i - 1].name \in Names \cup {NoName}
    BY <1>2 DEF Slot
  <2>2. FT!Flat(t[i - 1].text) \in Seq(Letters)
    BY <2>1, FlatIsString
  <2>. QED BY <1>3, <2>1, <2>2 DEF FlatFile, FlatFiles
<1>5. l \in [1..n -> FlatFiles]
  BY <1>3, <1>4
<1>6. l \in Seq(FlatFiles)
  BY <1>1, <1>5, SeqDef
<1>7. Len(l) = n /\ DOMAIN l = 1..n
  BY <1>1, <1>5, <1>6, LenProperties
<1>. QED BY <1>2, <1>3, <1>6, <1>7 DEF l

LEMMA EmptyList == ListOf(slots, 0) = << >>
<1>. DEFINE l == ListOf(slots, 0)
<1>1. l = [i \in {} |-> i]
  BY DEF ListOf
<1>. HIDE DEF l
<1>. QED BY <1>1 DEF l

\* The string of one character more or less does not depend on whose it is.
LEMMA SameCharacter ==
  ASSUME NEW s, NEW t, FT!OneCharacter(s, t)
  PROVE  FL!OneCharacter(s, t)
BY DEF FT!OneCharacter, FL!OneCharacter, FT!OneLess, FL!OneLess, FT!RemoveAt, FL!RemoveAt

\* A new file is the last of the list, and empty.
LEMMA FileAdded ==
  ASSUME NEW t \in [Slots -> Slot], NEW u \in [Slots -> Slot], NEW n \in 0..EDIT_FILE_MAX - 1,
         NEW c \in Names, u = [t EXCEPT ![n] = [name |-> c, text |-> EmptyText]]
  PROVE  ListOf(u, n + 1) = Append(ListOf(t, n), [name |-> c, text |-> << >>])
<1>. DEFINE l == ListOf(t, n)
            m == ListOf(u, n + 1)
            r == [name |-> c, text |-> << >>]
            x == [name |-> c, text |-> EmptyText]
<1>1. n \in Nat /\ n \in 0..EDIT_FILE_MAX /\ n + 1 \in 0..EDIT_FILE_MAX /\ n \in Slots
  BY SizesAssumption DEF Slots
<1>2. r = FlatFile(x)
  BY EmptyFlat DEF FlatFile
<1>3. u[n] = x /\ \A i \in Slots : i # n => u[i] = t[i]
  BY <1>1
<1>4. /\ l \in Seq(FlatFiles) /\ Len(l) = n
      /\ \A i \in 1..n : l[i] = FlatFile(t[i - 1]) /\ i - 1 \in Slots
  BY <1>1, ListFacts
<1>5. /\ m \in Seq(FlatFiles) /\ Len(m) = n + 1
      /\ \A i \in 1..n + 1 : m[i] = FlatFile(u[i - 1])
  BY <1>1, ListFacts
<1>6. r \in FlatFiles
  <2>1. << >> \in Seq(Letters)
    OBVIOUS
  <2>. QED BY <2>1 DEF FlatFiles
<1>. HIDE DEF l, m, r, x
<1>7. /\ Append(l, r) \in Seq(FlatFiles) /\ Len(Append(l, r)) = n + 1
      /\ \A i \in 1..n : Append(l, r)[i] = l[i]
      /\ Append(l, r)[n + 1] = r
  BY <1>1, <1>4, <1>6, AppendProperties
<1>8. ASSUME NEW i \in 1..n + 1
      PROVE  m[i] = Append(l, r)[i]
  <2>1. CASE i = n + 1
    <3>1. i - 1 = n
      BY <1>1, <2>1
    <3>. QED BY <1>2, <1>3, <1>5, <1>7, <2>1, <3>1
  <2>2. CASE i # n + 1
    <3>1. i \in 1..n /\ i - 1 # n
      BY <1>1, <2>2
    <3>. QED BY <1>3, <1>4, <1>5, <1>7, <3>1
  <2>. QED BY <2>1, <2>2
<1>9. m = Append(l, r)
  BY <1>1, <1>5, <1>7, <1>8, SeqEqual
<1>. QED BY <1>9 DEF l, m, r

\* What rm leaves is the list without the removed file.
LEMMA FileRemoved ==
  ASSUME NEW t \in [Slots -> Slot], NEW u \in [Slots -> Slot], NEW n \in 1..EDIT_FILE_MAX,
         NEW k \in 0..n - 1,
         u = [i \in Slots |-> IF i >= k /\ i + 1 \in 0..n - 1 THEN t[i + 1] ELSE t[i]]
  PROVE  ListOf(u, n - 1) = Without(ListOf(t, n), k)
<1>. DEFINE l == ListOf(t, n)
            m == ListOf(u, n - 1)
<1>1. /\ n \in Nat /\ n \in 0..EDIT_FILE_MAX /\ n - 1 \in 0..EDIT_FILE_MAX
      /\ k \in Nat /\ k < n /\ n - 1 \in Nat
  BY SizesAssumption
<1>2. /\ l \in Seq(FlatFiles) /\ Len(l) = n
      /\ \A i \in 1..n : l[i] = FlatFile(t[i - 1])
  BY <1>1, ListFacts
<1>3. /\ m \in Seq(FlatFiles) /\ Len(m) = n - 1
      /\ \A i \in 1..n - 1 : m[i] = FlatFile(u[i - 1]) /\ i - 1 \in Slots
  BY <1>1, ListFacts
<1>. HIDE DEF l, m
<1>4. /\ Without(l, k) \in Seq(FlatFiles) /\ Len(Without(l, k)) = n - 1
      /\ \A i \in 1..k : Without(l, k)[i] = l[i]
      /\ \A i \in k + 1..n - 1 : Without(l, k)[i] = l[i + 1]
  <2>1. k \in 0..Len(l) - 1
    BY <1>1, <1>2
  <2>2. /\ Without(l, k) \in Seq(FlatFiles) /\ Len(Without(l, k)) = Len(l) - 1
        /\ \A i \in 1..k : Without(l, k)[i] = l[i]
        /\ \A i \in k + 1..Len(l) - 1 : Without(l, k)[i] = l[i + 1]
    BY <1>2, <2>1, Dropped
  <2>. QED BY <1>2, <2>2
<1>5. ASSUME NEW i \in 1..n - 1
      PROVE  m[i] = Without(l, k)[i]
  <2>1. i - 1 \in Slots /\ m[i] = FlatFile(u[i - 1])
    BY <1>3
  <2>2. CASE i <= k
    <3>1. i \in 1..k /\ i \in 1..n /\ ~(i - 1 >= k)
      BY <1>1, <2>2
    <3>2. u[i - 1] = t[i - 1]
      BY <2>1, <3>1
    <3>. QED BY <1>2, <1>4, <2>1, <3>1, <3>2
  <2>3. CASE ~(i <= k)
    <3>. DEFINE j == i - 1
    <3>1. i \in k + 1..n - 1 /\ i + 1 \in 1..n /\ j >= k /\ j + 1 = i /\ i + 1 - 1 = i
          /\ j + 1 \in 0..n - 1 /\ j \in Slots
      BY <1>1, <2>1, <2>3
    <3>. HIDE DEF j
    <3>2. u[j] = t[i]
      BY <3>1
    <3>3. l[i + 1] = FlatFile(t[i])
      BY <1>2, <3>1
    <3>. QED BY <1>4, <2>1, <3>1, <3>2, <3>3 DEF j
  <2>. QED BY <2>2, <2>3
<1>6. m = Without(l, k)
  BY <1>3, <1>4, <1>5, SeqEqual
<1>. QED BY <1>6 DEF l, m

\* Nothing of the list, the place or the certainty changes.
SameList == List' = List /\ code_file' = code_file /\ stale' = stale

LEMMA SameTable ==
  ASSUME UNCHANGED table
  PROVE  List' = List
BY DEF List, ListOf, table

\* Files of a name are where the table has them, one place further.
LEMMA PlacesOfName ==
  ASSUME TypeOK, NEW n
  PROVE  /\ DOMAIN List = 1..edit_file_count /\ Len(List) = edit_file_count
         /\ edit_file_count \in Nat
         /\ \A i \in DOMAIN List : List[i].name = n <=> i - 1 \in Matches(n)
<1>1. slots \in [Slots -> Slot] /\ edit_file_count \in 0..EDIT_FILE_MAX
  BY DEF TypeOK
<1>2. edit_file_count \in Nat
  BY <1>1, SizesAssumption
<1>3. /\ DOMAIN List = 1..edit_file_count /\ Len(List) = edit_file_count
      /\ \A i \in 1..edit_file_count : List[i] = FlatFile(slots[i - 1])
  BY <1>1, ListFacts DEF List
<1>4. ASSUME NEW i \in 1..edit_file_count
      PROVE  List[i].name = n <=> i - 1 \in Matches(n)
  <2>1. i - 1 \in Listed
    BY <1>2 DEF Listed
  <2>2. List[i].name = slots[i - 1].name
    BY <1>3 DEF FlatFile
  <2>. QED BY <2>1, <2>2 DEF Matches
<1>. QED BY <1>2, <1>3, <1>4

LEMMA FirstOfName ==
  ASSUME TypeOK, NEW n, ram_file_find(n) >= 0
  PROVE  ram_file_find(n) + 1 \in DOMAIN List /\ FL!IsFirst(ram_file_find(n) + 1, n)
<1>. DEFINE k == ram_file_find(n)
            j == k + 1
<1>1. k \in Listed /\ k \in Matches(n) /\ \A i \in Matches(n) : k <= i
  BY FindFacts DEF Matches
<1>2. /\ DOMAIN List = 1..edit_file_count /\ edit_file_count \in Nat
      /\ \A i \in DOMAIN List : List[i].name = n <=> i - 1 \in Matches(n)
  BY PlacesOfName
<1>. HIDE DEF k
<1>3. j \in 1..edit_file_count /\ j - 1 = k /\ k \in Nat
  BY <1>1, <1>2 DEF Listed
<1>4. List[j].name = n
  BY <1>1, <1>2, <1>3
<1>5. ASSUME NEW i \in DOMAIN List, List[i].name = n
      PROVE  j <= i
  <2>1. k <= i - 1
    BY <1>1, <1>2, <1>5
  <2>. QED BY <1>2, <1>3, <2>1
<1>. HIDE DEF j
<1>6. FL!IsFirst(j, n)
  BY <1>4, <1>5 DEF FL!IsFirst, List, ListOf
<1>. QED BY <1>2, <1>3, <1>6 DEF j, k

LEMMA OpenStep ==
  ASSUME TypeOK, NEW n \in Names, code_open_file(n)
  PROVE  FL!OpenFile(n) \/ FL!CreateFile(n) \/ SameList
<1>. DEFINE k == ram_file_find(n)
<1>1. k \in Listed \cup {-1} /\ Listed \subseteq Nat /\ (~(k >= 0) => Matches(n) = {})
  BY FindFacts DEF Listed
<1>2. CASE k >= 0
  <2>1. Allocated(n) = k /\ ~(k < 0) /\ UNCHANGED table
    <3>1. UNCHANGED table
      BY <1>2 DEF code_open_file, ram_file_alloc
    <3>2. Allocated(n) = k
      BY <1>2 DEF Allocated
    <3>. HIDE DEF k
    <3>3. k \in Int
      BY <1>1
    <3>. QED BY <1>2, <3>1, <3>2, <3>3
  <2>2. code_file' = k /\ stale' = FALSE
    BY <2>1 DEF code_open_file
  <2>3. List' = List
    BY <2>1, SameTable
  <2>4. k + 1 \in DOMAIN List /\ FL!IsFirst(k + 1, n)
    BY <1>2, FirstOfName
  <2>5. FL!OpenFile(n)
    BY <2>2, <2>3, <2>4 DEF FL!OpenFile, List, ListOf
  <2>. QED BY <2>5
<1>3. CASE ~(k >= 0) /\ edit_file_count >= EDIT_FILE_MAX
  <2>1. Allocated(n) = -1 /\ UNCHANGED table
    BY <1>3 DEF Allocated, code_open_file, ram_file_alloc
  <2>2. code_file' = code_file /\ stale' = stale
    BY <2>1 DEF code_open_file
  <2>. QED BY <2>1, <2>2, SameTable DEF SameList
<1>4. CASE ~(k >= 0) /\ ~(edit_file_count >= EDIT_FILE_MAX)
  <2>1. /\ edit_file_count' = edit_file_count + 1 /\ Allocated(n) = edit_file_count
        /\ slots' = [slots EXCEPT ![edit_file_count] = [name |-> Cut[n], text |-> EmptyText]]
    BY <1>4 DEF Allocated, code_open_file, ram_file_alloc
  <2>2. Cut[n] \in Names /\ slots \in [Slots -> Slot] /\ slots' \in [Slots -> Slot]
    BY OpenTypeOK, NamesAssumption DEF TypeOK
  <2>3. edit_file_count \in 0..EDIT_FILE_MAX - 1 /\ ~(edit_file_count < 0)
    BY <1>4, SizesAssumption DEF TypeOK
  <2>4. code_file' = edit_file_count /\ stale' = FALSE
    BY <2>1, <2>3 DEF code_open_file
  <2>5. ListOf(slots', edit_file_count + 1)
          = Append(ListOf(slots, edit_file_count), [name |-> Cut[n], text |-> << >>])
    <3>. DEFINE q == edit_file_count
                x == Cut[n]
    <3>1. /\ slots \in [Slots -> Slot] /\ slots' \in [Slots -> Slot]
          /\ q \in 0..EDIT_FILE_MAX - 1 /\ x \in Names
          /\ slots' = [slots EXCEPT ![q] = [name |-> x, text |-> EmptyText]]
      BY <2>1, <2>2, <2>3
    <3>. HIDE DEF q, x
    <3>. QED BY <3>1, FileAdded DEF q, x
  <2>6. List' = Append(List, [name |-> Cut[n], text |-> << >>])
    BY <2>1, <2>5 DEF List, ListOf
  <2>7. Len(List) = edit_file_count /\ \A i \in DOMAIN List : List[i].name # n
    BY <1>1, <1>4, PlacesOfName
  <2>8. FL!CreateFile(n)
    BY <2>4, <2>6, <2>7 DEF FL!CreateFile, List, ListOf
  <2>. QED BY <2>8
<1>. QED BY <1>2, <1>3, <1>4

LEMMA RmStep ==
  ASSUME TypeOK, NEW n \in Names, ConsoleRm(n)
  PROVE  FL!RemoveFile(n)
<1>. DEFINE k == ram_file_find(n)
            c == edit_file_count
            j == k + 1
<1>1. k >= 0 /\ k \in Listed
  <2>1. k \in Listed \cup {-1}
    BY FindFacts
  <2>2. k >= 0
    BY DEF ConsoleRm
  <2>. QED BY <2>1, <2>2
<1>2. j \in DOMAIN List /\ FL!IsFirst(j, n)
  BY <1>1, FirstOfName
<1>3. /\ c' = c - 1
      /\ slots' = [i \in Slots |-> IF i >= k /\ i + 1 \in 0..c - 1 THEN slots[i + 1] ELSE slots[i]]
      /\ code_file' = code_file /\ stale' = (stale \/ k <= code_file)
  BY DEF ConsoleRm, RemoveSlot, Listed
<1>4. slots \in [Slots -> Slot] /\ slots' \in [Slots -> Slot] /\ code_file \in Int
  BY RmTypeOK, SizesAssumption DEF TypeOK, Slots
<1>. HIDE DEF k
<1>5. c \in 1..EDIT_FILE_MAX /\ k \in 0..c - 1
  BY <1>1, SizesAssumption DEF TypeOK, Listed
<1>6. ListOf(slots', c - 1) = Without(ListOf(slots, c), k)
  BY <1>3, <1>4, <1>5, FileRemoved
<1>7. List' = Without(List, k)
  BY <1>3, <1>6 DEF List, ListOf
<1>8. j - 1 = k /\ j + 1 = k + 2 /\ (k <= code_file <=> ~(code_file + 1 < j))
  BY <1>4, <1>5
<1>. HIDE DEF j
<1>9. List' = FL!RemoveAt(List, j)
  BY <1>7, <1>8 DEF Without, FL!RemoveAt
<1>10. (~stale)' = (~stale /\ code_file + 1 < j)
  BY <1>3, <1>8
<1>. QED BY <1>2, <1>3, <1>9, <1>10 DEF FL!RemoveFile, List, ListOf

LEMMA EditKeyStep ==
  ASSUME TypeOK, code_file >= 0, NEW key \in Chars \cup MoveKeys \cup EditKeys, EditKey(key)
  PROVE  FL!ChangeFile \/ SameList
<1>. DEFINE e == Clamp(CurrentEdit)
            s == slots[code_file].text
            t == EditAfter(key).text
            n == edit_file_count
<1>1. code_file \in Slots /\ CurrentEdit \in Edit /\ slots \in [Slots -> Slot]
  BY CurrentFacts DEF TypeOK
<1>2. e \in Edit /\ OnText(e) /\ e.text = s
  BY <1>1, Clamped DEF CurrentEdit
<1>3. t = s \/ FT!OneCharacter(FT!Flat(s), FT!Flat(t))
  <2>. HIDE DEF e
  <2>1. LET a == AfterKey(e, key).text
        IN  a = e.text \/ FT!OneCharacter(FT!Flat(e.text), FT!Flat(a))
    BY <1>2, KeyChangesOneCharacter
  <2>2. EditAfter(key) = AfterKey(e, key)
    BY DEF EditAfter, e
  <2>. QED BY <1>2, <2>1, <2>2
<1>4. /\ n' = n /\ slots' = [slots EXCEPT ![code_file].text = t]
      /\ code_file' = code_file /\ stale' = stale
  BY DEF EditKey
<1>. HIDE DEF s, t, e
<1>5. slots' = [slots EXCEPT ![code_file] = [slots[code_file] EXCEPT !.text = t]]
  BY <1>4
<1>6. /\ slots'[code_file].text = t /\ slots'[code_file].name = slots[code_file].name
      /\ \A i \in Slots : i # code_file => slots'[i] = slots[i]
  BY <1>1, <1>5 DEF Slot
<1>7. slots' \in [Slots -> Slot] /\ n \in 0..EDIT_FILE_MAX
  BY EditKeyTypeOK DEF TypeOK
<1>8. /\ DOMAIN List = 1..n /\ List \in Seq(FlatFiles) /\ Len(List) = n
      /\ \A i \in 1..n : List[i] = FlatFile(slots[i - 1]) /\ i - 1 \in Slots
  BY <1>1, <1>7, ListFacts DEF List
<1>9. /\ DOMAIN List' = 1..n /\ List' \in Seq(FlatFiles) /\ Len(List') = n
      /\ \A i \in 1..n : List'[i] = FlatFile(slots'[i - 1])
  <2>1. List' = ListOf(slots', n)
    BY <1>4 DEF List, ListOf
  <2>. QED BY <1>7, <2>1, ListFacts
<1>10. \A i \in 1..n : i - 1 # code_file => List'[i] = List[i]
  BY <1>6, <1>8, <1>9
<1>11. CASE t = s \/ ~(code_file + 1 \in 1..n)
  <2>1. \A i \in 1..n : List'[i] = List[i]
    <3>. TAKE i \in 1..n
    <3>1. CASE i - 1 = code_file
      <4>1. code_file + 1 = i
        BY <1>1, <3>1
      <4>2. t = s
        BY <1>11, <4>1
      <4>3. slots'[code_file] = slots[code_file]
        BY <1>1, <1>5, <4>2 DEF s, Slot
      <4>. QED BY <1>8, <1>9, <3>1, <4>3
    <3>2. CASE i - 1 # code_file
      BY <1>10, <3>2
    <3>. QED BY <3>1, <3>2
  <2>2. List' = List
    BY <1>8, <1>9, <2>1, SeqEqual
  <2>. QED BY <1>4, <2>2 DEF SameList
<1>12. CASE t # s /\ code_file + 1 \in 1..n
  <2>. DEFINE j == code_file + 1
  <2>1. j \in 1..n /\ j - 1 = code_file /\ \A i \in 1..n : i # j => i - 1 # code_file
    BY <1>1, <1>12 DEF Slots
  <2>. HIDE DEF j
  <2>2. List[j].name = slots[code_file].name /\ List[j].text = FT!Flat(s)
    BY <1>8, <2>1 DEF FlatFile, s
  <2>3. List'[j].name = slots[code_file].name /\ List'[j].text = FT!Flat(t)
    BY <1>6, <1>9, <2>1 DEF FlatFile
  <2>4. FL!OneCharacter(List[j].text, List'[j].text)
    BY <1>3, <1>12, <2>2, <2>3, SameCharacter
  <2>5. /\ DOMAIN List' = DOMAIN List
        /\ \E i \in DOMAIN List :
             /\ ~stale => i = code_file + 1
             /\ List'[i].name = List[i].name
             /\ FL!OneCharacter(List[i].text, List'[i].text)
             /\ \A m \in DOMAIN List \ {i} : List'[m] = List[m]
    <3>1. /\ j \in DOMAIN List /\ (~stale => j = code_file + 1)
          /\ List'[j].name = List[j].name
          /\ \A m \in DOMAIN List \ {j} : List'[m] = List[m]
      BY <1>8, <1>10, <2>1, <2>2, <2>3 DEF j
    <3>. QED BY <1>8, <1>9, <2>4, <3>1
  <2>. QED BY <1>4, <2>5 DEF FL!ChangeFile, List, ListOf
<1>. QED BY <1>11, <1>12

\* The table, with the keys, commands and removals of the code, is a list of
\* files in which a name means the first file of that name and a key changes the
\* file in the editor by one character, for all limits and cuts (src/gui.c:166-168,
\* 269, 286).
THEOREM ListImplemented == Spec => RefinesFileList
<1>1. Init => FL!Init
  <2>. SUFFICES ASSUME Init PROVE FL!Init
    OBVIOUS
  <2>1. List = << >>
    BY EmptyList DEF Init, List
  <2>2. code_file + 1 = 0 /\ ~stale = TRUE
    BY DEF Init
  <2>. QED BY <2>1, <2>2 DEF FL!Init, List, ListOf
<1>2. TypeOK /\ [Next]_vars => FL!Next \/ SameList
  <2>. SUFFICES ASSUME TypeOK, [Next]_vars PROVE FL!Next \/ SameList
    OBVIOUS
  <2>1. ASSUME NEW key \in Chars \cup MoveKeys \cup EditKeys \cup {"F8", "F9"}, handle_code_key(key)
        PROVE  FL!Next \/ SameList
    <3>1. CASE code_file < 0 /\ key \in Chars /\ code_open_file(MAIN_C)
      BY <3>1, OpenStep, NamesAssumption DEF FL!Next
    <3>2. CASE UNCHANGED vars
      BY <3>2, SameTable DEF vars, history, SameList
    <3>3. CASE CloseKey(key)
      BY <3>3, SameTable DEF CloseKey, SameList
    <3>4. CASE code_file >= 0 /\ key \in Chars \cup MoveKeys \cup EditKeys /\ EditKey(key)
      BY <3>4, EditKeyStep DEF FL!Next
    <3>. QED BY <2>1, <3>1, <3>2, <3>3, <3>4 DEF handle_code_key
  <2>2. ASSUME NEW n \in Names, OpenFile(n)
        PROVE  FL!Next \/ SameList
    BY <2>2, OpenStep DEF OpenFile, FL!Next
  <2>3. ASSUME NEW n \in Names, ConsoleRm(n)
        PROVE  FL!Next
    BY <2>3, RmStep DEF FL!Next
  <2>4. CASE OpenWindow \/ CloseWindow \/ draw_code
    BY <2>4, SameTable DEF OpenWindow, CloseWindow, draw_code, SameList
  <2>5. CASE UNCHANGED vars
    BY <2>5, SameTable DEF vars, history, SameList
  <2>. QED BY <2>1, <2>2, <2>3, <2>4, <2>5 DEF Next
<1>3. SameList => UNCHANGED <<List, code_file + 1, ~stale>>
  BY DEF SameList
<1>4. TypeOK /\ [Next]_vars => [FL!Next]_<<List, code_file + 1, ~stale>>
  BY <1>2, <1>3
<1>. QED BY <1>1, <1>4, TypeCorrect, PTL DEF Spec, RefinesFileList, FL!Spec, List, ListOf
=============================================================================

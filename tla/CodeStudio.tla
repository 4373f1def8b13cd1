----------------------------- MODULE CodeStudio -----------------------------
(***************************************************************************)
(* src/gui.c: the RAM files and the Code Studio window that edits them in  *)
(* place.  The editor knows its file by an index into the table of files;  *)
(* the console's rm moves files to other indices.  Which window a key goes *)
(* to is Desktop's business: here keys of the editor, commands of the      *)
(* console and frames drawn come in any order while the window is open.    *)
(***************************************************************************)
EXTENDS TextLines, Integers

CONSTANTS
  Names,           \* the file names the user types
  MAIN_C,          \* the name Code Studio starts with
  NoName,          \* the name in a slot never used
  Cut,             \* what of a name fits into EDIT_NAME_MAX bytes
  EDIT_FILE_MAX,   \* files kept
  VIEW_ROWS,       \* rows and columns the window shows
  VIEW_COLS

ASSUME NamesAssumption ==
  MAIN_C \in Names /\ NoName \notin Names /\ Cut \in [Names -> Names]

ASSUME SizesAssumption ==
  /\ EDIT_FILE_MAX \in Nat \ {0}
  /\ VIEW_ROWS \in Nat \ {0} /\ VIEW_COLS \in Nat \ {0}

ASSUME KeysAssumption == Chars \cap (MoveKeys \cup EditKeys \cup {"F8", "F9"}) = {}

VARIABLES
  slots,             \* edit_names, edit_lines and edit_line_counts
  edit_file_count,
  code_file,         \* index of the file in the editor, -1 for none
  code_cy, code_cx,
  code_top, code_col,
  code_dirty,
  open               \* whether the window is open

\* History variables: the code has none of them and no action reads them.
VARIABLES
  drawn,             \* the last step drew the window
  stale              \* rm has taken the edited file or one before it away

table == <<slots, edit_file_count>>
cursor == <<code_cy, code_cx>>
view == <<code_top, code_col>>
history == <<drawn, stale>>
vars == <<table, code_file, cursor, view, code_dirty, open, history>>

Slots == 0..EDIT_FILE_MAX - 1
Slot == [name : Names \cup {NoName}, text : Text]

-----------------------------------------------------------------------------
(* The table of files.                                                     *)

Listed == 0..edit_file_count - 1
Matches(name) == {i \in Listed : slots[i].name = name}

\* The first file of that name, -1 if there is none.
ram_file_find(name) ==
  IF Matches(name) = {} THEN -1
  ELSE CHOOSE i \in Matches(name) : \A j \in Matches(name) : i <= j

\* The index ram_file_alloc(name) returns; a new file is at edit_file_count.
Allocated(name) ==
  IF ram_file_find(name) >= 0 THEN ram_file_find(name)
  ELSE IF edit_file_count >= EDIT_FILE_MAX THEN -1 ELSE edit_file_count

\* The name is looked up in full and stored cut.
ram_file_alloc(name) ==
  IF ram_file_find(name) >= 0 \/ edit_file_count >= EDIT_FILE_MAX
  THEN UNCHANGED table
  ELSE /\ slots' = [slots EXCEPT ![edit_file_count] =
                      [name |-> Cut[name], text |-> EmptyText]]
       /\ edit_file_count' = edit_file_count + 1

code_open_file(name) ==
  /\ ram_file_alloc(name)
  /\ IF Allocated(name) < 0
     THEN UNCHANGED <<code_file, cursor, view, code_dirty, open, stale>>
     ELSE /\ code_file' = Allocated(name)
          /\ code_cx' = 0 /\ code_cy' = 0 /\ code_top' = 0 /\ code_col' = 0
          /\ code_dirty' = FALSE
          /\ open' = TRUE
          /\ stale' = FALSE
  /\ drawn' = FALSE

\* Defective variant: the moves begin one file late, which drops the file
\* behind the one to be removed.
RemoveSlotBehind(idx) ==
  /\ slots' = [i \in Slots |-> IF i > idx /\ i + 1 \in Listed THEN slots[i + 1]
                               ELSE slots[i]]
  /\ edit_file_count' = edit_file_count - 1

\* Files behind the removed one move down.  code_file is not looked at, and
\* the last slot keeps what it had.
RemoveSlot(idx) ==
  /\ slots' = [i \in Slots |-> IF i >= idx /\ i + 1 \in Listed THEN slots[i + 1]
                               ELSE slots[i]]
  /\ edit_file_count' = edit_file_count - 1

-----------------------------------------------------------------------------
(* The editor.                                                             *)

CurrentEdit ==
  [text |-> slots[code_file].text, cy |-> code_cy, cx |-> code_cx, dirty |-> code_dirty]

\* The view after editor_clamp has put the cursor of e back on the text.
FirstRow(top, e) == Scrolled(top, e.cy, VIEW_ROWS)
FirstCol(col, e) == Scrolled(col, e.cx, VIEW_COLS)

editor_clamp(e, top, col) ==
  /\ code_cy' = Clamp(e).cy /\ code_cx' = Clamp(e).cx
  /\ code_top' = FirstRow(top, Clamp(e)) /\ code_col' = FirstCol(col, Clamp(e))

EditAfter(key) == AfterKey(Clamp(CurrentEdit), key)

\* editor_clamp before the key and again after it.
EditKey(key) ==
  /\ slots' = [slots EXCEPT ![code_file].text = EditAfter(key).text]
  /\ editor_clamp(EditAfter(key), FirstRow(code_top, Clamp(CurrentEdit)),
                                  FirstCol(code_col, Clamp(CurrentEdit)))
  /\ code_dirty' = EditAfter(key).dirty
  /\ drawn' = FALSE
  /\ UNCHANGED <<edit_file_count, code_file, open, stale>>

\* F8 and F9; editor_clamp has run before.
CloseKey(key) ==
  /\ key \in {"F8", "F9"}
  /\ editor_clamp(CurrentEdit, code_top, code_col)
  /\ code_dirty' = (code_dirty /\ key = "F9")
  /\ open' = FALSE
  /\ drawn' = FALSE
  /\ UNCHANGED <<table, code_file, stale>>

\* KEY_F7 is missing: handle_key opens GPUx with it and never passes it on.
handle_code_key(key) ==
  /\ open
  /\ \/ code_file < 0 /\ key \in Chars /\ code_open_file(MAIN_C)
     \/ code_file < 0 /\ key \notin Chars /\ UNCHANGED vars
     \/ code_file >= 0 /\ CloseKey(key)
     \/ code_file >= 0 /\ key \in Chars \cup MoveKeys \cup EditKeys /\ EditKey(key)

-----------------------------------------------------------------------------
(* What the rest of the desktop does to the editor.                        *)

\* edit and code of the console, and with MAIN_C F6, the menu and the icon.
OpenFile(name) == code_open_file(name)

\* Explorer's entry Code Studio.app opens the window and nothing else.
OpenWindow ==
  /\ open' = TRUE
  /\ drawn' = FALSE
  /\ UNCHANGED <<table, code_file, cursor, view, code_dirty, stale>>

\* ESC and the close button.
CloseWindow ==
  /\ open
  /\ open' = FALSE
  /\ drawn' = FALSE
  /\ UNCHANGED <<table, code_file, cursor, view, code_dirty, stale>>

\* rm of the console.
ConsoleRm(name) ==
  /\ ram_file_find(name) >= 0
  /\ RemoveSlot(ram_file_find(name))
  /\ stale' = (stale \/ ram_file_find(name) <= code_file)
  /\ drawn' = FALSE
  /\ UNCHANGED <<code_file, cursor, view, code_dirty, open>>

\* Defective variant: the frame trusts the cursor that the last key left.
DrawUnclamped ==
  /\ open
  /\ drawn' = TRUE
  /\ UNCHANGED <<table, code_file, cursor, view, code_dirty, open, stale>>

draw_code ==
  /\ open
  /\ IF code_file < 0 THEN UNCHANGED <<cursor, view>>
     ELSE editor_clamp(CurrentEdit, code_top, code_col)
  /\ drawn' = TRUE
  /\ UNCHANGED <<table, code_file, code_dirty, open, stale>>

-----------------------------------------------------------------------------
Init ==
  /\ slots = [i \in Slots |-> [name |-> NoName, text |-> EmptyText]]
  /\ edit_file_count = 0
  /\ code_file = -1
  /\ code_cy = 0 /\ code_cx = 0 /\ code_top = 0 /\ code_col = 0
  /\ code_dirty = FALSE
  /\ open = FALSE
  /\ drawn = FALSE /\ stale = FALSE

Next ==
  \/ \E key \in Chars \cup MoveKeys \cup EditKeys \cup {"F8", "F9"} : handle_code_key(key)
  \/ \E name \in Names : OpenFile(name) \/ ConsoleRm(name)
  \/ OpenWindow \/ CloseWindow
  \/ draw_code

Spec == Init /\ [][Next]_vars

-----------------------------------------------------------------------------
(* Properties.                                                             *)

\* The limits of the storage and of the cursor: no key makes a line or a file
\* longer than its array (src/gui.c:286), no index leaves the table.
TypeOK ==
  /\ slots \in [Slots -> Slot]
  /\ edit_file_count \in 0..EDIT_FILE_MAX
  /\ code_file \in Slots \cup {-1}
  /\ code_cy \in 0..EDIT_LINES_MAX - 1 /\ code_cx \in 0..EDIT_LINE_MAX - 1
  /\ code_top \in 0..EDIT_LINES_MAX - 1 /\ code_col \in 0..EDIT_LINE_MAX - 1
  /\ code_dirty \in BOOLEAN /\ open \in BOOLEAN
  /\ drawn \in BOOLEAN /\ stale \in BOOLEAN

\* A frame shows the cursor on a character of the edited text or behind its
\* last, inside the rows and columns of the window, whatever rm has put under
\* it since the last frame (editor_clamp, src/gui.c:172).
CursorShown ==
  drawn /\ code_file >= 0 =>
    /\ OnText(CurrentEdit)
    /\ code_cy \in code_top..code_top + VIEW_ROWS - 1
    /\ code_cx \in code_col..code_col + VIEW_COLS - 1

FL == INSTANCE FileList WITH
        Name <- Names,
        files <- [i \in 1..edit_file_count |->
                    [name |-> slots[i - 1].name, text |-> FT!Flat(slots[i - 1].text)]],
        edited <- code_file + 1,
        sure <- ~stale

\* Lines, splits, joins and the moves of rm amount to a list of flat files:
\* a name opens and removes the first file of that name, a full storage keeps
\* the file in the editor, and a key changes one character of that file and
\* of no other, until rm takes it or one before it away (src/gui.c:166-168,
\* 269, 286).
RefinesFileList == FL!Spec

\* "F7 save, F8 save+close" (src/gui.c:230): when F8 closes the editor and the
\* file named in its title has not been removed, a listed file of that name
\* holds the text that was edited.
F8Saves ==
  [][handle_code_key("F8") /\ code_file >= 0 /\ Matches(slots[code_file].name) # {} =>
       \E i \in Listed : slots[i] = slots[code_file]]_vars
=============================================================================

---------------------------- MODULE ShellEditor ----------------------------
(***************************************************************************)
(* src/shell.c: the RAM files of the text shell and its editor.  edit      *)
(* copies a file into a buffer of its own, and only F7 and F8 bring the    *)
(* buffer back into the table of files.  The shell runs one command at a   *)
(* time; one step is a command, or one turn of the editor's loop from      *)
(* keyboard_getkey to the next.                                            *)
(***************************************************************************)
EXTENDS TextLines

CONSTANTS
  Names,              \* the file names the user types
  NoName,             \* no file is being edited
  Cut,                \* what of a name fits into EDIT_NAME_MAX bytes
  EDIT_FILE_MAX,      \* files kept
  EDIT_VIEW_ROWS,     \* rows and columns of the editor's view
  EDIT_VISIBLE_COLS

ASSUME NamesAssumption ==
  /\ NoName \notin Names /\ NoName \notin Seq(Chars \cup {NewLine})
  /\ Cut \in [Names -> Names] /\ \A n \in Names : Cut[Cut[n]] = Cut[n]

ASSUME SizesAssumption ==
  /\ EDIT_FILE_MAX \in Nat
  /\ EDIT_VIEW_ROWS \in Nat \ {0} /\ EDIT_VISIBLE_COLS \in Nat \ {0}

ASSUME KeysAssumption == Chars \cap (MoveKeys \cup EditKeys) = {}

VARIABLES
  files,        \* edit_names, edit_lines and edit_line_counts up to edit_file_count
  name,         \* the locals of cmd_edit: NoName when it is not running
  edit,         \* buffer and count, cy, cx, dirty
  top, coloff

vars == <<files, name, edit, top, coloff>>

File == [name : Names, text : Text]
NoEdit == [text |-> EmptyText, cy |-> 0, cx |-> 0, dirty |-> FALSE]
editing == name # NoName

-----------------------------------------------------------------------------
(* The table of files.                                                     *)

Matches(n) == {i \in DOMAIN files : files[i].name = n}
Stored(n) == Matches(n) # {}
ram_file_find(n) == CHOOSE i \in Matches(n) : \A j \in Matches(n) : i <= j

ram_file_delete_index(idx) ==
  files' = SubSeq(files, 1, idx - 1) \o SubSeq(files, idx + 1, Len(files))

\* ram_file_alloc finds a slot for the name: its own or a new one.
CanSave(n) == Stored(n) \/ Len(files) < EDIT_FILE_MAX

editor_save(n, lines) ==
  files' = IF Stored(n) THEN [files EXCEPT ![ram_file_find(n)].text = lines]
           ELSE Append(files, [name |-> Cut[n], text |-> lines])

-----------------------------------------------------------------------------
(* Commands.                                                               *)

\* The name is cut before it is looked up.
EditName(args) == Cut[args]

\* Defective variant: the stored file is not copied into the buffer.
cmd_editOpensEmpty(args) ==
  /\ ~editing
  /\ name' = EditName(args)
  /\ edit' = NoEdit
  /\ top' = 0 /\ coloff' = 0
  /\ UNCHANGED files

cmd_edit(args) ==
  /\ ~editing
  /\ name' = EditName(args)
  /\ edit' = IF Stored(EditName(args))
             THEN [NoEdit EXCEPT !.text = files[ram_file_find(EditName(args))].text]
             ELSE NoEdit
  /\ top' = 0 /\ coloff' = 0
  /\ UNCHANGED files

cmd_rm(args) ==
  /\ ~editing
  /\ Stored(args)
  /\ ram_file_delete_index(ram_file_find(args))
  /\ UNCHANGED <<name, edit, top, coloff>>

-----------------------------------------------------------------------------
(* Keys of the editor.                                                     *)

\* A character that does not fit is refused with a message.
Refused(e, key) == key \in Chars /\ Len(LineAt(e)) >= EDIT_LINE_MAX - 1

\* The turn of the loop that the key ends, and the clamping and scrolling at
\* the start of the next.
Key(key) ==
  /\ editing
  /\ edit' = Clamp(IF Refused(edit, key) THEN edit ELSE AfterKey(edit, key))
  /\ top' = Scrolled(top, edit'.cy, EDIT_VIEW_ROWS)
  /\ coloff' = Scrolled(coloff, edit'.cx, EDIT_VISIBLE_COLS)
  /\ UNCHANGED <<files, name>>

\* Defective variant: what editor_save returns is not looked at.
F7AlwaysSaved ==
  /\ editing
  /\ \/ CanSave(name) /\ editor_save(name, edit.text)
     \/ ~CanSave(name) /\ UNCHANGED files
  /\ edit' = [edit EXCEPT !.dirty = FALSE]
  /\ UNCHANGED <<name, top, coloff>>

F7 ==
  /\ editing
  /\ \/ /\ CanSave(name)
        /\ editor_save(name, edit.text)
        /\ edit' = [edit EXCEPT !.dirty = FALSE]
     \/ ~CanSave(name) /\ UNCHANGED <<files, edit>>
  /\ UNCHANGED <<name, top, coloff>>

Return == name' = NoName /\ edit' = NoEdit /\ top' = 0 /\ coloff' = 0

\* With the storage full the text is lost, and the shell says so.
F8 ==
  /\ editing
  /\ \/ CanSave(name) /\ editor_save(name, edit.text)
     \/ ~CanSave(name) /\ UNCHANGED files
  /\ Return

\* F9 and Ctrl+C.
Discard == editing /\ Return /\ UNCHANGED files

-----------------------------------------------------------------------------
Init ==
  /\ files = << >>
  /\ name = NoName /\ edit = NoEdit
  /\ top = 0 /\ coloff = 0

Next ==
  \/ \E args \in Names : cmd_edit(args) \/ cmd_rm(args)
  \/ \E key \in Chars \cup MoveKeys \cup EditKeys : Key(key)
  \/ F7 \/ F8 \/ Discard

Spec == Init /\ [][Next]_vars

-----------------------------------------------------------------------------
(* Properties.                                                             *)

\* Every stored file and the buffer stay within their arrays, and when the
\* editor waits for a key its cursor is on the text (src/shell.c:956-961).
TypeOK ==
  /\ files \in Seq(File) /\ Len(files) <= EDIT_FILE_MAX
  /\ name \in Names \cup {NoName}
  /\ edit \in Edit /\ OnText(edit)
  /\ top \in Nat /\ coloff \in Nat

\* When the editor waits for a key its cursor is among the rows and columns
\* it shows, after keys that jump over lines as well (src/shell.c:807-815).
CursorInView ==
  /\ edit.cy \in top..top + EDIT_VIEW_ROWS - 1
  /\ edit.cx \in coloff..coloff + EDIT_VISIBLE_COLS - 1

\* "saved" in the editor's title is true: the buffer is what the file of that
\* name holds, or there is no such file and nothing was typed, whatever was
\* edited and saved in between and however long the name (src/shell.c:829, 864-874).
SavedIsStored ==
  editing /\ ~edit.dirty =>
    edit.text = IF Stored(name) THEN files[ram_file_find(name)].text ELSE EmptyText

FileNames == {files[i].name : i \in DOMAIN files}

NP == INSTANCE NotePad WITH
        Name <- Names,
        Capacity <- EDIT_FILE_MAX,
        NoPage <- NoName,
        stored <- [n \in FileNames |-> FT!Flat(files[ram_file_find(n)].text)],
        title <- name,
        page <- IF editing THEN FT!Flat(edit.text) ELSE NoName

\* Buffer, table and keys amount to a page that a key changes by one
\* character and that only saving brings into the stored files.
RefinesNotePad == NP!Spec
=============================================================================

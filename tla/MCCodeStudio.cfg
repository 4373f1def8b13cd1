\* Two files of up to three lines of one character, a view of two rows and one column.
SPECIFICATION Spec
CONSTANTS
  Chars = {"a"}
  EDIT_LINES_MAX = 3
  EDIT_LINE_MAX = 2
  Names <- AllNames
  MAIN_C = "main.c"
  NoName = "none"
  Cut <- CutNames
  EDIT_FILE_MAX = 2
  VIEW_ROWS = 2
  VIEW_COLS = 1
  NewLine = "newline"
INVARIANTS TypeOK CursorShown
PROPERTY RefinesFileList

\* The same storage, for what F8 says it does.
SPECIFICATION Spec
CONSTANTS
  Chars = {"a"}
  EDIT_LINES_MAX = 3
  EDIT_LINE_MAX = 2
  Names <- AllNames
  MAIN_C = "main.c"
  NoName = "none"
  Cut <- CutNames
  EDIT_FILE_MAX = 2
  VIEW_ROWS = 2
  VIEW_COLS = 1
  NewLine = "newline"
PROPERTY F8Saves

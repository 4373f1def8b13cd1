\* One name too many for two files of two lines of two characters.
SPECIFICATION Spec
CONSTANTS
  Chars = {"a"}
  EDIT_LINES_MAX = 2
  EDIT_LINE_MAX = 3
  m = m
  n = n
  long = long
  longer = longer
  Names <- AllNames
  NoName = NoName
  Cut <- CutNames
  EDIT_FILE_MAX = 2
  EDIT_VIEW_ROWS = 1
  EDIT_VISIBLE_COLS = 2
  NewLine = "newline"
SYMMETRY NameSymmetry
INVARIANTS TypeOK CursorInView SavedIsStored
PROPERTY RefinesNotePad

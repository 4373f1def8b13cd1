\* A screen of 3 rows of 3. The prompt is the name and one character.
SPECIFICATION Spec
CONSTANTS
  VGA_WIDTH = 3
  VGA_HEIGHT = 3
  Space = "space"
  NewLine = "newline"
  Chars = {"a", "space"}
  Question <- OneLetter
  PromptEnd <- OneLetter
  DefaultName <- OneLetter
  LINE_MAX = 4
  USERNAME_MAX = 3
  HISTORY_MAX = 2
  SYSLOG_MAX = 2
  NOTE_MAX = 1
  TODO_MAX = 2
  Commands <- TwoNames
  t = t
  Texts = {t}
INVARIANTS TypeOK LineShown LogNamesHistory
PROPERTY RefinesTodoList
CHECK_DEADLOCK FALSE

\* Five windows, with button edges that may get lost.
SPECIFICATION Spec
CONSTANTS
  Keys <- SmallKeys
  StartItems <- SmallMenu
  Icons <- SmallIcons
  Folders <- SmallFolders
  CommandApps <- SmallCommandApps
  THEME_COUNT = 2
  FileNames <- SmallFileNames
  EDIT_FILE_MAX = 1
  LostEdges = TRUE
INVARIANTS TypeOK FocusOnOpenWindow TabReachesEveryWindow
PROPERTY MenuEndsWithWindowChange
CHECK_DEADLOCK FALSE

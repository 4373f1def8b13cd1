\* The code's lengths scaled down, with their order kept.
SPECIFICATION Spec
CONSTANTS
  Modes <- MCModes
  BACKBUFFER_BYTES = 300
  APP_COUNT = 4
  FirstWindows <- MCFirstWindows
  MIN_W = 4
  MIN_H = 3
  GAP = 3
  EDGE = 1
  TASKBAR = 2
  TITLE = 1
  CLOSE = 1
  SHADOW = 1
  CURSOR_W = 1
  CURSOR_SIDE = 2
  CURSOR_H = 2
  StartButton <- MCStartButton
  Menu <- MCMenu
  Items <- MCItems
  Icons <- MCIcons
  Spots <- MCSpots
  MaxEvents = 4
INVARIANTS TypeOK OnScreen FrameShown
PROPERTIES PressGoesToSeen DragFollows
CHECK_DEADLOCK FALSE

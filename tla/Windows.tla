------------------------------ MODULE Windows ------------------------------
(***************************************************************************)
(* src/gui.c: where the windows are, how they are drawn on the             *)
(* framebuffer, and which of them a click finds.  One turn of the loop in  *)
(* gui_start_pixel is any number of keys, one report of the mouse,         *)
(* draw_pixel_desktop and fb_present.                                      *)
(*                                                                         *)
(* The code's lengths in pixels are constants.  Of the keys and the menu   *)
(* only what they do to windows and focus is here; Desktop has the rest.   *)
(* A window is drawn in one colour: its text, which is drawn past the      *)
(* window's edge when it is long, is left out.  So is the desktop, on      *)
(* which the code draws a gradient, two lines, a title and the icons       *)
(* before it draws anything else: an icon can be clicked, but is not seen. *)
(***************************************************************************)
EXTENDS Framebuffer, FiniteSetsExt

CONSTANTS
  APP_COUNT,      \* windows are numbered from 1
  FirstWindows,   \* the table windows[] in the source
  MIN_W, MIN_H,   \* 220 and 150
  GAP, EDGE,      \* 20 and 5
  TASKBAR,        \* 42
  TITLE, CLOSE,   \* 30 and 38
  SHADOW,         \* 8
  CURSOR_W, CURSOR_SIDE, CURSOR_H,
                  \* the pointer: 14, 20 and, with its tail, 24
  StartButton,    \* << x, y, w, h >>, y from the top of the task bar
  Menu,           \* << x, y, w, h, shadow >>, y upwards from there
  Items,          \* << x, y, w, h, step >>, from the menu's corner
  Icons,          \* the rectangles of the icons, by window
  Spots,          \* pixels where the mouse is reported
  MaxEvents       \* bound: keys and reports of the mouse

Apps == 1..APP_COUNT-1
APP_NONE == 0
APP_EXPLORER == 1
APP_CONSOLE == 2
APP_CODE == 3

Window == [open : BOOLEAN, x : Nat, y : Nat, w : Nat, h : Nat]

\* Colours: a window has its number, and everything behind the windows is DESKTOP.
DESKTOP == 0
SHADE == -3
BAR == -4
MENU == -5
POINTER == -6

ASSUME LayoutAssumption ==
  /\ APP_COUNT \in Nat /\ APP_COUNT > 3
  /\ \A k \in {MIN_W, MIN_H, GAP, EDGE, TASKBAR, TITLE, CLOSE, SHADOW} : k \in Nat \ {0}
  /\ CURSOR_H \in Nat /\ CURSOR_SIDE \in 1..CURSOR_H /\ CURSOR_W \in 1..CURSOR_H
  /\ GAP >= 2 * EDGE
  /\ FirstWindows \in [Apps -> Window] /\ DOMAIN Icons \subseteq Apps
  /\ (\A i \in 1..4 : StartButton[i] \in Nat) /\ (\A i \in 1..5 : Menu[i] \in Nat)
  /\ MaxEvents \in Nat

\* The screen has room for a window of one pixel within the margins.
ASSUME RoomAssumption ==
  \A m \in Modes : m.w > GAP /\ m.h > GAP + TASKBAR

VARIABLES
  windows,              \* position, size and whether they are open
  active_app,
  start_menu_open,
  drag_app, drag_dx, drag_dy,
  left,                 \* left button in the last report
  ms,                   \* where the mouse was in it
  phase,                \* "input", "draw" or "present"
  \* for checking only
  frame,                \* what the frame on the screen was drawn from
  events                \* how many keys and reports there were

drag == <<drag_app, drag_dx, drag_dy>>
pointer == <<left, ms>>
vars == <<framebuffer, windows, active_app, start_menu_open, drag, pointer, phase, frame, events>>

sw == mode.w
sh == mode.h

InRect(p, x, y, w, h) == p[1] >= x /\ p[2] >= y /\ p[1] < x + w /\ p[2] < y + h
InWindow(p, w) == InRect(p, w.x, w.y, w.w, w.h)

NoFrame == [windows |-> << >>, active |-> APP_NONE, menu |-> FALSE]

Init ==
  /\ fb_init_from_multiboot
  /\ windows = FirstWindows /\ active_app = APP_CONSOLE
  /\ start_menu_open = FALSE
  /\ drag_app = APP_NONE /\ drag_dx = 0 /\ drag_dy = 0
  /\ left = FALSE /\ ms = <<sw \div 2, sh \div 2>>
  /\ phase = "input" /\ frame = NoFrame /\ events = 0

-----------------------------------------------------------------------------
(* fit_window, one axis: the other one is the same with other limits.      *)

Least(a, b) == IF a < b THEN a ELSE b
Most(a, b) == IF a < b THEN b ELSE a

\* A size of at least min that leaves a gap on a side of length side.
FitSize(size, min, side) == Least(Most(size, min), side - GAP)

\* A place within the margins, the one at the far side last.
FitPlace(place, size, side) == Least(Most(place, EDGE), side - size - EDGE)

\* Defective variant: the place is found for the size before.
FitMovedFirst(w) ==
  [w EXCEPT !.w = FitSize(w.w, MIN_W, sw), !.h = FitSize(w.h, MIN_H, sh - TASKBAR),
            !.x = FitPlace(w.x, w.w, sw), !.y = FitPlace(w.y, w.h, sh - TASKBAR)]

Fit(w) ==
  LET width == FitSize(w.w, MIN_W, sw)
      height == FitSize(w.h, MIN_H, sh - TASKBAR)
  IN  [open |-> w.open, w |-> width, h |-> height,
       x |-> FitPlace(w.x, width, sw), y |-> FitPlace(w.y, height, sh - TASKBAR)]

-----------------------------------------------------------------------------
(* Windows and keys.                                                       *)

Opened(w) == [open |-> TRUE, w |-> w.w, h |-> w.h, x |-> w.x, y |-> w.y]
Closed(w) == [open |-> FALSE, w |-> w.w, h |-> w.h, x |-> w.x, y |-> w.y]

open_app(app) ==
  /\ windows' = [windows EXCEPT ![app] = Fit(Opened(@))]
  /\ active_app' = app
  /\ start_menu_open' = FALSE

\* code_open_file with the storage full.
NoFile(app, menu) ==
  app = APP_CODE /\ start_menu_open' = menu /\ UNCHANGED <<windows, active_app>>

\* close_app; the focus, on window focus before, goes to the first open window.
close_app(app, focus) ==
  /\ windows' = [windows EXCEPT ![app] = Closed(@)]
  /\ LET open == {a \in Apps : windows'[a].open}
     IN  IF app # focus THEN active_app' = focus
         ELSE IF open = {} THEN active_app' = APP_NONE
         ELSE active_app' \in open /\ \A a \in open : active_app' <= a

\* What handle_key and the console do to windows and the menu.
handle_key ==
  /\ phase = "input" /\ events < MaxEvents /\ events' = events + 1
  /\ \/ \E app \in Apps : open_app(app)
     \/ /\ ~start_menu_open /\ active_app # APP_NONE
        /\ close_app(active_app, active_app)
        /\ UNCHANGED start_menu_open
     \/ /\ ~start_menu_open
        /\ active_app' \in {a \in Apps : windows[a].open}
        /\ UNCHANGED <<windows, start_menu_open>>
     \/ start_menu_open' = ~start_menu_open /\ UNCHANGED <<windows, active_app>>
  /\ UNCHANGED <<framebuffer, drag, pointer, phase, frame>>

-----------------------------------------------------------------------------
(* The mouse.                                                              *)

Under(p) == {a \in Apps : windows[a].open /\ InWindow(p, windows[a])}

\* Defective variant: the windows behind are looked through from the other end.
TopFromBelow(p) ==
  IF active_app \in Under(p) THEN active_app
  ELSE IF Under(p) = {} THEN APP_NONE ELSE Min(Under(p))

top_window_at(p) ==
  IF active_app \in Under(p) THEN active_app
  ELSE IF Under(p) = {} THEN APP_NONE ELSE Max(Under(p))

\* The menu's upper edge; the item, the icon and the Start button at p.
MenuTop == sh - TASKBAR - Menu[2]
ItemsAt(p) ==
  {i \in Apps : InRect(p, Menu[1] + Items[1], MenuTop + Items[2] + (i - 1) * Items[5],
                        Items[3], Items[4])}
IconsAt(p) ==
  {a \in DOMAIN Icons : InRect(p, Icons[a][1], Icons[a][2], Icons[a][3], Icons[a][4])}
OnStartButton(p) ==
  InRect(p, StartButton[1], sh - TASKBAR + StartButton[2], StartButton[3], StartButton[4])

NoGrip(dropped) == drag_app' = dropped /\ UNCHANGED <<drag_dx, drag_dy>>

\* Defective variant: the distance is taken the other way round.
GripBackwards(p, w) == <<w.x - p[1], w.y - p[2]>>

\* Where the mouse holds a window.
Grip(p, w) == <<p[1] - w.x, p[2] - w.y>>

\* A press on a window: the close button, the title bar, or the inside, where the
\* Explorer may open what is in it.
PressWindow(p, hit, dropped) ==
  LET w == windows[hit]
      close == InRect(p, w.x + w.w - CLOSE, w.y, CLOSE, TITLE)
      title == InRect(p, w.x, w.y, w.w, TITLE)
  IN  \/ /\ close
         /\ close_app(hit, hit) /\ start_menu_open' = FALSE
         /\ NoGrip(dropped)
      \/ /\ ~close /\ title
         /\ active_app' = hit /\ UNCHANGED windows /\ start_menu_open' = FALSE
         /\ drag_app' = hit /\ drag_dx' = Grip(p, w)[1] /\ drag_dy' = Grip(p, w)[2]
      \/ /\ ~close /\ ~title
         /\ \/ active_app' = hit /\ UNCHANGED windows /\ start_menu_open' = FALSE
            \/ hit = APP_EXPLORER /\ \E a \in Apps : open_app(a)
         /\ NoGrip(dropped)

\* The Start button, an item of the open menu, or, with the menu closed, an icon or
\* the window on top.
Press(p, dropped) ==
  \/ /\ OnStartButton(p)
     /\ start_menu_open' = ~start_menu_open
     /\ UNCHANGED <<windows, active_app>> /\ NoGrip(dropped)
  \/ /\ ~OnStartButton(p) /\ start_menu_open
     /\ \E i \in ItemsAt(p) : open_app(i) \/ NoFile(i, TRUE)
     /\ NoGrip(dropped)
  \/ /\ ~OnStartButton(p) /\ (start_menu_open => ItemsAt(p) = {})
     /\ \E a \in IconsAt(p) : open_app(a) \/ NoFile(a, FALSE)
     /\ NoGrip(dropped)
  \/ /\ ~OnStartButton(p) /\ (start_menu_open => ItemsAt(p) = {}) /\ IconsAt(p) = {}
     /\ \/ /\ top_window_at(p) = APP_NONE
           /\ start_menu_open' = FALSE
           /\ UNCHANGED <<windows, active_app>> /\ NoGrip(dropped)
        \/ top_window_at(p) # APP_NONE /\ PressWindow(p, top_window_at(p), dropped)

Placed(w, p) ==
  [open |-> w.open, w |-> w.w, h |-> w.h, x |-> p[1] - drag_dx, y |-> p[2] - drag_dy]

\* Defective variant: the window is moved by what the mouse has moved.
DraggedByMotion(w, p) == Fit([w EXCEPT !.x = @ + p[1] - ms[1], !.y = @ + p[2] - ms[2]])

Dragged(w, p) == Fit(Placed(w, p))

\* The reports after left: a change of the button, none, or a click between two.
handle_mouse(p, now, click) ==
  LET dragging == drag_app # APP_NONE /\ now
      pressed == click \/ (now /\ ~left)
      released == click \/ (left /\ ~now)
      dropped == IF released THEN APP_NONE ELSE drag_app
  IN  /\ click => now = left
      /\ \/ /\ dragging
            /\ windows' = [windows EXCEPT ![drag_app] = Dragged(@, p)]
            /\ UNCHANGED <<active_app, start_menu_open, drag>>
         \/ /\ ~dragging /\ ~pressed
            /\ NoGrip(dropped)
            /\ UNCHANGED <<windows, active_app, start_menu_open>>
         \/ ~dragging /\ pressed /\ Press(p, dropped)

Report ==
  /\ phase = "input" /\ events < MaxEvents /\ events' = events + 1
  /\ \E p \in Spots \cap Pixels, now, click \in BOOLEAN :
       /\ handle_mouse(p, now, click)
       /\ ms' = p /\ left' = now
  /\ phase' = "draw"
  /\ UNCHANGED <<framebuffer, frame>>

-----------------------------------------------------------------------------
(* The frame.                                                              *)

\* draw_window_frame fits a window before it draws it.
Fitted == [a \in Apps |-> IF windows[a].open THEN Fit(windows[a]) ELSE windows[a]]

draw_window(memory, a) ==
  LET w == Fitted[a]
      shadow == fb_fill_rect(memory, w.x + SHADOW, w.y + SHADOW, w.w, w.h, SHADE)
  IN  fb_fill_rect(shadow, w.x, w.y, w.w, w.h, a)

\* The windows behind by their numbers, then the one in focus.
draw_windows(memory) ==
  LET behind[i \in 0..APP_COUNT-1] ==
        IF i = 0 THEN memory
        ELSE IF windows[i].open /\ active_app # i THEN draw_window(behind[i - 1], i)
        ELSE behind[i - 1]
      others == behind[APP_COUNT - 1]
  IN  IF active_app \in Apps /\ windows[active_app].open THEN draw_window(others, active_app)
      ELSE others

draw_taskbar(memory) == fb_fill_rect(memory, 0, sh - TASKBAR, sw, TASKBAR, BAR)

draw_start_menu(memory) ==
  LET shadow == fb_fill_rect(memory, Menu[1] + Menu[5], MenuTop + Menu[5], Menu[3], Menu[4], SHADE)
  IN  IF ~start_menu_open THEN memory
      ELSE fb_fill_rect(shadow, Menu[1], MenuTop, Menu[3], Menu[4], MENU)

\* The two sides of the arrow from its tip.  Its filling and its tail, which lie in
\* the rectangle that begins at the tip, and never on it, are left out.
draw_cursor(memory) ==
  LET side == fb_line(memory, ms[1], ms[2], ms[1], ms[2] + CURSOR_SIDE, POINTER)
  IN  fb_line(side, ms[1], ms[2], ms[1] + CURSOR_W, ms[2] + CURSOR_W, POINTER)

Drawing ==
  LET desktop == fb_fill_rect(g_draw, 0, 0, sw, sh, DESKTOP)
  IN  draw_cursor(draw_start_menu(draw_taskbar(draw_windows(desktop))))

draw_pixel_desktop ==
  /\ phase = "draw" /\ phase' = "present"
  /\ windows' = Fitted
  /\ IF g_use_backbuffer THEN back' = Drawing /\ UNCHANGED front
                         ELSE front' = Drawing /\ UNCHANGED back
  /\ UNCHANGED <<mode, active_app, start_menu_open, drag, pointer, frame, events>>

Frame == [windows |-> windows, active |-> active_app, menu |-> start_menu_open]

Present ==
  /\ phase = "present" /\ phase' = "input"
  /\ front' = fb_present
  /\ frame' = Frame
  /\ UNCHANGED <<mode, back, windows, active_app, start_menu_open, drag, pointer, events>>

Next == handle_key \/ Report \/ draw_pixel_desktop \/ Present

Spec == Init /\ [][Next]_vars

-----------------------------------------------------------------------------
(* Properties.                                                             *)

TypeOK ==
  /\ mode \in Modes
  /\ windows \in [Apps -> Window]
  /\ active_app \in Apps \cup {APP_NONE} /\ start_menu_open \in BOOLEAN
  /\ drag_app \in Apps \cup {APP_NONE}
  /\ drag_dx \in 0..sw-1 /\ drag_dy \in 0..TITLE-1
  /\ left \in BOOLEAN /\ ms \in Pixels /\ events \in 0..MaxEvents
  /\ phase \in {"input", "draw", "present"}

\* Every open window that has been drawn lies within the margins of the screen and
\* above the task bar, however it was opened and dragged and however small the
\* screen is: its title bar can be reached.
OnScreen ==
  (phase = "present" \/ frame # NoFrame) =>
    \A a \in Apps : windows[a].open =>
      LET w == windows[a]
      IN  /\ w.w >= 1 /\ w.x >= EDGE /\ w.x + w.w <= sw - EDGE
          /\ w.h >= 1 /\ w.y >= EDGE /\ w.y + w.h <= sh - TASKBAR - EDGE

\* What is to be seen at p in the frame f, the pointer apart.
Seen(f, p) ==
  LET open == {a \in Apps : f.windows[a].open}
      rectangle == {a \in open : InWindow(p, f.windows[a])}
      here == rectangle \cup {a \in open : InWindow(<<p[1] - SHADOW, p[2] - SHADOW>>, f.windows[a])}
      top == IF f.active \in here THEN f.active ELSE Max(here)
      inMenu(q) == InRect(q, Menu[1], MenuTop, Menu[3], Menu[4])
  IN  CASE f.menu /\ inMenu(p) -> MENU
        [] f.menu /\ ~inMenu(p) /\ inMenu(<<p[1] - Menu[5], p[2] - Menu[5]>>) -> SHADE
        [] OTHER -> IF p[2] >= sh - TASKBAR THEN BAR
                    ELSE IF here = {} THEN DESKTOP
                    ELSE IF top \in rectangle THEN top ELSE SHADE

\* Between two frames the screen shows the last one whole: at every pixel what lies
\* on top there, the pointer's tip where the mouse was, and nothing is stored
\* beside the pixels, whatever the mode's pitch and wherever a window is cut off.
FrameShown ==
  (frame # NoFrame /\ phase = "input") =>
    /\ DOMAIN front = Offsets(mode.pitch)
    /\ \A p \in Pixels :
         IF p = ms THEN Shown(p[1], p[2]) = POINTER
         ELSE \/ p[1] \in ms[1]..ms[1] + CURSOR_W /\ p[2] \in ms[2]..ms[2] + CURSOR_H
              \/ Shown(p[1], p[2]) = Seen(frame, p)

\* A press on the frame that is on the screen goes to what is seen there: the window
\* gets the focus or is closed and no other one changes, and the desktop between
\* the windows does nothing.  Icons come first, also under a window, and the menu is
\* closed.  The Explorer may open another window.
PressGoesToSeen ==
  [][(/\ phase = "input" /\ phase' = "draw" /\ left' /\ ~left /\ drag_app = APP_NONE
      /\ frame = Frame /\ ~start_menu_open /\ IconsAt(ms') = {})
     => LET seen == Shown(ms'[1], ms'[2])
        IN  /\ seen \in Apps \ {APP_EXPLORER} =>
                 /\ active_app' = seen \/ ~windows'[seen].open
                 /\ \A a \in Apps \ {seen} : windows'[a] = windows[a]
            /\ seen = APP_EXPLORER =>
                 \A a \in Apps \ {seen} : windows[a].open => windows'[a] = windows[a]
            /\ seen = DESKTOP => UNCHANGED <<windows, active_app>>]_vars

\* A dragged window goes where the mouse holds it, or to the place nearest to that
\* within the margins; no other window moves.
DragFollows ==
  [][(phase = "input" /\ phase' = "draw" /\ drag_app # APP_NONE /\ left')
     => LET w == windows'[drag_app]
            x == ms'[1] - drag_dx
            y == ms'[2] - drag_dy
        IN  /\ \A q \in EDGE..sw - w.w - EDGE : Distance(w.x, x) <= Distance(q, x)
            /\ \A q \in EDGE..sh - TASKBAR - w.h - EDGE : Distance(w.y, y) <= Distance(q, y)
            /\ \A a \in Apps \ {drag_app} : windows'[a] = windows[a]]_vars
=============================================================================

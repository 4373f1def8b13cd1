------------------------------ MODULE Desktop ------------------------------
(***************************************************************************)
(* src/gui.c: windows and their focus, the Start menu, dragging, and which *)
(* of them gets a key or a click.  One loop drains the keyboard, reads the *)
(* mouse and draws, so handle_key and handle_mouse run to their end one    *)
(* after the other, any number of keys before each report of the mouse.    *)
(*                                                                         *)
(* Where things are drawn is abstracted to what a click can hit.  The text *)
(* of the console and of the editor is abstracted to what it makes the     *)
(* desktop do: a command when ENTER is typed, an edit when a key changes   *)
(* the file.                                                               *)
(***************************************************************************)
EXTENDS Naturals, Sequences, FiniteSets

CONSTANTS
  Keys,          \* the keys the user types
  StartItems,    \* what each item of the Start menu opens, APP_NONE to reboot
  Icons,         \* what each icon on the desktop opens
  Folders,       \* the entries of each folder the Explorer shows
  CommandApps,   \* the windows a console command opens
  THEME_COUNT,   \* rows of the Settings window
  FileNames,     \* names given to code files
  EDIT_FILE_MAX, \* how many of them are kept
  LostEdges      \* whether the mouse driver may drop a button edge

APP_NONE == 0
APP_EXPLORER == 1
APP_CONSOLE == 2
APP_CODE == 3
APP_GPUX == 4
APP_SETTINGS == 5
APP_ABOUT == 6
APP_HELP == 7
APP_COUNT == 8
Apps == 1..APP_COUNT-1

ROOT == "root"
NoFolder == "none"
MAIN_C == "main.c"

\* An entry of a folder: another folder, a window to open, or a file to look at.
Entry == [to : DOMAIN Folders \cup {NoFolder}, app : Apps \cup {APP_NONE}]

ASSUME MenuAssumption ==
  /\ StartItems \in Seq(Apps \cup {APP_NONE}) /\ StartItems # << >>
  /\ Icons \subseteq Apps /\ CommandApps \subseteq Apps

ASSUME FoldersAssumption ==
  /\ ROOT \in DOMAIN Folders /\ NoFolder \notin DOMAIN Folders
  /\ \A f \in DOMAIN Folders : Folders[f] \in Seq(Entry) /\ Folders[f] # << >>

ASSUME StudioAssumption ==
  THEME_COUNT \in Nat \ {0} /\ MAIN_C \in FileNames /\ EDIT_FILE_MAX \in Nat

ASSUME LostEdgesAssumption == LostEdges \in BOOLEAN

VARIABLES
  open,                               \* the apps whose window is open
  active_app,
  start_menu_open, start_selected,
  drag_app,
  left,                               \* left button in the last report of the mouse
  explorer_path, explorer_selected,
  settings_selected,
  files,                              \* the names of the RAM files
  code_file,                          \* whether the editor has a file
  code_dirty,
  running                             \* FALSE after a halt or a reboot

windows == <<open, active_app>>
menu == <<start_menu_open, start_selected>>
mouse == <<drag_app, left>>
explorer == <<explorer_path, explorer_selected>>
studio == <<files, code_file, code_dirty>>
panes == <<explorer, settings_selected>>
vars == <<windows, menu, mouse, panes, studio, running>>

-----------------------------------------------------------------------------
(* Windows.                                                                *)

\* Defective variant: the Start menu stays.
OpenBehindMenu(app) ==
  /\ open' = open \cup {app}
  /\ active_app' = app
  /\ UNCHANGED start_menu_open

\* open_app: brings a window up and ends the Start menu.
open_app(app) ==
  /\ open' = open \cup {app}
  /\ active_app' = app
  /\ start_menu_open' = FALSE

\* Defective variant: a closed window keeps the focus.
CloseKeepsFocus(app, focus) ==
  /\ open' = open \ {app}
  /\ active_app' = focus

\* close_app, called with the focus on the window focus: a closed window passes it
\* to the first open one.
close_app(app, focus) ==
  /\ open' = open \ {app}
  /\ IF app # focus \/ app = APP_NONE THEN active_app' = focus
     ELSE IF open' = {} THEN active_app' = APP_NONE
     ELSE active_app' \in open' /\ \A a \in open' : active_app' <= a

\* Defective variant: the search does not go round the end of the table.
CycleStops(app) ==
  LET steps == {s \in 1..APP_COUNT-1 : app + s \in open}
  IN  IF steps = {} THEN app
      ELSE app + (CHOOSE s \in steps : \A t \in steps : s <= t)

\* The window cycle_active finds after app, app itself if there is no other.
CycleFrom(app) ==
  LET steps == {s \in 1..APP_COUNT-1 : (app + s) % APP_COUNT \in open}
  IN  IF steps = {} THEN app
      ELSE (app + (CHOOSE s \in steps : \A t \in steps : s <= t)) % APP_COUNT

cycle_active == active_app' = CycleFrom(active_app) /\ UNCHANGED open

-----------------------------------------------------------------------------
(* What menus, icons, folders and commands start.                          *)

\* code_open_file, called with the Start menu in state shown: no window and no
\* change when the storage has no room for another file.
code_open_file(name, shown) ==
  \/ /\ name \in files \/ Cardinality(files) < EDIT_FILE_MAX
     /\ files' = files \cup {name}
     /\ code_file' = TRUE /\ code_dirty' = FALSE
     /\ open_app(APP_CODE)
  \/ /\ name \notin files /\ Cardinality(files) >= EDIT_FILE_MAX
     /\ start_menu_open' = shown
     /\ UNCHANGED <<windows, studio>>

\* The desktop's own ways to a window: Code Studio comes up with main.c.
Launch(app, shown) ==
  \/ app = APP_CODE /\ code_open_file(MAIN_C, shown)
  \/ app # APP_CODE /\ open_app(app) /\ UNCHANGED studio

\* system_reboot and system_halt do not return.
Stop == running' = FALSE /\ UNCHANGED <<windows, start_menu_open, studio>>

handle_start_selection(sel) ==
  \/ StartItems[sel + 1] = APP_NONE /\ Stop
  \/ /\ StartItems[sel + 1] # APP_NONE
     /\ Launch(StartItems[sel + 1], TRUE)
     /\ UNCHANGED running

\* explorer_open_selected, called with entry sel selected and the focus on focus.
explorer_open_selected(sel, focus) ==
  LET e == Folders[explorer_path][sel + 1]
  IN  /\ explorer_path' = IF e.to # NoFolder THEN e.to ELSE explorer_path
      /\ explorer_selected' = IF e.to # NoFolder THEN 0 ELSE sel
      /\ IF e.to = NoFolder /\ e.app # APP_NONE
         THEN open_app(e.app)
         ELSE active_app' = focus /\ start_menu_open' = FALSE /\ UNCHANGED open

-----------------------------------------------------------------------------
(* The keyboard.                                                           *)

\* The keys handle_key keeps for the desktop, and what they open.
AppKeys == [F2 |-> APP_EXPLORER, F3 |-> APP_CONSOLE, F4 |-> APP_ABOUT,
            F5 |-> APP_SETTINGS, F6 |-> APP_CODE, F7 |-> APP_GPUX]
DesktopKeys == DOMAIN AppKeys \cup {"F1", "F10", "TAB", "ESC"}

\* The selection of a list of size rows after UP and DOWN.
Moved(k, selected, size) ==
  CASE k = "UP" /\ selected > 0 -> selected - 1
    [] k = "DOWN" /\ selected + 1 < size -> selected + 1
    [] OTHER -> selected

MenuKey(k) ==
  /\ start_menu_open
  /\ \/ /\ k = "ENTER"
        /\ handle_start_selection(start_selected)
        /\ UNCHANGED start_selected
     \/ /\ k # "ENTER"
        /\ start_selected' = Moved(k, start_selected, Len(StartItems))
        /\ start_menu_open' = (k \notin {"ESC", "F1"})
        /\ UNCHANGED <<windows, studio, running>>
  /\ UNCHANGED panes

DesktopKey(k) ==
  /\ ~start_menu_open
  /\ \/ /\ k = "F1" /\ start_menu_open' = TRUE
        /\ UNCHANGED <<windows, studio, running>>
     \/ /\ k \in DOMAIN AppKeys /\ Launch(AppKeys[k], FALSE)
        /\ UNCHANGED running
     \/ k = "F10" /\ Stop
     \/ /\ k = "TAB" /\ cycle_active
        /\ UNCHANGED <<start_menu_open, studio, running>>
     \/ /\ k = "ESC" /\ close_app(active_app, active_app)
        /\ UNCHANGED <<start_menu_open, studio, running>>
  /\ UNCHANGED <<start_selected, panes>>

\* Defective variant: the selection may go behind the last entry.
ExplorerKeyOffByOne(k) ==
  \/ /\ k = "ENTER" /\ explorer_open_selected(explorer_selected, active_app)
  \/ /\ k # "ENTER"
     /\ explorer_selected' = Moved(k, explorer_selected, Len(Folders[explorer_path]) + 1)
     /\ UNCHANGED <<windows, start_menu_open, explorer_path>>

handle_explorer_key(k) ==
  \/ /\ k = "ENTER" /\ explorer_open_selected(explorer_selected, active_app)
  \/ /\ k # "ENTER"
     /\ explorer_selected' = Moved(k, explorer_selected, Len(Folders[explorer_path]))
     /\ UNCHANGED <<windows, start_menu_open, explorer_path>>

handle_settings_key(k) ==
  /\ settings_selected' = Moved(k, settings_selected, THEME_COUNT)
  /\ UNCHANGED <<windows, start_menu_open>>

\* console_exec on the commands that reach the desktop; the rest only write text.
console_exec ==
  \/ /\ \E app \in CommandApps : open_app(app)
     /\ UNCHANGED <<settings_selected, studio, running>>
  \/ /\ \E name \in FileNames : code_open_file(name, FALSE)
     /\ UNCHANGED <<settings_selected, running>>
  \/ /\ \E name \in files : files' = files \ {name}
     /\ UNCHANGED <<windows, start_menu_open, settings_selected, code_file, code_dirty, running>>
  \/ /\ settings_selected' \in 0..THEME_COUNT-1
     /\ UNCHANGED <<windows, start_menu_open, studio, running>>
  \/ Stop /\ UNCHANGED settings_selected

handle_console_key(k) ==
  \/ k = "ENTER" /\ console_exec
  \/ UNCHANGED <<windows, start_menu_open, settings_selected, studio, running>>

\* Of a key that reaches the editor's text only matters whether it makes an edit: a
\* character always does, ENTER, BACKSPACE and DELETE where the text allows it.
handle_code_key(k) ==
  \/ /\ ~code_file /\ k = "char"
     /\ code_open_file(MAIN_C, FALSE)
  \/ /\ ~code_file /\ k # "char"
     /\ UNCHANGED <<windows, start_menu_open, studio>>
  \/ /\ code_file /\ k \in {"F8", "F9"}
     /\ close_app(APP_CODE, active_app)
     /\ code_dirty' = (code_dirty /\ k = "F9")
     /\ UNCHANGED <<start_menu_open, files, code_file>>
  \/ /\ code_file /\ k = "F7"
     /\ code_dirty' = FALSE
     /\ UNCHANGED <<windows, start_menu_open, files, code_file>>
  \/ /\ code_file /\ k \notin {"F7", "F8", "F9"}
     /\ \/ k = "char" /\ code_dirty' = TRUE
        \/ k \in {"ENTER", "BS", "DELETE"} /\ code_dirty' \in {code_dirty, TRUE}
        \/ k \notin {"char", "ENTER", "BS", "DELETE"} /\ UNCHANGED code_dirty
     /\ UNCHANGED <<windows, start_menu_open, files, code_file>>

\* Every other key goes to the window in focus.
WindowKey(k) ==
  /\ ~start_menu_open /\ k \notin DesktopKeys
  /\ \/ /\ active_app = APP_EXPLORER /\ handle_explorer_key(k)
        /\ UNCHANGED <<settings_selected, studio, running>>
     \/ /\ active_app = APP_CONSOLE /\ handle_console_key(k)
        /\ UNCHANGED explorer
     \/ /\ active_app = APP_CODE /\ handle_code_key(k)
        /\ UNCHANGED <<panes, running>>
     \/ /\ active_app = APP_SETTINGS /\ handle_settings_key(k)
        /\ UNCHANGED <<explorer, studio, running>>
     \/ /\ active_app \notin {APP_EXPLORER, APP_CONSOLE, APP_CODE, APP_SETTINGS}
        /\ UNCHANGED <<windows, start_menu_open, panes, studio, running>>
  /\ UNCHANGED start_selected

handle_key(k) ==
  /\ MenuKey(k) \/ DesktopKey(k) \/ WindowKey(k)
  /\ UNCHANGED mouse

-----------------------------------------------------------------------------
(* The mouse.                                                              *)

\* What mouse_get_state may report since the last report: the edges are those of the
\* button's way from left to now, at least one each way if both are there.
Report == [now : BOOLEAN, pressed : BOOLEAN, released : BOOLEAN]
Faithful(r) ==
  IF r.now = left THEN r.pressed = r.released
  ELSE IF r.now THEN r.pressed ELSE r.released
Reports == {r \in Report : LostEdges \/ Faithful(r)}

\* A press at a place that hits none of the desktop's own things.  The window on
\* top there, if any, gets the focus.  A title bar starts to be dragged.
PressWindow(dropped) ==
  \/ /\ UNCHANGED <<windows, panes>> /\ drag_app' = dropped
  \/ \E hit \in open :
       \/ /\ close_app(hit, hit)
          /\ drag_app' = dropped /\ UNCHANGED panes
       \/ /\ active_app' = hit /\ drag_app' = hit
          /\ UNCHANGED <<open, panes>>
       \/ /\ hit = APP_EXPLORER
          /\ \E sel \in 0..Len(Folders[explorer_path])-1 : explorer_open_selected(sel, hit)
          /\ drag_app' = dropped /\ UNCHANGED settings_selected
       \/ /\ hit = APP_SETTINGS
          /\ settings_selected' \in 0..THEME_COUNT-1
          /\ active_app' = hit
          /\ drag_app' = dropped /\ UNCHANGED <<open, explorer>>
       \/ /\ active_app' = hit
          /\ drag_app' = dropped /\ UNCHANGED <<open, panes>>

\* The left button went down: the Start button, else an item of the open menu, else
\* the menu closes and it is an icon or a window.
Press(dropped) ==
  \/ /\ start_menu_open' = ~start_menu_open
     /\ drag_app' = dropped
     /\ UNCHANGED <<windows, start_selected, panes, studio, running>>
  \/ /\ start_menu_open
     /\ \E sel \in 0..Len(StartItems)-1 :
          start_selected' = sel /\ handle_start_selection(sel)
     /\ drag_app' = dropped
     /\ UNCHANGED panes
  \/ /\ \E app \in Icons : Launch(app, FALSE)
     /\ drag_app' = dropped
     /\ UNCHANGED <<start_selected, panes, running>>
  \/ /\ start_menu_open' = FALSE
     /\ PressWindow(dropped)
     /\ UNCHANGED <<start_selected, studio, running>>

\* A window is moved while it is dragged; otherwise a release ends the drag and only
\* a press does anything more.
handle_mouse(r) ==
  /\ left' = r.now
  /\ LET dragging == drag_app # APP_NONE /\ r.now
         dropped == IF r.released THEN APP_NONE ELSE drag_app
     IN  \/ /\ dragging
            /\ UNCHANGED <<windows, menu, drag_app, panes, studio, running>>
         \/ /\ ~dragging /\ ~r.pressed
            /\ drag_app' = dropped
            /\ UNCHANGED <<windows, menu, panes, studio, running>>
         \/ ~dragging /\ r.pressed /\ Press(dropped)

-----------------------------------------------------------------------------
Init ==
  /\ open = {APP_EXPLORER, APP_CONSOLE} /\ active_app = APP_CONSOLE
  /\ start_menu_open = FALSE /\ start_selected = 0
  /\ drag_app = APP_NONE /\ left = FALSE
  /\ explorer_path = ROOT /\ explorer_selected = 0
  /\ settings_selected = 0
  /\ files = {} /\ code_file = FALSE /\ code_dirty = FALSE
  /\ running = TRUE

KeyStep == \E k \in Keys : running /\ handle_key(k)
MouseStep == \E r \in Reports : running /\ handle_mouse(r)

Next == KeyStep \/ MouseStep

Spec == Init /\ [][Next]_vars

-----------------------------------------------------------------------------
\* The desktop's variables have the types their declarations and uses give them, and
\* every selection is a row of the list it is in, the Explorer's of the folder shown.
TypeOK ==
  /\ open \subseteq Apps /\ active_app \in Apps \cup {APP_NONE}
  /\ start_menu_open \in BOOLEAN /\ start_selected \in 0..Len(StartItems)-1
  /\ drag_app \in Apps \cup {APP_NONE} /\ left \in BOOLEAN
  /\ explorer_path \in DOMAIN Folders
  /\ explorer_selected \in 0..Len(Folders[explorer_path])-1
  /\ settings_selected \in 0..THEME_COUNT-1
  /\ files \subseteq FileNames
  /\ code_file \in BOOLEAN /\ code_dirty \in BOOLEAN
  /\ running \in BOOLEAN

\* After any sequence of keys, clicks and commands the window that gets the keys is
\* an open one, and none gets them only when none is open: open_app, close_app,
\* cycle_active and the mouse never leave the focus on a closed window.
FocusOnOpenWindow ==
  IF open = {} THEN active_app = APP_NONE ELSE active_app \in open

\* The window in focus after n times TAB.
AfterTabs == LET f[n \in 0..APP_COUNT] == IF n = 0 THEN active_app ELSE CycleFrom(f[n-1])
             IN  f

\* TAB, pressed often enough, brings every open window up.
TabReachesEveryWindow ==
  \A app \in open : \E n \in 0..APP_COUNT : AfterTabs[n] = app

\* The Start menu is drawn over the windows and takes the keys: a step that opens,
\* closes or focuses a window, from the menu, by a click or by a command, ends it.
MenuEndsWithWindowChange ==
  [][start_menu_open' => UNCHANGED windows]_vars
=============================================================================

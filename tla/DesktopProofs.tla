--------------------------- MODULE DesktopProofs ---------------------------
(***************************************************************************)
(* Theorems about Desktop, for every choice of menus, folders, keys and    *)
(* commands, and with button edges that may get lost.                      *)
(***************************************************************************)
EXTENDS Desktop, FiniteSetTheorems, WellFoundedInduction, TLAPS

\* A non-empty set of numbers has a least one.
LEMMA LeastNumber ==
  ASSUME NEW S \in SUBSET Nat, S # {}
  PROVE  \E s \in S : \A t \in S : s <= t
<1>. DEFINE R == OpToRel(<, Nat)
<1>1. PICK s \in S : \A t \in S : ~(<<t, s>> \in R)
  <2>. HIDE DEF R
  <2>1. IsWellFoundedOn(R, Nat)
    BY NatLessThanWellFounded DEF R
  <2>. QED BY <2>1, WFMin
<1>2. \A t \in S : ~(t < s)
  BY <1>1 DEF OpToRel
<1>. HIDE DEF R
<1>. QED BY <1>2

\* A set that has 0, and with each number the next one up to b, has all up to b.
LEMMA Steps ==
  ASSUME NEW b \in Nat, NEW T, 0 \in T, \A n \in 0..b-1 : n \in T => n + 1 \in T
  PROVE  b \in T
<1>. DEFINE U == {n \in 0..b : n \notin T}
<1>. SUFFICES ASSUME U # {} PROVE FALSE
  OBVIOUS
<1>1. PICK u \in U : \A t \in U : u <= t
  <2>1. U \in SUBSET Nat
    OBVIOUS
  <2>. HIDE DEF U
  <2>. QED BY <2>1, LeastNumber
<1>2. u # 0 /\ u - 1 \in 0..b-1 /\ u - 1 \notin U
  BY <1>1
<1>. QED BY <1>1, <1>2

-----------------------------------------------------------------------------
(* Types.                                                                  *)

\* A list's selection stays in the list.
LEMMA MovedInList ==
  ASSUME NEW size \in Nat, NEW selected \in 0..size-1, NEW k
  PROVE  Moved(k, selected, size) \in 0..size-1
  BY DEF Moved

\* What a folder shows.
LEMMA EntryTypes ==
  ASSUME TypeOK, NEW sel \in 0..Len(Folders[explorer_path])-1
  PROVE  /\ Folders[explorer_path][sel + 1] \in Entry
         /\ Len(Folders[explorer_path]) \in Nat
<1>1. Folders[explorer_path] \in Seq(Entry)
  BY FoldersAssumption DEF TypeOK
<1>. QED BY <1>1

\* An item of the Start menu opens a window or reboots.
LEMMA ItemTypes ==
  ASSUME NEW sel \in 0..Len(StartItems)-1
  PROVE  StartItems[sel + 1] \in Apps \cup {APP_NONE} /\ Len(StartItems) \in Nat
  BY MenuAssumption

\* The types of what several handlers have in common.
WindowTypes ==
  /\ open \subseteq Apps /\ active_app \in Apps \cup {APP_NONE}
  /\ start_menu_open \in BOOLEAN
StudioTypes ==
  files \subseteq FileNames /\ code_file \in BOOLEAN /\ code_dirty \in BOOLEAN
PaneTypes ==
  /\ explorer_path \in DOMAIN Folders
  /\ explorer_selected \in 0..Len(Folders[explorer_path])-1
  /\ settings_selected \in 0..THEME_COUNT-1
OtherTypes ==
  /\ start_selected \in 0..Len(StartItems)-1
  /\ drag_app \in Apps \cup {APP_NONE} /\ left \in BOOLEAN
  /\ running \in BOOLEAN

\* Opening a window.
LEMMA OpenTypes ==
  ASSUME TypeOK, NEW app \in Apps, open_app(app)
  PROVE  WindowTypes'
  BY DEF TypeOK, WindowTypes, open_app

\* Closing one.
LEMMA CloseTypes ==
  ASSUME TypeOK, NEW app, NEW focus \in Apps \cup {APP_NONE}, close_app(app, focus)
  PROVE  open' \subseteq Apps /\ active_app' \in Apps \cup {APP_NONE}
  BY DEF TypeOK, close_app

\* Starting something from an icon, a menu, a function key or the console.
LEMMA LaunchTypes ==
  ASSUME TypeOK, NEW app \in Apps, NEW shown \in BOOLEAN, NEW name \in FileNames,
         Launch(app, shown) \/ code_open_file(name, shown)
  PROVE  WindowTypes' /\ StudioTypes'
<1>1. ASSUME NEW n \in FileNames, code_open_file(n, shown)
      PROVE  WindowTypes' /\ StudioTypes'
  <2>1. APP_CODE \in Apps
    BY DEF APP_CODE, Apps, APP_COUNT
  <2>. QED BY <1>1, <2>1, OpenTypes DEF code_open_file, TypeOK, WindowTypes, StudioTypes, windows, studio
<1>2. CASE open_app(app) /\ UNCHANGED studio
  BY <1>2, OpenTypes DEF TypeOK, StudioTypes, studio
<1>. QED BY <1>1, <1>2, StudioAssumption DEF Launch

\* The selected item of the Start menu.
LEMMA SelectionTypes ==
  ASSUME TypeOK, NEW sel \in 0..Len(StartItems)-1, handle_start_selection(sel)
  PROVE  WindowTypes' /\ StudioTypes' /\ running' \in BOOLEAN
<1>1. CASE Stop
  BY <1>1 DEF Stop, TypeOK, WindowTypes, StudioTypes, windows, studio
<1>2. CASE StartItems[sel + 1] # APP_NONE /\ Launch(StartItems[sel + 1], TRUE) /\ UNCHANGED running
  <2>1. StartItems[sel + 1] \in Apps
    BY <1>2, ItemTypes
  <2>. QED BY <1>2, <2>1, LaunchTypes, StudioAssumption DEF TypeOK
<1>. QED BY <1>1, <1>2 DEF handle_start_selection

\* The selected entry of a folder.
LEMMA EntryOpenTypes ==
  ASSUME TypeOK, NEW sel \in 0..Len(Folders[explorer_path])-1,
         NEW focus \in Apps \cup {APP_NONE}, explorer_open_selected(sel, focus)
  PROVE  /\ WindowTypes'
         /\ explorer_path' \in DOMAIN Folders
         /\ explorer_selected' \in 0..Len(Folders[explorer_path'])-1
<1>. DEFINE e == Folders[explorer_path][sel + 1]
<1>1. e \in Entry
  BY EntryTypes
<1>2. explorer_path \in DOMAIN Folders
  BY DEF TypeOK
<1>3. CASE e.to # NoFolder
  <2>1. e.to \in DOMAIN Folders
    BY <1>1, <1>3 DEF Entry
  <2>2. Folders[e.to] \in Seq(Entry) /\ Folders[e.to] # << >>
    BY <2>1, FoldersAssumption
  <2>3. Len(Folders[e.to]) \in Nat /\ Len(Folders[e.to]) > 0
    BY <2>2
  <2>4. explorer_path' = e.to /\ explorer_selected' = 0
    BY <1>3 DEF explorer_open_selected
  <2>5. active_app' = focus /\ start_menu_open' = FALSE /\ UNCHANGED open
    BY <1>3 DEF explorer_open_selected
  <2>6. WindowTypes'
    BY <2>5 DEF TypeOK, WindowTypes
  <2>7. explorer_path' \in DOMAIN Folders
    BY <2>1, <2>4
  <2>8. 0 \in 0..Len(Folders[e.to])-1
    BY <2>3
  <2>9. explorer_selected' \in 0..Len(Folders[explorer_path'])-1
    BY <2>4, <2>8, Zenon
  <2>. QED BY <2>6, <2>7, <2>9
<1>4. CASE e.to = NoFolder
  <2>1. explorer_path' = explorer_path /\ explorer_selected' = sel
    BY <1>4 DEF explorer_open_selected
  <2>2. WindowTypes'
    <3>1. CASE e.app # APP_NONE
      <4>1. e.app \in Apps /\ open_app(e.app)
        BY <1>1, <1>4, <3>1 DEF Entry, explorer_open_selected
      <4>. QED BY <4>1, OpenTypes
    <3>2. CASE e.app = APP_NONE
      BY <1>4, <3>2 DEF explorer_open_selected, TypeOK, WindowTypes
    <3>. QED BY <3>1, <3>2
  <2>. QED BY <1>2, <2>1, <2>2
<1>. QED BY <1>3, <1>4

\* cycle_active goes to an open window or stays.
LEMMA CycleIsOpen ==
  ASSUME TypeOK, NEW app \in Apps \cup {APP_NONE}
  PROVE  CycleFrom(app) \in open \/ CycleFrom(app) = app
<1>. DEFINE steps == {s \in 1..APP_COUNT-1 : (app + s) % APP_COUNT \in open}
<1>1. CASE steps = {}
  BY <1>1 DEF CycleFrom
<1>2. CASE steps # {}
  <2>1. \E s \in steps : \A t \in steps : s <= t
    <3>1. steps \in SUBSET Nat
      OBVIOUS
    <3>. HIDE DEF steps
    <3>. QED BY <1>2, <3>1, LeastNumber
  <2>. DEFINE first == CHOOSE s \in steps : \A t \in steps : s <= t
  <2>2. first \in steps
    BY <2>1
  <2>3. CycleFrom(app) = (app + first) % APP_COUNT
    BY <1>2 DEF CycleFrom
  <2>. QED BY <2>2, <2>3
<1>. QED BY <1>1, <1>2

\* TypeOK is the conjunction of those types.
LEMMA Parts ==
  /\ TypeOK => WindowTypes /\ StudioTypes /\ PaneTypes /\ OtherTypes
  /\ WindowTypes' /\ StudioTypes' /\ PaneTypes' /\ OtherTypes' => TypeOK'
<1>1. TypeOK => WindowTypes /\ StudioTypes /\ PaneTypes /\ OtherTypes
  BY DEF TypeOK, WindowTypes, StudioTypes, PaneTypes, OtherTypes
<1>2. WindowTypes' /\ StudioTypes' /\ PaneTypes' /\ OtherTypes' => TypeOK'
  BY DEF TypeOK, WindowTypes, StudioTypes, PaneTypes, OtherTypes
<1>. QED BY <1>1, <1>2

\* What a step leaves alone keeps its types.
LEMMA Unchanged ==
  ASSUME TypeOK
  PROVE  /\ UNCHANGED <<windows, start_menu_open>> => WindowTypes'
         /\ UNCHANGED studio => StudioTypes'
         /\ UNCHANGED panes => PaneTypes'
         /\ UNCHANGED <<mouse, start_selected, running>> => OtherTypes'
<1>1. UNCHANGED <<windows, start_menu_open>> => WindowTypes'
  BY DEF TypeOK, WindowTypes, windows
<1>2. UNCHANGED studio => StudioTypes'
  BY DEF TypeOK, StudioTypes, studio
<1>3. UNCHANGED panes => PaneTypes'
  BY DEF TypeOK, PaneTypes, panes, explorer
<1>4. UNCHANGED <<mouse, start_selected, running>> => OtherTypes'
  BY DEF TypeOK, OtherTypes, mouse
<1>. QED BY <1>1, <1>2, <1>3, <1>4

\* A key for the open Start menu.
LEMMA MenuKeyTypes ==
  ASSUME TypeOK, NEW k, MenuKey(k), UNCHANGED mouse
  PROVE  TypeOK'
<1>1. PaneTypes'
  BY Unchanged DEF MenuKey
<1>2. CASE handle_start_selection(start_selected) /\ UNCHANGED start_selected
  <2>1. WindowTypes' /\ StudioTypes' /\ running' \in BOOLEAN
    BY <1>2, SelectionTypes DEF TypeOK
  <2>2. OtherTypes'
    BY <1>2, <2>1 DEF TypeOK, OtherTypes, mouse
  <2>. QED BY <1>1, <2>1, <2>2, Parts
<1>3. CASE /\ start_selected' = Moved(k, start_selected, Len(StartItems))
           /\ start_menu_open' = (k \notin {"ESC", "F1"})
           /\ UNCHANGED <<windows, studio, running>>
  <2>1. start_selected \in 0..Len(StartItems)-1 /\ Len(StartItems) \in Nat
    BY MenuAssumption DEF TypeOK
  <2>2. start_selected' \in 0..Len(StartItems)-1
    BY <1>3, <2>1, MovedInList
  <2>3. OtherTypes'
    BY <1>3, <2>2 DEF TypeOK, OtherTypes, mouse
  <2>4. WindowTypes'
    BY <1>3 DEF TypeOK, WindowTypes, windows
  <2>. QED BY <1>1, <1>3, <2>3, <2>4, Parts, Unchanged
<1>. QED BY <1>2, <1>3 DEF MenuKey

\* A key of the desktop's own.
LEMMA DesktopKeyTypes ==
  ASSUME TypeOK, NEW k, DesktopKey(k), UNCHANGED mouse
  PROVE  TypeOK'
<1>1. PaneTypes' /\ UNCHANGED <<mouse, start_selected>>
  BY Unchanged DEF DesktopKey
<1>2. CASE start_menu_open' = TRUE /\ UNCHANGED <<windows, studio, running>>
  <2>1. WindowTypes'
    BY <1>2 DEF TypeOK, WindowTypes, windows
  <2>. QED BY <1>1, <1>2, <2>1, Parts, Unchanged
<1>3. CASE k \in DOMAIN AppKeys /\ Launch(AppKeys[k], FALSE) /\ UNCHANGED running
  <2>1. AppKeys[k] \in Apps
    BY <1>3 DEF AppKeys, Apps, APP_COUNT, APP_EXPLORER, APP_CONSOLE, APP_ABOUT,
                APP_SETTINGS, APP_CODE, APP_GPUX
  <2>2. WindowTypes' /\ StudioTypes'
    BY <1>3, <2>1, LaunchTypes, StudioAssumption
  <2>. QED BY <1>1, <1>3, <2>2, Parts, Unchanged
<1>4. CASE Stop
  <2>1. WindowTypes' /\ StudioTypes'
    BY <1>4, Unchanged DEF Stop
  <2>2. OtherTypes'
    BY <1>1, <1>4 DEF TypeOK, OtherTypes, mouse, Stop
  <2>. QED BY <1>1, <2>1, <2>2, Parts
<1>5. CASE cycle_active /\ UNCHANGED <<start_menu_open, studio, running>>
  <2>1. active_app' \in Apps \cup {APP_NONE}
    BY <1>5, CycleIsOpen DEF TypeOK, cycle_active
  <2>2. WindowTypes'
    BY <1>5, <2>1 DEF TypeOK, WindowTypes, cycle_active
  <2>. QED BY <1>1, <1>5, <2>2, Parts, Unchanged
<1>6. CASE close_app(active_app, active_app) /\ UNCHANGED <<start_menu_open, studio, running>>
  <2>1. open' \subseteq Apps /\ active_app' \in Apps \cup {APP_NONE}
    BY <1>6, CloseTypes DEF TypeOK
  <2>2. WindowTypes'
    BY <1>6, <2>1 DEF TypeOK, WindowTypes
  <2>. QED BY <1>1, <1>6, <2>2, Parts, Unchanged
<1>. QED BY <1>2, <1>3, <1>4, <1>5, <1>6 DEF DesktopKey

\* A key for the Explorer.
LEMMA ExplorerKeyTypes ==
  ASSUME TypeOK, NEW k, handle_explorer_key(k), UNCHANGED settings_selected
  PROVE  WindowTypes' /\ PaneTypes'
<1>1. explorer_selected \in 0..Len(Folders[explorer_path])-1 /\ Len(Folders[explorer_path]) \in Nat
  BY EntryTypes DEF TypeOK
<1>2. CASE explorer_open_selected(explorer_selected, active_app)
  <2>1. active_app \in Apps \cup {APP_NONE}
    BY DEF TypeOK
  <2>. QED BY <1>1, <1>2, <2>1, EntryOpenTypes DEF TypeOK, PaneTypes
<1>3. CASE /\ explorer_selected' = Moved(k, explorer_selected, Len(Folders[explorer_path]))
           /\ UNCHANGED <<windows, start_menu_open, explorer_path>>
  <2>1. explorer_selected' \in 0..Len(Folders[explorer_path])-1
    BY <1>1, <1>3, MovedInList
  <2>2. PaneTypes'
    BY <1>3, <2>1 DEF TypeOK, PaneTypes
  <2>. QED BY <1>3, <2>2, Unchanged
<1>. QED BY <1>2, <1>3 DEF handle_explorer_key

\* A command of the console.
LEMMA CommandTypes ==
  ASSUME TypeOK, console_exec
  PROVE  /\ WindowTypes' /\ StudioTypes' /\ running' \in BOOLEAN
         /\ settings_selected' \in 0..THEME_COUNT-1
<1>. USE DEF TypeOK
<1>1. CASE (\E app \in CommandApps : open_app(app)) /\ UNCHANGED <<settings_selected, studio, running>>
  BY <1>1, MenuAssumption, OpenTypes, Unchanged
<1>2. CASE (\E name \in FileNames : code_open_file(name, FALSE)) /\ UNCHANGED <<settings_selected, running>>
  <2>1. APP_CODE \in Apps
    BY DEF APP_CODE, Apps, APP_COUNT
  <2>2. WindowTypes' /\ StudioTypes'
    BY <1>2, <2>1, LaunchTypes
  <2>. QED BY <1>2, <2>2
<1>3. CASE /\ \E name \in files : files' = files \ {name}
           /\ UNCHANGED <<windows, start_menu_open, settings_selected, code_file, code_dirty, running>>
  <2>1. StudioTypes'
    BY <1>3 DEF StudioTypes
  <2>. QED BY <1>3, <2>1, Unchanged
<1>4. CASE settings_selected' \in 0..THEME_COUNT-1 /\ UNCHANGED <<windows, start_menu_open, studio, running>>
  BY <1>4, Unchanged
<1>5. CASE Stop /\ UNCHANGED settings_selected
  BY <1>5, Unchanged DEF Stop
<1>. QED BY <1>1, <1>2, <1>3, <1>4, <1>5 DEF console_exec

\* A key for Code Studio.
LEMMA CodeKeyTypes ==
  ASSUME TypeOK, NEW k, handle_code_key(k)
  PROVE  WindowTypes' /\ StudioTypes'
<1>1. CASE code_open_file(MAIN_C, FALSE)
  <2>1. APP_CODE \in Apps
    BY DEF APP_CODE, Apps, APP_COUNT
  <2>. QED BY <1>1, <2>1, LaunchTypes, StudioAssumption
<1>2. CASE UNCHANGED <<windows, start_menu_open, studio>>
  BY <1>2, Unchanged
<1>3. CASE /\ close_app(APP_CODE, active_app)
           /\ code_dirty' = (code_dirty /\ k = "F9")
           /\ UNCHANGED <<start_menu_open, files, code_file>>
  <2>1. open' \subseteq Apps /\ active_app' \in Apps \cup {APP_NONE}
    BY <1>3, CloseTypes DEF TypeOK
  <2>. QED BY <1>3, <2>1 DEF TypeOK, WindowTypes, StudioTypes
<1>4. CASE code_dirty' \in {FALSE, TRUE, code_dirty} /\ UNCHANGED <<windows, start_menu_open, files, code_file>>
  <2>1. StudioTypes'
    BY <1>4 DEF TypeOK, StudioTypes
  <2>. QED BY <1>4, <2>1, Unchanged
<1>. QED BY <1>1, <1>2, <1>3, <1>4 DEF handle_code_key

\* A key for the window in focus.
LEMMA WindowKeyTypes ==
  ASSUME TypeOK, NEW k, WindowKey(k), UNCHANGED mouse
  PROVE  TypeOK'
<1>1. UNCHANGED <<mouse, start_selected>>
  BY DEF WindowKey
<1>2. CASE handle_explorer_key(k) /\ UNCHANGED <<settings_selected, studio, running>>
  BY <1>1, <1>2, ExplorerKeyTypes, Unchanged, Parts
<1>3. CASE handle_console_key(k) /\ UNCHANGED explorer
  <2>1. CASE console_exec
    <3>1. OtherTypes'
      BY <1>1, <2>1, CommandTypes DEF TypeOK, OtherTypes, mouse
    <3>2. PaneTypes'
      BY <1>3, <2>1, CommandTypes DEF TypeOK, PaneTypes, explorer
    <3>. QED BY <2>1, <3>1, <3>2, CommandTypes, Parts
  <2>2. CASE UNCHANGED <<windows, start_menu_open, settings_selected, studio, running>>
    BY <1>1, <1>3, <2>2, Unchanged, Parts DEF panes
  <2>. QED BY <1>3, <2>1, <2>2 DEF handle_console_key
<1>4. CASE handle_code_key(k) /\ UNCHANGED <<panes, running>>
  BY <1>1, <1>4, CodeKeyTypes, Unchanged, Parts
<1>5. CASE handle_settings_key(k) /\ UNCHANGED <<explorer, studio, running>>
  <2>1. settings_selected \in 0..THEME_COUNT-1 /\ THEME_COUNT \in Nat
    BY StudioAssumption DEF TypeOK
  <2>2. settings_selected' \in 0..THEME_COUNT-1
    BY <1>5, <2>1, MovedInList DEF handle_settings_key
  <2>3. PaneTypes'
    BY <1>5, <2>2 DEF TypeOK, PaneTypes, explorer
  <2>. QED BY <1>1, <1>5, <2>3, Unchanged, Parts DEF handle_settings_key
<1>6. CASE UNCHANGED <<windows, start_menu_open, panes, studio, running>>
  BY <1>1, <1>6, Unchanged, Parts
<1>. QED BY <1>2, <1>3, <1>4, <1>5, <1>6 DEF WindowKey

\* A press on a window or on nothing.
LEMMA PressWindowTypes ==
  ASSUME TypeOK, NEW dropped \in Apps \cup {APP_NONE}, start_menu_open' = FALSE,
         PressWindow(dropped)
  PROVE  WindowTypes' /\ PaneTypes' /\ drag_app' \in Apps \cup {APP_NONE}
<1>1. CASE UNCHANGED <<windows, panes>> /\ drag_app' = dropped
  BY <1>1, Unchanged DEF TypeOK, WindowTypes, windows
<1>2. CASE \E hit \in open : close_app(hit, hit) /\ drag_app' = dropped /\ UNCHANGED panes
  <2>1. PICK hit \in open : close_app(hit, hit) /\ drag_app' = dropped /\ UNCHANGED panes
    BY <1>2
  <2>2. open' \subseteq Apps /\ active_app' \in Apps \cup {APP_NONE}
    BY <2>1, CloseTypes DEF TypeOK
  <2>. QED BY <2>1, <2>2, Unchanged DEF WindowTypes
<1>3. CASE \E hit \in open : active_app' = hit /\ drag_app' = hit /\ UNCHANGED <<open, panes>>
  BY <1>3, Unchanged DEF TypeOK, WindowTypes
<1>4. CASE /\ \E sel \in 0..Len(Folders[explorer_path])-1 : explorer_open_selected(sel, APP_EXPLORER)
           /\ drag_app' = dropped /\ UNCHANGED settings_selected
  <2>1. APP_EXPLORER \in Apps
    BY DEF APP_EXPLORER, Apps, APP_COUNT
  <2>. QED BY <1>4, <2>1, EntryOpenTypes DEF TypeOK, PaneTypes
<1>5. CASE /\ settings_selected' \in 0..THEME_COUNT-1
           /\ active_app' \in open
           /\ drag_app' = dropped /\ UNCHANGED <<open, explorer>>
  BY <1>5 DEF TypeOK, WindowTypes, PaneTypes, explorer
<1>6. CASE active_app' \in open /\ drag_app' = dropped /\ UNCHANGED <<open, panes>>
  BY <1>6, Unchanged DEF TypeOK, WindowTypes
<1>. QED BY <1>1, <1>2, <1>3, <1>4, <1>5, <1>6 DEF PressWindow

\* A press of the button.
LEMMA PressTypes ==
  ASSUME TypeOK, NEW dropped \in Apps \cup {APP_NONE}, Press(dropped)
  PROVE  /\ WindowTypes' /\ StudioTypes' /\ PaneTypes'
         /\ drag_app' \in Apps \cup {APP_NONE}
         /\ start_selected' \in 0..Len(StartItems)-1
         /\ running' \in BOOLEAN
<1>. USE DEF TypeOK
<1>1. CASE /\ start_menu_open' = ~start_menu_open
           /\ drag_app' = dropped
           /\ UNCHANGED <<windows, start_selected, panes, studio, running>>
  BY <1>1, Unchanged DEF WindowTypes, windows
<1>2. CASE /\ \E sel \in 0..Len(StartItems)-1 : start_selected' = sel /\ handle_start_selection(sel)
           /\ drag_app' = dropped /\ UNCHANGED panes
  BY <1>2, SelectionTypes, Unchanged
<1>3. CASE /\ \E app \in Icons : Launch(app, FALSE)
           /\ drag_app' = dropped
           /\ UNCHANGED <<start_selected, panes, running>>
  <2>1. PICK app \in Apps : Launch(app, FALSE)
    BY <1>3, MenuAssumption
  <2>2. WindowTypes' /\ StudioTypes'
    BY <2>1, LaunchTypes, StudioAssumption
  <2>. QED BY <1>3, <2>2, Unchanged
<1>4. CASE /\ start_menu_open' = FALSE
           /\ PressWindow(dropped)
           /\ UNCHANGED <<start_selected, studio, running>>
  BY <1>4, PressWindowTypes, Unchanged
<1>. QED BY <1>1, <1>2, <1>3, <1>4 DEF Press

\* A report of the mouse.
LEMMA MouseTypes ==
  ASSUME TypeOK, NEW r \in Reports, handle_mouse(r)
  PROVE  TypeOK'
<1>. DEFINE dropped == IF r.released THEN APP_NONE ELSE drag_app
<1>1. dropped \in Apps \cup {APP_NONE} /\ left' \in BOOLEAN
  BY DEF TypeOK, Reports, Report, handle_mouse
<1>2. CASE UNCHANGED <<windows, menu, drag_app, panes, studio, running>>
  <2>1. OtherTypes'
    BY <1>1, <1>2 DEF TypeOK, OtherTypes, menu
  <2>. QED BY <1>2, <2>1, Unchanged, Parts DEF menu
<1>3. CASE drag_app' = dropped /\ UNCHANGED <<windows, menu, panes, studio, running>>
  <2>1. OtherTypes'
    BY <1>1, <1>3 DEF TypeOK, OtherTypes, menu
  <2>. QED BY <1>3, <2>1, Unchanged, Parts DEF menu
<1>4. CASE Press(dropped)
  <2>. HIDE DEF dropped
  <2>. QED BY <1>1, <1>4, PressTypes, Parts DEF OtherTypes
<1>. QED BY <1>2, <1>3, <1>4 DEF handle_mouse

\* TypeOK holds after any sequence of keys, commands, clicks and lost edges.
THEOREM TypeCorrect == Spec => []TypeOK
<1>1. Init => TypeOK
  <2>. SUFFICES ASSUME Init PROVE TypeOK
    OBVIOUS
  <2>1. StartItems \in Seq(Apps \cup {APP_NONE}) /\ StartItems # << >>
    BY MenuAssumption
  <2>2. 0 \in 0..Len(StartItems)-1
    BY <2>1
  <2>3. Folders[ROOT] \in Seq(Entry) /\ Folders[ROOT] # << >>
    BY FoldersAssumption
  <2>4. 0 \in 0..Len(Folders[ROOT])-1
    BY <2>3
  <2>5. 0 \in 0..THEME_COUNT-1
    BY StudioAssumption
  <2>6. open \subseteq Apps /\ active_app \in Apps
    BY DEF Init, APP_EXPLORER, APP_CONSOLE, Apps, APP_COUNT
  <2>. QED BY <2>2, <2>4, <2>5, <2>6, FoldersAssumption DEF Init, TypeOK
<1>2. TypeOK /\ [Next]_vars => TypeOK'
  <2>. SUFFICES ASSUME TypeOK, [Next]_vars PROVE TypeOK'
    OBVIOUS
  <2>1. CASE KeyStep
    BY <2>1, MenuKeyTypes, DesktopKeyTypes, WindowKeyTypes DEF KeyStep, handle_key
  <2>2. CASE MouseStep
    BY <2>2, MouseTypes DEF MouseStep
  <2>3. CASE UNCHANGED vars
    BY <2>3, Unchanged, Parts DEF vars, menu
  <2>. QED BY <2>1, <2>2, <2>3 DEF Next
<1>. QED BY <1>1, <1>2, PTL DEF Spec

-----------------------------------------------------------------------------
(* Focus.                                                                  *)

\* Focus and windows fit together; the part of TypeOK this needs.
Focus ==
  /\ open \subseteq Apps
  /\ FocusOnOpenWindow

\* Opening a window focuses it.
LEMMA OpenFocus ==
  ASSUME Focus, NEW app \in Apps, open_app(app)
  PROVE  Focus'
  BY DEF Focus, FocusOnOpenWindow, open_app

\* Closing a window leaves the focus on an open one.
LEMMA CloseFocus ==
  ASSUME open \subseteq Apps, NEW app \in Apps \cup {APP_NONE}, NEW focus \in Apps \cup {APP_NONE},
         IF open = {} THEN focus = APP_NONE ELSE focus \in open,
         close_app(app, focus)
  PROVE  Focus'
  BY DEF Focus, FocusOnOpenWindow, close_app, Apps, APP_NONE, APP_COUNT

\* A step that opens or closes nothing and moves the focus, if at all, to an open
\* window.
LEMMA MoveFocus ==
  ASSUME Focus, UNCHANGED open, active_app' = active_app \/ active_app' \in open
  PROVE  Focus'
  BY DEF Focus, FocusOnOpenWindow

\* A step that moves nothing.
LEMMA KeepFocus ==
  ASSUME Focus, UNCHANGED windows
  PROVE  Focus'
  BY MoveFocus DEF windows

\* Starting something.
LEMMA LaunchFocus ==
  ASSUME Focus, NEW app \in Apps, NEW shown, NEW name,
         Launch(app, shown) \/ code_open_file(name, shown)
  PROVE  Focus'
<1>1. APP_CODE \in Apps
  BY DEF APP_CODE, Apps, APP_COUNT
<1>2. ASSUME NEW n, code_open_file(n, shown) PROVE Focus'
  BY <1>1, <1>2, OpenFocus, KeepFocus DEF code_open_file
<1>. QED BY <1>2, OpenFocus DEF Launch

\* The selected item of the Start menu.
LEMMA SelectionFocus ==
  ASSUME Focus, NEW sel \in 0..Len(StartItems)-1, handle_start_selection(sel)
  PROVE  Focus'
  BY ItemTypes, LaunchFocus, KeepFocus DEF handle_start_selection, Stop

\* An entry of the Explorer, selected with the focus on an open window.
LEMMA EntryOpenFocus ==
  ASSUME TypeOK, Focus, NEW sel \in 0..Len(Folders[explorer_path])-1,
         NEW focus \in open, explorer_open_selected(sel, focus)
  PROVE  Focus'
<1>. DEFINE e == Folders[explorer_path][sel + 1]
<1>1. CASE e.to = NoFolder /\ e.app # APP_NONE
  <2>1. e.app \in Apps /\ open_app(e.app)
    BY <1>1, EntryTypes DEF Entry, explorer_open_selected
  <2>. QED BY <2>1, OpenFocus
<1>2. CASE ~(e.to = NoFolder /\ e.app # APP_NONE)
  BY <1>2, MoveFocus DEF explorer_open_selected
<1>. QED BY <1>1, <1>2

\* No key leaves the focus on a closed window.
LEMMA KeyFocus ==
  ASSUME TypeOK, Focus, NEW k, handle_key(k)
  PROVE  Focus'
<1>1. CASE MenuKey(k)
  BY <1>1, SelectionFocus, KeepFocus DEF MenuKey, TypeOK
<1>2. CASE DesktopKey(k)
  <2>1. CASE k \in DOMAIN AppKeys /\ Launch(AppKeys[k], FALSE)
    <3>1. AppKeys[k] \in Apps
      BY <2>1 DEF AppKeys, Apps, APP_COUNT, APP_EXPLORER, APP_CONSOLE, APP_ABOUT,
                  APP_SETTINGS, APP_CODE, APP_GPUX
    <3>. QED BY <2>1, <3>1, LaunchFocus
  <2>2. CASE cycle_active
    BY <2>2, CycleIsOpen, MoveFocus DEF cycle_active, TypeOK
  <2>3. CASE close_app(active_app, active_app)
    BY <2>3, CloseFocus DEF TypeOK, Focus, FocusOnOpenWindow
  <2>4. CASE UNCHANGED windows
    BY <2>4, KeepFocus
  <2>. QED BY <1>2, <2>1, <2>2, <2>3, <2>4 DEF DesktopKey, Stop
<1>3. CASE WindowKey(k)
  <2>1. CASE active_app = APP_EXPLORER /\ handle_explorer_key(k)
    <3>1. active_app \in open
      BY <2>1 DEF Focus, FocusOnOpenWindow, APP_EXPLORER, APP_NONE
    <3>. QED BY <2>1, <3>1, EntryOpenFocus, KeepFocus DEF handle_explorer_key, TypeOK
  <2>2. CASE handle_console_key(k)
    <3>1. APP_CODE \in Apps
      BY DEF APP_CODE, Apps, APP_COUNT
    <3>. QED BY <2>2, <3>1, MenuAssumption, OpenFocus, LaunchFocus, KeepFocus
             DEF handle_console_key, console_exec, Stop
  <2>3. CASE handle_code_key(k)
    <3>1. APP_CODE \in Apps
      BY DEF APP_CODE, Apps, APP_COUNT
    <3>2. close_app(APP_CODE, active_app) => Focus'
      BY <3>1, CloseFocus DEF TypeOK, Focus, FocusOnOpenWindow
    <3>. QED BY <2>3, <3>1, <3>2, LaunchFocus, KeepFocus DEF handle_code_key
  <2>4. CASE UNCHANGED windows
    BY <2>4, KeepFocus
  <2>. QED BY <1>3, <2>1, <2>2, <2>3, <2>4 DEF WindowKey, handle_settings_key
<1>. QED BY <1>1, <1>2, <1>3 DEF handle_key

\* Nor does a click.
LEMMA MouseFocus ==
  ASSUME TypeOK, Focus, NEW r, handle_mouse(r)
  PROVE  Focus'
<1>. DEFINE dropped == IF r.released THEN APP_NONE ELSE drag_app
<1>1. ASSUME NEW hit \in open, close_app(hit, hit) PROVE Focus'
  BY <1>1, CloseFocus DEF TypeOK, Focus
<1>2. ASSUME NEW hit \in open, hit = APP_EXPLORER,
             \E sel \in 0..Len(Folders[explorer_path])-1 : explorer_open_selected(sel, hit)
      PROVE  Focus'
  BY <1>2, EntryOpenFocus
<1>3. CASE PressWindow(dropped)
  BY <1>1, <1>2, <1>3, KeepFocus, MoveFocus DEF PressWindow
<1>4. CASE Press(dropped)
  BY <1>3, <1>4, SelectionFocus, LaunchFocus, KeepFocus, MenuAssumption DEF Press
<1>. QED BY <1>4, KeepFocus DEF handle_mouse

\* The keys always go to an open window, whatever is opened, closed, cycled through
\* and clicked at, and by whichever way it is.
THEOREM FocusAlways == Spec => []FocusOnOpenWindow
<1>1. Init => Focus
  BY DEF Init, Focus, FocusOnOpenWindow, APP_EXPLORER, APP_CONSOLE, Apps, APP_COUNT
<1>2. TypeOK /\ Focus /\ [Next]_vars => Focus'
  <2>. SUFFICES ASSUME TypeOK, Focus, [Next]_vars PROVE Focus'
    OBVIOUS
  <2>1. CASE KeyStep
    BY <2>1, KeyFocus DEF KeyStep
  <2>2. CASE MouseStep
    BY <2>2, MouseFocus DEF MouseStep
  <2>3. CASE UNCHANGED vars
    BY <2>3, KeepFocus DEF vars
  <2>. QED BY <2>1, <2>2, <2>3 DEF Next
<1>3. Focus => FocusOnOpenWindow
  BY DEF Focus
<1>. QED BY <1>1, <1>2, <1>3, TypeCorrect, PTL DEF Spec

-----------------------------------------------------------------------------
(* The Start menu and the windows.                                         *)

\* What a step does that leaves the Start menu open.
LEMMA MenuKept ==
  ASSUME Next, start_menu_open'
  PROVE  UNCHANGED windows
<1>1. ASSUME NEW app, NEW shown, NEW name, Launch(app, shown) \/ code_open_file(name, shown)
      PROVE  UNCHANGED windows
  BY <1>1 DEF Launch, code_open_file, open_app
<1>2. ASSUME NEW sel, handle_start_selection(sel)
      PROVE  UNCHANGED windows
  BY <1>1, <1>2 DEF handle_start_selection, Stop
<1>3. ASSUME NEW sel, NEW focus, explorer_open_selected(sel, focus)
      PROVE  FALSE
  BY <1>3 DEF explorer_open_selected, open_app
<1>4. ASSUME NEW k, handle_key(k)
      PROVE  UNCHANGED windows
  <2>1. CASE MenuKey(k)
    BY <1>2, <2>1 DEF MenuKey
  <2>2. CASE DesktopKey(k)
    BY <1>1, <2>2 DEF DesktopKey, Stop
  <2>3. CASE WindowKey(k)
    <3>1. CASE handle_explorer_key(k)
      BY <1>3, <3>1 DEF handle_explorer_key
    <3>2. CASE handle_console_key(k)
      BY <1>1, <3>2 DEF handle_console_key, console_exec, open_app, Stop
    <3>3. CASE handle_code_key(k)
      BY <1>1, <2>3, <3>3 DEF handle_code_key, WindowKey
    <3>. QED BY <2>3, <3>1, <3>2, <3>3 DEF WindowKey, handle_settings_key
  <2>. QED BY <1>4, <2>1, <2>2, <2>3 DEF handle_key
<1>5. ASSUME NEW r, handle_mouse(r)
      PROVE  UNCHANGED windows
  <2>1. ASSUME NEW dropped, Press(dropped) PROVE UNCHANGED windows
    BY <1>1, <1>2, <2>1 DEF Press
  <2>. QED BY <1>5, <2>1 DEF handle_mouse
<1>. QED BY <1>4, <1>5 DEF Next, KeyStep, MouseStep

\* No step that changes the windows or their focus leaves the menu over them.
THEOREM MenuEnds == Spec => MenuEndsWithWindowChange
<1>1. [Next]_vars => [start_menu_open' => UNCHANGED windows]_vars
  BY MenuKept DEF vars
<1>. QED BY <1>1, PTL DEF Spec, MenuEndsWithWindowChange

-----------------------------------------------------------------------------
(* TAB.                                                                    *)

\* How far the search for the next window goes from window f until it meets app.
Ahead(f, app) == (app + APP_COUNT - f) % APP_COUNT

\* TAB goes at most as far as app, when app is open and not in focus.
LEMMA TabGoesNearer ==
  ASSUME open \subseteq Apps, NEW app \in open, NEW f \in 0..APP_COUNT-1, f # app
  PROVE  /\ CycleFrom(f) \in 0..APP_COUNT-1
         /\ Ahead(CycleFrom(f), app) < Ahead(f, app)
<1>. USE DEF APP_COUNT
<1>. DEFINE steps == {s \in 1..APP_COUNT-1 : (f + s) % APP_COUNT \in open}
            first == CHOOSE s \in steps : \A t \in steps : s <= t
<1>1. app \in 1..7
  BY DEF Apps
<1>2. Ahead(f, app) \in 1..7 /\ (f + Ahead(f, app)) % 8 = app
  BY <1>1 DEF Ahead
<1>3. Ahead(f, app) \in steps
  BY <1>2
<1>4. first \in steps /\ \A t \in steps : first <= t
  <2>1. steps \in SUBSET Nat /\ steps # {}
    BY <1>3
  <2>2. \E s \in steps : \A t \in steps : s <= t
    <3>. HIDE DEF steps
    <3>. QED BY <2>1, LeastNumber
  <2>. HIDE DEF steps
  <2>. QED BY <2>2
<1>5. CycleFrom(f) = (f + first) % APP_COUNT
  BY <1>3 DEF CycleFrom
<1>6. first \in 1..7 /\ first <= Ahead(f, app)
  BY <1>3, <1>4
<1>. HIDE DEF steps, first
<1>7. \A g \in 1..7 : g <= Ahead(f, app)
        => (f + g) % 8 \in 0..7 /\ Ahead((f + g) % 8, app) < Ahead(f, app)
  BY <1>1 DEF Ahead
<1>. QED BY <1>5, <1>6, <1>7

\* AfterTabs meets its own equation.
LEMMA AfterTabsDef ==
  AfterTabs = [n \in 0..APP_COUNT |-> IF n = 0 THEN active_app ELSE CycleFrom(AfterTabs[n-1])]
<1>. DEFINE T == {n \in 0..APP_COUNT :
                    \E g : g = [m \in 0..n |-> IF m = 0 THEN active_app ELSE CycleFrom(g[m-1])]}
<1>1. 0 \in T
  <2>. DEFINE g == [m \in 0..0 |-> active_app]
  <2>1. g = [m \in 0..0 |-> IF m = 0 THEN active_app ELSE CycleFrom(g[m-1])]
    OBVIOUS
  <2>2. \E h : h = [m \in 0..0 |-> IF m = 0 THEN active_app ELSE CycleFrom(h[m-1])]
    <3>. HIDE DEF g
    <3>. QED BY <2>1, Zenon
  <2>3. 0 \in 0..APP_COUNT
    BY DEF APP_COUNT
  <2>. QED BY <2>2, <2>3, Zenon
<1>2. ASSUME NEW n \in 0..APP_COUNT-1, n \in T
      PROVE  n + 1 \in T
  <2>1. PICK g : g = [m \in 0..n |-> IF m = 0 THEN active_app ELSE CycleFrom(g[m-1])]
    BY <1>2
  <2>. DEFINE h == [m \in 0..n+1 |-> IF m = n + 1 THEN CycleFrom(g[n]) ELSE g[m]]
  <2>2. h = [m \in 0..n+1 |-> IF m = 0 THEN active_app ELSE CycleFrom(h[m-1])]
    <3>1. ASSUME NEW m \in 0..n+1
          PROVE  h[m] = IF m = 0 THEN active_app ELSE CycleFrom(h[m-1])
      <4>1. CASE m = n + 1
        BY <4>1 DEF APP_COUNT
      <4>2. CASE m # n + 1
        <5>1. m \in 0..n /\ h[m] = g[m] /\ (m # 0 => m - 1 \in 0..n /\ h[m-1] = g[m-1])
          BY <4>2 DEF APP_COUNT
        <5>2. g[m] = IF m = 0 THEN active_app ELSE CycleFrom(g[m-1])
          BY <2>1, <5>1
        <5>. HIDE DEF h
        <5>. QED BY <5>1, <5>2
      <4>. QED BY <4>1, <4>2
    <3>. QED BY <3>1
  <2>3. \E k : k = [m \in 0..n+1 |-> IF m = 0 THEN active_app ELSE CycleFrom(k[m-1])]
    <3>. HIDE DEF h
    <3>. QED BY <2>2, Zenon
  <2>4. n + 1 \in 0..APP_COUNT
    BY DEF APP_COUNT
  <2>. QED BY <2>3, <2>4, Zenon
<1>3. APP_COUNT \in T
  <2>. HIDE DEF T
  <2>. QED BY <1>1, <1>2, Steps DEF APP_COUNT
<1>4. \E g : g = [m \in 0..APP_COUNT |-> IF m = 0 THEN active_app ELSE CycleFrom(g[m-1])]
  BY <1>3
<1>. QED BY <1>4 DEF AfterTabs

\* However the windows are opened and closed, TAB alone brings each open one up.
THEOREM TabAlwaysReaches == Spec => []TabReachesEveryWindow
<1>1. TypeOK => TabReachesEveryWindow
  <2>. SUFFICES ASSUME TypeOK, NEW app \in open
                PROVE  \E n \in 0..APP_COUNT : AfterTabs[n] = app
    BY DEF TabReachesEveryWindow
  <2>. USE DEF APP_COUNT
  <2>1. open \subseteq Apps /\ active_app \in 0..7
    BY DEF TypeOK, Apps, APP_NONE
  <2>. DEFINE f == AfterTabs
              Met(n) == \E m \in 0..n : f[m] = app
              Near(n) == f[n] \in 0..7 /\ Ahead(f[n], app) + n <= 7
              T == {n \in 0..8 : Met(n) \/ Near(n)}
  <2>2. f[0] = active_app /\ \A n \in 0..7 : f[n+1] = CycleFrom(f[n])
    BY AfterTabsDef
  <2>3. \A n \in 0..7 : Ahead(n, app) \in Nat
    BY <2>1 DEF Ahead, Apps
  <2>. HIDE DEF f
  <2>4. Near(0)
    <3>1. app \in 1..7
      BY <2>1 DEF Apps
    <3>. QED BY <2>1, <2>2, <3>1 DEF Ahead
  <2>5. ASSUME NEW n \in 0..7, Met(n)
        PROVE  Met(n + 1)
    <3>1. PICK m \in 0..n : f[m] = app
      BY <2>5
    <3>2. m \in 0..n+1
      OBVIOUS
    <3>. QED BY <3>1, <3>2, Zenon
  <2>6. ASSUME NEW n \in 0..7, Near(n), ~Met(n)
        PROVE  Near(n + 1)
    <3>1. f[n] \in 0..7 /\ f[n] # app /\ Ahead(f[n], app) + n <= 7
      BY <2>6
    <3>2. f[n+1] \in 0..7 /\ Ahead(f[n+1], app) < Ahead(f[n], app)
      BY <2>1, <2>2, <3>1, TabGoesNearer
    <3>. QED BY <2>3, <3>1, <3>2
  <2>7. Near(8) => FALSE
    BY <2>3
  <2>. HIDE DEF Met, Near
  <2>8. 0 \in T /\ \A n \in 0..7 : n \in T => n + 1 \in T
    BY <2>4, <2>5, <2>6
  <2>9. 8 \in T
    <3>. HIDE DEF T
    <3>. QED BY <2>8, Steps
  <2>. QED BY <2>7, <2>9 DEF Met, f
<1>. QED BY <1>1, TypeCorrect, PTL

=============================================================================

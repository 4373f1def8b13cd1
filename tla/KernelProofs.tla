---------------------------- MODULE KernelProofs ----------------------------
(***************************************************************************)
(* Theorems about what lies round the drivers: the windows on the screen   *)
(* (Windows, Framebuffer), the loop in time (FrameLoop) and the boot       *)
(* (Boot), for every screen, size of counter and machine.                  *)
(***************************************************************************)
EXTENDS Windows, FrameLoop, Boot, WellFoundedInduction, TLAPS

-----------------------------------------------------------------------------
(* The framebuffer.                                                        *)

\* fb_fill_rect clips to what lies on the screen, no more and no less, also for a
\* rectangle that starts left of it or above it.
THEOREM ClippedIsCut ==
  ASSUME NEW place \in Int, NEW size \in Nat, NEW limit \in Nat
  PROVE  Clipped(place, size, limit) = (place..place + size - 1) \cap (0..limit - 1)
<1>1. CASE place < 0
  BY <1>1 DEF Clipped
<1>2. CASE place >= 0
  BY <1>2 DEF Clipped
<1>. QED BY <1>1, <1>2

\* A pixel's bytes end before the row does.
LEMMA RowsApart ==
  ASSUME mode \in Modes, NEW pitch \in Nat, pitch >= mode.w * bytes_per_pixel,
         NEW p \in Pixels, NEW q \in Pixels, p[2] < q[2]
  PROVE  Offset(pitch, p[1], p[2]) + bytes_per_pixel <= Offset(pitch, q[1], q[2])
<1>. DEFINE b == bytes_per_pixel
<1>1. b \in Nat /\ mode.w \in Nat /\ mode.h \in Nat
  BY ModesAssumption DEF bytes_per_pixel
<1>2. /\ p[1] \in Nat /\ p[2] \in Nat /\ q[1] \in Nat /\ q[2] \in Nat
      /\ p[1] + 1 <= mode.w /\ p[2] + 1 <= q[2]
  BY <1>1 DEF Pixels
<1>. HIDE DEF b
<1>3. \A i, j, k \in Nat : i <= j => i * k <= j * k
  OBVIOUS
<1>4. (p[1] + 1) * b <= mode.w * b
  BY <1>1, <1>2, <1>3
<1>5. (p[2] + 1) * pitch <= q[2] * pitch
  BY <1>2, <1>3
<1>6. (p[1] + 1) * b = p[1] * b + b /\ (p[2] + 1) * pitch = p[2] * pitch + pitch
  <2>1. \A i, k \in Nat : (i + 1) * k = i * k + k
    OBVIOUS
  <2>. QED BY <1>1, <1>2, <2>1
<1>7. p[1] * b \in Nat /\ q[1] * b \in Nat /\ p[2] * pitch \in Nat /\ q[2] * pitch \in Nat
      /\ mode.w * b \in Nat
  BY <1>1, <1>2
<1>8. pitch >= mode.w * b
  BY DEF b
<1>. DEFINE px == p[1] * b
            qx == q[1] * b
            py == p[2] * pitch
            qy == q[2] * pitch
            row == mode.w * b
<1>9. px + b <= row /\ py + pitch <= qy /\ pitch >= row
  BY <1>4, <1>5, <1>6, <1>8
<1>10. px \in Nat /\ qx \in Nat /\ py \in Nat /\ qy \in Nat /\ row \in Nat
  BY <1>7
<1>. HIDE DEF px, qx, py, qy, row
<1>11. py + px + b <= qy + qx
  BY <1>1, <1>9, <1>10
<1>. QED BY <1>11 DEF Offset, px, py, qx, qy, b

\* No two pixels share a byte, neither on the screen nor in the back buffer, in any
\* mode and with any pitch that holds a row.
THEOREM PixelsApart ==
  ASSUME mode \in Modes, NEW pitch \in Nat, pitch >= mode.w * bytes_per_pixel,
         NEW p \in Pixels, NEW q \in Pixels, p # q
  PROVE  \/ Offset(pitch, p[1], p[2]) + bytes_per_pixel <= Offset(pitch, q[1], q[2])
         \/ Offset(pitch, q[1], q[2]) + bytes_per_pixel <= Offset(pitch, p[1], p[2])
<1>1. mode.w \in Nat /\ mode.h \in Nat /\ bytes_per_pixel \in Nat
  BY ModesAssumption DEF bytes_per_pixel
<1>2. p[1] \in Nat /\ p[2] \in Nat /\ q[1] \in Nat /\ q[2] \in Nat /\ p = <<p[1], p[2]>> /\ q = <<q[1], q[2]>>
  BY <1>1 DEF Pixels
<1>3. CASE p[2] < q[2]
  BY <1>3, RowsApart
<1>4. CASE q[2] < p[2]
  BY <1>4, RowsApart
<1>5. CASE p[2] = q[2]
  <2>. DEFINE b == bytes_per_pixel
              y == p[2] * pitch
  <2>1. \A i, j, k \in Nat : i < j => i * k + k <= j * k
    <3>1. \A i, j, k \in Nat : i + 1 <= j => (i + 1) * k <= j * k
      OBVIOUS
    <3>2. \A i, k \in Nat : (i + 1) * k = i * k + k
      OBVIOUS
    <3>. QED BY <3>1, <3>2
  <2>2. p[1] < q[1] \/ q[1] < p[1]
    BY <1>2, <1>5
  <2>3. p[1] * b + b <= q[1] * b \/ q[1] * b + b <= p[1] * b
    BY <1>1, <1>2, <2>1, <2>2
  <2>4. p[1] * b \in Nat /\ q[1] * b \in Nat /\ y \in Nat /\ b \in Nat
    BY <1>1, <1>2
  <2>. DEFINE px == p[1] * b
              qx == q[1] * b
  <2>5. px + b <= qx \/ qx + b <= px
    BY <2>3
  <2>6. px \in Nat /\ qx \in Nat /\ y \in Nat /\ b \in Nat
    BY <2>4
  <2>. HIDE DEF px, qx, y, b
  <2>7. y + px + b <= y + qx \/ y + qx + b <= y + px
    BY <2>5, <2>6
  <2>8. Offset(pitch, p[1], p[2]) = y + px /\ Offset(pitch, q[1], q[2]) = y + qx
    BY <1>5 DEF Offset, y, px, qx, b
  <2>. QED BY <2>7, <2>8 DEF b
<1>. QED BY <1>2, <1>3, <1>4, <1>5

-----------------------------------------------------------------------------
(* fit_window, one axis.                                                   *)

\* The size leaves the margins free, however narrow the side is.
LEMMA SizeFits ==
  ASSUME NEW size \in Nat, NEW min \in Nat \ {0}, NEW side \in Nat, side > GAP
  PROVE  FitSize(size, min, side) \in 1..side - GAP
<1>1. GAP \in Nat
  BY LayoutAssumption
<1>. QED BY <1>1 DEF FitSize, Least, Most

\* The place is within the margins, from wherever the window came.
LEMMA PlaceFits ==
  ASSUME NEW place \in Int, NEW side \in Nat, NEW size \in 1..side - GAP
  PROVE  /\ FitPlace(place, size, side) \in Nat
         /\ FitPlace(place, size, side) >= EDGE
         /\ FitPlace(place, size, side) + size <= side - EDGE
<1>1. GAP \in Nat /\ EDGE \in Nat /\ GAP >= 2 * EDGE
  BY LayoutAssumption
<1>2. side - size - EDGE >= EDGE
  BY <1>1
<1>. QED BY <1>1, <1>2 DEF FitPlace, Least, Most

\* No place within the margins is nearer to the one asked for.
LEMMA PlaceNearest ==
  ASSUME NEW place \in Int, NEW side \in Nat, NEW size \in 1..side - GAP,
         NEW q \in EDGE..side - size - EDGE
  PROVE  Distance(FitPlace(place, size, side), place) <= Distance(q, place)
<1>1. EDGE \in Nat
  BY LayoutAssumption
<1>2. q >= EDGE /\ q <= side - size - EDGE
  BY <1>1
<1>. QED BY <1>1, <1>2 DEF FitPlace, Least, Most, Distance

\* Both sides of every screen are longer than the margins.
LEMMA Room ==
  ASSUME mode \in Modes
  PROVE  /\ sw \in Nat /\ sh \in Nat
         /\ sw > GAP /\ sh - TASKBAR > GAP
         /\ sh - TASKBAR \in Nat
<1>1. mode.w \in Nat /\ mode.h \in Nat
  BY ModesAssumption
<1>2. mode.w > GAP /\ mode.h > GAP + TASKBAR
  BY RoomAssumption
<1>3. GAP \in Nat /\ TASKBAR \in Nat
  BY LayoutAssumption
<1>. QED BY <1>1, <1>2, <1>3 DEF sw, sh

-----------------------------------------------------------------------------
(* fit_window.                                                             *)

\* A window within the margins and above the task bar.
Fits(w) ==
  /\ w.w >= 1 /\ w.x >= EDGE /\ w.x + w.w <= sw - EDGE
  /\ w.h >= 1 /\ w.y >= EDGE /\ w.y + w.h <= sh - TASKBAR - EDGE

\* A place that fit_window is asked for may be off the screen.
Wanted == [open : BOOLEAN, x : Int, y : Int, w : Nat, h : Nat]

\* fit_window puts any window at any place on any screen.
THEOREM FitOnScreen ==
  ASSUME mode \in Modes, NEW w \in Wanted
  PROVE  Fit(w) \in Window /\ Fits(Fit(w)) /\ Fit(w).open = w.open
<1>1. w.open \in BOOLEAN /\ w.x \in Int /\ w.y \in Int /\ w.w \in Nat /\ w.h \in Nat
  BY DEF Wanted
<1>2. MIN_W \in Nat \ {0} /\ MIN_H \in Nat \ {0} /\ EDGE \in Nat /\ TASKBAR \in Nat /\ GAP \in Nat
  BY LayoutAssumption
<1>. DEFINE width == FitSize(w.w, MIN_W, sw)
            height == FitSize(w.h, MIN_H, sh - TASKBAR)
            x == FitPlace(w.x, width, sw)
            y == FitPlace(w.y, height, sh - TASKBAR)
<1>3. width \in 1..sw - GAP /\ height \in 1..(sh - TASKBAR) - GAP
  BY <1>1, <1>2, SizeFits, Room
<1>4. x \in Nat /\ x >= EDGE /\ x + width <= sw - EDGE
  BY <1>1, <1>3, PlaceFits, Room
<1>5. y \in Nat /\ y >= EDGE /\ y + height <= (sh - TASKBAR) - EDGE
  BY <1>1, <1>3, PlaceFits, Room
<1>6. Fit(w) = [open |-> w.open, w |-> width, h |-> height, x |-> x, y |-> y]
  BY DEF Fit
<1>7. width \in Nat /\ height \in Nat /\ width >= 1 /\ height >= 1
  BY <1>2, <1>3, Room
<1>. HIDE DEF width, height, x, y
<1>. QED BY <1>1, <1>4, <1>5, <1>6, <1>7 DEF Window, Fits

\* A second call changes nothing.
THEOREM FitTwice ==
  ASSUME mode \in Modes, NEW w \in Wanted
  PROVE  Fit(Fit(w)) = Fit(w)
<1>. DEFINE f == Fit(w)
<1>1. f \in Window /\ Fits(f)
  BY FitOnScreen
<1>2. f.open \in BOOLEAN /\ f.x \in Nat /\ f.y \in Nat /\ f.w \in Nat /\ f.h \in Nat
  BY <1>1 DEF Window
<1>3. /\ f.w = FitSize(w.w, MIN_W, sw)
      /\ f.h = FitSize(w.h, MIN_H, sh - TASKBAR)
  BY DEF Fit
<1>4. f = [open |-> f.open, w |-> f.w, h |-> f.h, x |-> f.x, y |-> f.y]
  BY DEF Fit
<1>5. w.w \in Nat /\ w.h \in Nat
  BY DEF Wanted
<1>. HIDE DEF f
<1>6. MIN_W \in Nat /\ MIN_H \in Nat /\ EDGE \in Nat /\ GAP \in Nat /\ TASKBAR \in Nat
  BY LayoutAssumption
<1>7. FitSize(f.w, MIN_W, sw) = f.w
  BY <1>2, <1>3, <1>5, <1>6, Room DEF FitSize, Least, Most
<1>8. FitSize(f.h, MIN_H, sh - TASKBAR) = f.h
  BY <1>2, <1>3, <1>5, <1>6, Room DEF FitSize, Least, Most
<1>9. FitPlace(f.x, f.w, sw) = f.x
  BY <1>1, <1>2, <1>6, Room DEF Fits, FitPlace, Least, Most
<1>10. FitPlace(f.y, f.h, sh - TASKBAR) = f.y
  BY <1>1, <1>2, <1>6, Room DEF Fits, FitPlace, Least, Most
<1>11. Fit(f) = [open |-> f.open, w |-> f.w, h |-> f.h, x |-> f.x, y |-> f.y]
  BY <1>7, <1>8, <1>9, <1>10 DEF Fit
<1>. QED BY <1>4, <1>11 DEF f

-----------------------------------------------------------------------------
(* Types of Windows.                                                       *)

\* Some window of a set of windows has the highest number.
LEMMA SomeHighest ==
  ASSUME NEW S \in SUBSET Apps, S # {}
  PROVE  \E m \in S : \A a \in S : m >= a
<1>1. APP_COUNT \in Nat
  BY LayoutAssumption
<1>. DEFINE R == {APP_COUNT - a : a \in S}
<1>2. R \subseteq Nat /\ R # {}
  <2>1. \A a \in S : APP_COUNT - a \in Nat
    BY <1>1 DEF Apps
  <2>. QED BY <2>1
<1>3. PICK r \in R : \A q \in R : ~(q < r)
  <2>. HIDE DEF R
  <2>1. PICK r \in R : \A q \in R : <<q, r>> \notin OpToRel(<, Nat)
    BY <1>2, NatLessThanWellFounded, WFMin
  <2>. QED BY <1>2, <2>1 DEF OpToRel
<1>4. PICK m \in S : r = APP_COUNT - m
  BY <1>3
<1>5. \A a \in S : m >= a
  <2>. TAKE a \in S
  <2>1. ~(APP_COUNT - a < APP_COUNT - m)
    BY <1>3, <1>4
  <2>. QED BY <1>1, <2>1 DEF Apps
<1>. QED BY <1>4, <1>5

LEMMA Topmost ==
  ASSUME NEW S \in SUBSET Apps, S # {}
  PROVE  Max(S) \in S
BY SomeHighest DEF Max

\* What is written to a window keeps it a window that may be fitted.
LEMMA WindowTypes ==
  ASSUME TypeOK, NEW a \in Apps, NEW p \in Pixels
  PROVE  /\ Opened(windows[a]) \in Wanted /\ Closed(windows[a]) \in Window
         /\ Placed(windows[a], p) \in Wanted /\ windows[a] \in Wanted
         /\ windows[a] \in Window
<1>1. windows[a] \in Window
  BY DEF TypeOK
<1>. DEFINE w == windows[a]
<1>2. /\ w.open \in BOOLEAN /\ w.x \in Nat /\ w.y \in Nat /\ w.w \in Nat /\ w.h \in Nat
      /\ w = [open |-> w.open, x |-> w.x, y |-> w.y, w |-> w.w, h |-> w.h]
  BY <1>1 DEF Window
<1>3. p[1] \in Int /\ p[2] \in Int
  BY ModesAssumption DEF TypeOK, Pixels
<1>4. drag_dx \in Int /\ drag_dy \in Int
  BY ModesAssumption, LayoutAssumption DEF TypeOK, sw
<1>5. p[1] - drag_dx \in Int /\ p[2] - drag_dy \in Int
  BY <1>3, <1>4
<1>. HIDE DEF w
<1>6. Opened(w) \in Wanted
  BY <1>2 DEF Opened, Wanted
<1>7. Closed(w) \in Window
  BY <1>2 DEF Closed, Window
<1>8. Placed(w, p) \in Wanted
  BY <1>2, <1>5 DEF Placed, Wanted
<1>9. w \in Wanted
  BY <1>2 DEF Wanted
<1>. QED BY <1>1, <1>6, <1>7, <1>8, <1>9 DEF w

\* What an action may do to the windows, the focus and the menu.
Arranged ==
  /\ windows' \in [Apps -> Window]
  /\ active_app' \in Apps \cup {APP_NONE}
  /\ start_menu_open' \in BOOLEAN

LEMMA OpenTypes ==
  ASSUME TypeOK, NEW a \in Apps, open_app(a)
  PROVE  Arranged
<1>1. PICK p \in Pixels : TRUE
  BY DEF TypeOK
<1>2. Fit(Opened(windows[a])) \in Window
  BY <1>1, WindowTypes, FitOnScreen DEF TypeOK
<1>3. windows' = [windows EXCEPT ![a] = Fit(Opened(windows[a]))]
  BY DEF open_app
<1>4. windows' \in [Apps -> Window]
  BY <1>2, <1>3 DEF TypeOK
<1>. QED BY <1>4 DEF Arranged, open_app

LEMMA CloseTypes ==
  ASSUME TypeOK, NEW a \in Apps, NEW focus \in Apps \cup {APP_NONE}, close_app(a, focus)
  PROVE  windows' \in [Apps -> Window] /\ active_app' \in Apps \cup {APP_NONE}
<1>1. PICK p \in Pixels : TRUE
  BY DEF TypeOK
<1>2. Closed(windows[a]) \in Window
  BY <1>1, WindowTypes
<1>3. windows' = [windows EXCEPT ![a] = Closed(windows[a])]
  BY DEF close_app
<1>4. windows' \in [Apps -> Window]
  BY <1>2, <1>3 DEF TypeOK
<1>. QED BY <1>4 DEF close_app

\* The mouse holds a window by a place inside it.
LEMMA GripTypes ==
  ASSUME TypeOK, NEW a \in Apps, NEW p \in Pixels,
         InRect(p, windows[a].x, windows[a].y, windows[a].w, TITLE)
  PROVE  Grip(p, windows[a])[1] \in 0..sw-1 /\ Grip(p, windows[a])[2] \in 0..TITLE-1
<1>1. /\ windows[a].x \in Nat /\ windows[a].y \in Nat /\ windows[a].w \in Nat
  BY DEF TypeOK, Window
<1>2. p[1] \in 0..mode.w-1 /\ p[2] \in 0..mode.h-1 /\ mode.w \in Nat /\ mode.h \in Nat
  BY ModesAssumption DEF TypeOK, Pixels
<1>3. TITLE \in Nat
  BY LayoutAssumption
<1>. QED BY <1>1, <1>2, <1>3 DEF InRect, Grip, sw

\* A press leaves everything in its type.
LEMMA PressTypes ==
  ASSUME TypeOK, NEW p \in Pixels, NEW dropped \in Apps \cup {APP_NONE}, Press(p, dropped)
  PROVE  /\ Arranged
         /\ drag_app' \in Apps \cup {APP_NONE}
         /\ drag_dx' \in 0..sw-1 /\ drag_dy' \in 0..TITLE-1
<1>1. ASSUME NoGrip(dropped)
      PROVE  /\ drag_app' \in Apps \cup {APP_NONE}
             /\ drag_dx' \in 0..sw-1 /\ drag_dy' \in 0..TITLE-1
  BY <1>1 DEF NoGrip, TypeOK
<1>2. ASSUME UNCHANGED <<windows, active_app>>, start_menu_open' \in BOOLEAN PROVE Arranged
  BY <1>2 DEF TypeOK, Arranged
<1>3. start_menu_open \in BOOLEAN
  BY DEF TypeOK
<1>4. CASE OnStartButton(p) /\ start_menu_open' = ~start_menu_open
           /\ UNCHANGED <<windows, active_app>> /\ NoGrip(dropped)
  BY <1>1, <1>2, <1>3, <1>4
<1>5. ASSUME NEW a \in Apps, NEW menu \in BOOLEAN,
             open_app(a) \/ NoFile(a, menu), NoGrip(dropped)
      PROVE  /\ Arranged
             /\ drag_app' \in Apps \cup {APP_NONE}
             /\ drag_dx' \in 0..sw-1 /\ drag_dy' \in 0..TITLE-1
  BY <1>1, <1>2, <1>5, OpenTypes DEF NoFile
<1>6. CASE \E i \in ItemsAt(p) : (open_app(i) \/ NoFile(i, TRUE)) /\ NoGrip(dropped)
  BY <1>5, <1>6 DEF ItemsAt
<1>7. CASE \E a \in IconsAt(p) : (open_app(a) \/ NoFile(a, FALSE)) /\ NoGrip(dropped)
  BY <1>5, <1>7, LayoutAssumption DEF IconsAt
<1>8. CASE start_menu_open' = FALSE /\ UNCHANGED <<windows, active_app>> /\ NoGrip(dropped)
  BY <1>1, <1>2, <1>8
<1>9. CASE top_window_at(p) # APP_NONE /\ PressWindow(p, top_window_at(p), dropped)
  <2>. DEFINE hit == top_window_at(p)
  <2>1. hit \in Apps
    BY <1>9, Topmost DEF top_window_at, Under
  <2>. HIDE DEF hit
  <2>. DEFINE w == windows[hit]
              close == InRect(p, w.x + w.w - CLOSE, w.y, CLOSE, TITLE)
              title == InRect(p, w.x, w.y, w.w, TITLE)
  <2>2. CASE close_app(hit, hit) /\ start_menu_open' = FALSE /\ NoGrip(dropped)
    BY <1>1, <2>1, <2>2, CloseTypes DEF Arranged
  <2>3. CASE /\ title /\ active_app' = hit /\ UNCHANGED windows /\ start_menu_open' = FALSE
             /\ drag_app' = hit /\ drag_dx' = Grip(p, w)[1] /\ drag_dy' = Grip(p, w)[2]
    <3>1. Arranged
      BY <2>1, <2>3 DEF TypeOK, Arranged
    <3>2. drag_dx' \in 0..sw-1 /\ drag_dy' \in 0..TITLE-1
      BY <2>1, <2>3, GripTypes
    <3>. QED BY <2>1, <2>3, <3>1, <3>2
  <2>4. CASE active_app' = hit /\ UNCHANGED windows /\ start_menu_open' = FALSE /\ NoGrip(dropped)
    BY <1>1, <2>1, <2>4 DEF TypeOK, Arranged
  <2>5. CASE (\E a \in Apps : open_app(a)) /\ NoGrip(dropped)
    BY <1>1, <2>5, OpenTypes
  <2>. QED BY <1>9, <2>2, <2>3, <2>4, <2>5 DEF PressWindow, hit
<1>. QED BY <1>4, <1>6, <1>7, <1>8, <1>9 DEF Press

\* Every window and the focus are windows of the table, the mouse and the place
\* where it holds a window are on the screen.
THEOREM WindowsTypeCorrect == Spec => []TypeOK
<1>1. Init => TypeOK
  <2>. SUFFICES ASSUME Init PROVE TypeOK
    OBVIOUS
  <2>1. mode \in Modes
    BY DEF Init, fb_init_from_multiboot
  <2>2. mode.w \in Nat \ {0} /\ mode.h \in Nat \ {0}
    BY <2>1, ModesAssumption
  <2>3. <<sw \div 2, sh \div 2>> \in Pixels
    BY <2>2 DEF Pixels, sw, sh
  <2>4. 0 \in 0..sw-1 /\ 0 \in 0..TITLE-1 /\ 0 \in 0..MaxEvents
    BY <2>2, LayoutAssumption DEF sw
  <2>5. windows \in [Apps -> Window] /\ active_app \in Apps
    BY LayoutAssumption DEF Init, Apps, APP_CONSOLE
  <2>. QED BY <2>1, <2>3, <2>4, <2>5 DEF Init, TypeOK
<1>2. TypeOK /\ [Next]_vars => TypeOK'
  <2>. SUFFICES ASSUME TypeOK, [Next]_vars PROVE TypeOK'
    OBVIOUS
  <2>1. CASE handle_key
    <3>1. UNCHANGED <<mode, drag, pointer, phase>> /\ events' \in 0..MaxEvents
      BY <2>1, LayoutAssumption DEF handle_key, framebuffer, TypeOK
    <3>2. Arranged
      <4>1. CASE \E app \in Apps : open_app(app)
        BY <4>1, OpenTypes
      <4>2. CASE active_app # APP_NONE /\ close_app(active_app, active_app) /\ UNCHANGED start_menu_open
        BY <4>2, CloseTypes DEF Arranged, TypeOK
      <4>3. CASE /\ active_app' \in {a \in Apps : windows[a].open}
                 /\ UNCHANGED <<windows, start_menu_open>>
        BY <4>3 DEF Arranged, TypeOK
      <4>4. CASE start_menu_open' = ~start_menu_open /\ UNCHANGED <<windows, active_app>>
        BY <4>4 DEF Arranged, TypeOK
      <4>. QED BY <2>1, <4>1, <4>2, <4>3, <4>4 DEF handle_key
    <3>. QED BY <3>1, <3>2 DEF Arranged, TypeOK, drag, pointer, sw, Pixels
  <2>2. CASE Report
    <3>1. UNCHANGED mode /\ phase' = "draw" /\ events' \in 0..MaxEvents
      BY <2>2, LayoutAssumption DEF Report, framebuffer, TypeOK
    <3>2. PICK p \in Spots \cap Pixels, now \in BOOLEAN, click \in BOOLEAN :
               handle_mouse(p, now, click) /\ ms' = p /\ left' = now
      BY <2>2 DEF Report
    <3>3. /\ Arranged
          /\ drag_app' \in Apps \cup {APP_NONE}
          /\ drag_dx' \in 0..sw-1 /\ drag_dy' \in 0..TITLE-1
      <4>1. CASE /\ drag_app # APP_NONE
                 /\ windows' = [windows EXCEPT ![drag_app] = Dragged(windows[drag_app], p)]
                 /\ UNCHANGED <<active_app, start_menu_open, drag>>
        <5>1. drag_app \in Apps
          BY <4>1 DEF TypeOK
        <5>2. Dragged(windows[drag_app], p) \in Window
          BY <5>1, WindowTypes, FitOnScreen DEF Dragged, TypeOK
        <5>3. windows' \in [Apps -> Window]
          BY <4>1, <5>2 DEF TypeOK
        <5>. QED BY <4>1, <5>3 DEF TypeOK, Arranged, drag
      <4>2. CASE \E dropped \in {drag_app, APP_NONE} :
                   NoGrip(dropped) /\ UNCHANGED <<windows, active_app, start_menu_open>>
        BY <4>2 DEF NoGrip, TypeOK, Arranged
      <4>3. CASE \E dropped \in {drag_app, APP_NONE} : Press(p, dropped)
        BY <4>3, PressTypes DEF TypeOK
      <4>. QED BY <3>2, <4>1, <4>2, <4>3 DEF handle_mouse
    <3>. QED BY <3>1, <3>2, <3>3 DEF Arranged, TypeOK, sw, Pixels
  <2>3. CASE draw_pixel_desktop
    <3>1. UNCHANGED <<mode, active_app, start_menu_open, drag, pointer, events>>
      BY <2>3 DEF draw_pixel_desktop
    <3>2. windows' \in [Apps -> Window]
      <4>1. \A a \in Apps : windows[a] \in Window /\ Fit(windows[a]) \in Window
        BY WindowTypes, FitOnScreen DEF TypeOK
      <4>. QED BY <2>3, <4>1 DEF draw_pixel_desktop, Fitted
    <3>. QED BY <2>3, <3>1, <3>2 DEF draw_pixel_desktop, TypeOK, drag, pointer, sw, Pixels
  <2>4. CASE Present
    BY <2>4 DEF Present, TypeOK, drag, pointer, sw, Pixels
  <2>5. CASE UNCHANGED vars
    BY <2>5 DEF vars, framebuffer, TypeOK, drag, pointer, sw, Pixels
  <2>. QED BY <2>1, <2>2, <2>3, <2>4, <2>5 DEF Next
<1>. QED BY <1>1, <1>2, PTL DEF Spec

-----------------------------------------------------------------------------
(* Windows stay in reach.                                                  *)

\* What a step leaves of the margins, once a frame has been drawn.
Reachable == \A a \in Apps : windows[a].open => Fits(windows[a])

\* Each step that changes a window leaves it within the margins or closed.
LEMMA StaysReachable ==
  ASSUME TypeOK, Reachable, UNCHANGED mode,
         \A a \in Apps : \/ windows'[a] = windows[a]
                        \/ ~windows'[a].open
                        \/ \E w \in Wanted : windows'[a] = Fit(w)
  PROVE  Reachable'
<1>. SUFFICES ASSUME NEW a \in Apps, windows'[a].open PROVE Fits(windows[a])'
  BY DEF Reachable
<1>1. Fits(windows'[a])
  BY FitOnScreen DEF TypeOK, Reachable
<1>. QED BY <1>1 DEF Fits, sw, sh

\* What the steps between two frames do to a window.
Kept(a) ==
  \/ windows'[a] = windows[a]
  \/ ~windows'[a].open
  \/ \E w \in Wanted : windows'[a] = Fit(w)

LEMMA OpenKeeps ==
  ASSUME TypeOK, NEW app \in Apps, open_app(app), NEW a \in Apps
  PROVE  Kept(a)
<1>1. PICK p \in Pixels : TRUE
  BY DEF TypeOK
<1>2. Opened(windows[app]) \in Wanted
  BY <1>1, WindowTypes
<1>3. windows' = [windows EXCEPT ![app] = Fit(Opened(windows[app]))]
  BY DEF open_app
<1>4. windows \in [Apps -> Window]
  BY DEF TypeOK
<1>5. CASE a = app
  <2>1. windows'[a] = Fit(Opened(windows[app]))
    BY <1>3, <1>4, <1>5
  <2>. QED BY <1>2, <2>1 DEF Kept
<1>6. CASE a # app
  BY <1>3, <1>4, <1>6 DEF Kept
<1>. QED BY <1>5, <1>6

LEMMA CloseKeeps ==
  ASSUME TypeOK, NEW app \in Apps, NEW focus, close_app(app, focus), NEW a \in Apps
  PROVE  Kept(a)
<1>1. windows' = [windows EXCEPT ![app] = Closed(windows[app])]
  BY DEF close_app
<1>2. windows \in [Apps -> Window]
  BY DEF TypeOK
<1>3. CASE a = app
  <2>1. windows'[a] = Closed(windows[app])
    BY <1>1, <1>2, <1>3
  <2>. QED BY <2>1 DEF Kept, Closed
<1>4. CASE a # app
  BY <1>1, <1>2, <1>4 DEF Kept
<1>. QED BY <1>3, <1>4

LEMMA PressKeeps ==
  ASSUME TypeOK, NEW p \in Pixels, NEW dropped, Press(p, dropped), NEW a \in Apps
  PROVE  Kept(a)
<1>1. CASE UNCHANGED windows
  BY <1>1 DEF Kept
<1>2. CASE \E app \in Apps : open_app(app)
  BY <1>2, OpenKeeps
<1>3. CASE top_window_at(p) # APP_NONE /\ PressWindow(p, top_window_at(p), dropped)
  <2>1. top_window_at(p) \in Apps
    BY <1>3, Topmost DEF top_window_at, Under
  <2>2. CASE close_app(top_window_at(p), top_window_at(p))
    BY <2>1, <2>2, CloseKeeps
  <2>. QED BY <1>1, <1>2, <1>3, <2>2 DEF PressWindow
<1>4. \A i \in ItemsAt(p) \cup IconsAt(p) : i \in Apps
  BY LayoutAssumption DEF ItemsAt, IconsAt
<1>. QED BY <1>1, <1>2, <1>3, <1>4 DEF Press, NoFile

LEMMA ReportKeeps ==
  ASSUME TypeOK, Report, NEW a \in Apps
  PROVE  Kept(a)
<1>1. PICK p \in Spots \cap Pixels, now \in BOOLEAN, click \in BOOLEAN :
           handle_mouse(p, now, click)
  BY DEF Report
<1>2. CASE /\ drag_app # APP_NONE
           /\ windows' = [windows EXCEPT ![drag_app] = Dragged(windows[drag_app], p)]
  <2>1. drag_app \in Apps /\ windows \in [Apps -> Window]
    BY <1>2 DEF TypeOK
  <2>2. Placed(windows[drag_app], p) \in Wanted
    BY <2>1, WindowTypes
  <2>3. CASE a = drag_app
    <3>1. windows'[a] = Fit(Placed(windows[drag_app], p))
      BY <1>2, <2>1, <2>3 DEF Dragged
    <3>. QED BY <2>2, <3>1 DEF Kept
  <2>4. CASE a # drag_app
    BY <1>2, <2>1, <2>4 DEF Kept
  <2>. QED BY <2>3, <2>4
<1>3. CASE UNCHANGED windows
  BY <1>3 DEF Kept
<1>4. CASE \E dropped \in {drag_app, APP_NONE} : Press(p, dropped)
  BY <1>4, PressKeeps
<1>. QED BY <1>1, <1>2, <1>3, <1>4 DEF handle_mouse

LEMMA KeyKeeps ==
  ASSUME TypeOK, handle_key, NEW a \in Apps
  PROVE  Kept(a)
<1>1. CASE \E app \in Apps : open_app(app)
  BY <1>1, OpenKeeps
<1>2. CASE active_app # APP_NONE /\ close_app(active_app, active_app)
  BY <1>2, CloseKeeps DEF TypeOK
<1>3. CASE UNCHANGED windows
  BY <1>3 DEF Kept
<1>. QED BY <1>1, <1>2, <1>3 DEF handle_key

\* The invariant is inductive only with the time of the first frame: the windows
\* of the table may lie off a small screen until they are drawn.
ReachableOnceDrawn == (phase = "present" \/ frame # NoFrame) => Reachable

\* Every open window that has been drawn lies within the margins of the screen,
\* for every screen, table of windows and length in the layout.
THEOREM OnScreenAlways == Spec => []OnScreen
<1>1. Init => ReachableOnceDrawn
  BY DEF Init, ReachableOnceDrawn
<1>2. TypeOK /\ ReachableOnceDrawn /\ [Next]_vars => ReachableOnceDrawn'
  <2>. SUFFICES ASSUME TypeOK, ReachableOnceDrawn, [Next]_vars PROVE ReachableOnceDrawn'
    OBVIOUS
  <2>1. CASE handle_key
    <3>1. UNCHANGED <<mode, phase, frame>>
      BY <2>1 DEF handle_key, framebuffer
    <3>. QED BY <2>1, <3>1, KeyKeeps, StaysReachable DEF Kept, ReachableOnceDrawn
  <2>2. CASE Report
    <3>1. UNCHANGED <<mode, frame>> /\ phase' = "draw"
      BY <2>2 DEF Report, framebuffer
    <3>. QED BY <2>2, <3>1, ReportKeeps, StaysReachable DEF Kept, ReachableOnceDrawn
  <2>3. CASE draw_pixel_desktop
    <3>1. UNCHANGED mode
      BY <2>3 DEF draw_pixel_desktop
    <3>2. \A a \in Apps : windows'[a].open => Fits(windows'[a])
      <4>. SUFFICES ASSUME NEW a \in Apps, windows'[a].open PROVE Fits(windows'[a])
        OBVIOUS
      <4>1. windows[a] \in Wanted
        BY WindowTypes DEF TypeOK
      <4>2. windows' = [b \in Apps |-> IF windows[b].open THEN Fit(windows[b]) ELSE windows[b]]
        BY <2>3 DEF draw_pixel_desktop, Fitted
      <4>3. windows'[a] = IF windows[a].open THEN Fit(windows[a]) ELSE windows[a]
        BY <4>2
      <4>4. windows'[a] = Fit(windows[a])
        BY <4>3, Zenon
      <4>. QED BY <4>1, <4>4, FitOnScreen DEF TypeOK
    <3>. QED BY <3>1, <3>2 DEF ReachableOnceDrawn, Reachable, Fits, sw, sh
  <2>4. CASE Present
    BY <2>4 DEF Present, ReachableOnceDrawn, Reachable, Fits, sw, sh
  <2>5. CASE UNCHANGED vars
    BY <2>5 DEF vars, framebuffer, ReachableOnceDrawn, Reachable, Fits, sw, sh
  <2>. QED BY <2>1, <2>2, <2>3, <2>4, <2>5 DEF Next
<1>3. ReachableOnceDrawn => OnScreen
  BY DEF ReachableOnceDrawn, Reachable, Fits, OnScreen
<1>. QED BY <1>1, <1>2, <1>3, WindowsTypeCorrect, PTL DEF Spec

\* A dragged window goes to the place nearest to where the mouse holds it, and no
\* other window moves.
THEOREM DragAlwaysFollows == Spec => DragFollows
<1>. DEFINE w == windows'[drag_app]
            x == ms'[1] - drag_dx
            y == ms'[2] - drag_dy
            Nearest ==
              (phase = "input" /\ phase' = "draw" /\ drag_app # APP_NONE /\ left')
                => /\ \A q \in EDGE..sw - w.w - EDGE : Distance(w.x, x) <= Distance(q, x)
                   /\ \A q \in EDGE..sh - TASKBAR - w.h - EDGE : Distance(w.y, y) <= Distance(q, y)
                   /\ \A a \in Apps \ {drag_app} : windows'[a] = windows[a]
<1>1. TypeOK /\ [Next]_vars => Nearest
  <2>. SUFFICES ASSUME TypeOK, [Next]_vars, phase = "input", phase' = "draw", drag_app # APP_NONE, left'
                PROVE  Nearest
    OBVIOUS
  <2>1. Report
    BY DEF Next, handle_key, draw_pixel_desktop, Present, vars
  <2>2. PICK p \in Spots \cap Pixels : windows' = [windows EXCEPT ![drag_app] = Dragged(@, p)] /\ ms' = p
    BY <2>1 DEF Report, handle_mouse
  <2>3. drag_app \in Apps /\ windows \in [Apps -> Window]
    BY DEF TypeOK
  <2>4. w = Fit(Placed(windows[drag_app], p))
    BY <2>2, <2>3 DEF Dragged
  <2>5. Placed(windows[drag_app], p) \in Wanted
    BY <2>3, WindowTypes
  <2>. DEFINE v == Placed(windows[drag_app], p)
  <2>6. v.x = x /\ v.y = y /\ v.x \in Int /\ v.y \in Int /\ v.w \in Nat /\ v.h \in Nat
    BY <2>2, <2>5 DEF Placed, Wanted
  <2>7. /\ FitSize(v.w, MIN_W, sw) \in 1..sw - GAP
        /\ FitSize(v.h, MIN_H, sh - TASKBAR) \in 1..(sh - TASKBAR) - GAP
    BY <2>6, SizeFits, Room, LayoutAssumption DEF TypeOK
  <2>8. /\ w.w = FitSize(v.w, MIN_W, sw) /\ w.x = FitPlace(v.x, w.w, sw)
        /\ w.h = FitSize(v.h, MIN_H, sh - TASKBAR) /\ w.y = FitPlace(v.y, w.h, sh - TASKBAR)
    BY <2>4 DEF Fit
  <2>. HIDE DEF v, w, x, y
  <2>9. \A q \in EDGE..sw - w.w - EDGE : Distance(w.x, x) <= Distance(q, x)
    BY <2>6, <2>7, <2>8, PlaceNearest, Room DEF TypeOK
  <2>10. \A q \in EDGE..(sh - TASKBAR) - w.h - EDGE : Distance(w.y, y) <= Distance(q, y)
    BY <2>6, <2>7, <2>8, PlaceNearest, Room DEF TypeOK
  <2>11. \A a \in Apps \ {drag_app} : windows'[a] = windows[a]
    BY <2>2, <2>3
  <2>. QED BY <2>9, <2>10, <2>11
<1>2. TypeOK /\ [Next]_vars => [Nearest]_vars
  BY <1>1
<1>. QED BY <1>2, WindowsTypeCorrect, PTL DEF Spec, DragFollows

-----------------------------------------------------------------------------
(* What is stored on the framebuffer.                                      *)

\* A pitch that holds a row of pixels.
RowPitch(pitch) == pitch \in Nat /\ pitch >= mode.w * bytes_per_pixel

LEMMA Pitches ==
  ASSUME mode \in Modes
  PROVE  /\ RowPitch(mode.pitch) /\ RowPitch(g_draw_pitch)
         /\ mode.w \in Nat \ {0} /\ mode.h \in Nat \ {0} /\ bytes_per_pixel \in Nat \ {0}
<1>. DEFINE b == mode.bpp \div 8
<1>1. /\ mode \in [w : Nat \ {0}, h : Nat \ {0}, bpp : {16, 24, 32}, pitch : Nat]
      /\ mode.pitch >= mode.w * b
  BY ModesAssumption
<1>2. mode.w \in Nat \ {0} /\ mode.h \in Nat \ {0} /\ mode.pitch \in Nat /\ b \in Nat \ {0}
  BY <1>1
<1>3. bytes_per_pixel = b
  BY DEF bytes_per_pixel
<1>. HIDE DEF b
<1>4. mode.w * b \in Nat
  BY <1>2
<1>. QED BY <1>1, <1>2, <1>3, <1>4 DEF RowPitch, g_draw_pitch

LEMMA OffsetsDiffer ==
  ASSUME mode \in Modes, NEW pitch, RowPitch(pitch), NEW p \in Pixels, NEW q \in Pixels,
         Offset(pitch, p[1], p[2]) = Offset(pitch, q[1], q[2])
  PROVE  p = q
<1>1. p[1] \in Nat /\ p[2] \in Nat /\ q[1] \in Nat /\ q[2] \in Nat
  BY Pitches DEF Pixels
<1>. DEFINE a == Offset(pitch, p[1], p[2])
            b == Offset(pitch, q[1], q[2])
<1>2. bytes_per_pixel \in Nat \ {0} /\ pitch \in Nat
  BY Pitches DEF RowPitch
<1>3. a \in Int /\ b \in Int
  BY <1>1, <1>2 DEF Offset
<1>4. p # q => a + bytes_per_pixel <= b \/ b + bytes_per_pixel <= a
  BY PixelsApart DEF RowPitch
<1>5. a = b
  OBVIOUS
<1>. HIDE DEF a, b
<1>. QED BY <1>2, <1>3, <1>4, <1>5

\* The colour of a pixel in the memory that is drawn on, which holds all pixels and
\* nothing else.
ColorAt(memory, p) == memory[Offset(g_draw_pitch, p[1], p[2])]
Canvas(memory) == DOMAIN memory = Offsets(g_draw_pitch)

LEMMA StoreAt ==
  ASSUME mode \in Modes, NEW memory, Canvas(memory), NEW points \in SUBSET Pixels, NEW color
  PROVE  /\ Canvas(Store(memory, points, color))
         /\ \A p \in Pixels : ColorAt(Store(memory, points, color), p) =
                                IF p \in points THEN color ELSE ColorAt(memory, p)
<1>. DEFINE offsets == {Offset(g_draw_pitch, p[1], p[2]) : p \in points}
            new == Store(memory, points, color)
<1>1. offsets \subseteq Offsets(g_draw_pitch)
  BY DEF Offsets
<1>2. new = [o \in DOMAIN memory \cup offsets |-> IF o \in offsets THEN color ELSE memory[o]]
  BY DEF Store
<1>3. \A p \in Pixels : Offset(g_draw_pitch, p[1], p[2]) \in Offsets(g_draw_pitch)
  BY DEF Offsets
<1>4. \A p \in Pixels : Offset(g_draw_pitch, p[1], p[2]) \in offsets <=> p \in points
  BY Pitches, OffsetsDiffer
<1>. HIDE DEF new, offsets
<1>5. DOMAIN new = Offsets(g_draw_pitch)
  BY <1>1, <1>2 DEF Canvas
<1>6. \A o \in Offsets(g_draw_pitch) : new[o] = IF o \in offsets THEN color ELSE memory[o]
  BY <1>1, <1>2 DEF Canvas
<1>7. ASSUME NEW p \in Pixels
      PROVE  ColorAt(new, p) = IF p \in points THEN color ELSE ColorAt(memory, p)
  BY <1>3, <1>4, <1>6 DEF ColorAt
<1>. QED BY <1>5, <1>7 DEF Canvas, new

\* fb_fill_rect: what of the rectangle lies on the screen gets the colour, and
\* nothing else changes.
LEMMA FillAt ==
  ASSUME mode \in Modes, NEW memory, Canvas(memory), NEW color,
         NEW x \in Int, NEW y \in Int, NEW w \in Int, NEW h \in Int
  PROVE  /\ Canvas(fb_fill_rect(memory, x, y, w, h, color))
         /\ \A p \in Pixels : ColorAt(fb_fill_rect(memory, x, y, w, h, color), p) =
                                IF InRect(p, x, y, w, h) THEN color ELSE ColorAt(memory, p)
<1>. DEFINE new == fb_fill_rect(memory, x, y, w, h, color)
<1>1. \A p \in Pixels : p[1] \in 0..mode.w-1 /\ p[2] \in 0..mode.h-1 /\ p = <<p[1], p[2]>>
  BY DEF Pixels
<1>2. CASE w <= 0 \/ h <= 0
  <2>1. new = memory
    BY <1>2 DEF fb_fill_rect
  <2>2. \A p \in Pixels : ~InRect(p, x, y, w, h)
    BY <1>1, <1>2, Pitches DEF InRect
  <2>. QED BY <2>1, <2>2
<1>3. CASE w > 0 /\ h > 0
  <2>. DEFINE points == Clipped(x, w, mode.w) \X Clipped(y, h, mode.h)
  <2>1. /\ Clipped(x, w, mode.w) = (x..x + w - 1) \cap (0..mode.w - 1)
        /\ Clipped(y, h, mode.h) = (y..y + h - 1) \cap (0..mode.h - 1)
    BY <1>3, ClippedIsCut, Pitches
  <2>2. points \in SUBSET Pixels
    BY <2>1 DEF Pixels
  <2>3. \A p \in Pixels : p \in points <=> InRect(p, x, y, w, h)
    <3>. TAKE p \in Pixels
    <3>1. p \in points <=> p[1] \in x..x + w - 1 /\ p[2] \in y..y + h - 1
      BY <1>1, <2>1
    <3>2. p[1] \in Int /\ p[2] \in Int
      BY <1>1, Pitches
    <3>. QED BY <3>1, <3>2 DEF InRect
  <2>4. new = Store(memory, points, color)
    BY <1>3 DEF fb_fill_rect
  <2>. HIDE DEF points, new
  <2>5. /\ Canvas(new)
        /\ \A p \in Pixels : ColorAt(new, p) = IF p \in points THEN color ELSE ColorAt(memory, p)
    BY <2>2, <2>4, StoreAt
  <2>. QED BY <2>3, <2>5 DEF new
<1>. QED BY <1>2, <1>3

\* fb_present shows on the screen what has been drawn.
LEMMA PresentAt ==
  ASSUME mode \in Modes, DOMAIN front = Offsets(mode.pitch), Canvas(g_draw)
  PROVE  /\ DOMAIN fb_present = Offsets(mode.pitch)
         /\ \A p \in Pixels : fb_present[Offset(mode.pitch, p[1], p[2])] = ColorAt(g_draw, p)
<1>1. CASE ~g_use_backbuffer
  BY <1>1 DEF fb_present, g_draw, g_draw_pitch, ColorAt
<1>2. CASE g_use_backbuffer
  <2>. DEFINE length == mode.w * bytes_per_pixel
              row(o) == CHOOSE y \in 0..mode.h-1 : o - y * mode.pitch \in 0..length - 1
              source(o) == row(o) * g_draw_pitch + (o - row(o) * mode.pitch)
              old == Offsets(mode.pitch)
  <2>1. fb_present = [o \in old |-> back[source(o)]]
    BY <1>2 DEF fb_present
  <2>2. \A p \in Pixels : Offset(mode.pitch, p[1], p[2]) \in old
    BY DEF Offsets
  <2>3. ASSUME NEW p \in Pixels
        PROVE  source(Offset(mode.pitch, p[1], p[2])) = Offset(g_draw_pitch, p[1], p[2])
    <3>. DEFINE o == Offset(mode.pitch, p[1], p[2])
                y == p[2]
                x == p[1] * bytes_per_pixel
                place == y * mode.pitch
    <3>1. y \in 0..mode.h-1 /\ y \in Nat /\ p[1] \in Nat /\ p[1] + 1 <= mode.w
      BY Pitches DEF Pixels
    <3>2. /\ x \in Nat /\ place \in Nat /\ length \in Nat /\ o = place + x
          /\ mode.pitch \in Nat /\ mode.pitch >= length
      BY <3>1, Pitches DEF Offset, RowPitch
    <3>3. x + bytes_per_pixel <= length /\ bytes_per_pixel \in Nat \ {0}
      <4>1. \A i, j, k \in Nat : i <= j => i * k <= j * k
        OBVIOUS
      <4>2. (p[1] + 1) * bytes_per_pixel <= length
        BY <3>1, <4>1, Pitches
      <4>3. \A i, k \in Nat : (i + 1) * k = i * k + k
        OBVIOUS
      <4>. QED BY <3>1, <4>2, <4>3, Pitches
    <3>. HIDE DEF x, o, length
    <3>4. o - place \in 0..length - 1
      BY <3>2, <3>3
    <3>5. ASSUME NEW z \in 0..mode.h-1, o - z * mode.pitch \in 0..length - 1
          PROVE  z = y
      <4>1. z \in Nat
        BY <3>5
      <4>2. \A i, j, k \in Nat : i < j => i * k + k <= j * k
        <5>1. \A i, j, k \in Nat : i + 1 <= j => (i + 1) * k <= j * k
          OBVIOUS
        <5>2. \A i, k \in Nat : (i + 1) * k = i * k + k
          OBVIOUS
        <5>. QED BY <5>1, <5>2
      <4>. DEFINE other == z * mode.pitch
      <4>3. other \in Nat
        BY <3>2, <4>1
      <4>4. z < y => other + mode.pitch <= place
        BY <3>1, <3>2, <4>1, <4>2
      <4>5. y < z => place + mode.pitch <= other
        BY <3>1, <3>2, <4>1, <4>2
      <4>6. o - other \in 0..length - 1
        BY <3>5
      <4>. HIDE DEF other, place
      <4>7. ~(z < y) /\ ~(y < z)
        BY <3>2, <3>4, <4>3, <4>4, <4>5, <4>6
      <4>. QED BY <3>1, <4>1, <4>7
    <3>6. row(o) = y
      BY <3>1, <3>4, <3>5
    <3>. HIDE DEF row, place
    <3>7. source(o) = y * g_draw_pitch + (o - y * mode.pitch)
      BY <3>6
    <3>8. o - y * mode.pitch = x
      BY <3>2 DEF place
    <3>. QED BY <3>7, <3>8 DEF Offset, x, o
  <2>4. g_draw = back
    BY <1>2 DEF g_draw
  <2>. HIDE DEF source, old
  <2>5. \A p \in Pixels : fb_present[Offset(mode.pitch, p[1], p[2])] = back[Offset(g_draw_pitch, p[1], p[2])]
    BY <2>1, <2>2, <2>3
  <2>. QED BY <2>1, <2>4, <2>5 DEF ColorAt, old
<1>. QED BY <1>1, <1>2

\* What holds at 0 and is passed on holds at b.
LEMMA Reached ==
  ASSUME NEW b \in Nat, NEW T, 0 \in T, \A n \in 0..b - 1 : n \in T => n + 1 \in T
  PROVE  b \in T
<1>. DEFINE U == {n \in 0..b : n \notin T}
<1>. SUFFICES ASSUME U # {} PROVE FALSE
  OBVIOUS
<1>1. PICK u \in U : \A n \in U : ~(n < u)
  <2>1. U \subseteq Nat
    OBVIOUS
  <2>. HIDE DEF U
  <2>2. PICK u \in U : \A n \in U : <<n, u>> \notin OpToRel(<, Nat)
    BY <2>1, NatLessThanWellFounded, WFMin
  <2>. QED BY <2>1, <2>2 DEF OpToRel
<1>2. u # 0 /\ u - 1 \in 0..b - 1 /\ u - 1 \notin U
  BY <1>1
<1>. QED BY <1>1, <1>2

\* fb_line: a line down, or down and to the right by as much, has a point in each row.
LEMMA LineIs ==
  ASSUME NEW x \in Int, NEW y \in Int, NEW d \in Nat \ {0}, NEW e \in {0, d}
  PROVE  LinePoints(x, y, x + e, y + d) = {<<IF e = 0 THEN x ELSE x + n, y + n>> : n \in 0..d}
<1>. DEFINE x1 == x + e
            y1 == y + d
            dx == Distance(x, x1)
            dy == -Distance(y, y1)
            sx == IF x < x1 THEN 1 ELSE -1
            sy == IF y < y1 THEN 1 ELSE -1
            after(p) == [x |-> IF 2 * p.err >= dy THEN p.x + sx ELSE p.x,
                         y |-> IF 2 * p.err <= dx THEN p.y + sy ELSE p.y,
                         err |-> p.err + (IF 2 * p.err >= dy THEN dy ELSE 0)
                                       + (IF 2 * p.err <= dx THEN dx ELSE 0)]
            Goes(f) == f = [n \in 0..dx - dy |-> IF n = 0 THEN [x |-> x, y |-> y, err |-> dx + dy]
                                                ELSE after(f[n - 1])]
            on(n) == [x |-> IF e = 0 THEN x ELSE x + n, y |-> y + n, err |-> e - d]
            g == [n \in 0..dx - dy |-> on(n)]
            point == CHOOSE f : Goes(f)
            last == CHOOSE n \in 0..dx - dy :
                      /\ point[n].x = x1 /\ point[n].y = y1
                      /\ \A k \in 0..n-1 : point[k].x # x1 \/ point[k].y # y1
<1>1. LinePoints(x, y, x1, y1) = {<<point[n].x, point[n].y>> : n \in 0..last}
  BY Zenon DEF LinePoints
<1>2. /\ e \in Nat /\ dx = e /\ dy = -d /\ x1 = x + e /\ y1 = y + d
      /\ sy = 1 /\ (e # 0 => sx = 1) /\ dx - dy = e + d /\ dx + dy = e - d
  BY DEF Distance
<1>3. \A n \in Nat : after(on(n)) = on(n + 1)
  <2>. HIDE DEF dx, dy, sx, sy, x1, y1
  <2>. TAKE n \in Nat
  <2>1. CASE e = 0
    BY <1>2, <2>1
  <2>2. CASE e = d /\ e # 0
    BY <1>2, <2>2
  <2>. QED BY <2>1, <2>2
<1>. HIDE DEF dx, dy, sx, sy, x1, y1, after
<1>4. on(0) = [x |-> x, y |-> y, err |-> dx + dy]
  BY <1>2
<1>. HIDE DEF on
<1>5. Goes(g)
  <2>1. ASSUME NEW n \in 0..dx - dy
        PROVE  on(n) = IF n = 0 THEN [x |-> x, y |-> y, err |-> dx + dy] ELSE after(g[n - 1])
    <3>1. CASE n = 0
      BY <1>4, <3>1
    <3>2. CASE n # 0
      <4>1. n - 1 \in 0..dx - dy /\ n - 1 \in Nat /\ (n - 1) + 1 = n
        BY <1>2, <3>2
      <4>2. g[n - 1] = on(n - 1)
        BY <4>1
      <4>. HIDE DEF g
      <4>. QED BY <1>3, <3>2, <4>1, <4>2
    <3>. QED BY <3>1, <3>2
  <2>. QED BY <2>1
<1>6. Goes(point)
  <2>. HIDE DEF Goes, g
  <2>. QED BY <1>5, Zenon
<1>. HIDE DEF point
<1>7. ASSUME NEW m \in 0..dx - dy PROVE point[m] = on(m)
  <2>. DEFINE T == {n \in 0..dx - dy : point[n] = on(n)}
  <2>1. 0 \in 0..dx - dy /\ point[0] = on(0)
    BY <1>2, <1>4, <1>6
  <2>2. ASSUME NEW n \in 0..m - 1, n \in T PROVE n + 1 \in T
    <3>1. n + 1 \in 0..dx - dy /\ n + 1 # 0 /\ (n + 1) - 1 = n /\ n \in Nat
      BY <1>2
    <3>2. point[n + 1] = after(point[n])
      BY <1>6, <3>1
    <3>. HIDE DEF Goes
    <3>3. point[n + 1] = on(n + 1)
      BY <1>3, <2>2, <3>1, <3>2
    <3>. QED BY <3>1, <3>3
  <2>3. 0 \in T /\ m \in Nat
    BY <1>2, <2>1
  <2>. HIDE DEF T
  <2>4. m \in T
    BY <2>2, <2>3, Reached
  <2>. QED BY <2>4 DEF T
<1>8. last = d
  <2>1. \A n \in 0..dx - dy : point[n].x = x1 /\ point[n].y = y1 <=> n = d
    <3>1. \A n \in 0..e + d : on(n).y = y1 <=> n = d
      BY <1>2 DEF on
    <3>2. on(d).x = x1
      BY <1>2 DEF on
    <3>. QED BY <1>2, <1>7, <3>1, <3>2
  <2>2. d \in 0..dx - dy /\ \A k \in 0..d - 1 : k \in 0..dx - dy /\ k # d
    BY <1>2
  <2>3. point[d].x = x1 /\ point[d].y = y1
        /\ \A k \in 0..d - 1 : point[k].x # x1 \/ point[k].y # y1
    BY <2>1, <2>2
  <2>. QED BY <2>1, <2>2, <2>3
<1>. HIDE DEF last
<1>9. {<<point[n].x, point[n].y>> : n \in 0..d} = {<<IF e = 0 THEN x ELSE x + n, y + n>> : n \in 0..d}
  <2>1. \A n \in 0..d : point[n] = on(n)
    BY <1>2, <1>7
  <2>2. \A n \in 0..d : point[n].x = (IF e = 0 THEN x ELSE x + n) /\ point[n].y = y + n
    <3>1. \A n \in 0..d : on(n).x = (IF e = 0 THEN x ELSE x + n) /\ on(n).y = y + n
      BY DEF on
    <3>. QED BY <2>1, <3>1
  <2>. QED BY <2>2
<1>. QED BY <1>1, <1>8, <1>9 DEF x1, y1

\* Drawn on a memory: a mark of one colour with its tip at x, y that stays within
\* the rectangle that begins there.
Marked(new, old, x, y, w, h, color) ==
  /\ Canvas(new)
  /\ \A p \in Pixels :
       /\ p = <<x, y>> => ColorAt(new, p) = color
       /\ ColorAt(new, p) = color \/ ColorAt(new, p) = ColorAt(old, p)
       /\ ~(p[1] \in x..x + w /\ p[2] \in y..y + h) => ColorAt(new, p) = ColorAt(old, p)

LEMMA LineMarks ==
  ASSUME mode \in Modes, NEW memory, Canvas(memory), NEW color,
         NEW x \in Int, NEW y \in Int, NEW d \in Nat \ {0}, NEW e \in {0, d}
  PROVE  Marked(fb_line(memory, x, y, x + e, y + d, color), memory, x, y, e, d, color)
<1>. DEFINE points == LinePoints(x, y, x + e, y + d) \cap Pixels
            new == fb_line(memory, x, y, x + e, y + d, color)
<1>1. LinePoints(x, y, x + e, y + d) = {<<IF e = 0 THEN x ELSE x + n, y + n>> : n \in 0..d}
  BY LineIs
<1>2. ASSUME NEW p \in points PROVE p[1] \in x..x + e /\ p[2] \in y..y + d
  <2>1. PICK n \in 0..d : p = <<IF e = 0 THEN x ELSE x + n, y + n>>
    BY <1>1
  <2>2. p[1] = (IF e = 0 THEN x ELSE x + n) /\ p[2] = y + n
    BY <2>1
  <2>. QED BY <2>2
<1>3. <<x, y>> \in LinePoints(x, y, x + e, y + d)
  <2>1. 0 \in 0..d /\ <<IF e = 0 THEN x ELSE x + 0, y + 0>> = <<x, y>>
    OBVIOUS
  <2>. QED BY <1>1, <2>1
<1>4. new = Store(memory, points, color)
  BY Zenon DEF fb_line, fb_put_pixel
<1>5. points \in SUBSET Pixels
  OBVIOUS
<1>6. \A p \in Pixels : p = <<x, y>> => p \in points
  BY <1>3
<1>. HIDE DEF points, new
<1>7. /\ Canvas(new)
      /\ \A p \in Pixels : ColorAt(new, p) = IF p \in points THEN color ELSE ColorAt(memory, p)
  BY <1>4, <1>5, StoreAt
<1>. QED BY <1>2, <1>6, <1>7 DEF new, Marked

\* draw_cursor draws the tip, and nothing outside of its rectangle.
LEMMA CursorMarks ==
  ASSUME mode \in Modes, NEW memory, Canvas(memory), ms \in Pixels
  PROVE  Marked(draw_cursor(memory), memory, ms[1], ms[2], CURSOR_W, CURSOR_H, POINTER)
<1>. DEFINE x == ms[1]
            y == ms[2]
            side == fb_line(memory, x, y, x, y + CURSOR_SIDE, POINTER)
            new == fb_line(side, x, y, x + CURSOR_W, y + CURSOR_W, POINTER)
<1>1. x \in Int /\ y \in Int
  BY Pitches DEF Pixels
<1>2. /\ CURSOR_H \in Nat /\ CURSOR_SIDE \in Nat \ {0} /\ CURSOR_W \in Nat \ {0}
      /\ CURSOR_SIDE <= CURSOR_H /\ CURSOR_W <= CURSOR_H
  BY LayoutAssumption
<1>3. draw_cursor(memory) = new
  BY Zenon DEF draw_cursor
<1>. HIDE DEF x, y
<1>4. Marked(side, memory, x, y, 0, CURSOR_SIDE, POINTER)
  <2>1. x + 0 = x /\ 0 \in {0, CURSOR_SIDE}
    BY <1>1
  <2>2. Marked(fb_line(memory, x, y, x + 0, y + CURSOR_SIDE, POINTER), memory, x, y, 0, CURSOR_SIDE, POINTER)
    BY <1>1, <1>2, <2>1, LineMarks
  <2>. QED BY <2>1, <2>2
<1>. HIDE DEF side
<1>5. Canvas(side)
  BY <1>4 DEF Marked
<1>6. Marked(new, side, x, y, CURSOR_W, CURSOR_W, POINTER)
  BY <1>1, <1>2, <1>5, LineMarks
<1>. HIDE DEF new
<1>7. /\ x..x + 0 \subseteq x..x + CURSOR_W
      /\ y..y + CURSOR_SIDE \subseteq y..y + CURSOR_H /\ y..y + CURSOR_W \subseteq y..y + CURSOR_H
  BY <1>1, <1>2
<1>8. Marked(new, memory, x, y, CURSOR_W, CURSOR_H, POINTER)
  BY <1>4, <1>6, <1>7, Zenon DEF Marked
<1>. QED BY <1>3, <1>8 DEF x, y

\* A window as it is drawn, and what is seen of it and of its shadow.
Drawn(w, p) == InWindow(p, w) \/ InWindow(<<p[1] - SHADOW, p[2] - SHADOW>>, w)
Paint(a, w, p) == IF InWindow(p, w) THEN a ELSE SHADE

LEMMA WindowAt ==
  ASSUME mode \in Modes, NEW memory, Canvas(memory), NEW a \in Apps, Fitted[a] \in Window
  PROVE  /\ Canvas(draw_window(memory, a))
         /\ \A p \in Pixels : ColorAt(draw_window(memory, a), p) =
              IF Drawn(Fitted[a], p) THEN Paint(a, Fitted[a], p) ELSE ColorAt(memory, p)
<1>. DEFINE w == Fitted[a]
            shadow == fb_fill_rect(memory, w.x + SHADOW, w.y + SHADOW, w.w, w.h, SHADE)
            new == fb_fill_rect(shadow, w.x, w.y, w.w, w.h, a)
<1>1. w.x \in Nat /\ w.y \in Nat /\ w.w \in Nat /\ w.h \in Nat /\ SHADOW \in Nat
  BY LayoutAssumption DEF Window
<1>2. draw_window(memory, a) = new
  BY Zenon DEF draw_window
<1>. HIDE DEF w
<1>3. w.x \in Int /\ w.y \in Int /\ w.w \in Int /\ w.h \in Int
      /\ w.x + SHADOW \in Int /\ w.y + SHADOW \in Int
  BY <1>1
<1>4. /\ Canvas(shadow)
      /\ \A p \in Pixels : ColorAt(shadow, p) =
           IF InRect(p, w.x + SHADOW, w.y + SHADOW, w.w, w.h) THEN SHADE ELSE ColorAt(memory, p)
  BY <1>3, FillAt
<1>. HIDE DEF shadow
<1>5. /\ Canvas(new)
      /\ \A p \in Pixels : ColorAt(new, p) =
           IF InRect(p, w.x, w.y, w.w, w.h) THEN a ELSE ColorAt(shadow, p)
  BY <1>3, <1>4, FillAt
<1>. HIDE DEF new
<1>6. ASSUME NEW p \in Pixels
      PROVE  InRect(p, w.x + SHADOW, w.y + SHADOW, w.w, w.h)
               <=> InWindow(<<p[1] - SHADOW, p[2] - SHADOW>>, w)
  <2>1. p[1] \in Int /\ p[2] \in Int
    BY Pitches DEF Pixels
  <2>. QED BY <1>1, <2>1 DEF InWindow, InRect
<1>7. ASSUME NEW p \in Pixels
      PROVE  ColorAt(new, p) = IF Drawn(w, p) THEN Paint(a, w, p) ELSE ColorAt(memory, p)
  BY <1>4, <1>5, <1>6 DEF Drawn, Paint, InWindow
<1>. QED BY <1>2, <1>5, <1>7 DEF w

LEMMA MaxHighest ==
  ASSUME NEW S \in SUBSET Apps, S # {}
  PROVE  Max(S) \in S /\ \A b \in S : b <= Max(S)
<1>1. PICK m \in S : \A a \in S : m >= a
  BY SomeHighest
<1>2. Max(S) \in S /\ \A a \in S : Max(S) >= a
  BY <1>1 DEF Max
<1>3. \A a, b \in Apps : b >= a => a <= b
  BY LayoutAssumption DEF Apps
<1>. QED BY <1>2, <1>3

LEMMA FittedTypes ==
  ASSUME TypeOK, NEW a \in Apps
  PROVE  Fitted[a] \in Window /\ Fitted[a].open = windows[a].open
         /\ (windows[a].open => Fitted[a] = Fit(windows[a]))
<1>1. windows[a] \in Wanted /\ windows[a] \in Window /\ mode \in Modes
  BY WindowTypes DEF TypeOK
<1>2. Fitted[a] = IF windows[a].open THEN Fit(windows[a]) ELSE windows[a]
  BY DEF Fitted
<1>3. Fit(windows[a]) \in Window /\ Fit(windows[a]).open = windows[a].open
  BY <1>1, FitOnScreen
<1>. QED BY <1>1, <1>2, <1>3

\* The windows of an arrangement that are drawn at a pixel, and the one on top.
Visible(f, p) == {a \in Apps : f[a].open /\ Drawn(f[a], p)}
OnTop(S, active) == IF active \in S THEN active ELSE Max(S)

\* draw_windows: of the windows drawn at a pixel the one on top is seen.
LEMMA WindowsAt ==
  ASSUME TypeOK, NEW memory, Canvas(memory)
  PROVE  /\ Canvas(draw_windows(memory))
         /\ \A p \in Pixels :
              ColorAt(draw_windows(memory), p) =
                LET S == Visible(Fitted, p)
                    a == OnTop(S, active_app)
                IN  IF S = {} THEN ColorAt(memory, p) ELSE Paint(a, Fitted[a], p)
<1>. DEFINE n == APP_COUNT - 1
            next(m, i) == IF windows[i].open /\ active_app # i THEN draw_window(m, i) ELSE m
            UpTo(f, k) == f = [i \in 0..k |-> IF i = 0 THEN memory
                                              ELSE IF windows[i].open /\ active_app # i
                                                   THEN draw_window(f[i - 1], i)
                                              ELSE f[i - 1]]
            behind == CHOOSE f : UpTo(f, APP_COUNT - 1)
            others == behind[APP_COUNT - 1]
            new == IF active_app \in Apps /\ windows[active_app].open
                   THEN draw_window(others, active_app) ELSE others
            Lower(k, p) == {a \in Visible(Fitted, p) : a <= k /\ active_app # a}
            Done(k) == /\ Canvas(behind[k])
                       /\ \A p \in Pixels :
                            /\ Lower(k, p) = {} => ColorAt(behind[k], p) = ColorAt(memory, p)
                            /\ \A a \in Lower(k, p) :
                                 (\A b \in Lower(k, p) : b <= a)
                                   => ColorAt(behind[k], p) = Paint(a, Fitted[a], p)
<1>1. draw_windows(memory) = new
  BY Zenon DEF draw_windows
<1>2. n \in Nat /\ Apps = 1..n /\ mode \in Modes /\ APP_COUNT - 1 = n
  <2>1. APP_COUNT \in Nat /\ APP_COUNT > 3
    BY LayoutAssumption
  <2>. QED BY <2>1 DEF Apps, TypeOK
<1>. HIDE DEF n
<1>3. \E f : UpTo(f, n)
  <2>. DEFINE T == {k \in 0..n : \E f : UpTo(f, k)}
  <2>1. 0 \in T
    <3>1. UpTo([i \in 0..0 |-> memory], 0)
      OBVIOUS
    <3>2. 0 \in 0..n
      BY <1>2
    <3>. HIDE DEF UpTo
    <3>. QED BY <3>1, <3>2, Zenon
  <2>2. ASSUME NEW k \in 0..n - 1, k \in T PROVE k + 1 \in T
    <3>1. PICK f : UpTo(f, k)
      BY <2>2
    <3>. DEFINE g == [i \in 0..k + 1 |-> IF i = k + 1 THEN next(f[k], k + 1) ELSE f[i]]
    <3>2. UpTo(g, k + 1)
      <4>1. ASSUME NEW i \in 0..k + 1
            PROVE  g[i] = IF i = 0 THEN memory
                          ELSE IF windows[i].open /\ active_app # i THEN draw_window(g[i - 1], i)
                          ELSE g[i - 1]
        <5>1. CASE i = k + 1
          <6>1. i # 0 /\ i - 1 = k /\ g[k] = f[k] /\ g[i] = next(f[k], i)
            BY <5>1
          <6>. HIDE DEF g
          <6>. QED BY <6>1
        <5>2. CASE i # k + 1
          <6>1. i \in 0..k /\ g[i] = f[i] /\ (i # 0 => g[i - 1] = f[i - 1])
            BY <5>2
          <6>2. f[i] = IF i = 0 THEN memory
                       ELSE IF windows[i].open /\ active_app # i THEN draw_window(f[i - 1], i)
                       ELSE f[i - 1]
            BY <3>1, <6>1
          <6>. HIDE DEF g
          <6>. QED BY <6>1, <6>2
        <5>. QED BY <5>1, <5>2
      <4>. QED BY <4>1
    <3>3. k + 1 \in 0..n
      BY <1>2
    <3>. HIDE DEF g, UpTo
    <3>. QED BY <3>2, <3>3, Zenon
  <2>. HIDE DEF T
  <2>3. n \in T
    BY <1>2, <2>1, <2>2, Reached
  <2>. QED BY <2>3 DEF T
<1>4. UpTo(behind, n)
  <2>. HIDE DEF UpTo
  <2>. QED BY <1>2, <1>3
<1>. HIDE DEF behind
<1>5. behind[0] = memory /\ \A k \in 0..n - 1 : behind[k + 1] = next(behind[k], k + 1)
  <2>1. behind[0] = memory
    BY <1>2, <1>4
  <2>2. ASSUME NEW k \in 0..n - 1 PROVE behind[k + 1] = next(behind[k], k + 1)
    <3>1. k + 1 \in 0..n /\ k + 1 # 0 /\ (k + 1) - 1 = k
      BY <1>2
    <3>. QED BY <1>4, <3>1
  <2>. QED BY <2>1, <2>2
<1>. HIDE DEF UpTo
<1>6. \A p \in Pixels : Visible(Fitted, p) \subseteq Apps
  BY DEF Visible
<1>7. Done(0)
  <2>1. \A p \in Pixels : Lower(0, p) = {}
    BY <1>2, <1>6
  <2>. QED BY <1>5, <2>1
<1>8. ASSUME NEW k \in 0..n - 1, Done(k) PROVE Done(k + 1)
  <2>. DEFINE a == k + 1
  <2>1. a \in Apps /\ a \in Nat /\ k \in Nat
    BY <1>2
  <2>2. Fitted[a] \in Window /\ Fitted[a].open = windows[a].open
    BY <2>1, FittedTypes
  <2>3. \A p \in Pixels : \A b \in Visible(Fitted, p) : b \in Nat /\ (b <= a <=> b <= k \/ b = a)
    BY <1>2, <1>6, <2>1
  <2>4. behind[a] = next(behind[k], a)
    BY <1>5
  <2>5. CASE windows[a].open /\ active_app # a
    <3>1. behind[a] = draw_window(behind[k], a)
      BY <2>4, <2>5
    <3>2. /\ Canvas(behind[a])
          /\ \A p \in Pixels : ColorAt(behind[a], p) =
               IF Drawn(Fitted[a], p) THEN Paint(a, Fitted[a], p) ELSE ColorAt(behind[k], p)
      BY <1>2, <1>8, <2>1, <2>2, <3>1, WindowAt
    <3>3. ASSUME NEW p \in Pixels
          PROVE  /\ Lower(a, p) = {} => ColorAt(behind[a], p) = ColorAt(memory, p)
                 /\ \A c \in Lower(a, p) :
                      (\A b \in Lower(a, p) : b <= c) => ColorAt(behind[a], p) = Paint(c, Fitted[c], p)
      <4>1. CASE Drawn(Fitted[a], p)
        <5>1. a \in Lower(a, p)
          <6>1. a \in Visible(Fitted, p) /\ a <= a /\ active_app # a
            <7>1. a \in Visible(Fitted, p)
              BY <2>1, <2>2, <2>5, <4>1 DEF Visible
            <7>2. a <= a
              BY <2>1
            <7>. QED BY <2>5, <7>1, <7>2
          <6>. QED BY <6>1
        <5>2. \A c \in Lower(a, p) : (\A b \in Lower(a, p) : b <= c) => c = a
          BY <2>1, <2>3, <5>1
        <5>. QED BY <3>2, <4>1, <5>1, <5>2
      <4>2. CASE ~Drawn(Fitted[a], p)
        <5>1. Lower(a, p) = Lower(k, p)
          BY <2>3, <4>2 DEF Visible
        <5>. QED BY <1>8, <3>2, <4>2, <5>1
      <4>. QED BY <4>1, <4>2
    <3>. QED BY <3>2, <3>3
  <2>6. CASE ~(windows[a].open /\ active_app # a)
    <3>1. behind[a] = behind[k]
      BY <2>4, <2>6
    <3>2. \A p \in Pixels : Lower(a, p) = Lower(k, p)
      BY <2>2, <2>3, <2>6 DEF Visible
    <3>. QED BY <1>8, <3>1, <3>2
  <2>. QED BY <2>5, <2>6
<1>9. Done(n)
  <2>. DEFINE T == {k \in 0..n : Done(k)}
  <2>1. 0 \in T /\ \A k \in 0..n - 1 : k \in T => k + 1 \in T
    <3>1. 0 \in 0..n /\ \A k \in 0..n - 1 : k \in 0..n /\ k + 1 \in 0..n
      BY <1>2
    <3>. HIDE DEF Done
    <3>. QED BY <1>7, <1>8, <3>1
  <2>. HIDE DEF T
  <2>2. n \in T
    BY <1>2, <2>1, Reached
  <2>. QED BY <2>2 DEF T
<1>10. /\ Canvas(others)
       /\ \A p \in Pixels :
            LET L == Visible(Fitted, p) \ {active_app}
            IN  /\ L = {} => ColorAt(others, p) = ColorAt(memory, p)
                /\ \A a \in L : (\A b \in L : b <= a) => ColorAt(others, p) = Paint(a, Fitted[a], p)
  <2>1. \A p \in Pixels : Lower(n, p) = Visible(Fitted, p) \ {active_app}
    BY <1>2, <1>6
  <2>. QED BY <1>2, <1>9, <2>1
<1>. HIDE DEF others, Done, Lower
<1>11. ASSUME NEW p \in Pixels, Visible(Fitted, p) \ {active_app} # {}
       PROVE  LET L == Visible(Fitted, p) \ {active_app}
              IN  Max(L) \in L /\ \A b \in L : b <= Max(L)
  <2>1. Visible(Fitted, p) \ {active_app} \in SUBSET Apps
    BY <1>6
  <2>. QED BY <1>11, <2>1, MaxHighest
<1>12. CASE active_app \in Apps /\ windows[active_app].open
  <2>1. new = draw_window(others, active_app)
    BY <1>12
  <2>2. Fitted[active_app] \in Window /\ Fitted[active_app].open
    BY <1>12, FittedTypes
  <2>3. /\ Canvas(new)
        /\ \A p \in Pixels : ColorAt(new, p) =
             IF Drawn(Fitted[active_app], p) THEN Paint(active_app, Fitted[active_app], p)
             ELSE ColorAt(others, p)
    BY <1>2, <1>10, <1>12, <2>1, <2>2, WindowAt
  <2>. HIDE DEF new
  <2>4. ASSUME NEW p \in Pixels
        PROVE  ColorAt(new, p) = LET S == Visible(Fitted, p)
                                     a == OnTop(S, active_app)
                                 IN  IF S = {} THEN ColorAt(memory, p) ELSE Paint(a, Fitted[a], p)
    <3>1. CASE Drawn(Fitted[active_app], p)
      <4>1. active_app \in Visible(Fitted, p)
        BY <1>12, <2>2, <3>1 DEF Visible
      <4>. QED BY <2>3, <3>1, <4>1 DEF OnTop
    <3>2. CASE ~Drawn(Fitted[active_app], p)
      <4>1. active_app \notin Visible(Fitted, p)
        BY <3>2 DEF Visible
      <4>2. Visible(Fitted, p) \ {active_app} = Visible(Fitted, p)
        BY <4>1
      <4>. QED BY <1>10, <1>11, <2>3, <3>2, <4>1, <4>2 DEF OnTop
    <3>. QED BY <3>1, <3>2
  <2>. QED BY <1>1, <2>3, <2>4 DEF new
<1>13. CASE ~(active_app \in Apps /\ windows[active_app].open)
  <2>1. new = others
    BY <1>13
  <2>2. ASSUME NEW p \in Pixels PROVE active_app \notin Visible(Fitted, p)
    BY <1>6, <1>13, FittedTypes DEF Visible
  <2>3. ASSUME NEW p \in Pixels
        PROVE  ColorAt(others, p) = LET S == Visible(Fitted, p)
                                        a == OnTop(S, active_app)
                                    IN  IF S = {} THEN ColorAt(memory, p) ELSE Paint(a, Fitted[a], p)
    <3>1. Visible(Fitted, p) \ {active_app} = Visible(Fitted, p)
      BY <2>2
    <3>. QED BY <1>10, <1>11, <2>2, <3>1 DEF OnTop
  <2>. QED BY <1>1, <1>10, <2>1, <2>3
<1>. QED BY <1>12, <1>13

InMenu(p) == InRect(p, Menu[1], MenuTop, Menu[3], Menu[4])

\* What the specification says is to be seen, by the layers of the drawing.
LEMMA SeenIs ==
  ASSUME NEW f, NEW p
  PROVE  Seen(f, p) =
           IF f.menu /\ InMenu(p) THEN MENU
           ELSE IF f.menu /\ InMenu(<<p[1] - Menu[5], p[2] - Menu[5]>>) THEN SHADE
           ELSE IF p[2] >= sh - TASKBAR THEN BAR
           ELSE LET S == Visible(f.windows, p)
                    a == OnTop(S, f.active)
                IN  IF S = {} THEN DESKTOP ELSE Paint(a, f.windows[a], p)
<1>. DEFINE open == {a \in Apps : f.windows[a].open}
            rectangle == {a \in open : InWindow(p, f.windows[a])}
            here == rectangle \cup {a \in open : InWindow(<<p[1] - SHADOW, p[2] - SHADOW>>, f.windows[a])}
            top == IF f.active \in here THEN f.active ELSE Max(here)
            S == Visible(f.windows, p)
            q == <<p[1] - Menu[5], p[2] - Menu[5]>>
<1>1. here = S
  BY DEF Visible, Drawn
<1>2. S # {} => top = OnTop(S, f.active) /\ top \in S
  <2>1. S # {} => Max(S) \in S
    BY Topmost DEF Visible
  <2>. QED BY <1>1, <2>1 DEF OnTop
<1>3. S # {} => (top \in rectangle <=> InWindow(p, f.windows[top]))
  <2>1. S # {} => top \in Apps /\ f.windows[top].open
    BY <1>2 DEF Visible
  <2>. QED BY <2>1
<1>4. Seen(f, p) = CASE f.menu /\ InMenu(p) -> MENU
                     [] f.menu /\ ~InMenu(p) /\ InMenu(q) -> SHADE
                     [] OTHER -> IF p[2] >= sh - TASKBAR THEN BAR
                                 ELSE IF here = {} THEN DESKTOP
                                 ELSE IF top \in rectangle THEN top ELSE SHADE
  BY Zenon DEF Seen, InMenu
<1>. HIDE DEF here, top, S, rectangle, q
<1>5. Seen(f, p) = IF f.menu /\ InMenu(p) THEN MENU
                   ELSE IF f.menu /\ InMenu(q) THEN SHADE
                   ELSE IF p[2] >= sh - TASKBAR THEN BAR
                   ELSE IF here = {} THEN DESKTOP
                   ELSE IF top \in rectangle THEN top ELSE SHADE
  BY <1>4
<1>6. S # {} => Paint(top, f.windows[top], p) = IF top \in rectangle THEN top ELSE SHADE
  BY <1>3 DEF Paint
<1>. QED BY <1>1, <1>2, <1>5, <1>6 DEF S, q

\* Where the pointer may be seen.
InPointer(p) == p[1] \in ms[1]..ms[1] + CURSOR_W /\ p[2] \in ms[2]..ms[2] + CURSOR_H

\* The colour of a pixel under the pointer, or in its rectangle, or elsewhere.
Painted(c, f, p) ==
  /\ p = ms => c = POINTER
  /\ c = POINTER \/ c = Seen(f, p)
  /\ ~InPointer(p) => c = Seen(f, p)

\* What is drawn is what is to be seen, layer by layer.
LEMMA DrawingAt ==
  ASSUME TypeOK, Canvas(g_draw)
  PROVE  LET f == [windows |-> Fitted, active |-> active_app, menu |-> start_menu_open]
         IN  Canvas(Drawing) /\ \A p \in Pixels : Painted(ColorAt(Drawing, p), f, p)
<1>. DEFINE f == [windows |-> Fitted, active |-> active_app, menu |-> start_menu_open]
            desktop == fb_fill_rect(g_draw, 0, 0, sw, sh, DESKTOP)
            filled == draw_windows(desktop)
            bar == draw_taskbar(filled)
            x == Menu[1]
            y == MenuTop
            s == Menu[5]
            shadow == fb_fill_rect(bar, x + s, y + s, Menu[3], Menu[4], SHADE)
            menu == draw_start_menu(bar)
            Top(p) == LET S == Visible(Fitted, p)
                          a == OnTop(S, active_app)
                      IN  IF S = {} THEN DESKTOP ELSE Paint(a, Fitted[a], p)
<1>1. /\ mode \in Modes /\ ms \in Pixels
      /\ sw \in Nat /\ sh \in Nat /\ TASKBAR \in Nat /\ sh - TASKBAR \in Nat
      /\ x \in Nat /\ Menu[2] \in Nat /\ Menu[3] \in Nat /\ Menu[4] \in Nat /\ s \in Nat
  BY Room, LayoutAssumption DEF TypeOK
<1>2. y \in Int /\ x + s \in Int /\ y + s \in Int
  BY <1>1 DEF MenuTop
<1>3. ASSUME NEW p \in Pixels
      PROVE  /\ p[1] \in Nat /\ p[2] \in Nat /\ p[1] < sw /\ p[2] < sh
             /\ InRect(p, 0, 0, sw, sh)
             /\ (InRect(p, 0, sh - TASKBAR, sw, TASKBAR) <=> p[2] >= sh - TASKBAR)
             /\ (InRect(p, x + s, y + s, Menu[3], Menu[4]) <=> InMenu(<<p[1] - s, p[2] - s>>))
             /\ (InRect(p, x, y, Menu[3], Menu[4]) <=> InMenu(p))
  <2>1. p[1] \in Nat /\ p[2] \in Nat /\ p[1] < sw /\ p[2] < sh
    BY <1>1, Pitches DEF Pixels, sw, sh
  <2>. HIDE DEF x, y, s
  <2>2. InRect(p, x + s, y + s, Menu[3], Menu[4]) <=> InRect(<<p[1] - s, p[2] - s>>, x, y, Menu[3], Menu[4])
    BY <1>1, <1>2, <2>1 DEF InRect
  <2>3. InRect(p, 0, 0, sw, sh) /\ (InRect(p, 0, sh - TASKBAR, sw, TASKBAR) <=> p[2] >= sh - TASKBAR)
    BY <1>1, <2>1 DEF InRect
  <2>. QED BY <2>1, <2>2, <2>3, Zenon DEF InMenu, x, y, s
<1>4. Canvas(desktop) /\ \A p \in Pixels : ColorAt(desktop, p) = DESKTOP
  <2>1. sw \in Int /\ sh \in Int /\ 0 \in Int
    BY <1>1
  <2>2. /\ Canvas(desktop)
        /\ \A p \in Pixels : ColorAt(desktop, p) =
             IF InRect(p, 0, 0, sw, sh) THEN DESKTOP ELSE ColorAt(g_draw, p)
    BY <1>1, <2>1, FillAt
  <2>. HIDE DEF desktop
  <2>. QED BY <1>3, <2>2
<1>. HIDE DEF desktop
<1>5. Canvas(filled) /\ \A p \in Pixels : ColorAt(filled, p) = Top(p)
  BY <1>4, WindowsAt
<1>. HIDE DEF filled, Top
<1>6. /\ Canvas(bar)
      /\ \A p \in Pixels : ColorAt(bar, p) = IF p[2] >= sh - TASKBAR THEN BAR ELSE Top(p)
  <2>1. bar = fb_fill_rect(filled, 0, sh - TASKBAR, sw, TASKBAR, BAR)
    BY DEF draw_taskbar
  <2>2. sw \in Int /\ sh - TASKBAR \in Int /\ 0 \in Int /\ TASKBAR \in Int
    BY <1>1
  <2>. HIDE DEF bar
  <2>3. /\ Canvas(bar)
        /\ \A p \in Pixels : ColorAt(bar, p) =
             IF InRect(p, 0, sh - TASKBAR, sw, TASKBAR) THEN BAR ELSE ColorAt(filled, p)
    BY <1>1, <1>5, <2>1, <2>2, FillAt
  <2>. QED BY <1>3, <1>5, <2>3
<1>. HIDE DEF bar
<1>7. /\ Canvas(menu)
      /\ \A p \in Pixels : ColorAt(menu, p) =
           IF start_menu_open /\ InMenu(p) THEN MENU
           ELSE IF start_menu_open /\ InMenu(<<p[1] - s, p[2] - s>>) THEN SHADE
           ELSE ColorAt(bar, p)
  <2>1. CASE ~start_menu_open
    <3>1. menu = bar
      BY <2>1 DEF draw_start_menu
    <3>. QED BY <1>6, <2>1, <3>1
  <2>2. CASE start_menu_open
    <3>1. menu = fb_fill_rect(shadow, x, y, Menu[3], Menu[4], MENU)
      BY <2>2 DEF draw_start_menu
    <3>. HIDE DEF menu, x, y, s
    <3>2. x \in Int /\ Menu[3] \in Int /\ Menu[4] \in Int
      BY <1>1
    <3>3. /\ Canvas(shadow)
          /\ \A p \in Pixels : ColorAt(shadow, p) =
               IF InRect(p, x + s, y + s, Menu[3], Menu[4]) THEN SHADE ELSE ColorAt(bar, p)
      BY <1>1, <1>2, <1>6, <3>2, FillAt
    <3>. HIDE DEF shadow
    <3>4. /\ Canvas(menu)
          /\ \A p \in Pixels : ColorAt(menu, p) =
               IF InRect(p, x, y, Menu[3], Menu[4]) THEN MENU ELSE ColorAt(shadow, p)
      BY <1>1, <1>2, <3>1, <3>2, <3>3, FillAt
    <3>. QED BY <1>3, <2>2, <3>3, <3>4
  <2>. QED BY <2>1, <2>2
<1>8. \A p \in Pixels : ColorAt(menu, p) = Seen(f, p)
  <2>. TAKE p \in Pixels
  <2>1. f.menu = start_menu_open /\ f.windows = Fitted /\ f.active = active_app
    OBVIOUS
  <2>. HIDE DEF f, menu
  <2>2. Seen(f, p) =
          IF start_menu_open /\ InMenu(p) THEN MENU
          ELSE IF start_menu_open /\ InMenu(<<p[1] - s, p[2] - s>>) THEN SHADE
          ELSE IF p[2] >= sh - TASKBAR THEN BAR ELSE Top(p)
    BY <2>1, SeenIs DEF Top
  <2>. QED BY <1>6, <1>7, <2>2
<1>9. Drawing = draw_cursor(menu)
  BY Zenon DEF Drawing, desktop, filled, bar
<1>. HIDE DEF menu, f
<1>10. Marked(Drawing, menu, ms[1], ms[2], CURSOR_W, CURSOR_H, POINTER)
  BY <1>1, <1>7, <1>9, CursorMarks
<1>11. ms = <<ms[1], ms[2]>>
  BY <1>1 DEF Pixels
<1>12. \A p \in Pixels : Painted(ColorAt(Drawing, p), f, p)
  BY <1>8, <1>10, <1>11 DEF Marked, Painted, InPointer
<1>. QED BY <1>10, <1>12 DEF Marked, f

-----------------------------------------------------------------------------
(* What the screen shows.                                                  *)

\* The invariant: the drawing is whole when it is presented, and the screen is whole
\* as soon as there is a frame; no byte beside the pixels is ever stored.
Whole ==
  /\ DOMAIN front = Offsets(mode.pitch) /\ Canvas(g_draw)
  /\ phase = "present" => \A p \in Pixels : Painted(ColorAt(g_draw, p), Frame, p)
  /\ (phase = "input" /\ frame # NoFrame) => \A p \in Pixels : Painted(Shown(p[1], p[2]), frame, p)

LEMMA SeenStays ==
  ASSUME UNCHANGED mode
  PROVE  /\ Pixels' = Pixels /\ g_draw_pitch' = g_draw_pitch /\ g_use_backbuffer' = g_use_backbuffer
         /\ \A pitch : Offsets(pitch)' = Offsets(pitch)
         /\ \A pitch, x, y : Offset(pitch, x, y)' = Offset(pitch, x, y)
         /\ \A f, p : Seen(f, p)' = Seen(f, p)
<1>1. bytes_per_pixel' = bytes_per_pixel /\ Pixels' = Pixels /\ sh' = sh
  BY DEF bytes_per_pixel, Pixels, sh
<1>2. g_use_backbuffer' = g_use_backbuffer /\ g_draw_pitch' = g_draw_pitch
  BY <1>1 DEF g_use_backbuffer, g_draw_pitch
<1>3. \A pitch, x, y : Offset(pitch, x, y)' = Offset(pitch, x, y)
  BY <1>1 DEF Offset
<1>4. \A pitch : Offsets(pitch)' = Offsets(pitch)
  BY <1>1, <1>3 DEF Offsets
<1>5. \A f, p : Seen(f, p)' = Seen(f, p)
  BY <1>1 DEF Seen, MenuTop
<1>. QED BY <1>1, <1>2, <1>3, <1>4, <1>5

LEMMA WholeInit ==
  ASSUME Init
  PROVE  Whole
<1>1. phase = "input" /\ frame = NoFrame /\ DOMAIN front = Offsets(mode.pitch)
  BY DEF Init, fb_init_from_multiboot
<1>2. Canvas(g_draw)
  <2>1. CASE g_use_backbuffer
    BY <2>1 DEF Init, fb_init_from_multiboot, Canvas, g_draw
  <2>2. CASE ~g_use_backbuffer
    BY <1>1, <2>2 DEF Canvas, g_draw, g_draw_pitch
  <2>. QED BY <2>1, <2>2
<1>. QED BY <1>1, <1>2 DEF Whole

LEMMA DrawStep ==
  ASSUME TypeOK, Whole, draw_pixel_desktop
  PROVE  Whole'
<1>. DEFINE f == [windows |-> Fitted, active |-> active_app, menu |-> start_menu_open]
<1>1. /\ UNCHANGED <<mode, active_app, start_menu_open, ms, frame>>
      /\ phase' = "present" /\ windows' = Fitted
  BY DEF draw_pixel_desktop, pointer
<1>2. Frame' = f
  BY <1>1 DEF Frame
<1>3. Canvas(Drawing) /\ \A p \in Pixels : Painted(ColorAt(Drawing, p), f, p)
  BY DrawingAt DEF Whole
<1>4. g_draw' = Drawing
  BY <1>1, SeenStays DEF draw_pixel_desktop, g_draw
<1>5. DOMAIN front' = Offsets(mode.pitch)
  <2>1. CASE g_use_backbuffer
    BY <2>1 DEF draw_pixel_desktop, Whole
  <2>2. CASE ~g_use_backbuffer
    <3>1. front' = Drawing /\ g_draw_pitch = mode.pitch
      BY <2>2 DEF draw_pixel_desktop, g_draw_pitch
    <3>. QED BY <1>3, <3>1 DEF Canvas
  <2>. QED BY <2>1, <2>2
<1>6. (DOMAIN front = Offsets(mode.pitch))' /\ Canvas(g_draw)'
  BY <1>1, <1>3, <1>4, <1>5, SeenStays DEF Canvas
<1>. HIDE DEF f
<1>7. ASSUME NEW p \in Pixels PROVE Painted(ColorAt(g_draw, p), Frame, p)'
  <2>1. ColorAt(g_draw, p)' = ColorAt(Drawing, p)
    BY <1>1, <1>4, SeenStays DEF ColorAt
  <2>2. Seen(Frame, p)' = Seen(f, p)
    BY <1>1, <1>2, SeenStays
  <2>3. Painted(ColorAt(Drawing, p), f, p)
    BY <1>3
  <2>. QED BY <1>1, <2>1, <2>2, <2>3 DEF Painted, InPointer
<1>8. \A p \in Pixels' : Painted(ColorAt(g_draw, p), Frame, p)'
  BY <1>1, <1>7, SeenStays
<1>. QED BY <1>1, <1>6, <1>8 DEF Whole

LEMMA PresentStep ==
  ASSUME TypeOK, Whole, Present
  PROVE  Whole'
<1>1. /\ UNCHANGED <<mode, back, windows, active_app, start_menu_open, ms>>
      /\ phase = "present" /\ phase' = "input" /\ frame' = Frame /\ front' = fb_present
  BY DEF Present, pointer
<1>2. /\ DOMAIN fb_present = Offsets(mode.pitch)
      /\ \A p \in Pixels : fb_present[Offset(mode.pitch, p[1], p[2])] = ColorAt(g_draw, p)
  BY PresentAt DEF TypeOK, Whole
<1>3. g_draw' = g_draw
  <2>1. ~g_use_backbuffer => fb_present = front
    BY DEF fb_present
  <2>. QED BY <1>1, <2>1, SeenStays DEF g_draw
<1>4. (DOMAIN front = Offsets(mode.pitch))' /\ Canvas(g_draw)'
  BY <1>1, <1>2, <1>3, SeenStays DEF Canvas, Whole
<1>5. ASSUME NEW p \in Pixels PROVE Painted(Shown(p[1], p[2]), frame, p)'
  <2>1. Shown(p[1], p[2])' = ColorAt(g_draw, p)
    BY <1>1, <1>2, SeenStays DEF Shown
  <2>2. Seen(frame, p)' = Seen(Frame, p)
    BY <1>1, SeenStays
  <2>3. Painted(ColorAt(g_draw, p), Frame, p)
    BY <1>1 DEF Whole
  <2>. QED BY <1>1, <2>1, <2>2, <2>3 DEF Painted, InPointer
<1>6. \A p \in Pixels' : Painted(Shown(p[1], p[2]), frame, p)'
  BY <1>1, <1>5, SeenStays
<1>. QED BY <1>1, <1>4, <1>6 DEF Whole

LEMMA WholeStays ==
  ASSUME Whole, UNCHANGED <<mode, front, back>>,
         \/ phase' = "draw"
         \/ phase = "input" /\ UNCHANGED <<phase, frame, ms>>
         \/ UNCHANGED <<phase, frame, ms, windows, active_app, start_menu_open>>
  PROVE  Whole'
<1>1. (DOMAIN front = Offsets(mode.pitch))' /\ Canvas(g_draw)'
  BY SeenStays DEF Whole, Canvas, g_draw
<1>2. CASE phase' = "draw"
  BY <1>1, <1>2 DEF Whole
<1>3. CASE UNCHANGED <<phase, frame, ms>>
  <2>1. ASSUME frame # NoFrame, phase = "input", NEW p \in Pixels
        PROVE  Painted(Shown(p[1], p[2]), frame, p)'
    <3>1. Shown(p[1], p[2])' = Shown(p[1], p[2])
      BY SeenStays DEF Shown
    <3>2. Seen(frame, p)' = Seen(frame, p)
      BY <1>3, SeenStays
    <3>3. Painted(Shown(p[1], p[2]), frame, p)
      BY <2>1 DEF Whole
    <3>. QED BY <1>3, <3>1, <3>2, <3>3 DEF Painted, InPointer
  <2>2. ASSUME phase = "present", NEW p \in Pixels
        PROVE  Painted(ColorAt(g_draw, p), Frame, p)'
    <3>1. ColorAt(g_draw, p)' = ColorAt(g_draw, p)
      BY SeenStays DEF ColorAt, g_draw
    <3>2. Frame' = Frame
      BY <2>2, <1>3 DEF Frame
    <3>3. Seen(Frame, p)' = Seen(Frame, p)
      BY <3>2, SeenStays
    <3>4. Painted(ColorAt(g_draw, p), Frame, p)
      BY <2>2 DEF Whole
    <3>. QED BY <1>3, <3>1, <3>3, <3>4 DEF Painted, InPointer
  <2>3. (phase = "present" => \A p \in Pixels : Painted(ColorAt(g_draw, p), Frame, p))'
    BY <1>3, <2>2, SeenStays
  <2>4. ((phase = "input" /\ frame # NoFrame) => \A p \in Pixels : Painted(Shown(p[1], p[2]), frame, p))'
    BY <1>3, <2>1, SeenStays
  <2>. QED BY <1>1, <2>3, <2>4 DEF Whole
<1>. QED BY <1>2, <1>3

LEMMA WholeAlways == Spec => [](TypeOK /\ Whole)
<1>1. Init => Whole
  BY WholeInit
<1>2. TypeOK /\ Whole /\ [Next]_vars => Whole'
  <2>. SUFFICES ASSUME TypeOK, Whole, [Next]_vars PROVE Whole'
    OBVIOUS
  <2>1. CASE handle_key
    BY <2>1, WholeStays DEF handle_key, framebuffer, pointer
  <2>2. CASE Report
    BY <2>2, WholeStays DEF Report, framebuffer
  <2>3. CASE draw_pixel_desktop
    BY <2>3, DrawStep
  <2>4. CASE Present
    BY <2>4, PresentStep
  <2>5. CASE UNCHANGED vars
    BY <2>5, WholeStays DEF vars, framebuffer, pointer
  <2>. QED BY <2>1, <2>2, <2>3, <2>4, <2>5 DEF Next
<1>. QED BY <1>1, <1>2, WindowsTypeCorrect, PTL DEF Spec

\* Between two frames the screen shows the last frame whole, on every screen, in
\* every mode and for every layout: each pixel has the colour of what lies on top
\* there, the pointer apart, and nothing is stored beside the pixels.
THEOREM FrameAlwaysShown == Spec => []FrameShown
<1>1. Whole => FrameShown
  BY DEF Whole, Painted, InPointer, FrameShown
<1>. QED BY <1>1, WholeAlways, PTL

-----------------------------------------------------------------------------
(* Where a press goes.                                                     *)

\* Once they have been drawn, fit_window leaves the open windows alone.
Settled ==
  (phase = "present" \/ frame # NoFrame) =>
    \A a \in Apps : windows[a].open => Fit(windows[a]) = windows[a]

LEMMA FitStays ==
  ASSUME UNCHANGED mode
  PROVE  \A w : Fit(w)' = Fit(w)
BY DEF Fit, sw, sh

LEMMA SettledStep ==
  ASSUME TypeOK, Settled, [Next]_vars
  PROVE  Settled'
<1>1. ASSUME UNCHANGED <<mode, frame>>, phase' # "present", \A a \in Apps : Kept(a)
      PROVE  Settled'
  <2>. SUFFICES ASSUME frame # NoFrame, NEW a \in Apps, windows'[a].open
                PROVE  Fit(windows[a])' = windows'[a]
    BY <1>1 DEF Settled
  <2>1. mode \in Modes
    BY DEF TypeOK
  <2>2. Fit(windows[a])' = Fit(windows'[a])
    BY <1>1, FitStays
  <2>3. CASE windows'[a] = windows[a]
    BY <2>2, <2>3 DEF Settled
  <2>4. CASE \E w \in Wanted : windows'[a] = Fit(w)
    BY <2>1, <2>2, <2>4, FitTwice
  <2>. QED BY <1>1, <2>3, <2>4 DEF Kept
<1>2. CASE handle_key
  BY <1>1, <1>2, KeyKeeps DEF handle_key, framebuffer
<1>3. CASE Report
  BY <1>1, <1>3, ReportKeeps DEF Report, framebuffer
<1>4. CASE draw_pixel_desktop
  <2>1. UNCHANGED mode /\ windows' = Fitted /\ mode \in Modes
    BY <1>4 DEF draw_pixel_desktop, TypeOK
  <2>2. ASSUME NEW a \in Apps, windows'[a].open
        PROVE  Fit(windows[a])' = windows'[a]
    <3>1. windows[a] \in Wanted
      BY WindowTypes DEF TypeOK
    <3>2. Fitted[a] = Fit(windows[a])
      BY <2>1, <2>2, FittedTypes
    <3>3. Fit(windows[a])' = Fit(Fitted[a])
      BY <2>1, FitStays
    <3>. QED BY <2>1, <3>1, <3>2, <3>3, FitTwice
  <2>. QED BY <2>2 DEF Settled
<1>5. CASE Present
  <2>1. UNCHANGED <<mode, windows>> /\ phase = "present"
    BY <1>5 DEF Present
  <2>. QED BY <2>1, FitStays DEF Settled
<1>6. CASE UNCHANGED vars
  <2>1. UNCHANGED <<mode, windows, phase, frame>>
    BY <1>6 DEF vars, framebuffer
  <2>. QED BY <2>1, FitStays DEF Settled
<1>. QED BY <1>2, <1>3, <1>4, <1>5, <1>6 DEF Next

\* What is seen of the windows is what top_window_at finds, and the task bar is not
\* seen as a window.
LEMMA SeenIsFound ==
  ASSUME TypeOK, NEW p \in Pixels, ~start_menu_open,
         Seen(Frame, p) \in Apps \cup {DESKTOP}
  PROVE  ~OnStartButton(p) /\ top_window_at(p) = Seen(Frame, p)
<1>. DEFINE S == Visible(windows, p)
            a == OnTop(S, active_app)
<1>1. /\ p[1] \in Nat /\ p[2] \in Nat /\ sh - TASKBAR \in Nat
      /\ \A i \in 1..4 : StartButton[i] \in Nat
  BY Pitches, Room, LayoutAssumption DEF TypeOK, Pixels
<1>2. \A b \in Apps : b \in Nat \ {0}
  <2>1. APP_COUNT \in Nat
    BY LayoutAssumption
  <2>. QED BY <2>1 DEF Apps
<1>3. Seen(Frame, p) = IF p[2] >= sh - TASKBAR THEN BAR
                       ELSE IF S = {} THEN DESKTOP ELSE Paint(a, windows[a], p)
  <2>1. Frame.menu = start_menu_open /\ Frame.windows = windows /\ Frame.active = active_app
    BY DEF Frame
  <2>. QED BY <2>1, SeenIs
<1>. HIDE DEF S, a
<1>4. p[2] < sh - TASKBAR
  <2>1. BAR \notin Apps \cup {DESKTOP}
    BY <1>2 DEF BAR, DESKTOP
  <2>. QED BY <1>1, <1>3, <2>1
<1>5. ~OnStartButton(p)
  <2>1. StartButton[2] \in Nat
    BY <1>1
  <2>. QED BY <1>1, <1>4, <2>1 DEF OnStartButton, InRect
<1>6. Under(p) \subseteq S /\ Under(p) = {b \in S : InWindow(p, windows[b])}
  BY DEF Under, S, Visible, Drawn
<1>7. CASE S = {}
  <2>1. Seen(Frame, p) = DESKTOP
    BY <1>1, <1>3, <1>4, <1>7
  <2>2. top_window_at(p) = APP_NONE
    BY <1>6, <1>7 DEF top_window_at
  <2>. QED BY <1>5, <2>1, <2>2 DEF DESKTOP, APP_NONE
<1>8. CASE S # {}
  <2>1. S \in SUBSET Apps
    BY DEF S, Visible
  <2>2. Max(S) \in S /\ \A b \in S : b <= Max(S)
    BY <1>8, <2>1, MaxHighest
  <2>3. a \in S
    BY <2>2 DEF a, OnTop
  <2>4. Seen(Frame, p) = Paint(a, windows[a], p)
    BY <1>1, <1>3, <1>4, <1>8
  <2>5. a \in Under(p) /\ Seen(Frame, p) = a
    <3>1. SHADE \notin Apps \cup {DESKTOP}
      BY <1>2 DEF SHADE, DESKTOP
    <3>2. InWindow(p, windows[a]) /\ Seen(Frame, p) = a
      BY <2>4, <3>1 DEF Paint
    <3>. QED BY <1>6, <2>3, <3>2
  <2>6. top_window_at(p) = a
    <3>1. CASE active_app \in S
      BY <2>5, <3>1 DEF a, OnTop, top_window_at
    <3>2. CASE active_app \notin S
      <4>1. a = Max(S) /\ active_app \notin Under(p) /\ Under(p) # {}
        BY <1>6, <2>5, <3>2 DEF a, OnTop
      <4>2. Max(Under(p)) \in Under(p) /\ \A b \in Under(p) : b <= Max(Under(p))
        BY <1>6, <2>1, <4>1, MaxHighest
      <4>3. Max(Under(p)) = a
        <5>1. Max(Under(p)) \in Nat /\ a \in Nat
          BY <1>2, <1>6, <2>1, <2>3, <4>2
        <5>2. a <= Max(Under(p)) /\ Max(Under(p)) <= a
          BY <1>6, <2>2, <2>5, <4>1, <4>2
        <5>. QED BY <5>1, <5>2
      <4>. QED BY <4>1, <4>3 DEF top_window_at
    <3>. QED BY <3>1, <3>2
  <2>. QED BY <1>5, <2>5, <2>6
<1>. QED BY <1>7, <1>8

\* A press goes to what is seen where the mouse is, on every screen and for every
\* layout.
THEOREM PressAlwaysGoesToSeen == Spec => PressGoesToSeen
<1>. DEFINE seen == Shown(ms'[1], ms'[2])
            Pressed == /\ phase = "input" /\ phase' = "draw" /\ left' /\ ~left /\ drag_app = APP_NONE
                       /\ frame = Frame /\ ~start_menu_open /\ IconsAt(ms') = {}
            Goes == /\ seen \in Apps \ {APP_EXPLORER} =>
                         /\ active_app' = seen \/ ~windows'[seen].open
                         /\ \A a \in Apps \ {seen} : windows'[a] = windows[a]
                    /\ seen = APP_EXPLORER =>
                         \A a \in Apps \ {seen} : windows[a].open => windows'[a] = windows[a]
                    /\ seen = DESKTOP => UNCHANGED <<windows, active_app>>
<1>1. TypeOK /\ Whole /\ Settled /\ [Next]_vars => (Pressed => Goes)
  <2>. SUFFICES ASSUME TypeOK, Whole, Settled, [Next]_vars, Pressed,
                       seen \in Apps \cup {DESKTOP}
                PROVE  Goes
    <3>1. APP_EXPLORER \in Apps
      BY LayoutAssumption DEF Apps, APP_EXPLORER
    <3>. HIDE DEF seen
    <3>. QED BY <3>1
  <2>1. Report
    BY DEF Next, handle_key, draw_pixel_desktop, Present, vars
  <2>2. PICK p \in Spots \cap Pixels, now \in BOOLEAN, click \in BOOLEAN :
             handle_mouse(p, now, click) /\ ms' = p /\ left' = now
    BY <2>1 DEF Report
  <2>3. \E dropped : Press(p, dropped)
    BY <2>2 DEF handle_mouse
  <2>4. windows \in [Apps -> Window] /\ Apps # {}
    <3>1. APP_COUNT \in Nat /\ APP_COUNT > 3
      BY LayoutAssumption
    <3>2. 1 \in Apps
      BY <3>1 DEF Apps
    <3>. QED BY <3>2 DEF TypeOK
  <2>5. frame # NoFrame
    <3>1. DOMAIN windows # DOMAIN << >>
      BY <2>4
    <3>. QED BY <3>1 DEF Frame, NoFrame
  <2>6. Painted(seen, Frame, p)
    BY <2>2, <2>5 DEF Whole
  <2>7. seen = Seen(Frame, p)
    <3>1. POINTER \notin Apps \cup {DESKTOP}
      BY LayoutAssumption DEF POINTER, Apps, DESKTOP
    <3>. QED BY <2>6, <3>1 DEF Painted
  <2>8. ~OnStartButton(p) /\ top_window_at(p) = seen
    BY <2>7, SeenIsFound
  <2>9. IconsAt(p) = {}
    BY <2>2
  <2>. HIDE DEF seen
  <2>10. APP_NONE \notin Apps /\ DESKTOP = APP_NONE
    BY LayoutAssumption DEF Apps, APP_NONE, DESKTOP
  <2>11. CASE seen = DESKTOP
    <3>1. UNCHANGED <<windows, active_app>>
      BY <2>3, <2>8, <2>9, <2>10, <2>11 DEF Press
    <3>2. DESKTOP # APP_EXPLORER /\ DESKTOP \notin Apps
      BY <2>10 DEF DESKTOP, APP_EXPLORER
    <3>. QED BY <2>11, <3>1, <3>2
  <2>12. CASE seen \in Apps
    <3>1. seen # DESKTOP
      BY <2>10, <2>12
    <3>2. PICK dropped : PressWindow(p, seen, dropped)
      BY <2>3, <2>8, <2>9, <2>10, <2>12 DEF Press
    <3>3. CASE close_app(seen, seen)
      <4>1. windows' = [windows EXCEPT ![seen] = Closed(windows[seen])]
        BY <3>3 DEF close_app
      <4>2. ~windows'[seen].open /\ \A a \in Apps \ {seen} : windows'[a] = windows[a]
        BY <2>4, <2>12, <4>1 DEF Closed
      <4>. QED BY <3>1, <4>2
    <3>4. CASE active_app' = seen /\ UNCHANGED windows
      BY <3>1, <3>4
    <3>5. CASE seen = APP_EXPLORER /\ \E a \in Apps : open_app(a)
      <4>1. PICK b \in Apps : open_app(b)
        BY <3>5
      <4>2. windows' = [windows EXCEPT ![b] = Fit(Opened(windows[b]))]
        BY <4>1 DEF open_app
      <4>3. ASSUME NEW a \in Apps, windows[a].open PROVE windows'[a] = windows[a]
        <5>1. CASE a # b
          BY <2>4, <4>2, <5>1
        <5>2. CASE a = b
          <6>1. windows[b] \in Window
            BY <2>4
          <6>2. Opened(windows[b]) = windows[b]
            BY <4>3, <5>2, <6>1 DEF Opened, Window
          <6>3. windows'[b] = Fit(windows[b])
            BY <2>4, <4>2, <6>2
          <6>. QED BY <2>5, <4>3, <5>2, <6>3 DEF Settled
        <5>. QED BY <5>1, <5>2
      <4>. QED BY <3>1, <3>5, <4>3
    <3>. QED BY <3>2, <3>3, <3>4, <3>5 DEF PressWindow
  <2>. QED BY <2>11, <2>12
<1>2. TypeOK /\ Whole /\ Settled /\ [Next]_vars => [Pressed => Goes]_vars
  BY <1>1
<1>3. Init => Settled
  BY DEF Init, Settled
<1>4. TypeOK /\ Settled /\ [Next]_vars => Settled'
  BY SettledStep
<1>. QED BY <1>2, <1>3, <1>4, WholeAlways, PTL DEF Spec, PressGoesToSeen

-----------------------------------------------------------------------------
(* The loop in time: types.                                                *)

\* A number of milliseconds is at least one tick.
LEMMA TickTypes ==
  ASSUME NEW amount \in Nat
  PROVE  InTicks(amount) \in Nat /\ InTicks(amount) >= 1
<1>1. amount * TIMER_HZ \in Nat
  BY TimerAssumption
<1>. DEFINE product == amount * TIMER_HZ
<1>. HIDE DEF product
<1>2. product % WORD \in Nat
  BY <1>1, TimerAssumption DEF product
<1>. DEFINE left_over == product % WORD
<1>. HIDE DEF left_over
<1>3. left_over \div MILLIS \in Nat
  BY <1>2, TimerAssumption DEF left_over
<1>. QED BY <1>3 DEF InTicks, product, left_over

\* What timer_sleep and the interrupts do keeps the timer's types.
LEMMA TimerTypes ==
  ASSUME TimerTypeOK,
         (\E amount \in Requests : timer_sleep(amount)) \/ Test \/ Halt \/ TimerIrq \/ OtherIrq
  PROVE  TimerTypeOK'
<1>. USE DEF TimerTypeOK, Ticks, call
<1>1. CASE \E amount \in Requests : timer_sleep(amount)
  <2>1. ticks' \in Nat /\ end' = (tick_count + ticks') % WORD
    BY <1>1, TickTypes, TimerAssumption DEF timer_sleep, End
  <2>2. \A n \in Nat : n % WORD \in 0..WORD-1
    BY TimerAssumption
  <2>3. end' \in 0..WORD-1
    BY <2>1, <2>2
  <2>4. at' = "test" /\ started' = tick_count /\ elapsed' = 0 /\ ~slow' /\ slow' \in BOOLEAN
        /\ tick_count' = tick_count
    BY <1>1 DEF timer_sleep
  <2>. QED BY <2>1, <2>3, <2>4
<1>2. CASE Test
  BY <1>2 DEF Test
<1>3. CASE Halt
  BY <1>3 DEF Halt
<1>4. CASE TimerIrq
  <2>1. tick_count' \in 0..WORD-1
    BY <1>4, TimerAssumption DEF TimerIrq
  <2>2. elapsed' \in Nat
    BY <1>4 DEF TimerIrq, Counted
  <2>. QED BY <1>4, <2>1, <2>2 DEF TimerIrq, Woken
<1>5. CASE OtherIrq
  BY <1>5 DEF OtherIrq, Woken
<1>. QED BY <1>1, <1>2, <1>3, <1>4, <1>5

\* The clock keeps to the calendar.
Calendar == clock.day <= Days(clock)

\* A second after a date of the calendar comes one.
LEMMA NextIsDate ==
  ASSUME NEW c \in Time, c.day <= Days(c)
  PROVE  NextSecond(c) \in Time /\ NextSecond(c).day <= Days(NextSecond(c))
<1>. DEFINE n == NextSecond(c)
            last == [second |-> 59, minute |-> 59, hour |-> 23, day |-> Days(c), month |-> 12, year |-> 2099]
            carry(i) == \A j \in 1..i-1 : c[Fields[j]] = last[Fields[j]]
<1>1. Days(c) \in 28..31
  BY DEF Time, Days
<1>2. /\ c.second \in 0..59 /\ c.minute \in 0..59 /\ c.hour \in 0..23
      /\ c.day \in 1..31 /\ c.month \in 1..12 /\ c.year \in 2000..2099
  BY DEF Time
<1>3. /\ carry(4) => c.hour = 23
      /\ carry(5) => carry(4) /\ c.day = Days(c)
      /\ carry(6) => carry(5) /\ c.month = 12
  BY DEF Fields
<1>4. /\ n.second = IF ~carry(1) THEN c.second ELSE IF c.second = 59 THEN 0 ELSE c.second + 1
      /\ n.minute = IF ~carry(2) THEN c.minute ELSE IF c.minute = 59 THEN 0 ELSE c.minute + 1
      /\ n.hour = IF ~carry(3) THEN c.hour ELSE IF c.hour = 23 THEN 0 ELSE c.hour + 1
      /\ n.day = IF ~carry(4) THEN c.day ELSE IF c.day = Days(c) THEN 1 ELSE c.day + 1
      /\ n.month = IF ~carry(5) THEN c.month ELSE IF c.month = 12 THEN 1 ELSE c.month + 1
      /\ n.year = IF ~carry(6) THEN c.year ELSE IF c.year = 2099 THEN 2000 ELSE c.year + 1
      /\ n = [second |-> n.second, minute |-> n.minute, hour |-> n.hour,
              day |-> n.day, month |-> n.month, year |-> n.year]
  <2>. DEFINE first == [second |-> 0, minute |-> 0, hour |-> 0, day |-> 1, month |-> 1, year |-> 2000]
              field(i) == IF ~carry(i) THEN c[Fields[i]]
                          ELSE IF c[Fields[i]] = last[Fields[i]] THEN first[Fields[i]]
                          ELSE c[Fields[i]] + 1
  <2>1. n = [second |-> field(1), minute |-> field(2), hour |-> field(3),
             day |-> field(4), month |-> field(5), year |-> field(6)]
    BY Zenon DEF NextSecond
  <2>2. /\ Fields[1] = "second" /\ Fields[2] = "minute" /\ Fields[3] = "hour"
        /\ Fields[4] = "day" /\ Fields[5] = "month" /\ Fields[6] = "year"
    BY DEF Fields
  <2>. HIDE DEF n, carry
  <2>3. /\ field(1) = IF ~carry(1) THEN c.second ELSE IF c.second = 59 THEN 0 ELSE c.second + 1
        /\ field(2) = IF ~carry(2) THEN c.minute ELSE IF c.minute = 59 THEN 0 ELSE c.minute + 1
        /\ field(3) = IF ~carry(3) THEN c.hour ELSE IF c.hour = 23 THEN 0 ELSE c.hour + 1
    BY <2>2
  <2>4. /\ field(4) = IF ~carry(4) THEN c.day ELSE IF c.day = Days(c) THEN 1 ELSE c.day + 1
        /\ field(5) = IF ~carry(5) THEN c.month ELSE IF c.month = 12 THEN 1 ELSE c.month + 1
        /\ field(6) = IF ~carry(6) THEN c.year ELSE IF c.year = 2099 THEN 2000 ELSE c.year + 1
    BY <2>2
  <2>. HIDE DEF field
  <2>. QED BY <2>1, <2>3, <2>4
<1>. HIDE DEF n, carry
<1>5. n \in Time
  <2>1. n.second \in 0..59 /\ n.minute \in 0..59 /\ n.hour \in 0..23
    BY <1>2, <1>4
  <2>2. n.day \in 1..31
    BY <1>1, <1>2, <1>4
  <2>3. n.month \in 1..12 /\ n.year \in 2000..2099
    BY <1>2, <1>4
  <2>. QED BY <1>4, <2>1, <2>2, <2>3 DEF Time
<1>6. n.day <= Days(n)
  <2>1. CASE carry(5)
    <3>1. n.day = 1
      BY <2>1, <1>3, <1>4
    <3>2. Days(n) \in 28..31
      BY DEF Days
    <3>. QED BY <3>1, <3>2
  <2>2. CASE ~carry(5)
    <3>1. n.month = c.month /\ n.year = c.year
      BY <2>2, <1>3, <1>4
    <3>2. Days(n) = Days(c)
      BY <3>1 DEF Days
    <3>3. n.day <= Days(c)
      BY <1>1, <1>2, <1>4
    <3>. QED BY <3>2, <3>3
  <2>. QED BY <2>1, <2>2
<1>. QED BY <1>5, <1>6 DEF n

\* A register holds a natural number, whatever the format of the clock.
LEMMA RegisterTypes ==
  ASSUME NEW c \in Time, NEW f \in FieldNames
  PROVE  Register(f, c) \in Nat
<1>1. \A n \in Nat : Raw(n) \in Nat
  BY DEF Raw
<1>2. /\ c.second \in Nat /\ c.minute \in Nat /\ c.hour \in 0..23
      /\ c.day \in Nat /\ c.month \in Nat /\ c.year - 2000 \in Nat
  BY DEF Time
<1>3. RawHour(c.hour) \in Nat
  BY <1>1, <1>2 DEF RawHour
<1>4. FieldNames = {"second", "minute", "hour", "day", "month", "year"}
  BY DEF FieldNames, Fields
<1>. QED BY <1>1, <1>2, <1>3, <1>4 DEF Register

\* The digits of a register make a natural number.
LEMMA ConvertTypes ==
  ASSUME NEW raw \in [FieldNames -> Nat]
  PROVE  FromBcd(raw) \in [FieldNames -> Nat]
<1>1. \A n \in Nat : bcd_to_bin(n) \in Nat /\ n % 128 \in Nat /\ (n \div 128) * 128 \in Nat
  BY DEF bcd_to_bin
<1>2. \A n \in Nat : bcd_to_bin(n) \in Nat /\ (n \div 128) * 128 + bcd_to_bin(n % 128) \in Nat
  BY <1>1
<1>. QED BY <1>2 DEF FromBcd

\* rtc_read_time and the clock keep their types.
LEMMA RtcTypes ==
  ASSUME RtcTypeOK, Calendar,
         rtc_read_time \/ RtcStep \/ Announce \/ BeginUpdate \/ EndUpdate
  PROVE  RtcTypeOK' /\ Calendar'
<1>. USE DEF RtcTypeOK, Calendar, DONE, TEST, cmos
<1>1. CASE rtc_read_time
  <2>1. clock' \in Time /\ clock'.day <= Days(clock')
    BY <1>1, TimesAssumption DEF rtc_read_time
  <2>2. t' \in [FieldNames -> Nat]
    BY <1>1 DEF rtc_read_time, NoTime
  <2>3. status_b' = status_b /\ update' = update
    BY <1>1 DEF rtc_read_time
  <2>4. reading' = 0 /\ due' \in BOOLEAN /\ settled' \in BOOLEAN
    BY <1>1, Zenon DEF rtc_read_time
  <2>. QED BY <2>1, <2>2, <2>3, <2>4
<1>2. CASE cmos_update_in_progress
  <2>1. reading' \in {reading, 1} /\ (settled' = settled \/ settled' = TRUE)
        /\ clock' = clock /\ update' = update /\ due' = due /\ status_b' = status_b /\ t' = t
    BY <1>2, Zenon DEF cmos_update_in_progress
  <2>2. settled' \in BOOLEAN
    BY <2>1
  <2>. QED BY <2>1, <2>2
<1>3. CASE cmos_read
  <2>1. reading \in 1..6 /\ reading' = reading + 1
    BY <1>3 DEF cmos_read
  <2>2. Fields[reading] \in FieldNames
    BY <2>1 DEF FieldNames
  <2>3. NextSecond(clock) \in Time
    BY NextIsDate
  <2>4. PICK v \in Shows(Fields[reading]) : t' = [t EXCEPT ![Fields[reading]] = v]
    BY <1>3 DEF cmos_read
  <2>5. v \in Nat
    BY <2>2, <2>3, <2>4, RegisterTypes DEF Shows
  <2>6. t' \in [FieldNames -> Nat]
    BY <2>2, <2>4, <2>5
  <2>. QED BY <1>3, <2>1, <2>6 DEF cmos_read
<1>4. CASE Convert
  <2>. DEFINE n == IF status_b.binary THEN t ELSE FromBcd(t)
  <2>1. n \in [FieldNames -> Nat]
    BY ConvertTypes
  <2>. HIDE DEF n
  <2>2. "hour" \in FieldNames /\ "year" \in FieldNames
    BY DEF FieldNames, Fields
  <2>3. To24(n["hour"]) \in Nat /\ n["year"] + 2000 \in Nat
    BY <2>1, <2>2 DEF To24
  <2>4. t' = [n EXCEPT !["hour"] = To24(n["hour"]), !["year"] = n["year"] + 2000]
    BY <1>4 DEF Convert, n
  <2>. DEFINE hours == To24(n["hour"])
              years == n["year"] + 2000
  <2>5. t' = [n EXCEPT !["hour"] = hours, !["year"] = years] /\ hours \in Nat /\ years \in Nat
    BY <2>3, <2>4
  <2>. HIDE DEF hours, years
  <2>6. t' \in [FieldNames -> Nat]
    BY <2>1, <2>5
  <2>7. reading' = 8 /\ due' \in BOOLEAN
        /\ clock' = clock /\ update' = update /\ status_b' = status_b /\ settled' = settled
    BY <1>4, Zenon DEF Convert
  <2>. QED BY <2>6, <2>7
<1>5. CASE Announce
  BY <1>5 DEF Announce
<1>6. CASE BeginUpdate
  BY <1>6 DEF BeginUpdate
<1>7. CASE EndUpdate
  BY <1>7, NextIsDate DEF EndUpdate
<1>. QED BY <1>1, <1>2, <1>3, <1>4, <1>5, <1>6, <1>7 DEF RtcStep

\* Every variable of the loop has its type, and the clock shows a date, for every
\* size of counter and every time at which a frame may begin.
THEOREM FrameTypeCorrect == FrameSpec => [](FrameTypeOK /\ Calendar)
<1>1. FrameInit => FrameTypeOK /\ Calendar
  <2>1. NoTime \in [FieldNames -> Nat]
    BY DEF NoTime
  <2>2. FALSE \in BOOLEAN
    OBVIOUS
  <2>3. FrameInit => TimerTypeOK
    <3>1. 0 \in Ticks
      BY TimerAssumption DEF Ticks
    <3>2. FrameInit => slow \in BOOLEAN
      BY <2>2, Zenon DEF FrameInit, TimerInit
    <3>. QED BY <3>1, <3>2 DEF FrameInit, TimerInit, TimerTypeOK
  <2>4. FrameInit => RtcTypeOK /\ Calendar
    <3>1. FrameInit => due \in BOOLEAN /\ settled \in BOOLEAN
      BY <2>2, Zenon DEF FrameInit, RtcInit
    <3>2. FrameInit => clock \in Time /\ Calendar
      BY TimesAssumption DEF FrameInit, RtcInit, Calendar
    <3>. QED BY <2>1, <3>1, <3>2 DEF FrameInit, RtcInit, RtcTypeOK, DONE
  <2>. QED BY <2>3, <2>4 DEF FrameInit, FrameTypeOK
<1>2. FrameTypeOK /\ Calendar /\ [FrameNext]_frameVars => (FrameTypeOK /\ Calendar)'
  <2>. SUFFICES ASSUME FrameTypeOK, Calendar, [FrameNext]_frameVars
                PROVE  (FrameTypeOK /\ Calendar)'
    OBVIOUS
  <2>. DEFINE TimerStep == (\E amount \in Requests : timer_sleep(amount)) \/ Test \/ Halt \/ TimerIrq \/ OtherIrq
              ReadStep == rtc_read_time \/ RtcStep \/ Announce \/ BeginUpdate \/ EndUpdate
  <2>1. /\ TimerStep \/ UNCHANGED timer
        /\ ReadStep \/ UNCHANGED rtc
        /\ turn' \in {"draw", "read", "sleep"}
    BY DEF FrameTypeOK, FrameNext, FrameStep, DrawTaskbar, ReadClock, Sleep, Sleeping, NextFrame,
           ClockStep, Interrupt, frameVars
  <2>2. TimerTypeOK'
    <3>1. CASE TimerStep
      BY <3>1, TimerTypes DEF FrameTypeOK
    <3>2. CASE UNCHANGED timer
      BY <3>2 DEF FrameTypeOK, TimerTypeOK, timer, sleeper, call, Ticks
    <3>. QED BY <2>1, <3>1, <3>2
  <2>3. (RtcTypeOK /\ Calendar)'
    <3>1. CASE ReadStep
      BY <3>1, RtcTypes DEF FrameTypeOK
    <3>2. CASE UNCHANGED rtc
      BY <3>2 DEF FrameTypeOK, RtcTypeOK, Calendar, rtc, cmos
    <3>. QED BY <2>1, <3>1, <3>2
  <2>. QED BY <2>1, <2>2, <2>3 DEF FrameTypeOK
<1>. QED BY <1>1, <1>2, PTL DEF FrameSpec

-----------------------------------------------------------------------------
(* timer_sleep.                                                            *)

\* How many ticks the sleep has lasted at each of its points, if neither its end
\* nor the tick after it wraps the counter.
Slept ==
  (turn = "sleep" /\ started + ticks < WORD - 1) =>
    LET late_tick == IF slow THEN 1 ELSE 0
    IN /\ ticks >= 1 /\ end = started + ticks
       /\ at # "awake" => tick_count = started + elapsed
       /\ at = "test" => elapsed <= ticks + late_tick
       /\ at = "halt" => elapsed <= ticks - 1 + late_tick
       /\ at = "asleep" => elapsed <= ticks /\ ~slow
       /\ at = "awake" => elapsed \in {ticks, ticks + 1}

LEMMA CallSleeps ==
  ASSUME TimerTypeOK, NEW amount \in Requests, timer_sleep(amount)
  PROVE  Slept'
<1>1. ticks' \in Nat /\ ticks' >= 1
  BY TickTypes, TimerAssumption DEF timer_sleep
<1>2. started' = tick_count /\ elapsed' = 0 /\ at' = "test" /\ tick_count' = tick_count
  BY DEF timer_sleep
<1>3. tick_count \in Nat
  BY DEF TimerTypeOK, Ticks
<1>4. ASSUME started' + ticks' < WORD - 1
      PROVE  end' = started' + ticks'
  <2>1. tick_count + ticks' \in Nat /\ tick_count + ticks' < WORD
    <3>1. \A n \in Nat : tick_count + n < WORD - 1 => tick_count + n \in Nat /\ tick_count + n < WORD
      BY <1>3, TimerAssumption
    <3>. QED BY <1>1, <1>2, <1>4, <3>1
  <2>2. \A n \in Nat : n < WORD => n % WORD = n
    BY TimerAssumption
  <2>3. end' = (tick_count + ticks') % WORD
    BY DEF timer_sleep, End
  <2>. QED BY <1>2, <2>1, <2>2, <2>3
<1>5. started' + elapsed' = tick_count'
  BY <1>2, <1>3
<1>6. elapsed' <= ticks' + (IF slow' THEN 1 ELSE 0)
  <2>1. \A n \in Nat : 0 <= n + (IF slow' THEN 1 ELSE 0)
    OBVIOUS
  <2>. QED BY <1>1, <1>2, <2>1
<1>. QED BY <1>1, <1>2, <1>4, <1>5, <1>6 DEF Slept

LEMMA SleepGoesOn ==
  ASSUME TimerTypeOK, Slept, turn' = turn, Test \/ Halt \/ TimerIrq \/ OtherIrq
  PROVE  Slept'
<1>. USE DEF TimerTypeOK, Slept, call
<1>1. CASE Test
  <2>1. /\ at = "test" /\ at' = (IF tick_count < end THEN "halt" ELSE "awake")
        /\ UNCHANGED <<tick_count, ticks, end, started, elapsed>>
    BY <1>1 DEF Test, Early
  <2>2. (turn = "sleep" /\ started + ticks < WORD - 1) =>
          /\ ticks >= 1 /\ end = started + ticks /\ tick_count = started + elapsed
          /\ elapsed <= ticks + 1
    BY <2>1
  <2>3. (turn = "sleep" /\ started + ticks < WORD - 1) =>
          IF tick_count < end THEN elapsed <= ticks - 1 ELSE elapsed \in {ticks, ticks + 1}
    BY <2>2 DEF Ticks
  <2>4. ticks - 1 <= ticks - 1 + (IF slow' THEN 1 ELSE 0)
    OBVIOUS
  <2>. QED BY <2>1, <2>2, <2>3, <2>4 DEF Ticks
<1>2. CASE Halt
  BY <1>2 DEF Halt
<1>3. CASE TimerIrq
  <2>. SUFFICES ASSUME turn = "sleep", started + ticks < WORD - 1 PROVE Slept'
    BY <1>3 DEF TimerIrq
  <2>1. CASE at = "awake"
    BY <1>3, <2>1 DEF TimerIrq, Woken
  <2>2. CASE at # "awake"
    <3>1. tick_count \in Nat /\ tick_count + 1 < WORD /\ elapsed < ticks + 2
      BY <1>3, <2>2, TimerAssumption DEF TimerIrq, Ticks
    <3>2. \A n \in Nat : n < WORD => n % WORD = n
      BY TimerAssumption
    <3>3. tick_count' = tick_count + 1
      BY <1>3, <3>1, <3>2 DEF TimerIrq
    <3>4. elapsed' = elapsed + 1
      BY <1>3, <2>2, <3>1 DEF TimerIrq, Counted
    <3>5. /\ at' = (IF at = "asleep" THEN "test" ELSE at)
          /\ at = "asleep" \/ ~slow
          /\ UNCHANGED <<ticks, end, started>>
      BY <1>3 DEF TimerIrq, Woken
    <3>6. slow'
      BY <1>3, Zenon DEF TimerIrq
    <3>7. tick_count' = started' + elapsed'
      <4>1. tick_count + 1 = started + (elapsed + 1)
        BY <2>2 DEF Ticks
      <4>. QED BY <3>3, <3>4, <3>5, <4>1
    <3>8. /\ at' = "test" => elapsed' <= ticks' + 1
          /\ at' = "halt" => elapsed' <= ticks'
      BY <3>4, <3>5
    <3>9. at' \in {"test", "halt"} /\ ticks' >= 1 /\ end' = started' + ticks'
      BY <2>2, <3>5
    <3>10. ticks' - 1 + 1 = ticks'
      BY <3>5
    <3>. QED BY <3>6, <3>7, <3>8, <3>9, <3>10
  <2>. QED BY <2>1, <2>2
<1>4. CASE OtherIrq
  BY <1>4 DEF OtherIrq, Woken
<1>. QED BY <1>1, <1>2, <1>3, <1>4

\* A sleep lasts its number of ticks, or one more if a tick falls between its test
\* and its HLT, for every width of the counter and rate of the timer.
THEOREM SleepsAlwaysTicks == FrameSpec => []SleepsItsTicks
<1>1. FrameInit => Slept
  BY DEF FrameInit, Slept
<1>2. FrameTypeOK /\ Slept /\ [FrameNext]_frameVars => Slept'
  <2>. SUFFICES ASSUME TimerTypeOK, Slept, [FrameNext]_frameVars PROVE Slept'
    BY DEF FrameTypeOK
  <2>1. CASE Sleep
    BY <2>1, CallSleeps DEF Sleep
  <2>2. CASE Sleeping \/ Interrupt
    BY <2>2, SleepGoesOn DEF Sleeping, Interrupt
  <2>3. CASE DrawTaskbar \/ NextFrame
    BY <2>3 DEF DrawTaskbar, NextFrame, Slept
  <2>4. CASE ReadClock \/ ClockStep \/ UNCHANGED frameVars
    <3>1. UNCHANGED <<timer, turn>>
      BY <2>4 DEF ReadClock, ClockStep, frameVars
    <3>. QED BY <3>1 DEF Slept, timer, sleeper, call
  <2>. QED BY <2>1, <2>2, <2>3, <2>4 DEF FrameNext, FrameStep
<1>3. Slept => SleepsItsTicks
  BY DEF Slept, SleepsItsTicks
<1>. QED BY <1>1, <1>2, <1>3, FrameTypeCorrect, PTL DEF FrameSpec

-----------------------------------------------------------------------------
(* rtc_read_time.                                                          *)

\* While no update has begun the registers read are the clock's, and so is the
\* time converted from them.
ReadSoFar ==
  settled =>
    /\ update # "running"
    /\ reading \in 1..7 => \A i \in 1..6 : i < reading => t[Fields[i]] = Register(Fields[i], clock)
    /\ reading = DONE /\ (status_b.h24 \/ clock.hour % 12 # 0) => t = clock

\* Two decimal digits come back out of a register.
LEMMA DigitsBack ==
  ASSUME NEW n \in 0..99
  PROVE  bcd_to_bin((n \div 10) * 16 + (n % 10)) = n
<1>1. n \div 10 \in 0..9 /\ n % 10 \in 0..9 /\ n = 10 * (n \div 10) + (n % 10)
  OBVIOUS
<1>. DEFINE tens == n \div 10
            units == n % 10
<1>. HIDE DEF tens, units
<1>2. tens \in 0..9 /\ units \in 0..9 /\ n = 10 * tens + units
  BY <1>1 DEF tens, units
<1>3. (tens * 16 + units) % 16 = units /\ (tens * 16 + units) \div 16 = tens
  BY <1>2
<1>4. bcd_to_bin(tens * 16 + units) = n
  BY <1>2, <1>3 DEF bcd_to_bin
<1>. QED BY <1>4 DEF tens, units

\* What a register of two digits or a binary one holds, put back together.
Back(n) == IF status_b.binary THEN n ELSE bcd_to_bin(n)

LEMMA RawBack ==
  ASSUME NEW n \in 0..99
  PROVE  Back(Raw(n)) = n
BY DigitsBack DEF Back, Raw

\* The raw hour, put back together, and the hour of 24: all but 0 and 12 of a
\* 12-hour clock come back.
LEMMA HourBack ==
  ASSUME NEW h \in 0..23, status_b.h24 \/ h % 12 # 0
  PROVE  To24(IF status_b.binary THEN RawHour(h)
              ELSE (RawHour(h) \div 128) * 128 + bcd_to_bin(RawHour(h) % 128)) = h
<1>. DEFINE k == IF status_b.h24 THEN h ELSE h % 12
            pm == IF ~status_b.h24 /\ h >= 12 THEN 128 ELSE 0
            r == Raw(k)
<1>1. k \in 0..23 /\ (~status_b.h24 => k \in 1..11)
  OBVIOUS
<1>2. r \in 0..127
  <2>1. \A n \in 0..23 : n \div 10 \in 0..2 /\ n % 10 \in 0..9
    OBVIOUS
  <2>2. \A n \in 0..23 : Raw(n) \in 0..127
    BY <2>1 DEF Raw
  <2>. QED BY <1>1, <2>2
<1>3. RawHour(h) = r + pm
  <2>1. CASE status_b.h24
    <3>1. RawHour(h) = r /\ pm = 0
      BY <2>1 DEF RawHour
    <3>. QED BY <1>2, <3>1
  <2>2. CASE ~status_b.h24
    <3>1. h % 12 # 0 /\ k = h % 12 /\ pm = IF h >= 12 THEN 128 ELSE 0
      BY <2>2
    <3>. QED BY <2>2, <3>1 DEF RawHour
  <2>. QED BY <2>1, <2>2
<1>4. Back(r) = k
  BY <1>1, RawBack
<1>5. ((r + pm) \div 128) * 128 = pm /\ (r + pm) % 128 = r
  <2>1. \A n \in 0..127 : n \div 128 = 0 /\ n % 128 = n /\ (n + 128) \div 128 = 1 /\ (n + 128) % 128 = n
    OBVIOUS
  <2>. HIDE DEF r
  <2>2. (r + 0) \div 128 = 0 /\ (r + 0) % 128 = r /\ (r + 128) \div 128 = 1 /\ (r + 128) % 128 = r
    BY <1>2, <2>1
  <2>3. CASE pm = 0
    BY <2>2, <2>3
  <2>4. CASE pm = 128
    BY <2>2, <2>4
  <2>. QED BY <2>3, <2>4
<1>6. To24(k + pm) = h
  <2>1. CASE status_b.h24
    BY <2>1 DEF To24
  <2>2. CASE ~status_b.h24 /\ h < 12
    <3>1. k = h /\ pm = 0
      BY <2>2
    <3>. QED BY <2>2, <3>1 DEF To24
  <2>3. CASE ~status_b.h24 /\ h >= 12
    <3>1. k = h - 12 /\ pm = 128
      BY <2>3
    <3>2. (k + 128) % 128 = k /\ (k + 12) % 24 = h
      BY <2>3, <3>1
    <3>. QED BY <2>3, <3>1, <3>2 DEF To24
  <2>. QED BY <2>1, <2>2, <2>3
<1>. HIDE DEF k, r, pm
<1>7. CASE status_b.binary
  BY <1>3, <1>4, <1>6, <1>7 DEF Back
<1>8. CASE ~status_b.binary
  <2>1. pm + k = k + pm
    BY <1>1 DEF pm
  <2>2. (RawHour(h) \div 128) * 128 + bcd_to_bin(RawHour(h) % 128) = pm + k
    BY <1>3, <1>4, <1>5, <1>8 DEF Back
  <2>. QED BY <1>6, <1>8, <2>1, <2>2
<1>. QED BY <1>7, <1>8

LEMMA FieldSet == FieldNames = {"second", "minute", "hour", "day", "month", "year"}
BY DEF FieldNames, Fields

\* The conversion of six registers of one time is that time.
LEMMA ConvertBack ==
  ASSUME RtcTypeOK, RtcTypeOK', Convert, status_b.h24 \/ clock.hour % 12 # 0,
         \A f \in FieldNames : t[f] = Register(f, clock)
  PROVE  t' = clock
<1>. DEFINE n == IF status_b.binary THEN t ELSE FromBcd(t)
<1>1. /\ clock.second \in 0..99 /\ clock.minute \in 0..99 /\ clock.hour \in 0..23
      /\ clock.day \in 0..99 /\ clock.month \in 0..99
      /\ clock.year - 2000 \in 0..99 /\ clock.year - 2000 + 2000 = clock.year
  BY DEF RtcTypeOK, Time
<1>2. DOMAIN t = FieldNames
  BY DEF RtcTypeOK
<1>3. \A f \in FieldNames \ {"hour"} : n[f] = Back(t[f])
  BY <1>2 DEF FromBcd, Back
<1>4. /\ t["second"] = Raw(clock.second) /\ t["minute"] = Raw(clock.minute)
      /\ t["day"] = Raw(clock.day) /\ t["month"] = Raw(clock.month)
      /\ t["year"] = Raw(clock.year - 2000) /\ t["hour"] = RawHour(clock.hour)
  BY FieldSet DEF Register
<1>5. /\ n["second"] = clock.second /\ n["minute"] = clock.minute
      /\ n["day"] = clock.day /\ n["month"] = clock.month /\ n["year"] = clock.year - 2000
  BY <1>1, <1>3, <1>4, RawBack, FieldSet
<1>6. n["hour"] = IF status_b.binary THEN RawHour(clock.hour)
                  ELSE (RawHour(clock.hour) \div 128) * 128 + bcd_to_bin(RawHour(clock.hour) % 128)
  BY <1>2, <1>4, FieldSet DEF FromBcd
<1>7. To24(n["hour"]) = clock.hour
  BY <1>1, <1>6, HourBack
<1>8. n \in [FieldNames -> Nat]
  BY ConvertTypes DEF RtcTypeOK
<1>9. t' = [n EXCEPT !["hour"] = To24(n["hour"]), !["year"] = n["year"] + 2000]
  BY DEF Convert
<1>. HIDE DEF n
<1>10. \A f \in FieldNames : t'[f] = clock[f]
  <2>. DEFINE hours == To24(n["hour"])
              years == n["year"] + 2000
  <2>1. hours = clock.hour /\ years = clock.year
    BY <1>1, <1>5, <1>7
  <2>2. t' = [n EXCEPT !["hour"] = hours, !["year"] = years]
    BY <1>9
  <2>. HIDE DEF hours, years
  <2>. QED BY <1>5, <1>8, <2>1, <2>2, FieldSet
<1>11. DOMAIN t' = FieldNames /\ t' = [f \in FieldNames |-> t'[f]]
  BY DEF RtcTypeOK
<1>12. clock = [f \in FieldNames |-> clock[f]]
  <2>1. \A c \in Time : DOMAIN c = {"second", "minute", "hour", "day", "month", "year"}
                        /\ c = [f \in DOMAIN c |-> c[f]]
    BY DEF Time
  <2>. QED BY <2>1, FieldSet DEF RtcTypeOK
<1>. QED BY <1>10, <1>11, <1>12

\* A date and time that is read without an update in between is the clock's, in
\* each of the four formats, for every time at which the reading may begin.
THEOREM TimeAlwaysClock == FrameSpec => []TimeIsClock
<1>1. FrameInit => ReadSoFar
  BY DEF FrameInit, RtcInit, ReadSoFar
<1>2. RtcTypeOK /\ RtcTypeOK' /\ ReadSoFar /\ [FrameNext]_frameVars => ReadSoFar'
  <2>. SUFFICES ASSUME RtcTypeOK, RtcTypeOK', ReadSoFar, [FrameNext]_frameVars PROVE ReadSoFar'
    OBVIOUS
  <2>. USE DEF ReadSoFar, cmos
  <2>1. CASE rtc_read_time
    BY <2>1 DEF rtc_read_time
  <2>2. CASE cmos_update_in_progress
    <3>1. CASE update = "none"
      <4>1. reading' = 1 /\ update' = "none"
        BY <2>2, <3>1 DEF cmos_update_in_progress
      <4>. QED BY <4>1 DEF DONE
    <3>2. CASE update # "none"
      <4>1. reading' = 0 /\ UNCHANGED <<update, settled>>
        BY <2>2, <3>2 DEF cmos_update_in_progress, TEST
      <4>. QED BY <4>1 DEF DONE
    <3>. QED BY <3>1, <3>2
  <2>3. CASE cmos_read
    <3>. SUFFICES ASSUME settled PROVE ReadSoFar'
      BY <2>3, Zenon DEF cmos_read
    <3>1. reading \in 1..6 /\ reading' = reading + 1 /\ UNCHANGED <<clock, update, status_b>>
      BY <2>3 DEF cmos_read
    <3>2. Shows(Fields[reading]) = {Register(Fields[reading], clock)}
      BY DEF Shows
    <3>3. t' = [t EXCEPT ![Fields[reading]] = Register(Fields[reading], clock)]
      BY <2>3, <3>2 DEF cmos_read
    <3>4. \A i \in 1..6 : Fields[i] \in DOMAIN t
      BY DEF RtcTypeOK, FieldNames
    <3>5. \A i, j \in 1..6 : i # j => Fields[i] # Fields[j]
      BY DEF Fields
    <3>6. \A i \in 1..6 : i < reading' => t'[Fields[i]] = Register(Fields[i], clock)
      BY <3>1, <3>3, <3>4, <3>5
    <3>7. \A i \in 1..6 : i < reading' => t'[Fields[i]] = Register(Fields[i], clock)'
      BY <3>1, <3>6 DEF Register, RawHour, Raw
    <3>. QED BY <3>1, <3>7 DEF DONE
  <2>4. CASE Convert
    <3>1. \A i \in 1..6 : settled => t[Fields[i]] = Register(Fields[i], clock)
      BY <2>4 DEF Convert
    <3>2. settled => \A f \in FieldNames : t[f] = Register(f, clock)
      BY <3>1 DEF FieldNames
    <3>3. reading' = 8 /\ UNCHANGED <<clock, update, status_b, settled>> /\ reading = 7
      BY <2>4 DEF Convert, DONE
    <3>. QED BY <2>4, <3>2, <3>3, ConvertBack
  <2>5. CASE Announce
    BY <2>5 DEF Announce, Register, RawHour, Raw
  <2>6. CASE BeginUpdate \/ EndUpdate
    BY <2>6 DEF BeginUpdate, EndUpdate
  <2>7. CASE UNCHANGED rtc
    BY <2>7 DEF rtc, Register, RawHour, Raw
  <2>. QED BY <2>1, <2>2, <2>3, <2>4, <2>5, <2>6, <2>7
           DEF FrameNext, FrameStep, DrawTaskbar, ReadClock, Sleep, Sleeping, NextFrame, RtcStep,
               ClockStep, Interrupt, frameVars
<1>3. ReadSoFar => TimeIsClock
  BY DEF ReadSoFar, TimeIsClock
<1>. QED BY <1>1, <1>2, <1>3, FrameTypeCorrect, PTL DEF FrameSpec, FrameTypeOK

-----------------------------------------------------------------------------
(* The boot: types.                                                        *)

OutputByte == [aux : BOOLEAN, byte : Bytes]
OneOrNone(S) == {<< >>} \cup {<<x>> : x \in S}

ControllerOK ==
  /\ command \in Bytes /\ latch \in Bytes
  /\ obuf \in OneOrNone(OutputByte) /\ answer \in OneOrNone(Bytes)
DevicesOK == acks \in 0..2 /\ mouse \in {"missing", "off", "streaming"} /\ packet \in 0..3
PicOK == masked \subseteq Lines /\ irr \subseteq Lines /\ isr \subseteq Lines /\ remapped \in BOOLEAN
ProcessorOK == gates \subseteq 0..47 /\ interrupts \in BOOLEAN /\ faulted \in BOOLEAN
ThreadOK == fb \in BOOLEAN /\ step \in 1..6 /\ exchange \in 1..9 /\ status \in Bytes
DriverOK ==
  /\ handlers \subseteq {32, 33, 44} /\ g_cycle \in 0..2 /\ g_present \in BOOLEAN
  /\ keys \subseteq Bytes
HistoryOK ==
  struck \subseteq KeyBytes /\ late \in 0..MaxLate /\ unasked \in 0..MaxUnasked /\ quiet \in BOOLEAN

\* How many acknowledgements may be out at each point of the dialogue.
AcksOK == acks <= IF exchange <= 5 THEN 0 ELSE IF exchange <= 7 THEN 1 ELSE 2

\* BootTypeOK with the buffers of the 8042 as sequences.
Machine ==
  /\ ControllerOK /\ DevicesOK /\ PicOK /\ ProcessorOK /\ ThreadOK /\ DriverOK /\ HistoryOK
  /\ AcksOK

\* The place of each step in the dialogue.
LEMMA Places ==
  ASSUME ThreadOK
  PROVE  /\ At("enable") => step = 4 /\ exchange = 1
         /\ At("ask") => step = 4 /\ exchange = 2
         /\ At("read") => step = 4 /\ exchange = 3
         /\ At("write") => step = 4 /\ exchange = 4
         /\ At("defaults") => step = 4 /\ exchange = 5
         /\ At("ack") => step = 4 /\ exchange \in {6, 8}
         /\ At("stream") => step = 4 /\ exchange = 7
         /\ At("unmask") => step = 4 /\ exchange = 9
<1>1. \A k \in 1..6 : ~(k > Len(KernelMain)) /\ KernelMain[k] = "mouse_install" => k = 4
  BY DEF KernelMain
<1>2. \A k \in 1..9 :
        /\ Dialogue[k] = "enable" => k = 1
        /\ Dialogue[k] = "ask" => k = 2
        /\ Dialogue[k] = "read" => k = 3
        /\ Dialogue[k] = "write" => k = 4
        /\ Dialogue[k] = "defaults" => k = 5
        /\ Dialogue[k] = "ack" => k \in {6, 8}
        /\ Dialogue[k] = "stream" => k = 7
        /\ Dialogue[k] = "unmask" => k = 9
  BY DEF Dialogue
<1>. QED BY <1>1, <1>2 DEF ThreadOK, At, Calls, Booted

\* The place of each call in kernel_main.
LEMMA CallPlaces ==
  ASSUME ThreadOK
  PROVE  /\ Calls("idt_install") => step = 1
         /\ Calls("timer_install") => step = 2
         /\ Calls("keyboard_install") => step = 3
         /\ Calls("mouse_install") => step = 4
         /\ Calls("enable_interrupts") => step = 5
         /\ Booted <=> step = 6
BY DEF ThreadOK, Calls, Booted, KernelMain

\* What is read of port 0x60 is a byte.
LEMMA PortTypes ==
  ASSUME ControllerOK
  PROVE  /\ PortByte \in Bytes
         /\ ReadPort => latch' \in Bytes /\ obuf' \in OneOrNone(OutputByte)
BY DEF ControllerOK, OneOrNone, OutputByte, PortByte, ReadPort

\* The 8042 and its devices keep their types.
LEMMA DeviceTypes ==
  ASSUME Machine, DeviceStep
  PROVE  Machine'
<1>. USE DEF Machine, AcksOK, controller, devices, pic, processor, thread, driver, history
<1>1. ASSUME NEW byte \in Bytes, NEW aux \in BOOLEAN, Fill(byte, aux)
      PROVE  /\ command' \in Bytes /\ latch' \in Bytes /\ obuf' \in OneOrNone(OutputByte)
             /\ PicOK' /\ ProcessorOK' /\ ThreadOK' /\ DriverOK'
  <2>1. obuf' \in OneOrNone(OutputByte)
    BY <1>1 DEF Fill, OneOrNone, OutputByte
  <2>2. irr' \subseteq Lines
    BY <1>1 DEF Fill, PicOK, Lines
  <2>. QED BY <1>1, <2>1, <2>2 DEF Fill, ControllerOK, PicOK, ProcessorOK, ThreadOK, DriverOK
<1>2. CASE KeyStrikes
  <2>1. PICK b \in KeyBytes : Fill(b, FALSE) /\ struck' = struck \cup {b}
    BY <1>2 DEF KeyStrikes
  <2>2. b \in Bytes
    BY BootAssumption
  <2>3. HistoryOK'
    BY <1>2, <2>1, BootAssumption DEF KeyStrikes, Uninvited, HistoryOK
  <2>. QED BY <1>1, <1>2, <2>1, <2>2, <2>3 DEF KeyStrikes, ControllerOK, DevicesOK, Fill
<1>3. CASE MouseMoves
  <2>1. HistoryOK'
    BY <1>3, BootAssumption DEF MouseMoves, Uninvited, HistoryOK
  <2>. QED BY <1>3, <2>1 DEF MouseMoves, ControllerOK, DevicesOK, PicOK, ProcessorOK, ThreadOK, DriverOK
<1>4. CASE ControllerAnswers
  <2>1. answer[1] \in Bytes /\ answer' \in OneOrNone(Bytes)
    BY <1>4 DEF ControllerAnswers, ControllerOK, OneOrNone
  <2>. QED BY <1>1, <1>4, <2>1 DEF ControllerAnswers, ControllerOK, DevicesOK, HistoryOK, Fill
<1>5. CASE MouseAcknowledges
  <2>1. ACK \in Bytes
    BY DEF ACK, Bytes
  <2>2. acks' \in 0..2 /\ acks' <= acks
    BY <1>5 DEF MouseAcknowledges, DevicesOK
  <2>3. AcksOK'
    BY <1>5, <2>2 DEF MouseAcknowledges, Fill, DevicesOK, ThreadOK
  <2>. QED BY <1>1, <1>5, <2>1, <2>2, <2>3 DEF MouseAcknowledges, ControllerOK, DevicesOK, HistoryOK, Fill
<1>6. CASE MouseSends
  <2>1. Packet[4 - packet] \in Bytes
    BY <1>6, BootAssumption DEF MouseSends, DevicesOK
  <2>2. packet' \in 0..3
    BY <1>6 DEF MouseSends, DevicesOK
  <2>3. Fill(Packet[4 - packet], TRUE) /\ UNCHANGED <<answer, acks, mouse, history>>
    BY <1>6 DEF MouseSends
  <2>4. UNCHANGED exchange
    BY <2>3 DEF Fill
  <2>. QED BY <1>1, <2>1, <2>2, <2>3, <2>4 DEF ControllerOK, DevicesOK, HistoryOK
<1>7. CASE Tick
  BY <1>7 DEF Tick, ControllerOK, DevicesOK, PicOK, ProcessorOK, ThreadOK, DriverOK, HistoryOK, Lines
<1>. QED BY <1>2, <1>3, <1>4, <1>5, <1>6, <1>7 DEF DeviceStep

\* What kernel_main calls keeps the types.
LEMMA BootStepTypes ==
  ASSUME Machine, BootStep
  PROVE  Machine'
<1>. USE DEF Machine, AcksOK, controller, devices, pic, processor, thread, driver, history
<1>1. ASSUME Return, step < 6 PROVE ThreadOK'
  BY <1>1 DEF Return, ThreadOK
<1>2. ASSUME Go, exchange < 9, status' \in Bytes PROVE ThreadOK'
  BY <1>2 DEF Go, ThreadOK
<1>3. CASE idt_install
  BY <1>1, <1>3, CallPlaces
     DEF idt_install, Return, ControllerOK, DevicesOK, PicOK, ProcessorOK, DriverOK, HistoryOK
<1>4. CASE timer_install \/ keyboard_install
  <2>1. handlers' \subseteq {32, 33, 44} /\ UNCHANGED <<g_cycle, g_present, keys>>
    BY <1>4 DEF timer_install, keyboard_install, Registers, DriverOK
  <2>2. ThreadOK' /\ exchange' = exchange
    BY <1>1, <1>4, CallPlaces DEF timer_install, keyboard_install, Return
  <2>3. UNCHANGED <<controller, devices, pic, processor, history>>
    BY <1>4 DEF timer_install, keyboard_install
  <2>4. DriverOK'
    BY <2>1 DEF DriverOK
  <2>. QED BY <2>2, <2>3, <2>4 DEF ControllerOK, DevicesOK, PicOK, ProcessorOK, HistoryOK
<1>5. CASE NoMouseInstall
  BY <1>1, <1>5, CallPlaces
     DEF NoMouseInstall, Return, ControllerOK, DevicesOK, PicOK, ProcessorOK, DriverOK, HistoryOK
<1>6. CASE enable_interrupts
  <2>1. interrupts' \in BOOLEAN
    BY <1>6, Zenon DEF enable_interrupts
  <2>. QED BY <1>1, <1>6, <2>1, CallPlaces
           DEF enable_interrupts, Return, ControllerOK, DevicesOK, PicOK, ProcessorOK, DriverOK, HistoryOK
<1>7. CASE EnableAux
  <2>1. command' \in Bytes /\ handlers' \subseteq {32, 33, 44} /\ acks' = acks
    BY <1>7 DEF EnableAux, Registers, ControllerOK, DriverOK, Bytes
  <2>2. ThreadOK' /\ AcksOK'
    BY <1>2, <1>7, <2>1, Places DEF EnableAux, Go, ThreadOK, DevicesOK
  <2>. QED BY <1>7, <2>1, <2>2
           DEF EnableAux, Registers, ControllerOK, DevicesOK, PicOK, ProcessorOK, DriverOK, HistoryOK
<1>8. CASE AskCommandByte
  <2>1. answer' \in OneOrNone(Bytes)
    BY <1>8 DEF AskCommandByte, ControllerOK, OneOrNone
  <2>2. ThreadOK' /\ AcksOK'
    BY <1>2, <1>8, Places DEF AskCommandByte, Go, ThreadOK, DevicesOK
  <2>. QED BY <1>8, <2>1, <2>2
           DEF AskCommandByte, ControllerOK, DevicesOK, PicOK, ProcessorOK, DriverOK, HistoryOK
<1>9. CASE mouse_read
  <2>1. {} \in Bytes
    BY DEF Bytes
  <2>2. /\ latch' \in Bytes /\ obuf' \in OneOrNone(OutputByte) /\ status' \in Bytes
        /\ late' \in 0..MaxLate
    <3>1. CASE ReadsByte
      BY <3>1, PortTypes DEF ReadsByte, ThreadOK, HistoryOK
    <3>2. CASE GivesUp
      BY <2>1, <3>2, BootAssumption DEF GivesUp, ControllerOK, ThreadOK, HistoryOK
    <3>. QED BY <1>9, <3>1, <3>2 DEF mouse_read, ReadBounded
  <2>3. quiet' \in BOOLEAN
    BY <1>9, Zenon DEF mouse_read, ReadBounded, ReadsByte, GivesUp, HistoryOK
  <2>4. exchange \in {3, 6, 8} /\ exchange' = exchange + 1 /\ acks' = acks
    BY <1>9, Places DEF mouse_read, Go
  <2>5. ThreadOK' /\ AcksOK'
    BY <1>2, <1>9, <2>2, <2>4 DEF mouse_read, DevicesOK
  <2>. QED BY <1>9, <2>2, <2>3, <2>5
           DEF mouse_read, ControllerOK, DevicesOK, PicOK, ProcessorOK, DriverOK, HistoryOK
<1>10. CASE WriteCommandByte
  <2>1. command' \in Bytes
    <3>1. \A b \in Bytes : WithAux(b) \in Bytes
      <4>1. 1 \in 0..7
        OBVIOUS
      <4>. QED BY <4>1 DEF WithAux, Bytes, AUX_INT
    <3>. QED BY <1>10, <3>1 DEF WriteCommandByte, ThreadOK
  <2>2. ThreadOK' /\ AcksOK'
    BY <1>2, <1>10, Places DEF WriteCommandByte, Go, ThreadOK, DevicesOK
  <2>. QED BY <1>10, <2>1, <2>2
           DEF WriteCommandByte, ControllerOK, DevicesOK, PicOK, ProcessorOK, DriverOK, HistoryOK
<1>11. CASE SetDefaults \/ EnableStreaming
  <2>1. exchange \in {5, 7} /\ exchange' = exchange + 1 /\ (acks' = acks \/ acks' = acks + 1)
    BY <1>11, Places DEF SetDefaults, EnableStreaming, MouseCommand, Go
  <2>2. DevicesOK' /\ AcksOK'
    BY <1>11, <2>1 DEF SetDefaults, EnableStreaming, MouseCommand, DevicesOK
  <2>3. ThreadOK'
    BY <1>2, <1>11, <2>1 DEF SetDefaults, EnableStreaming, MouseCommand, ThreadOK
  <2>. QED BY <1>11, <2>2, <2>3
           DEF SetDefaults, EnableStreaming, MouseCommand, ControllerOK, PicOK, ProcessorOK, DriverOK, HistoryOK
<1>12. CASE Unmask
  <2>1. g_present' \in BOOLEAN /\ masked' \subseteq Lines
    BY <1>12, Zenon DEF Unmask, PicOK
  <2>2. ThreadOK' /\ AcksOK'
    BY <1>1, <1>12, Places DEF Unmask, Return
  <2>. QED BY <1>12, <2>1, <2>2
           DEF Unmask, ControllerOK, DevicesOK, PicOK, ProcessorOK, DriverOK, HistoryOK
<1>. QED BY <1>3, <1>4, <1>5, <1>6, <1>7, <1>8, <1>9, <1>10, <1>11, <1>12 DEF BootStep, mouse_install

\* An interrupt keeps the types.
LEMMA IrqTypes ==
  ASSUME Machine, NEW l \in Lines, irq_handler(l)
  PROVE  Machine'
<1>. USE DEF Machine, AcksOK, devices, thread, history
<1>. DEFINE n == l + IF remapped THEN 32 ELSE 8
<1>1. Handler(n)
  BY DEF irq_handler
<1>. HIDE DEF n
<1>2. /\ latch' \in Bytes /\ obuf' \in OneOrNone(OutputByte)
      /\ keys' \subseteq Bytes /\ g_cycle' \in 0..2
  <2>1. CASE n \in handlers \ {32}
    <3>1. n \in {33, 44}
      BY <2>1 DEF DriverOK
    <3>2. CASE n = 33
      <4>1. keyboard_callback
        BY <1>1, <2>1, <3>2 DEF Handler
      <4>. QED BY <4>1, PortTypes DEF keyboard_callback, DriverOK
    <3>3. CASE n = 44
      <4>1. mouse_callback
        BY <1>1, <2>1, <3>3 DEF Handler
      <4>2. \A c \in 0..2 : (c + 1) % 3 \in 0..2
        OBVIOUS
      <4>3. CycleAfter(PortByte) \in 0..2
        BY <4>2 DEF CycleAfter, DriverOK
      <4>. QED BY <4>1, <4>3, PortTypes DEF mouse_callback, ControllerOK, DriverOK
    <3>. QED BY <3>1, <3>2, <3>3
  <2>2. CASE n \notin handlers \ {32}
    BY <1>1, <2>2 DEF Handler, ControllerOK, DriverOK
  <2>. QED BY <2>1, <2>2
<1>3. isr' \subseteq Lines /\ irr' \subseteq Lines
  <2>1. isr \cup {l} \cup (IF l = MOUSE THEN {CASCADE} ELSE {}) \subseteq Lines
    BY DEF PicOK, Lines
  <2>2. \A k, s : EndOfInterrupt(k, s) \subseteq s
    BY DEF EndOfInterrupt, EndMaster, EndSlave
  <2>. QED BY <2>1, <2>2 DEF irq_handler, PicOK
<1>4. faulted' \in BOOLEAN
  BY Zenon DEF irq_handler
<1>5. UNCHANGED <<command, answer, devices, masked, remapped, gates, interrupts, thread, handlers,
                  g_present, history>>
  BY DEF irq_handler
<1>. QED BY <1>2, <1>3, <1>4, <1>5
         DEF ControllerOK, DevicesOK, PicOK, ProcessorOK, ThreadOK, DriverOK, HistoryOK

LEMMA MachineIdle ==
  ASSUME Machine, UNCHANGED bootVars
  PROVE  Machine'
BY DEF Machine, AcksOK, controller, devices, pic, processor, thread, driver, history, bootVars,
       ControllerOK, DevicesOK, PicOK, ProcessorOK, ThreadOK, DriverOK, HistoryOK

\* The machine that the boot loader leaves has the types.
LEMMA MachineInit ==
  ASSUME BootInit
  PROVE  Machine
<1>. USE BootAssumption DEF BootInit
<1>1. {} \in Bytes /\ FALSE \in BOOLEAN
  BY DEF Bytes
<1>2. ControllerOK
  <2>1. obuf \in OneOrNone(OutputByte)
    BY <1>1 DEF OneOrNone, OutputByte
  <2>. QED BY <1>1, <2>1 DEF ControllerOK, OneOrNone
<1>3. ProcessorOK /\ remapped \in BOOLEAN /\ g_present \in BOOLEAN /\ quiet \in BOOLEAN
  BY <1>1, Zenon DEF ProcessorOK
<1>4. DevicesOK /\ ThreadOK /\ AcksOK
  BY <1>1 DEF DevicesOK, ThreadOK, AcksOK
<1>5. PicOK /\ DriverOK /\ HistoryOK
  BY <1>3 DEF PicOK, DriverOK, HistoryOK, Lines
<1>. QED BY <1>2, <1>3, <1>4, <1>5 DEF Machine

LEMMA MachineTypes ==
  ASSUME Machine
  PROVE  BootTypeOK
<1>1. \A S : \A s \in OneOrNone(S) : Len(s) <= 1 /\ \A k \in DOMAIN s : s[k] \in S
  <2>. SUFFICES ASSUME NEW S, NEW s \in OneOrNone(S)
                PROVE  Len(s) <= 1 /\ \A k \in DOMAIN s : s[k] \in S
    OBVIOUS
  <2>1. CASE s = << >>
    BY <2>1
  <2>2. CASE s # << >>
    <3>1. PICK x \in S : s = <<x>>
      BY <2>2 DEF OneOrNone
    <3>. QED BY <3>1
  <2>. QED BY <2>1, <2>2
<1>2. /\ Len(obuf) <= 1 /\ \A k \in DOMAIN obuf : obuf[k] \in OutputByte
      /\ Len(answer) <= 1
  BY <1>1 DEF Machine, ControllerOK
<1>. QED BY <1>1, <1>2 DEF Machine, ControllerOK, DevicesOK, PicOK, ProcessorOK, ThreadOK, DriverOK,
         HistoryOK, OutputByte, BootTypeOK

LEMMA MachineAlways == BootSpec => []Machine
<1>1. Machine /\ [BootNext]_bootVars => Machine'
  BY DeviceTypes, BootStepTypes, IrqTypes, MachineIdle DEF BootNext
<1>. QED BY <1>1, MachineInit, PTL DEF BootSpec

\* Every variable of the 8042, the 8259, the drivers and kernel_main has its type,
\* for every firmware, keyboard and number of late answers.
THEOREM BootTypeCorrect == BootSpec => []BootTypeOK
BY MachineAlways, MachineTypes, PTL

-----------------------------------------------------------------------------
(* The boot: handlers.                                                     *)

\* What is in place at each point of kernel_main and of the dialogue.  The thread's
\* part names what its later steps rely on.
InOrder ==
  /\ ~faulted
  /\ interrupts => step = 6
  /\ step > 1 => remapped /\ gates = 0..47
  /\ step < 4 \/ ~fb => exchange = 1
  /\ handlers = (IF step > 2 THEN {32} ELSE {}) \cup (IF step > 3 THEN {33} ELSE {})
                  \cup (IF exchange > 1 THEN {44} ELSE {})
  /\ fb /\ step > 4 => exchange = 9 /\ g_present /\ masked \cap {CASCADE, MOUSE} = {}
  /\ exchange > 4 => AUX_INT \in command /\ AUX_OFF \notin command

LEMMA InOrderInit == BootInit => InOrder
BY DEF BootInit, InOrder

LEMMA InOrderStep ==
  ASSUME Machine, InOrder, [BootNext]_bootVars
  PROVE  InOrder'
<1>0. ThreadOK
  BY DEF Machine
<1>. USE <1>0
<1>. USE DEF InOrder, controller, devices, pic, processor, thread, driver, history
<1>1. ASSUME UNCHANGED <<command, faulted, interrupts, remapped, gates, fb, step, exchange, handlers,
                         g_present, masked>>
      PROVE  InOrder'
  BY <1>1
<1>2. CASE DeviceStep
  BY <1>1, <1>2
     DEF DeviceStep, KeyStrikes, MouseMoves, ControllerAnswers, MouseAcknowledges, MouseSends, Tick, Fill
<1>3. CASE idt_install
  BY <1>3, CallPlaces DEF idt_install, Return, ThreadOK
<1>4. CASE timer_install
  BY <1>4, CallPlaces DEF timer_install, Registers, Return, ThreadOK
<1>5. CASE keyboard_install
  BY <1>5, CallPlaces DEF keyboard_install, Registers, Return, ThreadOK
<1>6. CASE NoMouseInstall
  BY <1>6, CallPlaces DEF NoMouseInstall, Return, ThreadOK
<1>7. CASE enable_interrupts
  BY <1>7, CallPlaces DEF enable_interrupts, Return, ThreadOK
<1>8. CASE EnableAux
  BY <1>8, Places DEF EnableAux, At, Registers, Go, ThreadOK
<1>9. CASE AskCommandByte
  BY <1>9, Places DEF AskCommandByte, Go, ThreadOK
<1>10. CASE mouse_read
  <2>1. step = 4 /\ exchange \in {3, 6, 8} /\ exchange' = exchange + 1
    BY <1>10, Places DEF mouse_read, Go
  <2>2. UNCHANGED <<command, faulted, interrupts, remapped, gates, fb, step, handlers, g_present, masked>>
    BY <1>10 DEF mouse_read, Go
  <2>. QED BY <2>1, <2>2
<1>11. CASE WriteCommandByte
  <2>1. AUX_INT \in command' /\ AUX_OFF \notin command'
    BY <1>11 DEF WriteCommandByte, WithAux, AUX_INT, AUX_OFF
  <2>. QED BY <1>11, <2>1, Places DEF WriteCommandByte, Go, ThreadOK
<1>12. CASE SetDefaults \/ EnableStreaming
  BY <1>12, Places DEF SetDefaults, EnableStreaming, MouseCommand, Go, ThreadOK
<1>13. CASE Unmask
  BY <1>13, Places DEF Unmask, At, Return, ThreadOK
<1>14. ASSUME NEW l \in Lines, irq_handler(l) PROVE InOrder'
  <2>1. ~faulted'
    <3>1. step = 6 /\ remapped /\ gates = 0..47
      BY <1>14 DEF irq_handler
    <3>2. l + 32 \in 0..47
      BY DEF Lines, TIMER, KEYBOARD, CASCADE, MOUSE
    <3>. QED BY <1>14, <3>1, <3>2 DEF irq_handler
  <2>2. UNCHANGED <<command, interrupts, remapped, gates, fb, step, exchange, handlers, g_present, masked>>
    BY <1>14 DEF irq_handler
  <2>. QED BY <2>1, <2>2
<1>15. CASE UNCHANGED bootVars
  BY <1>1, <1>15 DEF bootVars
<1>. QED BY <1>2, <1>3, <1>4, <1>5, <1>6, <1>7, <1>8, <1>9, <1>10, <1>11, <1>12, <1>13, <1>14, <1>15
         DEF BootNext, BootStep, mouse_install

\* No interrupt is taken to a vector that is not its own, before or after the
\* interrupts are enabled, and the boot ends with every handler in place, whatever
\* comes or stays away in between.
THEOREM HandlersAlwaysReady == BootSpec => []HandlersReady
<1>1. Machine /\ InOrder => HandlersReady
  <2>. SUFFICES ASSUME ThreadOK, InOrder PROVE HandlersReady
    BY DEF Machine
  <2>1. Booted => step = 6
    BY CallPlaces
  <2>. QED BY <2>1 DEF InOrder, HandlersReady
<1>. QED BY <1>1, InOrderInit, InOrderStep, MachineAlways, PTL DEF BootSpec

-----------------------------------------------------------------------------
(* The boot: the keyboard and the parser of the mouse.                     *)

InBuffer == IF obuf # << >> /\ obuf[1].aux THEN 1 ELSE 0

\* The dialogue, if nothing came that nobody asked for and no answer was late.
Asking ==
  /\ packet = 0 /\ g_cycle = 0 /\ latch \notin KeyCodes
  /\ exchange <= 5 => MOUSE \notin irr
  /\ exchange <= 7 => mouse # "streaming"
  /\ exchange <= 4 => \E c \in Commands : command \in {c, c \ {AUX_OFF}}
  /\ exchange # 3 => answer = << >>
  /\ exchange = 3 =>
       /\ acks = 0
       /\ \/ answer = <<command>> /\ obuf = << >>
          \/ answer = << >> /\ obuf = <<[aux |-> FALSE, byte |-> command]>>
  /\ exchange = 4 => status = command
  /\ exchange \in {6, 8} =>
       \/ mouse = "missing" /\ acks = 0 /\ obuf = << >>
       \/ mouse # "missing" /\ acks = 1 /\ obuf = << >>
       \/ mouse # "missing" /\ acks = 0 /\ obuf = <<[aux |-> TRUE, byte |-> ACK]>>
  /\ exchange \notin {3, 6, 8} => obuf = << >> /\ acks = 0

\* The interrupts after it.
Serving ==
  /\ answer = << >> /\ acks = 0
  /\ ~fb => packet = 0 /\ mouse # "streaming" /\ MOUSE \notin irr
  /\ obuf = << >> =>
       /\ packet > 0 => irr \cap {KEYBOARD, MOUSE} = {}
       /\ KEYBOARD \in irr => latch \notin KeyCodes
  /\ (obuf # << >> /\ ~obuf[1].aux) => obuf[1].byte \in struck /\ MOUSE \notin irr
  /\ (obuf # << >> /\ obuf[1].aux) =>
        /\ fb /\ KEYBOARD \notin irr /\ MOUSE \in irr
        /\ obuf[1].byte = Packet[IF packet = 3 THEN 3 ELSE 3 - packet]
  /\ (g_cycle + InBuffer) % 3 = (3 - packet) % 3

\* The keyboard's interrupt, its keys and the parser of the mouse, until somebody
\* interferes.
Undisturbed ==
  /\ isr = {} /\ masked \subseteq {CASCADE, MOUSE}
  /\ quiet =>
       /\ KBD_INT \in command /\ KBD_OFF \notin command /\ keys \subseteq struck
       /\ step < 6 => Asking
       /\ step = 6 => Serving

LEMMA UndisturbedInit ==
  ASSUME BootInit
  PROVE  Undisturbed
<1>1. {} \notin KeyCodes /\ KBD_INT \in command /\ KBD_OFF \notin command
  BY BootAssumption DEF BootInit
<1>2. isr = {} /\ masked \subseteq {CASCADE, MOUSE} /\ keys \subseteq struck /\ step = 1
  BY DEF BootInit
<1>3. quiet => obuf = << >>
  BY DEF BootInit
<1>4. /\ exchange = 1 /\ packet = 0 /\ g_cycle = 0 /\ latch = {} /\ answer = << >> /\ acks = 0
      /\ mouse # "streaming" /\ irr = {} /\ command \in Commands
  BY DEF BootInit
<1>5. quiet => Asking
  BY <1>1, <1>3, <1>4 DEF Asking
<1>. QED BY <1>1, <1>2, <1>5 DEF Undisturbed

\* Where the kernel is listening and the buffer is empty, nothing is requested.
LEMMA ListeningIsQuiet ==
  ASSUME ThreadOK, Listening
  PROVE  /\ step = 6
         /\ obuf = << >> => KEYBOARD \notin irr /\ MOUSE \notin irr
  BY CallPlaces DEF Listening

\* The 8042 and its devices leave the dialogue and the service as they should be.
LEMMA DevicesUndisturbing ==
  ASSUME Machine, InOrder, Undisturbed, DeviceStep
  PROVE  Undisturbed'
<1>. USE DEF controller, devices, pic, processor, thread, driver, history
<1>1. ThreadOK /\ ControllerOK /\ DevicesOK /\ DriverOK
  BY DEF Machine
<1>2. TIMER # MOUSE /\ TIMER # KEYBOARD /\ MOUSE # KEYBOARD
  BY DEF TIMER, MOUSE, KEYBOARD
<1>3. CASE KeyStrikes
  <2>1. PICK b \in KeyBytes : Fill(b, FALSE) /\ struck' = struck \cup {b}
    BY <1>3 DEF KeyStrikes
  <2>2. /\ obuf = << >> /\ obuf' = <<[aux |-> FALSE, byte |-> b]>>
        /\ irr' = irr \cup (IF KBD_INT \in command THEN {KEYBOARD} ELSE {})
        /\ UNCHANGED <<command, latch, answer, masked, isr, fb, step, keys, g_cycle, devices>>
    BY <1>3, <2>1 DEF KeyStrikes, Fill
  <2>3. quiet' => quiet /\ Listening
    BY <1>3, Zenon DEF KeyStrikes, Uninvited
  <2>4. isr' = {} /\ masked' \subseteq {CASCADE, MOUSE} /\ keys' \subseteq keys /\ struck \subseteq struck'
    BY <2>1, <2>2 DEF Undisturbed
  <2>5. ASSUME quiet'
        PROVE  step' = 6 /\ KBD_INT \in command' /\ KBD_OFF \notin command' /\ keys' \subseteq struck' /\ Serving'
    <3>1. step = 6 /\ Serving /\ MOUSE \notin irr
      BY <2>2, <2>3, <2>5, <1>1, ListeningIsQuiet DEF Undisturbed
    <3>2. obuf' # << >> /\ ~obuf'[1].aux /\ obuf'[1].byte \in struck' /\ InBuffer' = 0 /\ InBuffer = 0
      BY <2>1, <2>2 DEF InBuffer
    <3>3. MOUSE \notin irr'
      BY <1>2, <2>2, <3>1
    <3>4. Serving'
      BY <2>2, <3>1, <3>2, <3>3 DEF Serving
    <3>. QED BY <2>2, <2>3, <2>4, <2>5, <3>1, <3>4 DEF Undisturbed
  <2>. QED BY <2>4, <2>5 DEF Undisturbed
<1>4. CASE MouseMoves
  <2>1. /\ mouse = "streaming" /\ packet = 0 /\ packet' = 3
        /\ UNCHANGED <<command, obuf, latch, answer, acks, mouse, irr, masked, isr, fb, step, keys,
                       g_cycle, struck>>
    BY <1>4 DEF MouseMoves
  <2>2. quiet' => quiet /\ Listening
    BY <1>4, Zenon DEF MouseMoves, Uninvited
  <2>3. ASSUME quiet' PROVE step = 6 /\ Serving'
    <3>1. step = 6 /\ Serving /\ fb /\ (obuf = << >> => KEYBOARD \notin irr /\ MOUSE \notin irr)
      BY <2>1, <2>2, <2>3, <1>1, ListeningIsQuiet DEF Undisturbed, Serving
    <3>2. (obuf # << >> /\ obuf[1].aux) => obuf[1].byte = Packet[IF packet' = 3 THEN 3 ELSE 3 - packet']
      BY <2>1, <3>1 DEF Serving
    <3>3. (g_cycle' + InBuffer') % 3 = (3 - packet') % 3
      BY <2>1, <3>1 DEF Serving, InBuffer
    <3>. QED BY <2>1, <3>1, <3>2, <3>3 DEF Serving
  <2>. QED BY <2>1, <2>2, <2>3 DEF Undisturbed
<1>5. CASE ControllerAnswers
  <2>1. /\ obuf = << >> /\ obuf' = <<[aux |-> FALSE, byte |-> answer[1]]>> /\ answer # << >> /\ answer' = << >>
        /\ irr' = irr \cup (IF KBD_INT \in command THEN {KEYBOARD} ELSE {})
        /\ UNCHANGED <<command, latch, masked, isr, fb, step, exchange, status, keys, g_cycle, devices, history>>
    BY <1>5 DEF ControllerAnswers, Fill
  <2>2. ASSUME quiet PROVE step < 6 /\ Asking'
    <3>1. step < 6 /\ Asking /\ exchange = 3 /\ answer = <<command>>
      BY <1>1, <2>1, <2>2 DEF Undisturbed, Serving, Asking, ThreadOK
    <3>2. obuf' = <<[aux |-> FALSE, byte |-> command']>> /\ (MOUSE \in irr' => MOUSE \in irr)
      BY <1>2, <2>1, <3>1
    <3>. QED BY <2>1, <3>1, <3>2 DEF Asking
  <2>. QED BY <2>1, <2>2 DEF Undisturbed
<1>6. CASE MouseAcknowledges
  <2>1. /\ acks > 0 /\ acks' = acks - 1
        /\ obuf = << >> /\ obuf' = <<[aux |-> TRUE, byte |-> ACK]>>
        /\ irr' = irr \cup (IF AUX_INT \in command THEN {MOUSE} ELSE {})
        /\ UNCHANGED <<command, latch, answer, mouse, packet, masked, isr, fb, step, exchange, status, keys,
                       g_cycle, history>>
    BY <1>6 DEF MouseAcknowledges, Fill
  <2>2. ASSUME quiet PROVE step < 6 /\ Asking'
    <3>1. step < 6 /\ Asking /\ exchange \in {6, 8} /\ acks = 1 /\ mouse # "missing"
      BY <1>1, <2>1, <2>2 DEF Undisturbed, Serving, Asking, ThreadOK
    <3>. QED BY <2>1, <3>1 DEF Asking
  <2>. QED BY <2>1, <2>2 DEF Undisturbed
<1>7. CASE MouseSends
  <2>1. /\ packet > 0 /\ packet' = packet - 1
        /\ obuf = << >> /\ obuf' = <<[aux |-> TRUE, byte |-> Packet[4 - packet]]>>
        /\ irr' = irr \cup (IF AUX_INT \in command THEN {MOUSE} ELSE {})
        /\ UNCHANGED <<command, latch, answer, acks, mouse, masked, isr, fb, step, exchange, status, keys,
                       g_cycle, history>>
    BY <1>7 DEF MouseSends, Fill
  <2>2. ASSUME quiet PROVE step = 6 /\ Serving'
    <3>1. step = 6 /\ Serving /\ fb /\ KEYBOARD \notin irr
      BY <1>1, <2>1, <2>2 DEF Undisturbed, Serving, Asking, ThreadOK
    <3>2. AUX_INT \in command
      BY <3>1 DEF InOrder
    <3>3. packet' \in 0..2 /\ 4 - packet = 3 - packet'
      BY <1>1, <2>1 DEF DevicesOK
    <3>4. InBuffer = 0 /\ InBuffer' = 1
      BY <2>1 DEF InBuffer
    <3>5. (g_cycle' + InBuffer') % 3 = (3 - packet') % 3
      <4>1. g_cycle \in 0..2 /\ packet \in 1..3
        BY <1>1, <2>1 DEF DriverOK, DevicesOK
      <4>2. (g_cycle + 0) % 3 = (3 - packet) % 3
        BY <3>1, <3>4 DEF Serving
      <4>3. \A g \in 0..2, k \in 1..3 : (g + 0) % 3 = (3 - k) % 3 => (g + 1) % 3 = (3 - (k - 1)) % 3
        OBVIOUS
      <4>. QED BY <2>1, <3>4, <4>1, <4>2, <4>3
    <3>6. KEYBOARD \notin irr' /\ MOUSE \in irr'
      BY <1>2, <2>1, <3>1, <3>2
    <3>7. obuf' # << >> /\ obuf'[1].aux /\ obuf'[1].byte = Packet[IF packet' = 3 THEN 3 ELSE 3 - packet']
      BY <2>1, <3>3
    <3>8. answer' = << >> /\ acks' = 0 /\ fb'
      BY <2>1, <3>1 DEF Serving
    <3>. QED BY <2>1, <3>1, <3>5, <3>6, <3>7, <3>8 DEF Serving
  <2>. QED BY <2>1, <2>2 DEF Undisturbed
<1>8. CASE Tick
  <2>1. /\ irr' = irr \cup {TIMER}
        /\ UNCHANGED <<controller, devices, masked, isr, fb, step, exchange, status, keys, g_cycle, history>>
    BY <1>8 DEF Tick
  <2>2. (MOUSE \in irr' <=> MOUSE \in irr) /\ (KEYBOARD \in irr' <=> KEYBOARD \in irr)
    BY <1>2, <2>1
  <2>3. Asking => Asking'
    BY <2>1, <2>2 DEF Asking
  <2>4. Serving => Serving'
    BY <2>1, <2>2 DEF Serving, InBuffer
  <2>. QED BY <2>1, <2>3, <2>4 DEF Undisturbed
<1>. QED BY <1>3, <1>4, <1>5, <1>6, <1>7, <1>8 DEF DeviceStep

\* kernel_main and mouse_install go on as they should.
LEMMA BootUndisturbing ==
  ASSUME Machine, InOrder, Undisturbed, BootStep
  PROVE  Undisturbed'
<1>. USE DEF controller, devices, pic, processor, thread, driver, history
<1>1. ThreadOK /\ ControllerOK /\ DevicesOK /\ DriverOK
  BY DEF Machine
<1>2. isr = {} /\ masked \subseteq {CASCADE, MOUSE}
  BY DEF Undisturbed
<1>3. quiet /\ step < 6 => Asking /\ KBD_INT \in command /\ KBD_OFF \notin command /\ keys \subseteq struck
  BY DEF Undisturbed
<1>4. CASE idt_install \/ timer_install \/ keyboard_install \/ NoMouseInstall
  <2>1. step < 5 /\ step' = step + 1 /\ exchange = 1
    BY <1>1, <1>4, CallPlaces
       DEF idt_install, timer_install, keyboard_install, NoMouseInstall, Return, ThreadOK, InOrder
  <2>2. /\ UNCHANGED <<controller, devices, masked, exchange, status, g_cycle, keys, history>>
        /\ isr' = {} /\ irr' \subseteq irr
    BY <1>2, <1>4 DEF idt_install, timer_install, keyboard_install, NoMouseInstall, Return, Registers
  <2>3. quiet => Asking'
    BY <1>1, <1>3, <2>1, <2>2 DEF Asking, ThreadOK
  <2>. QED BY <1>1, <1>2, <1>3, <2>1, <2>2, <2>3 DEF Undisturbed, ThreadOK
<1>5. CASE enable_interrupts
  <2>1. step = 5 /\ step' = 6
        /\ UNCHANGED <<controller, devices, irr, isr, masked, fb, exchange, g_cycle, keys, history>>
    BY <1>1, <1>5, CallPlaces DEF enable_interrupts, Return
  <2>2. quiet => Serving'
    <3>. SUFFICES ASSUME quiet PROVE Serving'
      OBVIOUS
    <3>1. Asking /\ exchange \in {1, 9} /\ (~fb => exchange = 1)
      BY <1>3, <2>1 DEF InOrder
    <3>2. /\ obuf = << >> /\ answer = << >> /\ acks = 0 /\ packet = 0 /\ g_cycle = 0 /\ latch \notin KeyCodes
          /\ ~fb => mouse # "streaming" /\ MOUSE \notin irr
      BY <3>1 DEF Asking
    <3>3. InBuffer' = 0
      BY <2>1, <3>2 DEF InBuffer
    <3>4. (0 + 0) % 3 = (3 - 0) % 3
      OBVIOUS
    <3>. QED BY <2>1, <3>2, <3>3, <3>4 DEF Serving
  <2>. QED BY <1>2, <1>3, <2>1, <2>2 DEF Undisturbed
<1>6. CASE EnableAux
  <2>1. /\ step = 4 /\ exchange = 1 /\ exchange' = 2 /\ command' = command \ {AUX_OFF}
        /\ UNCHANGED <<obuf, latch, answer, devices, irr, isr, masked, step, status, g_cycle, keys, history>>
    BY <1>1, <1>6, Places DEF EnableAux, Go, Registers
  <2>2. quiet => Asking' /\ KBD_INT \in command' /\ KBD_OFF \notin command'
    <3>. SUFFICES ASSUME quiet PROVE Asking' /\ KBD_INT \in command' /\ KBD_OFF \notin command'
      OBVIOUS
    <3>1. PICK c \in Commands : command \in {c, c \ {AUX_OFF}}
      BY <1>3, <2>1 DEF Asking
    <3>2. command' = c \ {AUX_OFF}
      BY <2>1, <3>1
    <3>3. KBD_INT \in command' /\ KBD_OFF \notin command'
      BY <1>3, <2>1 DEF KBD_INT, AUX_OFF
    <3>. QED BY <1>3, <2>1, <3>2, <3>3 DEF Asking
  <2>. QED BY <1>2, <1>3, <2>1, <2>2 DEF Undisturbed
<1>7. CASE AskCommandByte
  <2>1. /\ step = 4 /\ exchange = 2 /\ exchange' = 3 /\ answer' = <<command>>
        /\ UNCHANGED <<command, obuf, latch, devices, irr, isr, masked, step, status, g_cycle, keys, history>>
    BY <1>1, <1>7, Places DEF AskCommandByte, Go
  <2>2. quiet => Asking'
    BY <1>3, <2>1 DEF Asking
  <2>. QED BY <1>2, <1>3, <2>1, <2>2 DEF Undisturbed
<1>8. CASE mouse_read
  <2>1. /\ step = 4 /\ exchange \in {3, 6, 8} /\ exchange' = exchange + 1
        /\ At("read") => exchange = 3
        /\ At("ack") => exchange # 3
        /\ UNCHANGED <<command, answer, devices, irr, isr, masked, step, g_cycle, keys, struck>>
    BY <1>1, <1>8, Places DEF mouse_read, Go
  <2>2. exchange = 3 => At("read")
    BY <1>8, <2>1 DEF mouse_read
  <2>3. ReadsByte \/ GivesUp
    BY <1>8 DEF mouse_read, ReadBounded
  <2>4. quiet' => quiet
    BY <2>3, Zenon DEF ReadsByte, GivesUp
  <2>5. quiet' => Asking'
    <3>. SUFFICES ASSUME quiet' PROVE Asking'
      OBVIOUS
    <3>1. Asking
      BY <1>3, <2>1, <2>4
    <3>2. CASE ReadsByte
      <4>1. obuf # << >> /\ obuf' = << >> /\ latch' = obuf[1].byte
        BY <3>2 DEF ReadsByte, ReadPort, PortByte
      <4>2. CASE exchange = 3
        <5>1. obuf[1].byte = command /\ answer = << >> /\ acks = 0
          BY <3>1, <4>1, <4>2 DEF Asking
        <5>2. status' = command
          BY <2>2, <3>2, <4>1, <4>2, <5>1 DEF ReadsByte, PortByte
        <5>3. command \notin KeyCodes
          BY <3>1, <4>2, BootAssumption DEF Asking
        <5>. QED BY <2>1, <3>1, <4>1, <4>2, <5>1, <5>2, <5>3 DEF Asking
      <4>3. CASE exchange # 3
        <5>1. obuf[1].byte = ACK /\ acks = 0
          BY <2>1, <3>1, <4>1, <4>3 DEF Asking
        <5>2. ACK \notin KeyCodes
          BY BootAssumption DEF ACK, BREAK
        <5>. QED BY <2>1, <3>1, <4>1, <4>3, <5>1, <5>2 DEF Asking
      <4>. QED BY <4>2, <4>3
    <3>3. CASE GivesUp
      <4>1. obuf = << >> /\ UNCHANGED <<obuf, latch>>
        BY <3>3 DEF GivesUp
      <4>2. ~Due
        BY <3>3, Zenon DEF GivesUp
      <4>3. exchange # 3 /\ acks = 0 /\ answer = << >>
        BY <2>1, <3>1, <4>1, <4>2 DEF Due, Asking, DevicesOK
      <4>. QED BY <2>1, <3>1, <4>1, <4>3 DEF Asking
    <3>. QED BY <2>3, <3>2, <3>3
  <2>. QED BY <1>2, <1>3, <2>1, <2>4, <2>5 DEF Undisturbed
<1>9. CASE WriteCommandByte
  <2>1. /\ step = 4 /\ exchange = 4 /\ exchange' = 5 /\ command' = WithAux(status)
        /\ UNCHANGED <<obuf, latch, answer, devices, irr, isr, masked, step, status, g_cycle, keys, history>>
    BY <1>1, <1>9, Places DEF WriteCommandByte, Go
  <2>2. quiet => Asking' /\ KBD_INT \in command' /\ KBD_OFF \notin command'
    <3>. SUFFICES ASSUME quiet PROVE Asking' /\ KBD_INT \in command' /\ KBD_OFF \notin command'
      OBVIOUS
    <3>1. Asking /\ status = command
      BY <1>3, <2>1 DEF Asking
    <3>2. KBD_INT \in command' /\ KBD_OFF \notin command'
      BY <1>3, <2>1, <3>1 DEF WithAux, KBD_INT, KBD_OFF, AUX_INT, AUX_OFF
    <3>. QED BY <2>1, <3>1, <3>2 DEF Asking
  <2>. QED BY <1>2, <1>3, <2>1, <2>2 DEF Undisturbed
<1>10. CASE SetDefaults \/ EnableStreaming
  <2>1. /\ step = 4 /\ exchange \in {5, 7} /\ exchange' = exchange + 1
        /\ \/ mouse = "missing" /\ UNCHANGED devices
           \/ /\ mouse # "missing" /\ acks' = acks + 1 /\ packet' = packet
              /\ mouse' = IF exchange = 5 THEN "off" ELSE "streaming"
        /\ UNCHANGED <<controller, irr, isr, masked, step, status, g_cycle, keys, history>>
    BY <1>1, <1>10, Places DEF SetDefaults, EnableStreaming, MouseCommand, Go
  <2>2. quiet => Asking'
    BY <1>3, <2>1 DEF Asking
  <2>. QED BY <1>2, <1>3, <2>1, <2>2 DEF Undisturbed
<1>11. CASE Unmask
  <2>1. /\ step = 4 /\ step' = 5 /\ exchange = 9 /\ masked' \subseteq masked
        /\ UNCHANGED <<controller, devices, irr, isr, exchange, status, g_cycle, keys, history>>
    BY <1>1, <1>11, Places DEF Unmask, Return
  <2>2. quiet => Asking'
    BY <1>3, <2>1 DEF Asking
  <2>. QED BY <1>2, <1>3, <2>1, <2>2 DEF Undisturbed
<1>. QED BY <1>4, <1>5, <1>6, <1>7, <1>8, <1>9, <1>10, <1>11 DEF BootStep, mouse_install

\* After an interrupt no service is left, neither of the first nor of the second 8259.
LEMMA ServiceEnds ==
  ASSUME NEW l \in Lines
  PROVE  EndOfInterrupt(l + 32, {l} \cup IF l = MOUSE THEN {CASCADE} ELSE {}) = {}
<1>. USE DEF TIMER, KEYBOARD, CASCADE, MOUSE
<1>1. \A k \in 0..2 : Highest({k}) = k
  BY DEF Highest
<1>2. \A k \in 0..2 : EndMaster({k}) = {}
  <2>. SUFFICES ASSUME NEW k \in 0..2 PROVE EndMaster({k}) = {}
    OBVIOUS
  <2>1. {k} \ {12} = {k} /\ ~({k} \subseteq {12})
    OBVIOUS
  <2>. QED BY <1>1, <2>1 DEF EndMaster
<1>3. CASE l = 12
  <2>1. EndSlave({12} \cup {2}) = {2}
    BY DEF EndSlave
  <2>. QED BY <1>2, <1>3, <2>1 DEF EndOfInterrupt
<1>4. CASE l \in 0..2
  <2>1. ~(l + 32 >= 40) /\ ({l} \cup IF l = 12 THEN {2} ELSE {}) = {l}
    BY <1>4
  <2>. QED BY <1>2, <1>4, <2>1 DEF EndOfInterrupt
<1>. QED BY <1>3, <1>4 DEF Lines

\* The handlers take what is theirs: the keyboard's a key that was typed, the
\* mouse's the next byte of a packet.
LEMMA IrqUndisturbing ==
  ASSUME Machine, InOrder, Undisturbed, NEW l \in Lines, irq_handler(l)
  PROVE  Undisturbed'
<1>. USE DEF devices, thread, history
<1>1. /\ step = 6 /\ remapped
      /\ irr' = irr \ {l} /\ Handler(l + 32) /\ isr' = EndOfInterrupt(l + 32, {l} \cup IF l = MOUSE THEN {CASCADE} ELSE {})
      /\ UNCHANGED <<command, answer, devices, masked, thread, history>>
  <2>1. interrupts /\ remapped
    BY DEF irq_handler, InOrder
  <2>2. isr \cup {l} \cup (IF l = MOUSE THEN {CASCADE} ELSE {}) = {l} \cup IF l = MOUSE THEN {CASCADE} ELSE {}
    BY DEF Undisturbed
  <2>. QED BY <2>1, <2>2 DEF irq_handler, InOrder
<1>2. isr' = {}
  BY <1>1, ServiceEnds
<1>3. ASSUME quiet PROVE keys' \subseteq struck /\ Serving'
  <2>1. Serving /\ keys \subseteq struck
    BY <1>1, <1>3 DEF Undisturbed
  <2>2. g_cycle \in 0..2 /\ packet \in 0..3
    BY DEF Machine, DriverOK, DevicesOK
  <2>3. CASE l + 32 \notin handlers \ {32}
    <3>1. UNCHANGED <<obuf, latch, keys, g_cycle>>
      BY <1>1, <2>3 DEF Handler
    <3>2. ~(l = MOUSE /\ fb) /\ l # KEYBOARD
      BY <1>1, <2>3 DEF InOrder, KEYBOARD, MOUSE
    <3>3. (KEYBOARD \in irr' <=> KEYBOARD \in irr) /\ (fb => (MOUSE \in irr' <=> MOUSE \in irr))
          /\ irr' \subseteq irr
      BY <1>1, <3>2
    <3>. QED BY <1>1, <2>1, <3>1, <3>3 DEF Serving, InBuffer
  <2>4. CASE l = KEYBOARD /\ l + 32 \in handlers \ {32}
    <3>1. keyboard_callback
      BY <1>1, <2>4 DEF Handler, KEYBOARD
    <3>2. /\ obuf' = << >> /\ latch' = PortByte /\ UNCHANGED g_cycle
          /\ keys' = IF PortByte \in KeyCodes THEN keys \cup {PortByte} ELSE keys
      BY <3>1 DEF keyboard_callback, ReadPort
    <3>3. KEYBOARD \in irr /\ KEYBOARD \notin irr' /\ (MOUSE \in irr' => MOUSE \in irr)
      BY <1>1, <2>4 DEF irq_handler, Passes
    <3>4. CASE obuf = << >>
      <4>1. packet = 0 /\ PortByte \notin KeyCodes
        BY <2>1, <2>2, <3>3, <3>4 DEF Serving, PortByte
      <4>2. InBuffer' = 0 /\ InBuffer = 0
        BY <3>2, <3>4 DEF InBuffer
      <4>. QED BY <1>1, <2>1, <3>2, <3>3, <4>1, <4>2 DEF Serving
    <3>5. CASE obuf # << >>
      <4>1. ~obuf[1].aux /\ PortByte \in struck /\ MOUSE \notin irr
        BY <2>1, <3>3, <3>5 DEF Serving, PortByte
      <4>2. InBuffer' = 0 /\ InBuffer = 0
        BY <3>2, <4>1 DEF InBuffer
      <4>. QED BY <1>1, <2>1, <3>2, <3>3, <4>1, <4>2 DEF Serving
    <3>. QED BY <3>4, <3>5
  <2>5. CASE l = MOUSE /\ l + 32 \in handlers \ {32}
    <3>1. mouse_callback
      BY <1>1, <2>5 DEF Handler, MOUSE
    <3>2. MOUSE \in irr /\ MOUSE \notin irr' /\ (KEYBOARD \in irr' <=> KEYBOARD \in irr)
      BY <1>1, <2>5 DEF irq_handler, Passes, KEYBOARD, MOUSE
    <3>3. CASE obuf = << >>
      <4>1. UNCHANGED <<obuf, latch, g_cycle, keys>>
        BY <3>1, <3>3 DEF mouse_callback
      <4>2. packet = 0
        BY <2>1, <2>2, <3>2, <3>3 DEF Serving
      <4>. QED BY <1>1, <2>1, <3>2, <3>3, <4>1, <4>2 DEF Serving, InBuffer
    <3>4. CASE obuf # << >>
      <4>1. obuf[1].aux /\ fb /\ KEYBOARD \notin irr /\ PortByte = Packet[IF packet = 3 THEN 3 ELSE 3 - packet]
        BY <2>1, <3>2, <3>4 DEF Serving, PortByte
      <4>2. obuf' = << >> /\ g_cycle' = CycleAfter(PortByte) /\ keys' = keys
        BY <3>1, <3>4 DEF mouse_callback, ReadPort
      <4>3. InBuffer = 1 /\ InBuffer' = 0
        BY <3>4, <4>1, <4>2 DEF InBuffer
      <4>4. (g_cycle + 1) % 3 = (3 - packet) % 3
        BY <2>1, <2>2, <4>1, <4>3 DEF Serving
      <4>5. \A g \in 0..2, k \in 0..3 : (g + 1) % 3 = (3 - k) % 3 =>
              (g = 0 => k # 3 /\ 3 - k = 1) /\ (((g + 1) % 3) + 0) % 3 = (3 - k) % 3
        OBVIOUS
      <4>6. g_cycle = 0 => SYNC \in PortByte
        BY <2>2, <4>1, <4>4, <4>5, BootAssumption
      <4>7. (g_cycle' + InBuffer') % 3 = (3 - packet') % 3
        BY <1>1, <2>2, <4>2, <4>3, <4>4, <4>5, <4>6 DEF CycleAfter
      <4>. QED BY <1>1, <2>1, <3>2, <4>1, <4>2, <4>7 DEF Serving
    <3>. QED BY <3>3, <3>4
  <2>6. l + 32 \in handlers \ {32} => l \in {KEYBOARD, MOUSE}
    BY DEF InOrder, Lines, TIMER, KEYBOARD, CASCADE, MOUSE
  <2>. QED BY <2>3, <2>4, <2>5, <2>6
<1>. QED BY <1>1, <1>2, <1>3 DEF Undisturbed

LEMMA UndisturbedAlways == BootSpec => [](Machine /\ InOrder /\ Undisturbed)
<1>1. BootInit => InOrder /\ Undisturbed
  BY InOrderInit, UndisturbedInit
<1>2. Machine /\ InOrder /\ Undisturbed /\ [BootNext]_bootVars => (InOrder /\ Undisturbed)'
  <2>1. Machine /\ Undisturbed /\ UNCHANGED bootVars => Undisturbed'
    BY DEF bootVars, controller, devices, pic, processor, thread, driver, history,
           Undisturbed, Asking, Serving, InBuffer
  <2>. QED BY <2>1, InOrderStep, DevicesUndisturbing, BootUndisturbing, IrqUndisturbing DEF BootNext
<1>. QED BY <1>1, <1>2, MachineAlways, PTL DEF BootSpec

\* The keyboard survives the boot: after one during which nothing is late and
\* nothing comes that nobody asked for, its interrupt is as it was and no key is
\* there that was not typed, whatever the firmware, the codes and the mouse.
THEOREM KeyboardAlwaysSurvives == BootSpec => []KeyboardSurvives
<1>1. Machine /\ Undisturbed => KeyboardSurvives
  BY CallPlaces DEF Machine, Undisturbed, KeyboardSurvives
<1>. QED BY <1>1, UndisturbedAlways, PTL

\* The parser of the mouse is in step with its packets after such a boot, for every
\* packet that starts with the sync bit, also if its other bytes have that bit.
THEOREM MouseAlwaysInStep == BootSpec => []MouseInStep
<1>1. Machine /\ Undisturbed => MouseInStep
  BY CallPlaces DEF Machine, Undisturbed, Serving, InBuffer, MouseInStep
<1>. QED BY <1>1, UndisturbedAlways, PTL
=============================================================================

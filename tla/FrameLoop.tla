----------------------------- MODULE FrameLoop -----------------------------
(***************************************************************************)
(* src/gui.c, gui_start_pixel: the loop of the desktop as far as it        *)
(* depends on time.  Every frame draws the taskbar, which reads the clock, *)
(* and then sleeps; ticks and other interrupts come at any moment.         *)
(***************************************************************************)
EXTENDS Timer, Rtc

VARIABLE turn   \* "draw", "read" or "sleep"

frameVars == <<timer, rtc, turn>>

FrameTypeOK == TimerTypeOK /\ RtcTypeOK /\ turn \in {"draw", "read", "sleep"}

FrameInit == TimerInit /\ RtcInit /\ turn = "draw"

\* draw_taskbar.
DrawTaskbar == turn = "draw" /\ turn' = "read" /\ rtc_read_time /\ UNCHANGED timer

ReadClock == turn = "read" /\ RtcStep /\ UNCHANGED <<timer, turn>>

Sleep ==
  /\ turn = "read" /\ reading = DONE
  /\ turn' = "sleep"
  /\ \E ms \in Requests : timer_sleep(ms)
  /\ UNCHANGED rtc

Sleeping == turn = "sleep" /\ (Test \/ Halt) /\ UNCHANGED <<rtc, turn>>

\* The next turn: keys, the mouse, and the frame again.
NextFrame ==
  /\ turn = "sleep" /\ at = "awake"
  /\ turn' = "draw"
  /\ UNCHANGED <<timer, rtc>>

FrameStep == DrawTaskbar \/ ReadClock \/ Sleep \/ Sleeping \/ NextFrame

ClockStep == (Announce \/ BeginUpdate \/ EndUpdate) /\ UNCHANGED <<timer, turn>>

Interrupt == (TimerIrq \/ OtherIrq) /\ UNCHANGED <<rtc, turn>>

FrameNext == FrameStep \/ ClockStep \/ Interrupt

FrameSpec == FrameInit /\ [][FrameNext]_frameVars

\* The processor runs, the timer interrupts for ever, an announced update ends.
FrameFairSpec ==
  FrameSpec /\ WF_frameVars(FrameStep) /\ WF_frameVars(TimerIrq /\ UNCHANGED <<rtc, turn>>)
       /\ WF_frameVars((BeginUpdate \/ EndUpdate) /\ UNCHANGED <<timer, turn>>)

-----------------------------------------------------------------------------
(* Properties.                                                             *)

\* timer_sleep lasts its number of ticks, however many other interrupts end its
\* HLT and whichever tick falls between its test and its HLT; that one costs one
\* tick more.  Only where the end would be at or past the last value of
\* tick_count does the comparison give no such promise.
SleepsItsTicks ==
  (at = "awake" /\ turn = "sleep" /\ started + ticks < WORD - 1)
    => elapsed \in {ticks, ticks + 1}

\* What rtc_read_time returns is the time, in all four formats of the clock, if no
\* update began after the test of UIP.  At the hours 0 and 12 of a 12-hour clock
\* it is not: the code adds 12 to 12 PM and nothing to 12 AM.
TimeIsClock ==
  (reading = DONE /\ settled /\ (status_b.h24 \/ clock.hour % 12 # 0)) => t = clock

\* The desktop draws for ever: no sleep and no read of the clock hangs.  A sleep
\* that ends with the last value of tick_count may: if the tick that brings that
\* value falls between test and HLT, the next one wraps, and the wait is
\* for another turn of the counter.
FramesGoOn == <>[](end # WORD - 1) => []<>(turn = "draw")
=============================================================================

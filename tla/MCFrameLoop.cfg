\* A counter of 8 values; sleeps of one to three ticks and one that overflows.
SPECIFICATION FrameFairSpec
CONSTANTS
  WORD = 8
  TIMER_HZ = 1
  MILLIS = 2
  Requests = {1, 4, 7, 9}
  Times <- MCTimes
INVARIANTS FrameTypeOK SleepsItsTicks TimeIsClock
PROPERTY FramesGoOn

------------------------------- MODULE Timer -------------------------------
(***************************************************************************)
(* src/timer.c: the tick counter that IRQ0 advances, and timer_sleep,      *)
(* which waits for it with HLT.  The thread's steps are its accesses to    *)
(* the volatile counter and the HLT; interrupts come between any two.      *)
(***************************************************************************)
EXTENDS Naturals

CONSTANTS
  WORD,       \* the values of a uint32_t (2^32)
  TIMER_HZ,   \* ticks in a second (100)
  MILLIS,     \* milliseconds in a second (1000)
  Requests    \* the milliseconds its callers ask for

ASSUME TimerAssumption ==
  /\ WORD \in Nat \ {0} /\ MILLIS \in Nat \ {0}
  /\ TIMER_HZ \in Nat /\ Requests \subseteq Nat

VARIABLES
  tick_count,
  \* the thread in timer_sleep
  at,         \* where it is, "awake" when it is not in there
  ticks, end, \* its locals
  \* for checking only
  started,    \* tick_count when the call began
  elapsed,    \* ticks since then, counted as far as two too many
  slow        \* whether a tick has come since the thread's last step

call == <<ticks, end, started>>
sleeper == <<at, call>>
timer == <<tick_count, sleeper, elapsed, slow>>

Ticks == 0..WORD-1

TimerTypeOK ==
  /\ tick_count \in Ticks /\ started \in Ticks /\ end \in Ticks
  /\ ticks \in Nat /\ elapsed \in Nat
  /\ at \in {"awake", "test", "halt", "asleep"}
  /\ slow \in BOOLEAN

TimerInit ==
  /\ tick_count \in Ticks
  /\ at = "awake" /\ ticks = 0 /\ end = 0
  /\ started = 0 /\ elapsed = 0 /\ slow = FALSE

-----------------------------------------------------------------------------
(* The thread.                                                             *)

\* Milliseconds to ticks; the product is a uint32_t.
InTicks(ms) ==
  LET n == ((ms * TIMER_HZ) % WORD) \div MILLIS IN IF n = 0 THEN 1 ELSE n

\* Defective variant: the end is not a uint32_t.
EndNoWrap(n) == tick_count + n

End(n) == (tick_count + n) % WORD

timer_sleep(ms) ==
  /\ at = "awake"
  /\ at' = "test"
  /\ ticks' = InTicks(ms)
  /\ end' = End(ticks')
  /\ started' = tick_count /\ elapsed' = 0
  /\ slow' = FALSE
  /\ UNCHANGED tick_count

\* Defective variant: waits until the counter is past the end.
EarlyPast == tick_count <= end

Early == tick_count < end

\* while (tick_count < end): a load of the counter and the jump.
Test ==
  /\ at = "test"
  /\ at' = IF Early THEN "halt" ELSE "awake"
  /\ slow' = FALSE
  /\ UNCHANGED <<tick_count, call, elapsed>>

\* HLT; what came before it does not wake it.
Halt ==
  /\ at = "halt"
  /\ at' = "asleep"
  /\ slow' = FALSE
  /\ UNCHANGED <<tick_count, call, elapsed>>

-----------------------------------------------------------------------------
(* Interrupts.                                                             *)

\* Defective variant: an interrupt ends the sleep and not only the HLT.
WokenForGood == IF at = "asleep" THEN "awake" ELSE at

\* Any interrupt ends a HLT, and the loop tests again.
Woken == IF at = "asleep" THEN "test" ELSE at

Counted == IF elapsed < ticks + 2 THEN elapsed + 1 ELSE elapsed

\* timer_callback.  A tick is long enough for a step of the thread.
TimerIrq ==
  /\ at = "asleep" \/ ~slow
  /\ tick_count' = (tick_count + 1) % WORD
  /\ elapsed' = IF at = "awake" THEN elapsed ELSE Counted
  /\ at' = Woken
  /\ slow' = TRUE
  /\ UNCHANGED call

\* The keyboard's or the mouse's.
OtherIrq ==
  /\ at = "asleep"
  /\ at' = Woken
  /\ UNCHANGED <<tick_count, call, elapsed, slow>>
=============================================================================

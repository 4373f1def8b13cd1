-------------------------------- MODULE Rtc --------------------------------
(***************************************************************************)
(* src/rtc.c: rtc_read_time takes the time out of the CMOS clock, register *)
(* by register, while the clock goes on.  A step of the thread is one      *)
(* access to the CMOS.                                                     *)
(*                                                                         *)
(* The clock announces an update (UIP) before it touches its registers;    *)
(* while it does, a register reads as the old or the new value.            *)
(***************************************************************************)
EXTENDS Naturals, Sequences

CONSTANT Times   \* the times at which the clock may be when a read begins

\* The registers in the order in which they are read.
Fields == <<"second", "minute", "hour", "day", "month", "year">>
FieldNames == {Fields[i] : i \in 1..6}
Time == [second : 0..59, minute : 0..59, hour : 0..23, day : 1..31, month : 1..12, year : 2000..2099]

Days(c) ==
  CASE c.month = 2 -> IF c.year % 4 = 0 THEN 29 ELSE 28
    [] c.month \in {4, 6, 9, 11} -> 30
    [] OTHER -> 31

ASSUME TimesAssumption ==
  Times # {} /\ \A c \in Times : c \in Time /\ c.day <= Days(c)

TEST == 0
DONE == 8   \* the seventh register is status B

VARIABLES
  \* the CMOS clock
  clock,      \* the time
  update,     \* "none", "announced" or "running"
  due,        \* whether an update may come in this call
  status_b,   \* its format, set by the firmware
  \* the thread in rtc_read_time
  reading,    \* TEST, the number of the register it reads next, or DONE
  t,          \* its result, raw until the last register
  \* for checking only
  settled     \* whether no update has begun since the test was passed

cmos == <<clock, update, due, status_b>>
rtc == <<cmos, reading, t, settled>>

Formats == [binary : BOOLEAN, h24 : BOOLEAN]
NoTime == [f \in FieldNames |-> 0]

RtcTypeOK ==
  /\ clock \in Time /\ update \in {"none", "announced", "running"} /\ status_b \in Formats
  /\ reading \in 0..DONE
  /\ t \in [FieldNames -> Nat]
  /\ due \in BOOLEAN /\ settled \in BOOLEAN

RtcInit ==
  /\ clock \in Times /\ update = "none" /\ status_b \in Formats
  /\ reading = DONE /\ t = NoTime /\ due = FALSE /\ settled = FALSE

-----------------------------------------------------------------------------
(* The clock.                                                              *)

\* One second later: a field goes back to its first value when all before it do.
NextSecond(c) ==
  LET last == [second |-> 59, minute |-> 59, hour |-> 23, day |-> Days(c), month |-> 12, year |-> 2099]
      first == [second |-> 0, minute |-> 0, hour |-> 0, day |-> 1, month |-> 1, year |-> 2000]
      carry(i) == \A j \in 1..i-1 : c[Fields[j]] = last[Fields[j]]
      field(i) == IF ~carry(i) THEN c[Fields[i]]
                  ELSE IF c[Fields[i]] = last[Fields[i]] THEN first[Fields[i]]
                  ELSE c[Fields[i]] + 1
  IN [second |-> field(1), minute |-> field(2), hour |-> field(3),
      day |-> field(4), month |-> field(5), year |-> field(6)]

\* A call takes much less than a second: one update falls into it at most.
Announce ==
  /\ due
  /\ update' = "announced" /\ due' = FALSE
  /\ UNCHANGED <<clock, status_b, reading, t, settled>>

BeginUpdate ==
  /\ update = "announced"
  /\ update' = "running"
  /\ settled' = FALSE
  /\ UNCHANGED <<clock, due, status_b, reading, t>>

EndUpdate ==
  /\ update = "running"
  /\ update' = "none" /\ clock' = NextSecond(clock)
  /\ UNCHANGED <<due, status_b, reading, t, settled>>

\* What a register holds: two decimal digits or a number, 12 hours with a PM bit.
Raw(n) == IF status_b.binary THEN n ELSE (n \div 10) * 16 + (n % 10)
RawHour(h) ==
  IF status_b.h24 THEN Raw(h)
  ELSE Raw(IF h % 12 = 0 THEN 12 ELSE h % 12) + (IF h >= 12 THEN 128 ELSE 0)
Register(f, c) ==
  CASE f = "hour" -> RawHour(c.hour)
    [] f = "year" -> Raw(c.year - 2000)
    [] OTHER -> Raw(c[f])
Shows(f) ==
  {Register(f, c) : c \in IF update = "running" THEN {clock, NextSecond(clock)} ELSE {clock}}

-----------------------------------------------------------------------------
(* The thread.                                                             *)

\* The call, at any time of any day.
rtc_read_time ==
  /\ reading = DONE /\ update = "none"
  /\ clock' \in Times
  /\ reading' = TEST /\ t' = NoTime /\ due' = TRUE /\ settled' = FALSE
  /\ UNCHANGED <<update, status_b>>

\* Defective variant: the registers are read whatever the clock is about to do.
UpdateNotAwaited ==
  /\ reading = TEST
  /\ reading' = 1 /\ settled' = TRUE
  /\ UNCHANGED <<cmos, t>>

\* while (cmos_update_in_progress());
cmos_update_in_progress ==
  /\ reading = TEST
  /\ IF update = "none"
     THEN reading' = 1 /\ settled' = TRUE
     ELSE UNCHANGED <<reading, settled>>
  /\ UNCHANGED <<cmos, t>>

cmos_read ==
  /\ reading \in 1..6
  /\ \E v \in Shows(Fields[reading]) : t' = [t EXCEPT ![Fields[reading]] = v]
  /\ reading' = reading + 1
  /\ UNCHANGED <<cmos, settled>>

bcd_to_bin(n) == (n % 16) + (n \div 16) * 10

\* Defective variant: the PM bit is taken for a digit.
FromBcdWithPm(raw) == [f \in DOMAIN raw |-> bcd_to_bin(raw[f])]

\* The hour's PM bit is kept.
FromBcd(raw) ==
  [f \in DOMAIN raw |->
    IF f = "hour" THEN (raw[f] \div 128) * 128 + bcd_to_bin(raw[f] % 128) ELSE bcd_to_bin(raw[f])]

To24(h) == IF ~status_b.h24 /\ h >= 128 THEN ((h % 128) + 12) % 24 ELSE h

\* status_b is read last; then the digits and the hour are converted.
Convert ==
  /\ reading = 7
  /\ LET n == IF status_b.binary THEN t ELSE FromBcd(t)
     IN t' = [n EXCEPT !["hour"] = To24(n["hour"]), !["year"] = n["year"] + 2000]
  /\ reading' = DONE /\ due' = FALSE
  /\ UNCHANGED <<clock, update, status_b, settled>>

RtcStep == cmos_update_in_progress \/ cmos_read \/ Convert
=============================================================================

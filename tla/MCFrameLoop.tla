---------------------------- MODULE MCFrameLoop ----------------------------
(* A counter of a few ticks and times at which many fields change at once. *)
EXTENDS FrameLoop

At(h, m, s, d, mo, y) ==
  [hour |-> h, minute |-> m, second |-> s, day |-> d, month |-> mo, year |-> y]

\* Midnight and the turn of a year, the last of February, and the
\* hours on both sides of noon and midnight.
MCTimes ==
  {At(23, 59, 59, 31, 12, 2025), At(0, 0, 0, 28, 2, 2026), At(9, 59, 59, 9, 9, 2009),
   At(11, 30, 10, 29, 2, 2024), At(12, 0, 59, 30, 4, 2099), At(13, 7, 8, 1, 1, 2000)}
=============================================================================

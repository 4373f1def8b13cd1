------------------------------ MODULE ScanCodes -----------------------------
(***************************************************************************)
(* The scan code tables of src/keyboard.c, as ASCII codes: entry 0 and     *)
(* those after 57 (Space) are 0, no character.                             *)
(***************************************************************************)
EXTENDS Naturals, Sequences

Table(s) == [i \in 0..127 |-> IF i \in 1..Len(s) THEN s[i] ELSE 0]

AsciiTable == Table(
  <<27, 49, 50, 51, 52, 53, 54, 55, 56, 57, 48, 45, 61, 8,
    9, 113, 119, 101, 114, 116, 121, 117, 105, 111, 112, 91, 93, 10, 0,
    97, 115, 100, 102, 103, 104, 106, 107, 108, 59, 39, 96, 0, 92,
    122, 120, 99, 118, 98, 110, 109, 44, 46, 47, 0, 42, 0, 32>>)

ShiftAsciiTable == Table(
  <<27, 33, 64, 35, 36, 37, 94, 38, 42, 40, 41, 95, 43, 8,
    9, 81, 87, 69, 82, 84, 89, 85, 73, 79, 80, 123, 125, 10, 0,
    65, 83, 68, 70, 71, 72, 74, 75, 76, 58, 34, 126, 0, 124,
    90, 88, 67, 86, 66, 78, 77, 60, 62, 63, 0, 42, 0, 32>>)
=============================================================================

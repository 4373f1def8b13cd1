------------------------------ MODULE FlatText ------------------------------
(***************************************************************************)
(* A file as its user thinks of it: one string of characters, NewLine      *)
(* among them, that a key makes longer or shorter by one character.        *)
(***************************************************************************)
EXTENDS SequencesExt

CONSTANT NewLine

\* The string that a sequence of lines stands for.
Flat(lines) ==
  FlattenSeq([i \in DOMAIN lines |-> IF i = 1 THEN lines[i] ELSE <<NewLine>> \o lines[i]])

OneLess(s, t) == \E p \in DOMAIN s : RemoveAt(s, p) = t

\* t is s with one character typed into it or deleted from it.
OneCharacter(s, t) == OneLess(s, t) \/ OneLess(t, s)
=============================================================================

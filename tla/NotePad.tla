------------------------------ MODULE NotePad ------------------------------
(***************************************************************************)
(* What the shell's editor promises: a page is a copy of a stored file, or *)
(* an empty one; a key changes it by one character; saving puts the page   *)
(* as it is under its name, and nothing else touches the stored files but  *)
(* the removal of one.                                                     *)
(***************************************************************************)
EXTENDS FlatText, FiniteSets

CONSTANTS
  Name,
  Capacity,   \* files that can be stored
  NoPage      \* no page is being edited

VARIABLES
  stored,     \* a function from the names of files to their texts
  title,      \* the name the page is saved under
  page

Init == stored = << >> /\ title = NoPage /\ page = NoPage

Open(n) ==
  /\ page = NoPage
  /\ title' = n
  /\ page' = IF n \in DOMAIN stored THEN stored[n] ELSE << >>
  /\ UNCHANGED stored

Strike ==
  /\ page # NoPage /\ page' # NoPage
  /\ OneCharacter(page, page')
  /\ UNCHANGED <<stored, title>>

Room == title \in DOMAIN stored \/ Cardinality(DOMAIN stored) < Capacity

Put ==
  stored' = [n \in DOMAIN stored \cup {title} |-> IF n = title THEN page ELSE stored[n]]

Save ==
  /\ page # NoPage /\ Room
  /\ Put
  /\ UNCHANGED <<title, page>>

Close == title' = NoPage /\ page' = NoPage

SaveAndClose == page # NoPage /\ Room /\ Put /\ Close
Discard == page # NoPage /\ Close /\ UNCHANGED stored

Erase(n) ==
  /\ page = NoPage /\ n \in DOMAIN stored
  /\ stored' = [m \in DOMAIN stored \ {n} |-> stored[m]]
  /\ UNCHANGED <<title, page>>

Next ==
  \/ \E n \in Name : Open(n) \/ Erase(n)
  \/ Strike \/ Save \/ SaveAndClose \/ Discard

vars == <<stored, title, page>>

Spec == Init /\ [][Next]_vars
=============================================================================

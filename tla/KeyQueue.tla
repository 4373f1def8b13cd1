------------------------------ MODULE KeyQueue ------------------------------
(***************************************************************************)
(* What the keyboard driver promises the rest of the kernel: a bounded     *)
(* queue of key codes.  Keys come out in the order they were typed, each   *)
(* once; a key is lost only when Capacity keys are already waiting, and    *)
(* then it is the newest key that is lost.                                 *)
(***************************************************************************)
EXTENDS Naturals, Sequences

CONSTANTS
  Key,        \* the key codes a caller can be given
  Capacity,   \* how many keys can wait
  NoKey       \* what got holds before the first key is taken

VARIABLES
  queue,      \* the keys typed and not yet taken, oldest first
  got,        \* the key most recently given to a caller
  overflow    \* whether a key has ever been dropped

Init ==
  /\ queue = << >>
  /\ got = NoKey
  /\ overflow = FALSE

Put ==
  /\ Len(queue) < Capacity
  /\ \E k \in Key : queue' = Append(queue, k)
  /\ UNCHANGED <<got, overflow>>

Drop ==
  /\ Len(queue) = Capacity
  /\ overflow' = TRUE
  /\ UNCHANGED <<queue, got>>

Take ==
  /\ queue # << >>
  /\ got' = Head(queue)
  /\ queue' = Tail(queue)
  /\ UNCHANGED overflow

Next == Put \/ Drop \/ Take

vars == <<queue, got, overflow>>

Spec == Init /\ [][Next]_vars
=============================================================================

--------------------------- MODULE MCShellEditor ---------------------------
(* A small storage for model checking ShellEditor. *)
EXTENDS ShellEditor, TLC

CONSTANTS m, n, long, longer

\* Three names, one of which is what a fourth is cut to.
AllNames == {m, n, long, longer}
CutNames == [x \in AllNames |-> IF x = longer THEN long ELSE x]

\* Nothing distinguishes the two names that are not cut to or from another.
NameSymmetry == Permutations({m, n})
=============================================================================

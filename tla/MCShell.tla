------------------------------ MODULE MCShell ------------------------------
(* A small screen and short lines for model checking Shell. *)
EXTENDS Shell

CONSTANT t

OneLetter == <<"a">>
NoLetter == << >>

\* The names of commands; <<"a", "a", "a">> is unknown.
TwoNames == {<<"a">>, <<"a", "a">>}
=============================================================================

---------------------------- MODULE MCCodeStudio ----------------------------
(* Small storages for model checking CodeStudio. *)
EXTENDS CodeStudio

\* A name that is stored cut to another of the names.
ShortNames == {"main.c", "long"}
AllNames == ShortNames \cup {"longer"}
CutNames == [n \in AllNames |-> IF n = "longer" THEN "long" ELSE n]
=============================================================================

------------------------------ MODULE FileList ------------------------------
(***************************************************************************)
(* What Code Studio promises: a list of files, in the order they were      *)
(* made, one of them in the editor.  A name means the first file of that   *)
(* name; a new file is empty, and a key changes the file in the editor, by *)
(* one character.  When that file or one before it has been removed, the   *)
(* promise is only that a key changes at most one file (see F8Saves in     *)
(* CodeStudio).                                                            *)
(***************************************************************************)
EXTENDS FlatText

CONSTANTS Name, Cut

VARIABLES
  files,    \* a sequence of records of a name and a flat text
  edited,   \* place of the file in the editor, 0 for none
  sure      \* whether the file opened is still at that place

IsFirst(i, n) ==
  files[i].name = n /\ \A j \in DOMAIN files : files[j].name = n => i <= j

Init == files = << >> /\ edited = 0 /\ sure = TRUE

OpenFile(n) ==
  /\ \E i \in DOMAIN files : IsFirst(i, n) /\ edited' = i
  /\ sure' = TRUE
  /\ UNCHANGED files

CreateFile(n) ==
  /\ \A i \in DOMAIN files : files[i].name # n
  /\ files' = Append(files, [name |-> Cut[n], text |-> << >>])
  /\ edited' = Len(files) + 1
  /\ sure' = TRUE

RemoveFile(n) ==
  /\ \E i \in DOMAIN files :
       /\ IsFirst(i, n)
       /\ files' = RemoveAt(files, i)
       /\ sure' = (sure /\ edited < i)
  /\ UNCHANGED edited

ChangeFile ==
  /\ DOMAIN files' = DOMAIN files
  /\ \E i \in DOMAIN files :
       /\ sure => i = edited
       /\ files'[i].name = files[i].name
       /\ OneCharacter(files[i].text, files'[i].text)
       /\ \A j \in DOMAIN files \ {i} : files'[j] = files[j]
  /\ UNCHANGED <<edited, sure>>

Next == (\E n \in Name : OpenFile(n) \/ CreateFile(n) \/ RemoveFile(n)) \/ ChangeFile

Spec == Init /\ [][Next]_<<files, edited, sure>>
=============================================================================

------------------------------ MODULE TodoList ------------------------------
(***************************************************************************)
(* What the shell's todo list promises: tasks that are added as open,      *)
(* marked as done one by one and removed all together (cmd_todo, cmd_done  *)
(* and cmd_todoclr in src/shell.c).                                        *)
(***************************************************************************)
EXTENDS Naturals, Sequences

CONSTANTS Tasks, TODO_MAX

VARIABLE list

Init == list = << >>

Add ==
  /\ Len(list) < TODO_MAX
  /\ \E t \in Tasks : list' = Append(list, [task |-> t, done |-> FALSE])

Finish ==
  \E i \in DOMAIN list :
    list' = [list EXCEPT ![i] = [task |-> list[i].task, done |-> TRUE]]

Clear == list' = << >>

Next == Add \/ Finish \/ Clear

Spec == Init /\ [][Next]_list
=============================================================================

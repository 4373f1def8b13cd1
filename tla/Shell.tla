------------------------------- MODULE Shell -------------------------------
(***************************************************************************)
(* The text shell of src/shell.c on the terminal: the question for a user  *)
(* name, the prompt, the line that is typed, and what the shell remembers  *)
(* of the lines it has run.  What commands print is any sequence of        *)
(* characters; a command is known by its name alone.  The editor is in     *)
(* ShellEditor; here it is a command that ends with a clear screen.        *)
(***************************************************************************)
EXTENDS Terminal, Sequences, FiniteSets

CONSTANTS
  Question,       \* "Choose username: "
  PromptEnd,      \* "@sacramentuOS> "
  DefaultName,    \* "user"
  LINE_MAX, USERNAME_MAX,      \* bytes, with the one that ends the string
  HISTORY_MAX, SYSLOG_MAX, NOTE_MAX, TODO_MAX,
  Commands,       \* names of commands
  Texts           \* what can follow "note add" and "todo add"

ASSUME ShellAssumption ==
  /\ {Question, PromptEnd, DefaultName} \subseteq Seq(Chars)
  /\ {LINE_MAX, USERNAME_MAX, HISTORY_MAX, SYSLOG_MAX, NOTE_MAX, TODO_MAX}
       \subseteq Nat \ {0}
  /\ Len(DefaultName) < USERNAME_MAX
  /\ Commands \subseteq Seq(Chars) \ {<< >>}

\* A question and the longest line after it fit on the screen.
FitAssumption ==
  /\ Len(Question) + LINE_MAX - 1 <= LastRow
  /\ USERNAME_MAX - 1 + Len(PromptEnd) + LINE_MAX - 1 <= LastRow
ASSUME FitAssumption

ASSUME LogAssumption == HISTORY_MAX <= SYSLOG_MAX

VARIABLES
  screen,
  pc,        \* "output", "prompt", "read" or "stopped"
  asker,     \* "login" or "shell": whose line is read, now or next
  written,   \* characters of the question or prompt that are on the screen
  line,      \* what read_line has got so far
  username, history, syslog, notes, todos, todo_done_flags

reading == <<written, line>>
lists == <<notes, todos, todo_done_flags>>
memory == <<username, history, syslog, lists>>
vars == <<screen, pc, asker, reading, memory>>

Line == {l \in Seq(Chars) : Len(l) < LINE_MAX}
Name == {n \in Seq(Chars) : Len(n) < USERNAME_MAX}
BootEvent == << >>      \* the log's first text, which is no command's name

prompt == username \o PromptEnd
Asked == IF asker = "login" THEN Question ELSE prompt

\* What is on the screen of the question or prompt and of the line after it.
Shown == SubSeq(Asked, 1, written) \o line

TypeOK ==
  /\ screen \in Screen
  /\ pc \in {"output", "prompt", "read", "stopped"}
  /\ asker \in {"login", "shell"}
  /\ written \in 0..Len(Asked)
  /\ line \in Line
  /\ username \in Name
  /\ history \in Seq(Line) /\ Len(history) <= HISTORY_MAX
  /\ syslog \in Seq(Commands \cup {BootEvent}) /\ Len(syslog) <= SYSLOG_MAX
  /\ notes \in Seq(Texts) /\ Len(notes) <= NOTE_MAX
  /\ todos \in Seq(Texts) /\ Len(todos) <= TODO_MAX
  /\ todo_done_flags \in [1..TODO_MAX -> BOOLEAN]

-----------------------------------------------------------------------------
(* Strings.                                                                *)

Blank(l) == \A i \in 1..Len(l) : l[i] = Space

\* trim_right, then trim_left, of a line that is not blank.
Trim(l) ==
  LET first == CHOOSE i \in 1..Len(l) : l[i] # Space /\ \A j \in 1..i - 1 : l[j] = Space
      last == CHOOSE i \in 1..Len(l) : l[i] # Space /\ \A j \in i + 1..Len(l) : l[j] = Space
  IN SubSeq(l, first, last)

\* The first word of a line that does not begin with a space.
next_token(l) ==
  IF \A i \in 1..Len(l) : l[i] # Space THEN l
  ELSE LET space == CHOOSE i \in 1..Len(l) : l[i] = Space /\ \A j \in 1..i - 1 : l[j] # Space
       IN SubSeq(l, 1, space - 1)

\* All that is not a space may be part of a name: Chars has no punctuation.
set_username(raw) ==
  IF Blank(raw) THEN DefaultName
  ELSE LET word == next_token(Trim(raw)) IN
       IF Len(word) < USERNAME_MAX THEN word ELSE SubSeq(word, 1, USERNAME_MAX - 1)

add_history(input) ==
  history' = IF Len(history) < HISTORY_MAX THEN Append(history, input)
             ELSE Append(Tail(history), input)

\* Defective variant: a full log takes nothing more.
log_event_KeepsOldest(text) ==
  syslog' = IF Len(syslog) < SYSLOG_MAX THEN Append(syslog, text) ELSE syslog

log_event(text) ==
  syslog' = IF Len(syslog) < SYSLOG_MAX THEN Append(syslog, text)
            ELSE Append(Tail(syslog), text)

-----------------------------------------------------------------------------
(* The boot animation has ended with a clear screen.                       *)

Init ==
  /\ screen = terminal_clear
  /\ pc = "output" /\ asker = "login"
  /\ written = 0 /\ line = << >>
  /\ username = DefaultName
  /\ history = << >> /\ syslog = << >>
  /\ notes = << >> /\ todos = << >>
  /\ todo_done_flags = [i \in 1..TODO_MAX |-> FALSE]

\* The logo, the welcome, what a command prints, "^C": one character of it.
Output(c) ==
  /\ pc = "output"
  /\ screen' = terminal_putchar(screen, c)
  /\ UNCHANGED <<pc, asker, reading, memory>>

EndOutput ==
  /\ pc = "output"
  /\ pc' = "prompt"
  /\ UNCHANGED <<screen, asker, reading, memory>>

\* terminal_writestring of the question or the prompt, character by character.
Prompt ==
  /\ pc = "prompt" /\ written < Len(Asked)
  /\ screen' = terminal_putchar(screen, Asked[written + 1])
  /\ written' = written + 1
  /\ UNCHANGED <<pc, asker, line, memory>>

StartReading ==
  /\ pc = "prompt" /\ written = Len(Asked)
  /\ pc' = "read"
  /\ UNCHANGED <<screen, asker, reading, memory>>

\* read_line: a full line takes no more characters and echoes none.
Type(c) ==
  /\ pc = "read" /\ Len(line) + 1 < LINE_MAX
  /\ line' = Append(line, c)
  /\ screen' = terminal_putchar(screen, c)
  /\ UNCHANGED <<pc, asker, written, memory>>

Erase ==
  /\ pc = "read" /\ line # << >>
  /\ line' = SubSeq(line, 1, Len(line) - 1)
  /\ screen' = terminal_backspace(screen)
  /\ UNCHANGED <<pc, asker, written, memory>>

EndReading == pc = "read" /\ written' = 0 /\ line' = << >>
EndLine == screen' = terminal_putchar(screen, NewLine)

Login(raw) ==
  /\ asker = "login" /\ asker' = "shell"
  /\ username' = set_username(raw)
  /\ log_event(BootEvent)
  /\ pc' = "output"
  /\ UNCHANGED <<history, lists>>

EnterName == EndReading /\ EndLine /\ Login(line)

CtrlC ==
  /\ EndReading
  /\ UNCHANGED screen
  /\ \/ Login(<< >>)
     \/ asker = "shell" /\ pc' = "output" /\ UNCHANGED <<asker, memory>>

EnterBlank ==
  /\ EndReading /\ EndLine
  /\ asker = "shell" /\ Blank(line)
  /\ pc' = "prompt"
  /\ UNCHANGED <<asker, memory>>

EnterUnknown ==
  /\ EndReading /\ EndLine
  /\ asker = "shell" /\ ~Blank(line) /\ next_token(Trim(line)) \notin Commands
  /\ add_history(Trim(line))
  /\ pc' = "output"
  /\ UNCHANGED <<asker, username, syslog, lists>>

-----------------------------------------------------------------------------
(* What a command does, and then what it prints.  The arguments are not    *)
(* taken from the line: a command may be called with any.                  *)

Prints == EndLine /\ pc' = "output" /\ UNCHANGED lists

\* clear, clean, and edit when the editor is left.
Clears == screen' = terminal_clear /\ pc' = "output" /\ UNCHANGED lists

Stops == EndLine /\ pc' = "stopped" /\ UNCHANGED lists

cmd_note_add ==
  /\ Len(notes) < NOTE_MAX
  /\ \E t \in Texts : notes' = Append(notes, t)
  /\ UNCHANGED <<todos, todo_done_flags>>

cmd_noteclr == notes' = << >> /\ UNCHANGED <<todos, todo_done_flags>>

\* Defective variant: the flag of an earlier task stays.
cmd_todo_add_KeepsFlag ==
  /\ Len(todos) < TODO_MAX
  /\ \E t \in Texts : todos' = Append(todos, t)
  /\ UNCHANGED <<todo_done_flags, notes>>

cmd_todo_add ==
  /\ Len(todos) < TODO_MAX
  /\ \E t \in Texts : todos' = Append(todos, t)
  /\ todo_done_flags' = [todo_done_flags EXCEPT ![Len(todos) + 1] = FALSE]
  /\ UNCHANGED notes

cmd_todoclr == todos' = << >> /\ UNCHANGED <<todo_done_flags, notes>>

cmd_done ==
  /\ \E i \in 1..Len(todos) : todo_done_flags' = [todo_done_flags EXCEPT ![i] = TRUE]
  /\ UNCHANGED <<todos, notes>>

ChangesLists ==
  /\ EndLine /\ pc' = "output"
  /\ cmd_note_add \/ cmd_noteclr \/ cmd_todo_add \/ cmd_todoclr \/ cmd_done

\* next_token has ended the input behind its first word, so the log gets the name.
EnterCommand ==
  /\ EndReading
  /\ asker = "shell" /\ ~Blank(line)
  /\ add_history(Trim(line))
  /\ LET name == next_token(Trim(line)) IN name \in Commands /\ log_event(name)
  /\ Prints \/ Clears \/ Stops \/ ChangesLists
  /\ UNCHANGED <<asker, username>>

Next ==
  \/ \E c \in Chars \cup {NewLine} : Output(c)
  \/ EndOutput
  \/ Prompt
  \/ StartReading
  \/ \E c \in Chars : Type(c)
  \/ Erase
  \/ EnterName
  \/ CtrlC
  \/ EnterBlank
  \/ EnterUnknown
  \/ EnterCommand

Spec == Init /\ [][Next]_vars

-----------------------------------------------------------------------------
(* Properties.                                                             *)

\* The text stands before the cursor, over the ends of rows.
StandsBefore(s, text) ==
  /\ Len(text) <= Position(s)
  /\ \A i \in 1..Len(text) : s.cells[Position(s) - Len(text) + i - 1] = text[i]

BlankBehind(s) == \A p \in Cells : p >= Position(s) => s.cells[p] = Space

\* The question or prompt and the line as read_line has it stand before the
\* cursor, and nothing stands behind it: over the ends of rows, after the screen
\* has moved up under the line, and after erasing (src/vga.c:22-32, 104-146).
LineShown ==
  /\ pc \in {"prompt", "read"} => StandsBefore(screen, Shown)
  /\ BlankBehind(screen)

NameOf(i) == next_token(history[i])
CommandsFrom(i) == {j \in i..Len(history) : NameOf(j) \in Commands}

\* The commands among the lines in the history, in their order, are the last
\* events of the log, whatever either has dropped (src/shell.c:239-251, 313-326).
LogNamesHistory ==
  \A i \in 1..Len(history) : NameOf(i) \in Commands =>
    LET k == Cardinality(CommandsFrom(i)) IN
    k <= Len(syslog) /\ syslog[Len(syslog) + 1 - k] = NameOf(i)

TL == INSTANCE TodoList WITH
        Tasks <- Texts,
        list <- [i \in 1..Len(todos) |-> [task |-> todos[i], done |-> todo_done_flags[i]]]

\* Two arrays and a counter amount to a list of tasks: what is added is not
\* done, also in a slot used before (src/shell.c:1181-1232).
RefinesTodoList == TL!Spec
=============================================================================

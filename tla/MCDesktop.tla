----------------------------- MODULE MCDesktop -----------------------------
(* Small desktops for model checking Desktop. *)
EXTENDS Desktop

Folder(f) == [to |-> f, app |-> APP_NONE]
Program(a) == [to |-> NoFolder, app |-> a]
Text == [to |-> NoFolder, app |-> APP_NONE]

\* A folder with a text and one with programs and a way back.
SmallFolders ==
  [root |-> <<Folder("apps"), Text>>,
   apps |-> <<Folder(ROOT), Program(APP_CODE), Program(APP_CONSOLE)>>]

\* The Start menu with two programs and Reboot.
SmallMenu == <<APP_EXPLORER, APP_CODE, APP_NONE>>
SmallIcons == {APP_CONSOLE, APP_CODE}
SmallCommandApps == {APP_SETTINGS, APP_GPUX}

\* One file more than the storage of MCDesktop.cfg holds.
SmallFileNames == {MAIN_C, "other"}

\* Every key but those that do what another one does.
SmallKeys == {"UP", "DOWN", "ENTER", "ESC", "TAB", "BS", "char",
              "F1", "F2", "F3", "F6", "F8", "F9", "F10"}
=============================================================================
